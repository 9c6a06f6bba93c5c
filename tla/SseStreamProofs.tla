-------------------------- MODULE SseStreamProofs --------------------------
(***************************************************************************)
(* Proofs about the source's two readers of its log, for any number of     *)
(* clients, any buffer, batch size and type filters: types, that no        *)
(* generator sleeps through a publish or a shutdown, and that no reader    *)
(* skips an event in silence.                                              *)
(***************************************************************************)
EXTENDS SseStream, EventLogProofs

-----------------------------------------------------------------------------
(* The inductive invariant, part by part.                                  *)

ServerTyped == armed \in Nat /\ fired \subseteq 0..armed /\ closed \in BOOLEAN

GapNotices == [requested_after_seq : 0..MaxSeq, oldest_available_seq : 0..MaxSeq]

GeneratorTyped ==
  /\ pc \in [Clients -> {"off", "loop", "yield", "wait"}]
  /\ last \in [Clients -> 0..MaxSeq]
  /\ records \in [Clients -> Seq(1..MaxSeq)]
  /\ \A c \in Clients : Len(records[c]) <= Limit
  /\ gap \in [Clients -> GapNotices]

WaitsTyped == waits_on \in [Clients -> 0..armed]

ClientTyped ==
  /\ last_id \in [Clients -> 0..NotYet]
  /\ received \in [Clients -> Seq(1..MaxSeq)]
  /\ told_lost \in [Clients -> SUBSET (1..MaxSeq)]
  /\ started \in [Clients -> 0..MaxSeq]
  /\ wanted \in [Clients -> SUBSET EventTypes]

TInv ==
  /\ LogInv /\ ServerTyped /\ GeneratorTyped /\ WaitsTyped /\ ClientTyped
  /\ drops \in 0..MaxDrops

(* A generator that waits is on the asyncio.Event armed now, or on one that *)
(* has been set since.                                                      *)
WaitsOnNewest ==
  \A c \in Clients : pc[c] = "wait" => waits_on[c] = armed \/ waits_on[c] \in fired

(* Up to seq n, the client has every event it wants or knows of its loss. *)
Covered(c, n) ==
  \A k \in (started[c] + 1)..n : TypeOf[k] \in wanted[c] => k \in Got(c) \cup told_lost[c]

(* What the generator has read and not handed over yet goes on from its    *)
(* position, after the gap it still has to announce or has announced.      *)
InHand(c) ==
  /\ records[c] # <<>> /\ last[c] < records[c][1]
  /\ \A i \in 1..Len(records[c]) : records[c][i] = (records[c][1] - 1) + i
  /\ IF gap[c] = NoGap
     THEN (last[c] + 1)..(records[c][1] - 1) \subseteq told_lost[c]
     ELSE gap[c] = [requested_after_seq |-> last[c], oldest_available_seq |-> records[c][1]]

(* What the client has got, in order, and how far it and its generator are. *)
Ordered(c) ==
  /\ \A i, j \in 1..Len(received[c]) : i < j => received[c][i] < received[c][j]
  /\ \A i \in 1..Len(received[c]) : received[c][i] <= last_id[c]

Follows(c) ==
  /\ last_id[c] = NotYet => pc[c] = "off" /\ received[c] = <<>>
  /\ last_id[c] # NotYet => Covered(c, last_id[c])
  /\ pc[c] # "off" => last_id[c] <= last[c] /\ Covered(c, last[c])
  /\ pc[c] = "yield" => InHand(c)

Reading == \A c \in Clients : Ordered(c) /\ Follows(c)

IInv == TInv /\ WaitsOnNewest /\ NoLostWakeup /\ Reading

-----------------------------------------------------------------------------
(* Types.                                                                  *)

LEMMA TypedIsTypeOK == TInv => TypeOK
  BY DEF TInv, TypeOK, LogInv, ServerTyped, GeneratorTyped, WaitsTyped, ClientTyped, GapNotices

LEMMA InvInit == Init => IInv
<1> SUFFICES ASSUME Init PROVE IInv
  OBVIOUS
<1> USE EventLogAssumption, StreamAssumption DEF Init
<1>1. LogInv
  BY LogInvInit
<1>2. <<>> \in Seq(1..MaxSeq) /\ Len(<<>>) = 0 /\ 1..0 = {}
  BY EmptySeq
<1>3. NoGap \in GapNotices
  BY DEF NoGap, GapNotices
<1>4. NotYet \in Nat /\ NotYet \in 0..NotYet
  BY DEF NotYet
<1>5. GeneratorTyped /\ ServerTyped /\ WaitsTyped
  <2>1. 0 \in 0..MaxSeq /\ 0 \in 0..0 /\ 0 <= Limit
    OBVIOUS
  <2>2. GeneratorTyped
    BY <1>2, <1>3, <2>1 DEF GeneratorTyped
  <2>3. ServerTyped /\ WaitsTyped
    BY <2>1 DEF ServerTyped, WaitsTyped
  <2> QED
    BY <2>2, <2>3
<1>6. ClientTyped
  BY <1>2, <1>4 DEF ClientTyped
<1>7. TInv
  BY <1>1, <1>5, <1>6 DEF TInv
<1>8. WaitsOnNewest /\ NoLostWakeup
  BY DEF WaitsOnNewest, NoLostWakeup
<1>9. Reading
  BY <1>2 DEF Reading, Ordered, Follows
<1> QED
  BY <1>7, <1>8, <1>9 DEF IInv

(* What a step leaves alone keeps its type. *)
LEMMA RestsTyped ==
  ASSUME TInv
  PROVE  /\ UNCHANGED logVars => LogInv'
         /\ UNCHANGED serverVars => ServerTyped'
         /\ UNCHANGED <<pc, last, records, gap>> => GeneratorTyped'
         /\ UNCHANGED <<armed, waits_on>> => WaitsTyped'
         /\ UNCHANGED clientVars => ClientTyped'
<1>1. UNCHANGED logVars => LogInv'
  BY DEF TInv, LogInv, LogTypeOK, NewestKept, logVars
<1> QED
  BY <1>1 DEF TInv, ServerTyped, GeneratorTyped, WaitsTyped, ClientTyped,
              serverVars, clientVars

(* A generator that has work to do holds at least one record of a batch     *)
(* that starts right after its position, or where the gap it found ends.    *)
LEMMA ReadInHand ==
  ASSUME LogInv, NEW after \in 0..MaxSeq
  PROVE  LET r == ReadAfter(after, Limit) IN
         /\ r.records \in Seq(1..MaxSeq) /\ Len(r.records) <= Limit /\ r.gap \in GapNotices
         /\ r.records = <<>> => log_seq <= after
         /\ r.records # <<>> \/ r.gap # NoGap =>
              /\ r.records # <<>> /\ after < r.records[1]
              /\ \A i \in 1..Len(r.records) : r.records[i] = (r.records[1] - 1) + i
              /\ r.gap = NoGap => r.records[1] = after + 1
              /\ r.gap # NoGap => r.gap = [requested_after_seq |-> after,
                                           oldest_available_seq |-> r.records[1]]
<1> DEFINE r == ReadAfter(after, Limit)
<1> USE EventLogAssumption, StreamAssumption
<1>1. /\ r.records \in Seq(1..MaxSeq) /\ Len(r.records) <= Limit
      /\ \A i \in 1..Len(r.records) : r.records[i] = (From(after) - 1) + i
      /\ r.records = <<>> => ~Gone(after) /\ log_seq <= after
      /\ ~Gone(after) => r.gap = NoGap
      /\ Gone(after) => r.gap = [requested_after_seq |-> after,
                                 oldest_available_seq |-> FirstSeq]
  <2>1. after \in Nat /\ Limit \in Nat \ {0}
    OBVIOUS
  <2>2. /\ r.records \in Seq(1..MaxSeq) /\ Len(r.records) <= Limit
        /\ \A i \in 1..Len(r.records) : r.records[i] = (From(after) - 1) + i
    BY <2>1, ReadsOn, Zenon
  <2>3. /\ r.records = <<>> => ~Gone(after) /\ log_seq <= after
        /\ ~Gone(after) => r.gap = NoGap
        /\ Gone(after) => r.gap = [requested_after_seq |-> after,
                                   oldest_available_seq |-> FirstSeq]
    BY <2>1, ReadsOn, Zenon
  <2> QED
    BY <2>2, <2>3
<1>2. FirstSeq \in Nat /\ (FirstSeq > 1 => FirstSeq <= MaxSeq)
  BY FirstSeqBounds
<1>3. r.gap \in GapNotices
  <2>1. Gone(after) => FirstSeq \in 0..MaxSeq
    BY <1>2 DEF Gone
  <2> QED
    BY <1>1, <2>1 DEF GapNotices, NoGap
<1>4. /\ From(after) \in Nat /\ From(after) > after
      /\ Gone(after) => From(after) = FirstSeq
      /\ ~Gone(after) => From(after) = after + 1
  BY <1>2 DEF From, Gone
<1> HIDE DEF r
<1>5. ASSUME r.records # <<>> PROVE r.records[1] = From(after)
  <2>1. 1 \in 1..Len(r.records)
    BY <1>1, <1>5, EmptySeq, LenProperties
  <2>2. r.records[1] = (From(after) - 1) + 1
    BY <1>1, <2>1
  <2> QED
    BY <1>4, <2>2
<1>6. r.records = <<>> => r.gap = NoGap
  BY <1>1
<1> QED
  <2>1. ASSUME r.records # <<>> \/ r.gap # NoGap
        PROVE  /\ r.records # <<>> /\ after < r.records[1]
               /\ \A i \in 1..Len(r.records) : r.records[i] = (r.records[1] - 1) + i
               /\ r.gap = NoGap => r.records[1] = after + 1
               /\ r.gap # NoGap => r.gap = [requested_after_seq |-> after,
                                            oldest_available_seq |-> r.records[1]]
    <3>1. r.records # <<>> /\ r.records[1] = From(after)
      BY <1>5, <1>6, <2>1
    <3>2. r.gap = NoGap => ~Gone(after)
      <4>1. Gone(after) => FirstSeq # 0
        BY <1>2 DEF Gone
      <4> QED
        BY <1>1, <4>1 DEF NoGap
    <3> QED
      BY <1>1, <1>4, <3>1, <3>2
  <2> QED
    BY <1>1, <1>3, <2>1 DEF r

LEMMA TypedStep == TInv /\ Reading /\ [Next]_vars => TInv'
<1> SUFFICES ASSUME TInv, Reading, [Next]_vars PROVE TInv'
  OBVIOUS
<1> USE EventLogAssumption, StreamAssumption
<1>1. /\ LogInv /\ ServerTyped /\ GeneratorTyped /\ WaitsTyped /\ ClientTyped
      /\ drops \in 0..MaxDrops
  BY DEF TInv
<1>2. ASSUME NEW k \in 1..MaxSeq, Publish(k) PROVE TInv'
  <2>1. LogInv'
    BY <1>1, <1>2, PublishKeepsNewest DEF Publish
  <2>2. ServerTyped' /\ WaitsTyped'
    <3>1. /\ armed' = armed + 1 /\ fired' = fired \cup {armed} /\ closed' = closed
          /\ waits_on' = waits_on
      BY <1>2 DEF Publish, generatorVars
    <3>2. armed + 1 \in Nat /\ armed \in 0..(armed + 1) /\ 0..armed \subseteq 0..(armed + 1)
      BY <1>1 DEF ServerTyped
    <3> QED
      BY <1>1, <3>1, <3>2 DEF ServerTyped, WaitsTyped
  <2>3. GeneratorTyped' /\ ClientTyped' /\ drops' = drops
    BY <1>2, RestsTyped DEF Publish, generatorVars
  <2> QED
    BY <1>1, <2>1, <2>2, <2>3 DEF TInv
<1>3. CASE CloseStreams
  <2>1. ServerTyped'
    BY <1>1, <1>3 DEF CloseStreams, ServerTyped
  <2>2. LogInv' /\ GeneratorTyped' /\ WaitsTyped' /\ ClientTyped' /\ drops' = drops
    BY <1>3, RestsTyped DEF CloseStreams, generatorVars
  <2> QED
    BY <1>1, <2>1, <2>2 DEF TInv
<1>4. CASE Restart
  <2>1. ServerTyped' /\ WaitsTyped'
    <3>1. armed' = 0 /\ fired' = {} /\ closed' = FALSE /\ waits_on' = [c \in Clients |-> 0]
      BY <1>4 DEF Restart
    <3>2. 0 \in 0..0 /\ 0 \in Nat
      OBVIOUS
    <3>3. waits_on' \in [Clients -> 0..armed']
      BY <3>1, <3>2
    <3>4. ServerTyped'
      BY <3>1, <3>2 DEF ServerTyped
    <3> QED
      BY <3>3, <3>4 DEF WaitsTyped
  <2>2. LogInv' /\ GeneratorTyped' /\ ClientTyped' /\ drops' = drops
    BY <1>4, RestsTyped DEF Restart
  <2> QED
    BY <1>1, <2>1, <2>2 DEF TInv
<1>5. ASSUME NEW c \in Clients, Connect(c) PROVE TInv'
  <2>1. LogInv' /\ ServerTyped' /\ WaitsTyped' /\ drops' = drops
    BY <1>5, RestsTyped DEF Connect, serverVars
  <2>2. 0..log_seq \subseteq 0..MaxSeq /\ 0..MaxSeq \subseteq 0..NotYet
    BY <1>1, EventLogAssumption DEF LogInv, LogTypeOK, NotYet
  <2>3. last_id[c] # NotYet => last_id[c] \in 0..MaxSeq
    BY <1>1 DEF ClientTyped, NotYet
  <2>4. GeneratorTyped'
    BY <1>1, <1>5, <2>2, <2>3 DEF Connect, GeneratorTyped
  <2>5. ClientTyped'
    <3>1. 0..log_seq \subseteq 0..NotYet
      BY <2>2, Zenon
    <3>2. last_id' \in [Clients -> 0..NotYet]
      <4>1. last_id \in [Clients -> 0..NotYet]
        BY <1>1 DEF ClientTyped
      <4>2. last_id' = last_id \/ \E after \in 0..log_seq : last_id' = [last_id EXCEPT ![c] = after]
        BY <1>5 DEF Connect
      <4>3. ASSUME NEW after \in 0..log_seq
            PROVE  [last_id EXCEPT ![c] = after] \in [Clients -> 0..NotYet]
        <5>1. after \in 0..NotYet
          BY <3>1, Zenon
        <5> QED
          BY <4>1, <5>1
      <4> QED
        BY <4>1, <4>2, <4>3, Zenon
    <3>3. started' \in [Clients -> 0..MaxSeq]
      <4>1. started \in [Clients -> 0..MaxSeq]
        BY <1>1 DEF ClientTyped
      <4>2. started' = started \/ \E after \in 0..log_seq : started' = [started EXCEPT ![c] = after]
        BY <1>5 DEF Connect
      <4>3. ASSUME NEW after \in 0..log_seq
            PROVE  [started EXCEPT ![c] = after] \in [Clients -> 0..MaxSeq]
        <5>1. after \in 0..MaxSeq
          BY <2>2, Zenon
        <5> QED
          BY <4>1, <5>1
      <4> QED
        BY <4>1, <4>2, <4>3, Zenon
    <3>4. UNCHANGED <<received, told_lost, wanted>>
      BY <1>5 DEF Connect
    <3> QED
      BY <1>1, <3>2, <3>3, <3>4 DEF ClientTyped
  <2> QED
    BY <1>1, <2>1, <2>4, <2>5 DEF TInv
<1>6. ASSUME NEW c \in Clients, Loop(c) PROVE TInv'
  <2>1. LogInv' /\ ServerTyped' /\ ClientTyped' /\ drops' = drops
    BY <1>6, RestsTyped DEF Loop
  <2>2. last[c] \in 0..MaxSeq
    BY <1>1 DEF GeneratorTyped
  <2>3. WaitsTyped'
    BY <1>1, <1>6 DEF Loop, WaitsTyped, serverVars, ServerTyped
  <2>4. GeneratorTyped'
    <3> DEFINE r == ReadAfter(last[c], Limit)
    <3>1. r.records \in Seq(1..MaxSeq) /\ Len(r.records) <= Limit /\ r.gap \in GapNotices
      BY <1>1, <2>2, ReadInHand
    <3>2. /\ last' = last /\ pc' \in [Clients -> {"off", "loop", "yield", "wait"}]
          /\ \/ UNCHANGED <<records, gap>>
             \/ /\ records' = [records EXCEPT ![c] = r.records]
                /\ gap' = [gap EXCEPT ![c] = r.gap]
      BY <1>1, <1>6 DEF Loop, GeneratorTyped
    <3> HIDE DEF r
    <3> QED
      BY <1>1, <3>1, <3>2 DEF GeneratorTyped
  <2> QED
    BY <1>1, <2>1, <2>3, <2>4 DEF TInv
<1>7. ASSUME NEW c \in Clients, YieldGap(c) PROVE TInv'
  <2>1. LogInv' /\ ServerTyped' /\ WaitsTyped' /\ drops' = drops
    BY <1>7, RestsTyped DEF YieldGap, serverVars
  <2>2. GeneratorTyped'
    BY <1>1, <1>7 DEF YieldGap, GeneratorTyped, GapNotices, NoGap
  <2>3. (gap[c].requested_after_seq + 1)..(gap[c].oldest_available_seq - 1) \subseteq 1..MaxSeq
    BY <1>1 DEF GeneratorTyped, GapNotices
  <2>4. ClientTyped'
    BY <1>1, <1>7, <2>3 DEF YieldGap, ClientTyped
  <2> QED
    BY <1>1, <2>1, <2>2, <2>4 DEF TInv
<1>8. ASSUME NEW c \in Clients, YieldRecord(c) PROVE TInv'
  <2>1. LogInv' /\ ServerTyped' /\ WaitsTyped' /\ drops' = drops
    BY <1>8, RestsTyped DEF YieldRecord, serverVars
  <2>2. records[c] \in Seq(1..MaxSeq) /\ records[c] # <<>>
    BY <1>1, <1>8 DEF YieldRecord, GeneratorTyped, Reading, Follows, InHand
  <2>3. /\ Head(records[c]) \in 1..MaxSeq /\ Tail(records[c]) \in Seq(1..MaxSeq)
        /\ Len(Tail(records[c])) = Len(records[c]) - 1 /\ Len(records[c]) \in Nat
    BY <2>2, HeadTailProperties, LenProperties
  <2>4. Len(Tail(records[c])) <= Limit
    BY <1>1, <2>3 DEF GeneratorTyped
  <2>5. GeneratorTyped'
    BY <1>1, <1>8, <2>3, <2>4 DEF YieldRecord, GeneratorTyped
  <2>6. Append(received[c], Head(records[c])) \in Seq(1..MaxSeq)
    BY <1>1, <2>3, AppendProperties DEF ClientTyped
  <2>7. Head(records[c]) \in 0..NotYet
    BY <2>3 DEF NotYet
  <2>8. ClientTyped'
    BY <1>1, <1>8, <2>6, <2>7 DEF YieldRecord, ClientTyped
  <2> QED
    BY <1>1, <2>1, <2>5, <2>8 DEF TInv
<1>9. ASSUME NEW c \in Clients, Wake(c) \/ KeepAlive(c) PROVE TInv'
  <2>1. LogInv' /\ ServerTyped' /\ WaitsTyped' /\ ClientTyped' /\ drops' = drops
    BY <1>9, RestsTyped DEF Wake, KeepAlive, serverVars
  <2>2. GeneratorTyped'
    BY <1>1, <1>9 DEF Wake, KeepAlive, GeneratorTyped
  <2> QED
    BY <1>1, <2>1, <2>2 DEF TInv
<1>10. ASSUME NEW c \in Clients, Drop(c) PROVE TInv'
  <2>1. LogInv' /\ ServerTyped' /\ WaitsTyped' /\ ClientTyped'
    BY <1>10, RestsTyped DEF Drop, serverVars
  <2>2. <<>> \in Seq(1..MaxSeq) /\ Len(<<>>) = 0 /\ NoGap \in GapNotices
    BY EmptySeq DEF NoGap, GapNotices
  <2>3. GeneratorTyped'
    BY <1>1, <1>10, <2>2 DEF Drop, GeneratorTyped
  <2>4. drops' \in 0..MaxDrops
    BY <1>1, <1>10 DEF Drop
  <2> QED
    BY <2>1, <2>3, <2>4 DEF TInv
<1>11. CASE UNCHANGED vars
  BY <1>1, <1>11, RestsTyped DEF TInv, vars, generatorVars, serverVars
<1> QED
  BY <1>2, <1>3, <1>4, <1>5, <1>6, <1>7, <1>8, <1>9, <1>10, <1>11 DEF Next, Generator

-----------------------------------------------------------------------------
(* Waiting.                                                                *)

Wakeful == WaitsOnNewest /\ NoLostWakeup

LEMMA WakefulStep == TInv /\ Wakeful /\ [Next]_vars => Wakeful'
<1> SUFFICES ASSUME TInv, Wakeful, [Next]_vars PROVE Wakeful'
  OBVIOUS
<1> USE DEF Wakeful
<1>1. /\ LogInv /\ log_seq \in Nat /\ last \in [Clients -> 0..MaxSeq]
      /\ pc \in [Clients -> {"off", "loop", "yield", "wait"}]
      /\ waits_on \in [Clients -> 0..armed]
  BY EventLogAssumption DEF TInv, LogInv, LogTypeOK, GeneratorTyped, WaitsTyped
<1>2. CASE (\E k \in 1..MaxSeq : Publish(k)) \/ CloseStreams
  <2>1. /\ fired' = fired \cup {armed} /\ UNCHANGED <<pc, last, waits_on>>
    BY <1>2 DEF Publish, CloseStreams, generatorVars
  <2>2. \A c \in Clients : pc[c] = "wait" => waits_on[c] \in fired'
    BY <2>1 DEF WaitsOnNewest
  <2> QED
    BY <2>1, <2>2 DEF WaitsOnNewest, NoLostWakeup
<1>3. CASE Restart
  BY <1>3 DEF Restart, WaitsOnNewest, NoLostWakeup
<1>4. ASSUME NEW c \in Clients, Loop(c) PROVE Wakeful'
  <2>1. UNCHANGED <<armed, fired, closed, log_seq, last>>
    BY <1>4 DEF Loop, logVars, serverVars
  <2>2. ASSUME NEW d \in Clients, d # c
        PROVE  pc'[d] = pc[d] /\ waits_on'[d] = waits_on[d]
    BY <1>1, <1>4, <2>2 DEF Loop
  <2>3. pc'[c] = "wait" => waits_on'[c] = armed /\ log_seq <= last[c] /\ ~closed
    <3>1. last[c] \in 0..MaxSeq
      BY <1>1
    <3>2. ReadAfter(last[c], Limit).records = <<>> => log_seq <= last[c]
      BY <1>1, <3>1, ReadInHand
    <3> QED
      BY <1>1, <1>4, <3>2 DEF Loop
  <2>4. last[c] \in Nat
    BY <1>1, EventLogAssumption
  <2> QED
    BY <1>1, <2>1, <2>2, <2>3, <2>4 DEF WaitsOnNewest, NoLostWakeup
<1>5. ASSUME NEW c \in Clients,
             Connect(c) \/ YieldGap(c) \/ YieldRecord(c) \/ Wake(c) \/ KeepAlive(c) \/ Drop(c)
      PROVE  Wakeful'
  <2>1. UNCHANGED <<armed, fired, closed, log_seq, waits_on>>
    BY <1>5 DEF Connect, YieldGap, YieldRecord, Wake, KeepAlive, Drop, logVars, serverVars
  <2>2. \A d \in Clients \ {c} : pc'[d] = pc[d] /\ last'[d] = last[d]
    BY <1>1, <1>5 DEF Connect, YieldGap, YieldRecord, Wake, KeepAlive, Drop
  <2>3. pc'[c] # "wait"
    BY <1>1, <1>5 DEF Connect, YieldGap, YieldRecord, Wake, KeepAlive, Drop
  <2> QED
    BY <2>1, <2>2, <2>3 DEF WaitsOnNewest, NoLostWakeup
<1>6. CASE UNCHANGED vars
  BY <1>6 DEF vars, logVars, serverVars, generatorVars, WaitsOnNewest, NoLostWakeup
<1> QED
  BY <1>2, <1>3, <1>4, <1>5, <1>6 DEF Next, Generator

-----------------------------------------------------------------------------
(* Reading.                                                                *)

(* A client no step touches stays where it is. *)
LEMMA ClientRests ==
  ASSUME NEW c \in Clients, Ordered(c), Follows(c),
         pc'[c] = pc[c], last'[c] = last[c], records'[c] = records[c], gap'[c] = gap[c],
         last_id'[c] = last_id[c], received'[c] = received[c], told_lost'[c] = told_lost[c],
         started'[c] = started[c], wanted'[c] = wanted[c]
  PROVE  Ordered(c)' /\ Follows(c)'
<1>1. Ordered(c)'
  BY DEF Ordered
<1>2. \A n : Covered(c, n) => Covered(c, n)'
  BY DEF Covered, Got
<1>3. InHand(c) => InHand(c)'
  BY DEF InHand
<1> QED
  BY <1>1, <1>2, <1>3 DEF Follows

(* A generator that ends, loops or waits has handed over all it had to. *)
LEMMA ClientTurns ==
  ASSUME NEW c \in Clients, Ordered(c), Follows(c), last_id[c] # NotYet,
         pc[c] # "off" \/ pc'[c] = "off", pc'[c] # "yield",
         last'[c] = last[c], UNCHANGED clientVars
  PROVE  Ordered(c)' /\ Follows(c)'
<1>1. Ordered(c)'
  BY DEF Ordered, clientVars
<1>2. \A n : Covered(c, n) => Covered(c, n)'
  BY DEF Covered, Got, clientVars
<1> QED
  BY <1>1, <1>2 DEF Follows, clientVars

LEMMA ReadingConnect ==
  ASSUME TInv, Reading, NEW c \in Clients, Connect(c)
  PROVE  Ordered(c)' /\ Follows(c)'
<1> USE EventLogAssumption
<1>1. /\ pc \in [Clients -> {"off", "loop", "yield", "wait"}]
      /\ last \in [Clients -> 0..MaxSeq] /\ last_id \in [Clients -> 0..NotYet]
      /\ started \in [Clients -> 0..MaxSeq] /\ log_seq \in 0..MaxSeq
      /\ NotYet = MaxSeq + 1
  BY DEF TInv, GeneratorTyped, ClientTyped, LogInv, LogTypeOK, NotYet
<1>2. Ordered(c) /\ Follows(c)
  BY DEF Reading
<1>3. pc'[c] = "loop" /\ UNCHANGED <<received, told_lost, wanted>>
  BY <1>1 DEF Connect
<1>4. CASE last_id[c] = NotYet
  <2>1. PICK after \in 0..log_seq :
          last'[c] = after /\ started'[c] = after /\ last_id'[c] = after
    BY <1>1, <1>4 DEF Connect
  <2>2. received[c] = <<>> /\ Len(<<>>) = 0 /\ 1..0 = {}
    BY <1>2, <1>4, EmptySeq DEF Follows
  <2>3. after \in 0..MaxSeq /\ after <= after /\ after # NotYet /\ (after + 1)..after = {}
    BY <1>1
  <2>4. Ordered(c)'
    BY <1>3, <2>2 DEF Ordered
  <2>5. Covered(c, after)'
    BY <2>1, <2>3 DEF Covered
  <2> QED
    BY <1>3, <2>1, <2>3, <2>4, <2>5 DEF Follows
<1>5. CASE last_id[c] # NotYet
  <2>1. last'[c] = last_id[c] /\ UNCHANGED <<started, last_id>>
    BY <1>1, <1>5 DEF Connect
  <2>2. Ordered(c)' /\ Covered(c, last_id[c])'
    BY <1>2, <1>3, <1>5, <2>1 DEF Ordered, Follows, Covered, Got
  <2>3. last_id[c] <= last_id[c]
    BY <1>1
  <2> QED
    BY <1>3, <1>5, <2>1, <2>2, <2>3 DEF Follows
<1> QED
  BY <1>4, <1>5

LEMMA ReadingLoop ==
  ASSUME TInv, Reading, NEW c \in Clients, Loop(c)
  PROVE  Ordered(c)' /\ Follows(c)'
<1>1. /\ pc \in [Clients -> {"off", "loop", "yield", "wait"}]
      /\ records \in [Clients -> Seq(1..MaxSeq)] /\ gap \in [Clients -> GapNotices]
      /\ last[c] \in 0..MaxSeq /\ LogInv
  BY DEF TInv, GeneratorTyped
<1>2. Ordered(c) /\ Follows(c)
  BY DEF Reading
<1>3. pc[c] = "loop" /\ last_id[c] # NotYet /\ last' = last /\ UNCHANGED clientVars
  BY <1>2 DEF Loop, Follows
<1>4. CASE pc'[c] # "yield"
  BY <1>2, <1>3, <1>4, ClientTurns
<1>5. CASE pc'[c] = "yield"
  <2> DEFINE r == ReadAfter(last[c], Limit)
  <2>1. /\ records'[c] = r.records /\ gap'[c] = r.gap
        /\ r.records # <<>> \/ r.gap # NoGap
    BY <1>1, <1>5 DEF Loop
  <2>2. /\ r.records # <<>> /\ last[c] < r.records[1]
        /\ \A i \in 1..Len(r.records) : r.records[i] = (r.records[1] - 1) + i
        /\ r.gap = NoGap => r.records[1] = last[c] + 1
        /\ r.gap # NoGap => r.gap = [requested_after_seq |-> last[c],
                                     oldest_available_seq |-> r.records[1]]
    BY <1>1, <2>1, ReadInHand
  <2>3. r.gap = NoGap => (last[c] + 1)..(r.records[1] - 1) = {}
    BY <1>1, <2>2
  <2> HIDE DEF r
  <2>4. InHand(c)'
    BY <1>3, <2>1, <2>2, <2>3 DEF InHand
  <2>5. Ordered(c)' /\ Covered(c, last[c])'
    BY <1>2, <1>3 DEF Ordered, Follows, Covered, Got, clientVars
  <2>6. Covered(c, last_id[c])'
    BY <1>2, <1>3 DEF Follows, Covered, Got, clientVars
  <2> QED
    BY <1>2, <1>3, <1>5, <2>4, <2>5, <2>6 DEF Follows, clientVars
<1> QED
  BY <1>4, <1>5

LEMMA ReadingYieldGap ==
  ASSUME TInv, Reading, NEW c \in Clients, YieldGap(c)
  PROVE  Ordered(c)' /\ Follows(c)'
<1>1. gap \in [Clients -> GapNotices] /\ told_lost \in [Clients -> SUBSET (1..MaxSeq)]
  BY DEF TInv, GeneratorTyped, ClientTyped
<1>2. Ordered(c) /\ Follows(c)
  BY DEF Reading
<1>3. /\ pc[c] = "yield" /\ gap[c] # NoGap /\ gap'[c] = NoGap
      /\ UNCHANGED <<pc, last, records, last_id, received, started, wanted>>
      /\ told_lost'[c] = told_lost[c]
           \cup (gap[c].requested_after_seq + 1)..(gap[c].oldest_available_seq - 1)
  BY <1>1 DEF YieldGap
<1>4. InHand(c)'
  <2>1. gap[c].requested_after_seq = last[c] /\ gap[c].oldest_available_seq = records[c][1]
    BY <1>2, <1>3 DEF Follows, InHand
  <2> QED
    BY <1>2, <1>3, <2>1 DEF Follows, InHand
<1>5. \A n : Covered(c, n) => Covered(c, n)'
  BY <1>3 DEF Covered, Got
<1>6. Ordered(c)'
  BY <1>2, <1>3 DEF Ordered
<1> QED
  BY <1>2, <1>3, <1>4, <1>5, <1>6 DEF Follows

LEMMA ReadingYieldRecord ==
  ASSUME TInv, Reading, NEW c \in Clients, YieldRecord(c)
  PROVE  Ordered(c)' /\ Follows(c)'
<1> USE EventLogAssumption
<1>1. /\ pc \in [Clients -> {"off", "loop", "yield", "wait"}]
      /\ last \in [Clients -> 0..MaxSeq] /\ records \in [Clients -> Seq(1..MaxSeq)]
      /\ last_id \in [Clients -> 0..NotYet] /\ received \in [Clients -> Seq(1..MaxSeq)]
      /\ started[c] \in Nat /\ last[c] \in Nat /\ last_id[c] \in Nat /\ NotYet = MaxSeq + 1
  BY DEF TInv, GeneratorTyped, ClientTyped, NotYet
<1>2. /\ Ordered(c) /\ pc[c] = "yield" /\ gap[c] = NoGap /\ InHand(c)
      /\ last_id[c] <= last[c] /\ Covered(c, last[c]) /\ last_id[c] # NotYet
  BY DEF Reading, Follows, YieldRecord
<1>3. records[c] \in Seq(1..MaxSeq) /\ records[c] # <<>>
  BY <1>1, <1>2 DEF InHand
<1>4. PICK n \in 1..MaxSeq : n = Head(records[c])
  BY <1>3, HeadTailProperties
<1>5. PICK m \in Nat \ {0} : m = Len(records[c])
  BY <1>3, LenProperties, EmptySeq
<1>6. /\ n = records[c][1] /\ last[c] < n
      /\ \A i \in 1..m : records[c][i] = (n - 1) + i
      /\ (last[c] + 1)..(n - 1) \subseteq told_lost[c]
  BY <1>2, <1>3, <1>4, <1>5, HeadTailProperties DEF InHand
<1>7. /\ last'[c] = n /\ UNCHANGED <<gap, told_lost, started, wanted>>
      /\ records'[c] = Tail(records[c]) /\ pc'[c] = IF m = 1 THEN "loop" ELSE "yield"
      /\ IF TypeOf[n] \in wanted[c]
         THEN received'[c] = Append(received[c], n) /\ last_id'[c] = n
         ELSE received' = received /\ last_id' = last_id
  BY <1>1, <1>2, <1>4, <1>5 DEF YieldRecord
<1>8. PICK p \in Nat : p = Len(received[c])
  BY <1>1, LenProperties
<1>9. \A i \in 1..p : received[c][i] < n /\ received[c][i] <= n
  <2> SUFFICES ASSUME NEW i \in 1..p PROVE received[c][i] < n /\ received[c][i] <= n
    OBVIOUS
  <2>1. received[c][i] \in 1..MaxSeq
    BY <1>1, <1>8, ElementOfSeq
  <2>2. received[c][i] <= last_id[c]
    BY <1>2, <1>8 DEF Ordered
  <2>3. PICK got \in Nat : got = received[c][i]
    BY <2>1
  <2>4. PICK id \in Nat : id = last_id[c]
    BY <1>1
  <2>5. PICK l \in Nat : l = last[c]
    BY <1>1
  <2>6. got <= id /\ id <= l /\ l < n
    BY <1>2, <1>6, <2>2, <2>3, <2>4, <2>5
  <2> QED
    BY <2>3, <2>6
<1>10. ASSUME Got(c) \subseteq Got(c)', TypeOf[n] \in wanted[c] => n \in Got(c)'
       PROVE  Covered(c, n)' /\ (last_id'[c] = last_id[c] => Covered(c, last_id[c])')
  <2>1. ASSUME NEW k \in (started[c] + 1)..n, TypeOf[k] \in wanted[c]
        PROVE  k \in Got(c)' \cup told_lost[c]
    <3>1. CASE k \in (started[c] + 1)..last[c]
      BY <1>2, <1>10, <2>1, <3>1 DEF Covered
    <3>2. CASE k \in (last[c] + 1)..(n - 1)
      BY <1>6, <3>2
    <3>3. CASE k = n
      BY <1>10, <2>1, <3>3
    <3> QED
      BY <1>1, <3>1, <3>2, <3>3
  <2>2. Covered(c, last_id[c])
    BY <1>2 DEF Reading, Follows
  <2>3. started'[c] = started[c] /\ told_lost'[c] = told_lost[c] /\ wanted'[c] = wanted[c]
    BY <1>7
  <2>4. Covered(c, n)'
    BY <2>1, <2>3 DEF Covered
  <2>5. ASSUME last_id'[c] = last_id[c] PROVE Covered(c, last_id[c])'
    BY <1>10, <2>2, <2>3, <2>5 DEF Covered
  <2> QED
    BY <2>4, <2>5
<1>11. pc'[c] = "yield" => InHand(c)'
  <2> SUFFICES ASSUME m # 1 PROVE InHand(c)'
    BY <1>7
  <2>1. /\ records'[c] \in Seq(1..MaxSeq) /\ Len(records'[c]) = m - 1
        /\ \A i \in 1..(m - 1) : records'[c][i] = records[c][i + 1]
    <3>1. /\ Tail(records[c]) \in Seq(1..MaxSeq)
          /\ Len(Tail(records[c])) = Len(records[c]) - 1
          /\ \A i \in 1..Len(Tail(records[c])) : Tail(records[c])[i] = records[c][i + 1]
      BY <1>3, HeadTailProperties, Zenon
    <3>2. records'[c] = Tail(records[c])
      BY <1>7
    <3> QED
      BY <1>5, <3>1, <3>2, Zenon
  <2>2. \A i \in 1..(m - 1) : i + 1 \in 1..m /\ (n - 1) + (i + 1) = ((n + 1) - 1) + i
    BY <1>5
  <2>3. \A i \in 1..(m - 1) : records'[c][i] = ((n + 1) - 1) + i
    <3> SUFFICES ASSUME NEW i \in 1..(m - 1) PROVE records'[c][i] = ((n + 1) - 1) + i
      OBVIOUS
    <3>1. i + 1 \in 1..m /\ (n - 1) + (i + 1) = ((n + 1) - 1) + i
      BY <2>2
    <3>2. records'[c][i] = records[c][i + 1] /\ records[c][i + 1] = (n - 1) + (i + 1)
      BY <1>6, <2>1, <3>1, Zenon
    <3> QED
      BY <3>1, <3>2, Zenon
  <2>4. 1 \in 1..(m - 1) /\ ((n + 1) - 1) + 1 = n + 1 /\ n < n + 1
        /\ (n + 1)..((n + 1) - 1) = {} /\ m - 1 # 0
    <3>1. n \in Nat /\ ((n + 1) - 1) + 1 = n + 1 /\ n < n + 1 /\ (n + 1) - 1 = n
      OBVIOUS
    <3>2. 1 \in 1..(m - 1) /\ m - 1 # 0
      OBVIOUS
    <3>3. (n + 1)..n = {}
      BY <3>1
    <3> QED
      BY <3>1, <3>2, <3>3
  <2>5. records'[c][1] = n + 1 /\ records'[c] # <<>>
    BY <2>1, <2>3, <2>4, EmptySeq
  <2> QED
    BY <1>2, <1>7, <2>1, <2>3, <2>4, <2>5 DEF InHand
<1>12. n # NotYet /\ n <= n /\ last_id[c] <= n
  <2>1. PICK id \in Nat, l \in Nat : id = last_id[c] /\ l = last[c]
    BY <1>1
  <2>2. id <= l /\ l < n /\ NotYet = MaxSeq + 1
    BY <1>1, <1>2, <1>6, <2>1
  <2>3. id <= n /\ n <= n /\ n # MaxSeq + 1
    BY <2>2
  <2> QED
    BY <2>1, <2>2, <2>3
<1>13. CASE TypeOf[n] \in wanted[c]
  <2>1. received'[c] = Append(received[c], n) /\ last_id'[c] = n
    BY <1>7, <1>13
  <2>2. /\ Len(received'[c]) = p + 1 /\ received'[c][p + 1] = n
        /\ \A i \in 1..p : received'[c][i] = received[c][i]
    BY <1>1, <1>8, <2>1, AppendProperties
  <2>3. Ordered(c)'
    <3>1. \A i \in 1..(p + 1) : i = p + 1 \/ i \in 1..p
      BY <1>8
    <3>2. \A i \in 1..(p + 1) : received'[c][i] <= n
      BY <1>9, <2>2, <3>1
    <3>3. ASSUME NEW i \in 1..(p + 1), NEW j \in 1..(p + 1), i < j
          PROVE  received'[c][i] < received'[c][j]
      <4>1. i \in 1..p
        BY <1>8, <3>3
      <4>2. CASE j = p + 1
        BY <1>9, <2>2, <4>1, <4>2
      <4>3. CASE j \in 1..p
        BY <1>2, <1>8, <2>2, <3>3, <4>1, <4>3 DEF Ordered
      <4> QED
        BY <3>1, <4>2, <4>3
    <3> QED
      BY <2>1, <2>2, <3>2, <3>3 DEF Ordered
  <2>4. Got(c) \subseteq Got(c)' /\ n \in Got(c)'
    <3>1. p + 1 \in 1..(p + 1) /\ \A i \in 1..p : i \in 1..(p + 1)
      BY <1>8
    <3> QED
      BY <1>8, <2>2, <3>1 DEF Got
  <2> QED
    BY <1>7, <1>10, <1>11, <1>12, <2>1, <2>3, <2>4 DEF Follows
<1>14. CASE TypeOf[n] \notin wanted[c]
  <2>1. received' = received /\ last_id' = last_id /\ Got(c)' = Got(c)
    BY <1>7, <1>14 DEF Got
  <2>2. Ordered(c)'
    BY <1>2, <2>1 DEF Ordered
  <2> QED
    BY <1>2, <1>7, <1>10, <1>11, <1>12, <1>14, <2>1, <2>2 DEF Follows
<1> QED
  BY <1>13, <1>14

LEMMA ReadingStep == TInv /\ Reading /\ [Next]_vars => Reading'
<1> SUFFICES ASSUME TInv, Reading, [Next]_vars, NEW d \in Clients
             PROVE  Ordered(d)' /\ Follows(d)'
  BY DEF Reading
<1>1. /\ Ordered(d) /\ Follows(d)
      /\ pc \in [Clients -> {"off", "loop", "yield", "wait"}]
      /\ last \in [Clients -> 0..MaxSeq] /\ records \in [Clients -> Seq(1..MaxSeq)]
      /\ gap \in [Clients -> GapNotices] /\ last_id \in [Clients -> 0..NotYet]
      /\ received \in [Clients -> Seq(1..MaxSeq)]
      /\ told_lost \in [Clients -> SUBSET (1..MaxSeq)] /\ started \in [Clients -> 0..MaxSeq]
  BY DEF Reading, TInv, GeneratorTyped, ClientTyped
<1>2. CASE (\E k \in 1..MaxSeq : Publish(k)) \/ CloseStreams \/ Restart \/ UNCHANGED vars
  <2>1. UNCHANGED <<pc, last, records, gap, clientVars>>
    BY <1>2 DEF Publish, CloseStreams, Restart, vars, generatorVars
  <2> QED
    BY <1>1, <2>1, ClientRests DEF clientVars
<1>3. ASSUME NEW c \in Clients, c # d,
             \/ Connect(c) \/ Loop(c) \/ YieldGap(c) \/ YieldRecord(c)
             \/ Wake(c) \/ KeepAlive(c) \/ Drop(c)
      PROVE  Ordered(d)' /\ Follows(d)'
  <2>1. /\ pc'[d] = pc[d] /\ last'[d] = last[d] /\ records'[d] = records[d]
        /\ gap'[d] = gap[d] /\ last_id'[d] = last_id[d] /\ received'[d] = received[d]
        /\ told_lost'[d] = told_lost[d] /\ started'[d] = started[d] /\ wanted' = wanted
    <3>1. CASE Connect(c)
      BY <1>1, <1>3, <3>1 DEF Connect
    <3>2. CASE Loop(c)
      BY <1>1, <1>3, <3>2 DEF Loop, clientVars
    <3>3. CASE YieldGap(c)
      BY <1>1, <1>3, <3>3 DEF YieldGap
    <3>4. CASE YieldRecord(c)
      BY <1>1, <1>3, <3>4 DEF YieldRecord
    <3>5. CASE Wake(c) \/ KeepAlive(c) \/ Drop(c)
      BY <1>1, <1>3, <3>5 DEF Wake, KeepAlive, Drop, clientVars
    <3> QED
      BY <1>3, <3>1, <3>2, <3>3, <3>4, <3>5
  <2> QED
    BY <1>1, <2>1, ClientRests
<1>4. CASE Connect(d)
  BY <1>4, ReadingConnect
<1>5. CASE Loop(d)
  BY <1>5, ReadingLoop
<1>6. CASE YieldGap(d)
  BY <1>6, ReadingYieldGap
<1>7. CASE YieldRecord(d)
  BY <1>7, ReadingYieldRecord
<1>8. CASE Wake(d) \/ KeepAlive(d) \/ Drop(d)
  <2>1. /\ pc[d] # "off" /\ pc'[d] # "yield" /\ last' = last /\ UNCHANGED clientVars
    BY <1>1, <1>8 DEF Wake, KeepAlive, Drop
  <2>2. last_id[d] # NotYet
    BY <1>1, <2>1 DEF Follows
  <2> QED
    BY <1>1, <2>1, <2>2, ClientTurns
<1> QED
  BY <1>2, <1>3, <1>4, <1>5, <1>6, <1>7, <1>8 DEF Next, Generator

LEMMA Invariance == Spec => []IInv
<1>1. Init => IInv
  BY InvInit
<1>2. IInv /\ [Next]_vars => IInv'
  BY TypedStep, WakefulStep, ReadingStep DEF IInv, Wakeful
<1> QED
  BY <1>1, <1>2, PTL DEF Spec

(* Every variable of the log, of the streams and of their clients keeps    *)
(* its type in every reachable state; a batch is never longer than a read. *)
THEOREM TypeCorrect == Spec => []TypeOK
<1>1. IInv => TypeOK
  BY TypedIsTypeOK DEF IInv
<1> QED
  BY <1>1, Invariance, PTL

(* eventlog.py:14 and 61-63.  No generator waits on an asyncio.Event that   *)
(* nobody has set while there is something for it to do.                   *)
THEOREM NeverSleepsThrough == Spec => []NoLostWakeup
<1>1. IInv => NoLostWakeup
  BY DEF IInv
<1> QED
  BY <1>1, Invariance, PTL

-----------------------------------------------------------------------------
(* No reader skips an event in silence.                                    *)

LEMMA SkipsNothing == IInv => NothingSkipped
  BY DEF IInv, Reading, Ordered, Follows, Covered, NothingSkipped

(* One page moves its reader over its events and those of its gap notice.  *)
LEMMA PageMovesOn ==
  ASSUME LogInv, NEW after \in 0..log_seq, NEW limit \in 1..MaxLen
  PROVE  LET p    == EventsPage(after, limit)
             told == IF p.gap = NoGap THEN {}
                     ELSE (p.gap.requested_after_seq + 1)..(p.gap.oldest_available_seq - 1)
             on   == {p.events[i] : i \in 1..Len(p.events)}
         IN  /\ p.next >= after
             /\ (after + 1)..p.next = told \cup on
             /\ p.next = after => log_seq = after
<1> DEFINE r    == ReadAfter(after, limit)
           p    == EventsPage(after, limit)
           told == IF p.gap = NoGap THEN {}
                   ELSE (p.gap.requested_after_seq + 1)..(p.gap.oldest_available_seq - 1)
           on   == {p.events[i] : i \in 1..Len(p.events)}
<1>1. /\ log_seq \in Nat /\ FirstSeq \in Nat \ {0} /\ after \in Nat /\ after <= log_seq
      /\ limit \in Nat \ {0}
  BY FirstSeqBounds, EventLogAssumption
<1>2. /\ r.records \in Seq(1..MaxSeq)
      /\ \A i \in 1..Len(r.records) : r.records[i] = (From(after) - 1) + i
      /\ r.records = <<>> => ~Gone(after) /\ log_seq <= after
      /\ ~Gone(after) => r.gap = NoGap
      /\ Gone(after) => /\ r.gap = [requested_after_seq |-> after,
                                    oldest_available_seq |-> FirstSeq]
                        /\ r.gap # NoGap
  BY <1>1, ReadsOn
<1>3. /\ p.events = r.records /\ p.gap = r.gap
      /\ p.next = IF r.records # <<>> THEN r.records[Len(r.records)]
                  ELSE IF after < FirstSeq - 1 THEN FirstSeq - 1 ELSE after
  BY DEF EventsPage
<1>4. PICK first \in Nat : /\ first = From(after) /\ first > after
                           /\ Gone(after) => first = FirstSeq
                           /\ ~Gone(after) => first = after + 1
  BY <1>1 DEF From, Gone
<1>5. PICK size \in Nat : size = Len(r.records)
  BY <1>2, LenProperties
<1> HIDE DEF r, p
<1>6. told = (after + 1)..(first - 1)
  <2>1. CASE Gone(after)
    BY <1>2, <1>3, <1>4, <2>1
  <2>2. CASE ~Gone(after)
    <3>1. told = {} /\ first = after + 1
      BY <1>2, <1>3, <1>4, <2>2
    <3>2. (after + 1)..((after + 1) - 1) = {}
      BY <1>1
    <3> QED
      BY <3>1, <3>2
  <2> QED
    BY <2>1, <2>2
<1>7. on = first..((first - 1) + size)
  <2>1. \A i \in 1..size : p.events[i] = (first - 1) + i
    BY <1>2, <1>3, <1>4, <1>5
  <2>2. \A i \in 1..size : (first - 1) + i \in first..((first - 1) + size)
    OBVIOUS
  <2>3. ASSUME NEW n \in first..((first - 1) + size) PROVE n \in on
    <3>1. (n - (first - 1)) \in 1..size /\ (first - 1) + (n - (first - 1)) = n
      OBVIOUS
    <3> QED
      BY <1>3, <1>5, <2>1, <3>1
  <2>4. \A x \in on : x \in first..((first - 1) + size)
    BY <1>3, <1>5, <2>1, <2>2
  <2> HIDE DEF on
  <2> QED
    BY <2>3, <2>4, Zenon
<1>8. p.next = (first - 1) + size
  <2>1. CASE r.records # <<>>
    <3>1. size \in 1..size
      BY <1>2, <1>5, <2>1, EmptySeq
    <3> QED
      BY <1>2, <1>3, <1>4, <1>5, <2>1, <3>1
  <2>2. CASE r.records = <<>>
    <3>1. ~Gone(after) /\ size = 0
      BY <1>2, <1>5, <2>2, EmptySeq
    <3> QED
      BY <1>1, <1>3, <1>4, <2>2, <3>1 DEF Gone
  <2> QED
    BY <2>1, <2>2
<1>9. (first - 1) + size >= after
  BY <1>1, <1>4
<1>10. (after + 1)..((first - 1) + size) =
         ((after + 1)..(first - 1)) \cup (first..((first - 1) + size))
  BY <1>1, <1>4
<1>11. (first - 1) + size = after => log_seq = after
  <2> SUFFICES ASSUME (first - 1) + size = after PROVE log_seq = after
    OBVIOUS
  <2>1. size = 0
    BY <1>1, <1>4
  <2>2. r.records = <<>>
    BY <1>2, <1>5, <2>1, EmptySeq
  <2> QED
    BY <1>1, <1>2, <2>2
<1> HIDE DEF told, on
<1>12. /\ p.next >= after
       /\ (after + 1)..p.next = told \cup on
       /\ p.next = after => log_seq = after
  BY <1>6, <1>7, <1>8, <1>9, <1>10, <1>11
<1> QED
  BY <1>12 DEF p, told, on

(* eventlog.py:8-11.  Over reconnections, a buffer that moves on while a    *)
(* batch is handed over, restarts and type filters, a stream's client gets *)
(* its events in order, each once, and every one it wants or word of its   *)
(* loss; a consumer that pages moves over all of them or is told.          *)
THEOREM ReadersMissNothing == Spec => []NoSilentGap
<1>1. IInv => PagesComplete
  BY PageMovesOn DEF IInv, TInv, PagesComplete
<1>2. IInv => NoSilentGap
  BY <1>1, SkipsNothing DEF NoSilentGap
<1> QED
  BY <1>2, Invariance, PTL
=============================================================================
