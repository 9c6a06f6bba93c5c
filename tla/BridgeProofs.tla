---------------------------- MODULE BridgeProofs ----------------------------
(***************************************************************************)
(* Proofs about the bridge, for any buffer, producer queue, read size,     *)
(* number of events, worlds and faults: its types, that every event up to  *)
(* its position is accounted for, that its checkpoint file is sound at     *)
(* every moment, and that it implements AtLeastOnce.  All but the types    *)
(* need what the code relies on: no SIGTERM between a failed flush and the *)
(* rewind it causes.  They speak of the bridge until it opens the stream   *)
(* live for the second time.                                               *)
(***************************************************************************)
EXTENDS Bridge, EventLogProofs, FiniteSetTheorems

-----------------------------------------------------------------------------
(* The inductive invariant, part by part.                                  *)

EventFrames == [kind : {"event"}, world : 1..MaxWorlds, seq : 1..MaxSeq]
GapFrames == [kind : {"gap"}, world : 1..MaxWorlds, after : 0..MaxSeq, oldest : 1..MaxSeq]

(* The position before a frame and the one after it. *)
Before(f) == IF f.kind = "event" THEN f.seq - 1 ELSE f.after
After(f) == IF f.kind = "event" THEN f.seq ELSE f.oldest - 1

(* The events a frame carries, or says are gone. *)
Covers(f) == {Event(f.world, n) : n \in (Before(f) + 1)..After(f)}

FramesTyped ==
  /\ pipe \in Seq(EventFrames \cup GapFrames)
  /\ \A i \in 1..Len(pipe) : Before(pipe[i]) < After(pipe[i])

(* Every rewind follows a fault of its own. *)
RewindsCounted ==
  attempt + (IF pc = "rewind" THEN 1 ELSE 0) + (IF failed = {} THEN 0 ELSE 1) <= faults

(* The variables of the source and of the wire. *)
SourceTyped ==
  /\ src_up \in BOOLEAN /\ world \in 1..MaxWorlds /\ state_seq \in 0..MaxSeq
  /\ conn \in BOOLEAN /\ cursor \in 0..MaxSeq

(* The variables of the bridge's process, its producer and its file. *)
ThreadTyped ==
  /\ pc \in {"down", "connect", "open", "stream", "rewind", "close"}
  /\ start_from \in {"oldest", "live"}
  /\ {last_seq, saved_seq, resume, checkpoint} \subseteq Position

SinkTyped ==
  /\ queue \subseteq Message /\ failed \subseteq Message
  /\ IsFiniteSet(queue) /\ Cardinality(queue) <= QueueMax

EventsTyped ==
  /\ published \subseteq EventSet /\ kafka \subseteq EventSet
  /\ lost \subseteq EventSet /\ skipped \subseteq EventSet
  /\ live_starts \in 0..2 /\ stale \in BOOLEAN

CountsTyped == attempt \in Nat /\ faults \in 0..MaxFaults /\ RewindsCounted

TInv ==
  /\ LogInv /\ FramesTyped
  /\ SourceTyped /\ ThreadTyped /\ SinkTyped /\ EventsTyped /\ CountsTyped

(* What the source has numbered, and that nothing else is ever moved.  It   *)
(* may have numbered more in this world than its log reaches now.          *)
Numbered ==
  /\ Upto(world, log_seq) \subseteq published
  /\ \A e \in published : e.world <= world

Pending == {Written(m) : m \in queue \cup failed}

NothingInvented ==
  /\ Settled \cup Pending \subseteq published
  /\ \A i \in 1..Len(pipe) : Covers(pipe[i]) \subseteq published

(* How the positions in memory and in the file belong together. *)
PositionsAgree ==
  /\ pc = "down" => last_seq = None /\ saved_seq = None
  /\ pc # "down" => saved_seq = checkpoint /\ (last_seq = None => checkpoint = None)
  /\ pc = "open" => IF last_seq = None THEN resume \in {0, None} ELSE resume = last_seq
  /\ pc # "down" /\ ~stale /\ checkpoint # None => checkpoint <= last_seq

(* The frames on the wire go on from one to the next, in the world the     *)
(* source numbers now, up to the generator's cursor ...                    *)
Chained ==
  /\ \A i \in 1..Len(pipe) : pipe[i].world = world
  /\ \A i \in 1..(Len(pipe) - 1) : Before(pipe[i + 1]) = After(pipe[i])
  /\ conn /\ pipe # <<>> => After(pipe[Len(pipe)]) = cursor

(* ... and from the position the bridge has reached, whose events are all  *)
(* accounted for, so long as the stream was opened live at most once.      *)
Reached == IF pipe = <<>> THEN cursor ELSE Before(pipe[1])

StreamContinues ==
  pc = "stream" /\ ~stale /\ (conn \/ pipe # <<>>) =>
    /\ Chained
    /\ ~Relived => Upto(world, Reached) \subseteq Settled \cup Pending
    /\ last_seq # None => last_seq = Reached

IInv ==
  /\ TInv /\ Numbered /\ NothingInvented /\ PositionsAgree /\ StreamContinues
  /\ Accounted /\ CheckpointSound

-----------------------------------------------------------------------------
(* What the source sends.                                                  *)

Frames == EventFrames \cup GapFrames

(* One batch goes on from the generator's cursor, frame by frame, notice   *)
(* first, up to where the cursor stands afterwards.                        *)
LEMMA BatchChained ==
  ASSUME TInv, Serve
  PROVE  /\ pipe' \in Seq(Frames) /\ pipe' # <<>>
         /\ cursor' \in 1..MaxSeq
         /\ \A i \in 1..Len(pipe') :
              /\ pipe'[i].world = world
              /\ Before(pipe'[i]) < After(pipe'[i]) /\ After(pipe'[i]) <= log_seq
              /\ Before(pipe'[i]) \in Nat
         /\ \A i \in 1..(Len(pipe') - 1) : Before(pipe'[i + 1]) = After(pipe'[i])
         /\ Before(pipe'[1]) = cursor /\ After(pipe'[Len(pipe')]) = cursor'
<1> USE EventLogAssumption, BridgeAssumption
<1> DEFINE recs == ReadAfter(cursor, Limit).records
           gap == ReadAfter(cursor, Limit).gap
           Frame(n) == [kind |-> "event", world |-> world, seq |-> n]
           notice == [kind |-> "gap", world |-> world,
                      after |-> gap.requested_after_seq, oldest |-> gap.oldest_available_seq]
           batch == [i \in 1..Len(recs) |-> Frame(recs[i])]
<1>1. /\ LogInv /\ cursor \in Nat /\ cursor <= MaxSeq /\ world \in 1..MaxWorlds
      /\ Limit \in Nat \ {0} /\ MaxSeq \in Nat
  BY DEF TInv, SourceTyped
<1>2. PICK first \in Nat \ {0} : first = From(cursor)
  BY <1>1, FirstSeqBounds DEF From
<1>3. /\ recs # <<>> /\ cursor' = recs[Len(recs)]
      /\ pipe' = (IF gap = NoGap THEN <<>> ELSE <<notice>>) \o batch
  BY DEF Serve
<1>4. /\ recs \in Seq(1..MaxSeq)
      /\ \A i \in 1..Len(recs) : recs[i] = (From(cursor) - 1) + i
      /\ recs # <<>> => (From(cursor) - 1) + Len(recs) <= log_seq
      /\ ~Gone(cursor) => gap = NoGap
      /\ Gone(cursor) => /\ gap = [requested_after_seq |-> cursor, oldest_available_seq |-> FirstSeq]
                         /\ gap # NoGap
  BY <1>1, ReadsOn
<1> HIDE DEF recs, gap
<1>5. PICK size \in Nat \ {0} : size = Len(recs)
  BY <1>3, <1>4, EmptySeq
<1>6. /\ \A i \in 1..size : recs[i] = (first - 1) + i
      /\ (first - 1) + size <= log_seq /\ log_seq \in Nat /\ log_seq <= MaxSeq
  BY <1>1, <1>2, <1>3, <1>4, <1>5, FirstSeqBounds
<1>7. /\ batch \in Seq(Frames) /\ Len(batch) = size
      /\ \A i \in 1..size : batch[i] = [kind |-> "event", world |-> world, seq |-> (first - 1) + i]
  <2>1. \A i \in 1..size : batch[i] = [kind |-> "event", world |-> world, seq |-> (first - 1) + i]
    BY <1>5, <1>6
  <2>2. \A i \in 1..size : (first - 1) + i \in 1..MaxSeq
    BY <1>2, <1>5, <1>6
  <2>3. batch \in [1..size -> Frames]
    <3>1. \A i \in 1..size : batch[i] \in EventFrames
      <4> SUFFICES ASSUME NEW i \in 1..size PROVE batch[i] \in EventFrames
        OBVIOUS
      <4>1. PICK n \in 1..MaxSeq : n = (first - 1) + i
        BY <2>2
      <4>2. batch[i] = [kind |-> "event", world |-> world, seq |-> n]
        BY <2>1, <4>1
      <4> HIDE DEF batch
      <4> QED
        BY <1>1, <4>2 DEF EventFrames
    <3> QED
      BY <1>5, <3>1 DEF Frames
  <2> HIDE DEF batch
  <2> QED
    BY <1>5, <2>1, <2>3, SeqDef
<1> HIDE DEF batch
<1>8. cursor' = (first - 1) + size /\ cursor' \in 1..MaxSeq
  BY <1>2, <1>3, <1>5, <1>6
<1>9. ASSUME NEW i \in 1..size
      PROVE  /\ batch[i].world = world /\ Before(batch[i]) = (first - 1) + i - 1
             /\ After(batch[i]) = (first - 1) + i
  BY <1>7 DEF Before, After
<1>10. CASE ~Gone(cursor)
  <2>1. pipe' = batch /\ first = cursor + 1
    BY <1>2, <1>3, <1>4, <1>7, <1>10, ConcatEmptySeq DEF From
  <2>2. \A i \in 1..(size - 1) : i \in 1..size /\ i + 1 \in 1..size
    BY <1>5
  <2>3. 1 \in 1..size /\ size \in 1..size
    BY <1>5
  <2>4. pipe' # <<>>
    BY <1>7, <2>1, EmptySeq
  <2>5. \A i \in 1..size : /\ (first - 1) + i - 1 < (first - 1) + i
                           /\ (first - 1) + i <= log_seq
                           /\ (first - 1) + i - 1 \in Nat
    BY <1>2, <1>5, <1>6
  <2>6. \A i \in 1..(size - 1) : Before(batch[i + 1]) = After(batch[i])
    <3> SUFFICES ASSUME NEW i \in 1..(size - 1) PROVE Before(batch[i + 1]) = After(batch[i])
      OBVIOUS
    <3>1. i \in 1..size /\ i + 1 \in 1..size /\ (first - 1) + (i + 1) - 1 = (first - 1) + i
      BY <1>2, <1>5
    <3>2. Before(batch[i + 1]) = (first - 1) + (i + 1) - 1 /\ After(batch[i]) = (first - 1) + i
      BY <1>9, <3>1, Zenon
    <3> QED
      BY <3>1, <3>2, Zenon
  <2>7. Before(batch[1]) = cursor /\ After(batch[size]) = cursor'
    <3>1. (first - 1) + 1 - 1 = cursor
      BY <1>1, <1>2, <2>1
    <3>2. Before(batch[1]) = (first - 1) + 1 - 1 /\ After(batch[size]) = (first - 1) + size
      BY <1>9, <2>3, Zenon
    <3> QED
      BY <1>8, <3>1, <3>2, Zenon
  <2>8. \A i \in 1..size : /\ pipe'[i].world = world
                           /\ Before(pipe'[i]) < After(pipe'[i]) /\ After(pipe'[i]) <= log_seq
                           /\ Before(pipe'[i]) \in Nat
    BY <1>7, <1>9, <2>1, <2>5
  <2>9. /\ \A i \in 1..(size - 1) : Before(pipe'[i + 1]) = After(pipe'[i])
        /\ Before(pipe'[1]) = cursor /\ After(pipe'[size]) = cursor'
    BY <2>1, <2>6, <2>7, Zenon
  <2>10. Len(pipe') = size /\ pipe' \in Seq(Frames)
    BY <1>7, <2>1, Zenon
  <2> QED
    BY <1>8, <2>4, <2>8, <2>9, <2>10
<1>11. CASE Gone(cursor)
  <2>1. /\ first = FirstSeq /\ cursor + 1 < first
        /\ notice = [kind |-> "gap", world |-> world, after |-> cursor, oldest |-> first]
    BY <1>2, <1>4, <1>11 DEF From, Gone
  <2>2. pipe' = <<notice>> \o batch
    BY <1>3, <1>4, <1>11
  <2>3. notice \in Frames
    <3>1. cursor \in 0..MaxSeq /\ first \in 1..MaxSeq
      BY <1>1, <1>2, <1>5, <1>6
    <3> HIDE DEF notice
    <3> QED
      BY <1>1, <2>1, <3>1 DEF Frames, GapFrames
  <2>4. /\ notice.world = world /\ Before(notice) = cursor /\ After(notice) = first - 1
    BY <2>1 DEF Before, After
  <2> HIDE DEF notice
  <2>5. /\ pipe' \in Seq(Frames) /\ Len(pipe') = size + 1 /\ pipe'[1] = notice
        /\ \A i \in 2..(size + 1) : pipe'[i] = batch[i - 1]
    <3>1. <<notice>> \in Seq(Frames) /\ Len(<<notice>>) = 1 /\ <<notice>>[1] = notice
      BY <2>3
    <3>2. PICK s : s = <<notice>>
      OBVIOUS
    <3>3. /\ s \o batch \in Seq(Frames) /\ Len(s \o batch) = 1 + size
          /\ \A i \in 1..(1 + size) : (s \o batch)[i] = IF i <= 1 THEN s[i] ELSE batch[i - 1]
      BY <1>7, <3>1, <3>2, ConcatProperties
    <3>4. 1 \in 1..(1 + size) /\ \A i \in 2..(size + 1) : i \in 1..(1 + size) /\ ~(i <= 1)
      BY <1>5
    <3> QED
      BY <1>5, <2>2, <3>1, <3>2, <3>3, <3>4
  <2>6. \A i \in 2..(size + 1) : i - 1 \in 1..size
    BY <1>5
  <2>7. pipe' # <<>>
    BY <1>5, <2>5, EmptySeq
  <2>8. ASSUME NEW i \in 2..(size + 1)
        PROVE  /\ pipe'[i].world = world /\ Before(pipe'[i]) = (first - 1) + (i - 1) - 1
               /\ After(pipe'[i]) = (first - 1) + (i - 1)
    <3>1. PICK j \in 1..size : j = i - 1
      BY <2>6
    <3>2. pipe'[i] = batch[j]
      BY <2>5, <3>1
    <3> QED
      BY <1>9, <3>1, <3>2
  <2>9. ASSUME NEW i \in 1..(size + 1)
        PROVE  /\ pipe'[i].world = world
               /\ Before(pipe'[i]) < After(pipe'[i]) /\ After(pipe'[i]) <= log_seq
               /\ Before(pipe'[i]) \in Nat
    <3>1. CASE i = 1
      <4>1. cursor < first - 1 /\ first - 1 <= log_seq
        BY <1>1, <1>2, <1>5, <1>6, <2>1
      <4> QED
        BY <1>1, <2>4, <2>5, <3>1, <4>1
    <3>2. CASE i # 1
      <4>1. i \in 2..(size + 1)
        BY <3>2
      <4>2. /\ (first - 1) + (i - 1) - 1 < (first - 1) + (i - 1)
            /\ (first - 1) + (i - 1) <= log_seq /\ (first - 1) + (i - 1) - 1 \in Nat
        BY <1>2, <1>5, <1>6, <4>1
      <4> QED
        BY <2>8, <4>1, <4>2
    <3> QED
      BY <3>1, <3>2
  <2>10. ASSUME NEW i \in 1..size PROVE Before(pipe'[i + 1]) = After(pipe'[i])
    <3>1. i + 1 \in 2..(size + 1) /\ (first - 1) + ((i + 1) - 1) - 1 = (first - 1) + (i - 1)
      BY <1>2, <1>5
    <3>2. Before(pipe'[i + 1]) = (first - 1) + (i - 1)
      BY <2>8, <3>1
    <3>3. CASE i = 1
      BY <1>2, <2>4, <2>5, <3>2, <3>3
    <3>4. CASE i # 1
      <4>1. i \in 2..(size + 1)
        BY <3>4
      <4> QED
        BY <2>8, <3>2, <4>1
    <3> QED
      BY <3>3, <3>4
  <2>11. After(pipe'[size + 1]) = cursor'
    <3>1. size + 1 \in 2..(size + 1) /\ (first - 1) + ((size + 1) - 1) = (first - 1) + size
      BY <1>2, <1>5
    <3> QED
      BY <1>8, <2>8, <3>1
  <2>12. (size + 1) - 1 = size
    BY <1>5
  <2> QED
    BY <1>8, <2>4, <2>5, <2>7, <2>9, <2>10, <2>11, <2>12
<1> QED
  BY <1>10, <1>11

LEMMA SomethingLeft ==
  ASSUME NEW S, NEW s \in Seq(S), s # <<>>
  PROVE  Len(s) \in Nat \ {0}
  BY EmptySeq

(* The frame in hand. *)
LEMMA FrameInHand ==
  ASSUME FramesTyped, pipe # <<>>
  PROVE  /\ Head(pipe) \in Frames /\ Head(pipe) = pipe[1]
         /\ Tail(pipe) \in Seq(Frames) /\ Len(pipe) \in Nat \ {0} /\ Len(Tail(pipe)) = Len(pipe) - 1
         /\ \A i \in 1..Len(Tail(pipe)) : Tail(pipe)[i] = pipe[i + 1] /\ i + 1 \in 1..Len(pipe)
         /\ Before(Head(pipe)) < After(Head(pipe))
<1>1. pipe \in Seq(Frames)
  BY DEF FramesTyped, Frames
<1>2. Len(pipe) \in Nat \ {0}
  BY <1>1, EmptySeq
<1>3. Head(pipe) = pipe[1] /\ 1 \in 1..Len(pipe)
  BY <1>1, <1>2
<1>4. /\ Head(pipe) \in Frames /\ Tail(pipe) \in Seq(Frames) /\ Len(Tail(pipe)) = Len(pipe) - 1
      /\ \A i \in 1..Len(Tail(pipe)) : Tail(pipe)[i] = pipe[i + 1]
  BY <1>1, HeadTailProperties
<1>5. \A i \in 1..(Len(pipe) - 1) : i + 1 \in 1..Len(pipe)
  BY <1>2
<1> QED
  BY <1>2, <1>3, <1>4, <1>5 DEF FramesTyped

LEMMA FrameParts ==
  ASSUME NEW f \in Frames, MaxSeq \in Nat
  PROVE  /\ f.world \in 1..MaxWorlds /\ f.kind \in {"event", "gap"}
         /\ f.kind = "event" => f.seq \in 1..MaxSeq
         /\ f.kind = "gap" => f.after \in 0..MaxSeq /\ f.oldest \in 1..MaxSeq
         /\ Before(f) \in 0..MaxSeq /\ After(f) \in 0..MaxSeq
<1>1. CASE f \in EventFrames
  <2>1. f.kind = "event" /\ f.world \in 1..MaxWorlds /\ f.seq \in 1..MaxSeq
    BY <1>1 DEF EventFrames
  <2> QED
    BY <2>1 DEF Before, After
<1>2. CASE f \in GapFrames
  <2>1. /\ f.kind = "gap" /\ f.world \in 1..MaxWorlds
        /\ f.after \in 0..MaxSeq /\ f.oldest \in 1..MaxSeq
    BY <1>2 DEF GapFrames
  <2> QED
    BY <2>1 DEF Before, After
<1> QED
  BY <1>1, <1>2 DEF Frames

(* The wire is empty, or keeps what follows the frame in hand. *)
LEMMA WireCleared == pipe' = <<>> => FramesTyped'
<1> SUFFICES ASSUME pipe' = <<>> PROVE FramesTyped'
  OBVIOUS
<1>1. <<>> \in Seq(EventFrames \cup GapFrames) /\ Len(<<>>) = 0
  BY EmptySeq
<1>2. 1..0 = {}
  OBVIOUS
<1> QED
  BY <1>1, <1>2 DEF FramesTyped

LEMMA WireAdvances == FramesTyped /\ pipe # <<>> /\ pipe' = Tail(pipe) => FramesTyped'
<1> SUFFICES ASSUME FramesTyped, pipe # <<>>, pipe' = Tail(pipe) PROVE FramesTyped'
  OBVIOUS
<1>1. /\ Tail(pipe) \in Seq(Frames)
      /\ \A i \in 1..Len(Tail(pipe)) : Tail(pipe)[i] = pipe[i + 1] /\ i + 1 \in 1..Len(pipe)
  BY FrameInHand
<1>2. \A i \in 1..Len(Tail(pipe)) : Before(Tail(pipe)[i]) < After(Tail(pipe)[i])
  BY <1>1 DEF FramesTyped
<1> QED
  BY <1>1, <1>2 DEF FramesTyped, Frames

-----------------------------------------------------------------------------
(* Types.                                                                  *)

(* A step of the source's log and of nothing that is typed by it. *)
LEMMA LogRests == TInv /\ UNCHANGED logVars => LogInv'
  BY DEF TInv, LogInv, LogTypeOK, NewestKept, logVars

(* The log a source loads is one it kept once. *)
LEMMA LogRestored ==
  ASSUME NEW n \in 0..MaxSeq, log_seq' = n, buffer' = KeepNewest([i \in 1..n |-> i])
  PROVE  LogInv'
<1> USE EventLogAssumption
<1> DEFINE all == [i \in 1..n |-> i]
<1>1. all \in Seq(1..MaxSeq) /\ Len(all) = n /\ \A i \in 1..n : all[i] = i
  <2>1. all \in [1..n -> 1..MaxSeq]
    OBVIOUS
  <2>2. \A i \in 1..n : all[i] = i
    OBVIOUS
  <2> HIDE DEF all
  <2> QED
    BY <2>1, <2>2, SeqDef
<1> HIDE DEF all
<1>2. /\ buffer' \in Seq(1..MaxSeq) /\ Len(buffer') <= MaxLen
      /\ Len(buffer') = IF Len(all) > MaxLen THEN MaxLen ELSE Len(all)
      /\ \A i \in 1..Len(buffer') : buffer'[i] = all[(Len(all) - Len(buffer')) + i]
  BY <1>1, KeepsTheTail DEF all
<1>3. PICK m \in Nat : m = Len(buffer') /\ m <= n /\ (n > 0 => m > 0)
  BY <1>1, <1>2, LenProperties
<1>4. \A i \in 1..m : (n - m) + i \in 1..n
  BY <1>3
<1>5. \A i \in 1..m : buffer'[i] = (n - m) + i
  <2> SUFFICES ASSUME NEW i \in 1..m PROVE buffer'[i] = (n - m) + i
    OBVIOUS
  <2>1. PICK j \in 1..n : j = (n - m) + i
    BY <1>4
  <2>2. buffer'[i] = all[(n - m) + i]
    BY <1>1, <1>2, <1>3
  <2>3. all[j] = j
    BY <1>1
  <2> QED
    BY <2>1, <2>2, <2>3
<1> QED
  BY <1>2, <1>3, <1>5 DEF LogInv, LogTypeOK, NewestKept

(* A step that leaves the wire alone. *)
LEMMA WireRests == TInv /\ pipe' = pipe => FramesTyped'
  BY DEF TInv, FramesTyped

LEMMA TypedIsTypeOK == TInv => TypeOK
<1> SUFFICES ASSUME TInv PROVE TypeOK
  OBVIOUS
<1> USE EventLogAssumption, BridgeAssumption DEF TInv
<1>1. attempt \in 0..MaxFaults
  BY DEF CountsTyped, RewindsCounted
<1>2. \A i \in 1..Len(pipe) : pipe[i].kind \in {"event", "gap"}
  <2>1. pipe \in Seq(Frames)
    BY DEF FramesTyped, Frames
  <2> QED
    BY <2>1, ElementOfSeq, FrameParts
<1> QED
  BY <1>1, <1>2 DEF LogInv, TypeOK, SourceTyped, ThreadTyped, SinkTyped, EventsTyped, CountsTyped

LEMMA TypedInit == Init => TInv
<1> SUFFICES ASSUME Init PROVE TInv
  OBVIOUS
<1> USE EventLogAssumption, BridgeAssumption DEF Init
<1>1. LogInv
  BY LogInvInit
<1>2. FramesTyped
  <2>1. <<>> \in Seq(EventFrames \cup GapFrames) /\ Len(<<>>) = 0 /\ 1..0 = {}
    BY EmptySeq
  <2> QED
    BY <2>1 DEF FramesTyped
<1>3. SinkTyped
  <2>1. IsFiniteSet({}) /\ Cardinality({}) = 0
    BY FS_EmptySet
  <2> QED
    BY <2>1 DEF SinkTyped
<1>4. SourceTyped
  <2>1. 1 \in 1..MaxWorlds /\ 0 \in 0..MaxSeq
    OBVIOUS
  <2>2. src_up \in BOOLEAN /\ conn \in BOOLEAN
    OBVIOUS
  <2> QED
    BY <2>1, <2>2 DEF SourceTyped
<1>5. ThreadTyped
  BY DEF ThreadTyped, Position
<1>6. EventsTyped
  <2>1. 0 \in 0..2
    OBVIOUS
  <2> QED
    BY <2>1 DEF EventsTyped
<1>7. CountsTyped
  BY DEF CountsTyped, RewindsCounted
<1> QED
  BY <1>1, <1>2, <1>3, <1>4, <1>5, <1>6, <1>7 DEF TInv

(* Events, by what names them. *)
LEMMA EventsNamed ==
  ASSUME MaxSeq \in Nat
  PROVE  /\ \A m \in Message : Written(m) \in EventSet
         /\ \A w \in 1..MaxWorlds : \A n \in 0..MaxSeq : Upto(w, n) \subseteq EventSet
         /\ \A f \in Frames : Covers(f) \subseteq EventSet
<1>1. \A w \in 1..MaxWorlds : \A n \in 1..MaxSeq : Event(w, n) \in EventSet
  BY DEF EventSet
<1>2. \A m \in Message : Written(m) \in EventSet
  BY <1>1 DEF Message, Written
<1>3. \A w \in 1..MaxWorlds : \A n \in 0..MaxSeq : Upto(w, n) \subseteq EventSet
  BY <1>1 DEF Upto
<1>4. ASSUME NEW f \in Frames PROVE Covers(f) \subseteq EventSet
  <2>1. f.world \in 1..MaxWorlds /\ Before(f) \in 0..MaxSeq /\ After(f) \in 0..MaxSeq
    BY FrameParts
  <2>2. \A n \in (Before(f) + 1)..After(f) : n \in 1..MaxSeq
    BY <2>1
  <2> QED
    BY <1>1, <2>1, <2>2 DEF Covers
<1> QED
  BY <1>2, <1>3, <1>4

(* What a step leaves alone keeps its type. *)
LEMMA RestsTyped ==
  ASSUME TInv
  PROVE  /\ UNCHANGED logVars => LogInv'
         /\ UNCHANGED pipe => FramesTyped'
         /\ UNCHANGED <<state_seq, src_up, world, conn, cursor>> => SourceTyped'
         /\ UNCHANGED <<pc, start_from, last_seq, saved_seq, resume, checkpoint>> => ThreadTyped'
         /\ UNCHANGED <<queue, failed>> => SinkTyped'
         /\ UNCHANGED <<published, kafka, lost, skipped, live_starts, stale>> => EventsTyped'
         /\ UNCHANGED <<attempt, pc, failed, faults>> => CountsTyped'
<1>1. /\ LogInv /\ FramesTyped
      /\ SourceTyped /\ ThreadTyped /\ SinkTyped /\ EventsTyped /\ CountsTyped
  BY DEF TInv
<1>2. UNCHANGED logVars => LogInv'
  BY LogRests
<1>3. UNCHANGED pipe => FramesTyped'
  BY WireRests
<1>4. UNCHANGED <<state_seq, src_up, world, conn, cursor>> => SourceTyped'
  BY <1>1 DEF SourceTyped
<1>5. UNCHANGED <<pc, start_from, last_seq, saved_seq, resume, checkpoint>> => ThreadTyped'
  BY <1>1 DEF ThreadTyped
<1>6. UNCHANGED <<queue, failed>> => SinkTyped'
  BY <1>1 DEF SinkTyped
<1>7. UNCHANGED <<published, kafka, lost, skipped, live_starts, stale>> => EventsTyped'
  BY <1>1 DEF EventsTyped
<1>8. UNCHANGED <<attempt, pc, failed, faults>> => CountsTyped'
  BY <1>1 DEF CountsTyped, RewindsCounted
<1> QED
  BY <1>2, <1>3, <1>4, <1>5, <1>6, <1>7, <1>8

(* A fault that is no rewind pays for nothing yet. *)
LEMMA FaultCounted ==
  ASSUME CountsTyped, faults < MaxFaults, faults' = faults + 1, UNCHANGED <<attempt, pc, failed>>
  PROVE  CountsTyped'
<1>1. /\ faults \in Nat /\ faults + 1 \in 0..MaxFaults /\ attempt \in Nat
  BY BridgeAssumption DEF CountsTyped
<1>2. attempt + (IF pc = "rewind" THEN 1 ELSE 0) + (IF failed = {} THEN 0 ELSE 1) <= faults + 1
  BY <1>1 DEF CountsTyped, RewindsCounted
<1> QED
  BY <1>1, <1>2 DEF CountsTyped, RewindsCounted

LEMMA TypedSource ==
  ASSUME TInv,
         \/ \E k \in 1..MaxSeq : Publish(k)
         \/ Serve \/ SourceStops \/ SourceStarts \/ SourceReset \/ Drop
  PROVE  TInv'
<1> USE EventLogAssumption, BridgeAssumption
<1>1. /\ LogInv /\ FramesTyped
      /\ SourceTyped /\ ThreadTyped /\ SinkTyped /\ EventsTyped /\ CountsTyped
      /\ 0 \in 0..MaxSeq
  BY DEF TInv
<1>2. ASSUME NEW k \in 1..MaxSeq, Publish(k) PROVE TInv'
  <2>1. LogInv' /\ log_seq + k \in 0..MaxSeq
    <3>1. LogInv' /\ log_seq' = log_seq + k /\ log_seq' <= MaxSeq
      BY <1>1, <1>2, PublishKeepsNewest DEF Publish
    <3>2. log_seq \in Nat
      BY <1>1 DEF LogInv, LogTypeOK
    <3> QED
      BY <3>1, <3>2
  <2>2. /\ UNCHANGED <<state_seq, src_up, world, conn, cursor, pipe>>
        /\ UNCHANGED <<pc, start_from, last_seq, saved_seq, resume, checkpoint>>
        /\ UNCHANGED <<queue, failed, attempt, faults, kafka, lost, skipped, live_starts, stale>>
        /\ published' = published \cup Upto(world, log_seq + k)
    BY <1>2 DEF Publish, connVars, bridgeVars, sinkVars
  <2>3. EventsTyped'
    BY <1>1, <2>1, <2>2, EventsNamed DEF EventsTyped, SourceTyped
  <2> QED
    BY <2>1, <2>2, <2>3, RestsTyped DEF TInv
<1>3. CASE Serve
  <2>1. pipe' \in Seq(Frames) /\ cursor' \in 1..MaxSeq
    BY <1>3, BatchChained
  <2>2. FramesTyped'
    BY <1>3, BatchChained DEF FramesTyped, Frames
  <2>3. /\ UNCHANGED <<logVars, state_seq, src_up, world, conn>>
        /\ UNCHANGED <<pc, start_from, last_seq, saved_seq, resume, checkpoint>>
        /\ UNCHANGED <<queue, failed, attempt, faults, published, kafka, lost, skipped, live_starts, stale>>
    BY <1>3 DEF Serve, sourceVars, sourceLog, bridgeVars, sinkVars, ghostVars
  <2>4. SourceTyped'
    BY <1>1, <2>1, <2>3 DEF SourceTyped
  <2> QED
    BY <2>2, <2>3, <2>4, RestsTyped DEF TInv
<1>4. CASE SourceStops
  <2>1. /\ UNCHANGED <<logVars, state_seq, world, pipe>>
        /\ src_up' = FALSE /\ conn' = FALSE /\ cursor' = 0
        /\ UNCHANGED <<pc, start_from, last_seq, saved_seq, resume, checkpoint>>
        /\ UNCHANGED <<queue, failed, attempt, published, kafka, lost, skipped, live_starts, stale>>
        /\ faults < MaxFaults /\ faults' = faults + 1
    BY <1>4 DEF SourceStops, Fault, sourceLog, bridgeVars, sinkVars, ghostVars
  <2>2. SourceTyped' /\ CountsTyped'
    BY <1>1, <2>1, FaultCounted DEF SourceTyped
  <2> QED
    BY <2>1, <2>2, RestsTyped DEF TInv
<1>5. CASE SourceStarts
  <2>1. /\ UNCHANGED <<world, conn, cursor, pipe>> /\ src_up' = TRUE
        /\ UNCHANGED <<pc, start_from, last_seq, saved_seq, resume, checkpoint>>
        /\ UNCHANGED <<queue, failed, attempt, faults, published, kafka, lost, skipped, live_starts, stale>>
    BY <1>5 DEF SourceStarts, connVars, bridgeVars, sinkVars, ghostVars
  <2>2. PICK n \in state_seq..log_seq :
          state_seq' = n /\ log_seq' = n /\ buffer' = KeepNewest([i \in 1..n |-> i])
    BY <1>5 DEF SourceStarts
  <2>3. n \in 0..MaxSeq
    BY <1>1, <2>2 DEF SourceTyped, LogInv, LogTypeOK
  <2>4. LogInv'
    BY <2>2, <2>3, LogRestored
  <2>5. SourceTyped'
    BY <1>1, <2>1, <2>2, <2>3 DEF SourceTyped
  <2> QED
    BY <2>1, <2>4, <2>5, RestsTyped DEF TInv
<1>6. CASE SourceReset
  <2>1. /\ UNCHANGED <<conn, cursor, pipe>> /\ src_up' = TRUE
        /\ world < MaxWorlds /\ world' = world + 1 /\ stale' = TRUE
        /\ buffer' = <<>> /\ log_seq' = 0 /\ state_seq' = 0
        /\ UNCHANGED <<pc, start_from, last_seq, saved_seq, resume, checkpoint>>
        /\ UNCHANGED <<queue, failed, attempt, faults, published, kafka, lost, skipped, live_starts>>
    BY <1>6 DEF SourceReset, connVars, bridgeVars, sinkVars
  <2>2. SourceTyped' /\ EventsTyped'
    BY <1>1, <2>1 DEF SourceTyped, EventsTyped
  <2>3. LogInv'
    <3>1. <<>> \in Seq(1..MaxSeq) /\ Len(<<>>) = 0 /\ 1..0 = {}
      BY EmptySeq
    <3> QED
      BY <2>1, <3>1 DEF LogInv, LogTypeOK, NewestKept
  <2> QED
    BY <2>1, <2>2, <2>3, RestsTyped DEF TInv
<1>7. CASE Drop
  <2>1. /\ UNCHANGED <<logVars, state_seq, src_up, world>>
        /\ conn' = FALSE /\ cursor' = 0 /\ pipe' = <<>>
        /\ UNCHANGED <<pc, start_from, last_seq, saved_seq, resume, checkpoint>>
        /\ UNCHANGED <<queue, failed, attempt, published, kafka, lost, skipped, live_starts, stale>>
        /\ faults < MaxFaults /\ faults' = faults + 1
    BY <1>7 DEF Drop, Disconnect, Fault, sourceVars, sourceLog, bridgeVars, sinkVars, ghostVars
  <2>2. SourceTyped' /\ CountsTyped'
    BY <1>1, <2>1, FaultCounted DEF SourceTyped
  <2> QED
    BY <2>1, <2>2, RestsTyped, WireCleared DEF TInv
<1> QED
  BY <1>2, <1>3, <1>4, <1>5, <1>6, <1>7

LEMMA TypedBroker ==
  ASSUME TInv, NEW m \in queue, Ack(m) \/ Fail(m)
  PROVE  TInv'
<1> USE EventLogAssumption, BridgeAssumption
<1>1. SinkTyped /\ EventsTyped /\ CountsTyped /\ m \in Message /\ Written(m) \in EventSet
  BY EventsNamed DEF TInv, SinkTyped
<1>2. /\ UNCHANGED <<logVars, state_seq, src_up, world, conn, cursor, pipe>>
      /\ UNCHANGED <<pc, start_from, last_seq, saved_seq, resume, checkpoint>>
      /\ UNCHANGED <<attempt, published, lost, skipped, live_starts, stale>>
      /\ queue' = queue \ {m} /\ kafka' \in {kafka, kafka \cup {Written(m)}}
      /\ \/ failed' = failed /\ faults' = faults
         \/ failed' = failed \cup {m} /\ faults < MaxFaults /\ faults' = faults + 1
  BY DEF Ack, Fail, Fault, sourceVars, sourceLog, connVars, bridgeVars, ghostVars
<1>3. SinkTyped'
  <2>1. /\ IsFiniteSet(queue \ {m}) /\ Cardinality(queue) \in Nat
        /\ Cardinality(queue \ {m}) = Cardinality(queue) - 1
    BY <1>1, FS_RemoveElement, FS_CardinalityType DEF SinkTyped
  <2>2. Cardinality(queue') <= QueueMax /\ IsFiniteSet(queue')
    BY <1>1, <1>2, <2>1 DEF SinkTyped
  <2> QED
    BY <1>1, <1>2, <2>2 DEF SinkTyped
<1>4. EventsTyped'
  BY <1>1, <1>2 DEF EventsTyped
<1>5. CountsTyped'
  <2>1. CASE failed' = failed /\ faults' = faults
    BY <1>1, <1>2, <2>1 DEF CountsTyped, RewindsCounted
  <2>2. CASE failed' = failed \cup {m} /\ faults < MaxFaults /\ faults' = faults + 1
    <3>1. faults \in Nat /\ faults + 1 \in 0..MaxFaults /\ attempt \in Nat
      BY <1>1, <2>2 DEF CountsTyped
    <3>2. attempt + (IF pc = "rewind" THEN 1 ELSE 0) + 1 <= faults + 1
      BY <1>1, <3>1 DEF CountsTyped, RewindsCounted
    <3>3. failed' # {}
      BY <2>2
    <3> QED
      BY <1>2, <2>2, <3>1, <3>2, <3>3 DEF CountsTyped, RewindsCounted
  <2> QED
    BY <1>2, <2>1, <2>2
<1> QED
  BY <1>2, <1>3, <1>4, <1>5, RestsTyped DEF TInv

(* A step of the bridge's thread that neither rewinds nor ends it. *)
LEMMA TypedThread ==
  ASSUME TInv,
         \/ Start \/ ResumePoint \/ OpenStream \/ OpenFails
         \/ HandleGap \/ Checkpoint \/ StreamEnds \/ Sigterm
  PROVE  TInv'
<1> USE EventLogAssumption, BridgeAssumption
<1>1. /\ LogInv /\ FramesTyped
      /\ SourceTyped /\ ThreadTyped /\ SinkTyped /\ EventsTyped /\ CountsTyped
      /\ log_seq \in 0..MaxSeq /\ 0 \in 0..MaxSeq /\ 0 \in Position /\ None \in Position
  BY DEF TInv, LogInv, LogTypeOK, Position
<1>2. ASSUME pc # "rewind" \/ pc' = "close", pc' # "rewind", UNCHANGED <<attempt, failed>>,
             faults' = faults \/ (faults < MaxFaults /\ faults' = faults + 1)
      PROVE  CountsTyped'
  <2>1. /\ faults' \in 0..MaxFaults /\ faults' \in Nat /\ attempt \in Nat /\ faults \in Nat
    BY <1>1, <1>2 DEF CountsTyped
  <2>2. attempt + 0 + (IF failed = {} THEN 0 ELSE 1) <= faults
    BY <1>1, <2>1 DEF CountsTyped, RewindsCounted
  <2>3. attempt + 0 + (IF failed = {} THEN 0 ELSE 1) <= faults'
    BY <1>2, <2>1, <2>2
  <2> QED
    BY <1>2, <2>1, <2>3 DEF CountsTyped, RewindsCounted
<1>3. CASE Start
  <2>1. /\ UNCHANGED <<logVars, state_seq, src_up, world, conn, cursor, pipe, resume, start_from, checkpoint>>
        /\ pc = "down" /\ pc' = "connect" /\ last_seq' = checkpoint /\ saved_seq' = checkpoint
        /\ UNCHANGED <<queue, failed, attempt, kafka, published, lost, skipped, live_starts, stale, faults>>
    BY <1>3 DEF Start, sourceVars, sourceLog, connVars, sinkVars, ghostVars
  <2>2. ThreadTyped' /\ CountsTyped'
    BY <1>1, <1>2, <2>1 DEF ThreadTyped
  <2> QED
    BY <2>1, <2>2, RestsTyped DEF TInv
<1>4. CASE ResumePoint
  <2>1. /\ UNCHANGED <<logVars, state_seq, src_up, world, conn, cursor, pipe, start_from>>
        /\ pc = "connect" /\ pc' = "open"
        /\ resume' \in {0, None, last_seq} /\ last_seq' \in {last_seq, None}
        /\ saved_seq' \in {saved_seq, None} /\ checkpoint' \in {checkpoint, None}
        /\ UNCHANGED <<queue, failed, attempt, kafka, published, lost, skipped, live_starts, stale>>
        /\ faults' = faults \/ (faults < MaxFaults /\ faults' = faults + 1)
    BY <1>4 DEF ResumePoint, Fault, sourceVars, sourceLog, connVars, sinkVars, ghostVars
  <2>2. ThreadTyped' /\ CountsTyped'
    BY <1>1, <1>2, <2>1 DEF ThreadTyped
  <2> QED
    BY <2>1, <2>2, RestsTyped DEF TInv
<1>5. CASE OpenStream
  <2>1. /\ UNCHANGED <<logVars, state_seq, src_up, world>>
        /\ UNCHANGED <<start_from, last_seq, saved_seq, checkpoint>> /\ resume' = None
        /\ UNCHANGED <<queue, failed, attempt, kafka, published, lost, faults>>
        /\ pc = "open" /\ pc' = "stream" /\ conn' = TRUE /\ pipe' = <<>>
        /\ cursor' = IF resume = None THEN log_seq ELSE resume
        /\ live_starts' \in {live_starts, 1, 2}
        /\ skipped' \in {skipped, skipped \cup Upto(world, log_seq)}
        /\ stale' = (stale /\ last_seq # None)
    BY <1>5 DEF OpenStream, sourceVars, sourceLog, bridgeVars, sinkVars
  <2>2. SourceTyped' /\ ThreadTyped' /\ CountsTyped'
    BY <1>1, <1>2, <2>1 DEF SourceTyped, ThreadTyped, Position
  <2>3. skipped' \subseteq EventSet /\ stale' \in BOOLEAN /\ live_starts' \in 0..2
    BY <1>1, <2>1, EventsNamed DEF EventsTyped, SourceTyped
  <2>4. EventsTyped'
    BY <1>1, <2>1, <2>3 DEF EventsTyped
  <2> QED
    BY <2>1, <2>2, <2>4, RestsTyped, WireCleared DEF TInv
<1>6. ASSUME pc # "rewind", pc' \in {"connect", "close"},
             UNCHANGED <<logVars, state_seq, src_up, world, conn, cursor, pipe>>,
             UNCHANGED <<start_from, last_seq, saved_seq, checkpoint>>, resume' \in {resume, None},
             UNCHANGED <<queue, failed, attempt, kafka, published, lost, skipped, live_starts, stale>>,
             faults' = faults \/ (faults < MaxFaults /\ faults' = faults + 1)
      PROVE  TInv'
  <2>1. ThreadTyped' /\ CountsTyped'
    BY <1>1, <1>2, <1>6 DEF ThreadTyped
  <2> QED
    BY <1>6, <2>1, RestsTyped DEF TInv
<1>7. CASE OpenFails
  BY <1>6, <1>7 DEF OpenFails, sourceVars, sourceLog, connVars, bridgeVars, sinkVars, ghostVars
<1>8. CASE StreamEnds
  BY <1>6, <1>8 DEF StreamEnds, sourceVars, sourceLog, connVars, bridgeVars, sinkVars, ghostVars
<1>9. CASE Sigterm
  <2>1. /\ pc' = "close" /\ faults < MaxFaults /\ faults' = faults + 1
        /\ conn' = FALSE /\ cursor' = 0 /\ pipe' = <<>> /\ resume' = None
        /\ UNCHANGED <<logVars, state_seq, src_up, world>>
        /\ UNCHANGED <<start_from, last_seq, saved_seq, checkpoint>>
        /\ UNCHANGED <<queue, failed, attempt, kafka, published, lost, skipped, live_starts, stale>>
    BY <1>9 DEF Sigterm, Disconnect, Fault, sourceVars, sourceLog, sinkVars, ghostVars
  <2>2. SourceTyped' /\ ThreadTyped' /\ CountsTyped'
    BY <1>1, <1>2, <2>1 DEF SourceTyped, ThreadTyped
  <2> QED
    BY <2>1, <2>2, RestsTyped, WireCleared DEF TInv
<1>10. CASE HandleGap
  <2>1. /\ pc = "stream" /\ pipe # <<>> /\ Head(pipe).kind = "gap" /\ pipe' = Tail(pipe)
        /\ last_seq' = Head(pipe).oldest - 1
        /\ lost' = lost \cup {Event(Head(pipe).world, n) :
                                n \in (Head(pipe).after + 1)..(Head(pipe).oldest - 1)}
        /\ UNCHANGED <<logVars, state_seq, src_up, world, conn, cursor>>
        /\ UNCHANGED <<pc, start_from, saved_seq, resume, checkpoint>>
        /\ UNCHANGED <<queue, failed, attempt, kafka, published, skipped, live_starts, stale, faults>>
    BY <1>10 DEF HandleGap, sourceVars, sourceLog, sinkVars
  <2>2. Head(pipe) \in Frames
    BY <1>1, <2>1, FrameInHand
  <2>3. /\ Head(pipe).after = Before(Head(pipe)) /\ Head(pipe).oldest - 1 = After(Head(pipe))
    BY <2>1 DEF Before, After
  <2>4. last_seq' \in 0..MaxSeq
    BY <2>1, <2>2, <2>3, FrameParts
  <2>5. lost' \subseteq EventSet
    <3>1. Covers(Head(pipe)) \subseteq EventSet
      BY <2>2, EventsNamed
    <3>2. lost' = lost \cup Covers(Head(pipe))
      BY <2>1, <2>3 DEF Covers
    <3> QED
      BY <1>1, <3>1, <3>2 DEF EventsTyped
  <2>6. ThreadTyped' /\ EventsTyped'
    BY <1>1, <2>1, <2>4, <2>5 DEF ThreadTyped, EventsTyped, Position
  <2>7. FramesTyped'
    BY <1>1, <2>1, WireAdvances
  <2> QED
    BY <2>1, <2>6, <2>7, RestsTyped DEF TInv
<1>11. CASE Checkpoint
  <2>1. /\ checkpoint' = last_seq /\ saved_seq' = last_seq
        /\ UNCHANGED <<logVars, state_seq, src_up, world, conn, cursor, pipe>>
        /\ UNCHANGED <<pc, start_from, last_seq, resume>>
        /\ UNCHANGED <<queue, failed, attempt, kafka, published, lost, skipped, live_starts, stale, faults>>
    BY <1>11 DEF Checkpoint, sourceVars, sourceLog, connVars, sinkVars, ghostVars
  <2>2. ThreadTyped'
    BY <1>1, <2>1 DEF ThreadTyped
  <2> QED
    BY <2>1, <2>2, RestsTyped DEF TInv
<1> QED
  BY <1>3, <1>4, <1>5, <1>7, <1>8, <1>9, <1>10, <1>11

(* The producer takes a message only while its queue has room. *)
LEMMA TypedHandleEvent == TInv /\ HandleEvent => TInv'
<1> SUFFICES ASSUME TInv, HandleEvent PROVE TInv'
  OBVIOUS
<1> USE EventLogAssumption, BridgeAssumption
<1> DEFINE m == [world |-> Head(pipe).world, seq |-> Head(pipe).seq, attempt |-> attempt]
<1>1. /\ FramesTyped /\ SourceTyped /\ ThreadTyped /\ SinkTyped /\ CountsTyped /\ 0 \in 0..MaxSeq
  BY DEF TInv
<1>2. /\ pc = "stream" /\ pipe # <<>> /\ Head(pipe).kind = "event"
      /\ Cardinality(queue) < QueueMax /\ queue' = queue \cup {m}
      /\ \/ /\ last_seq' = Head(pipe).seq /\ pipe' = Tail(pipe)
            /\ UNCHANGED <<conn, cursor, pc, faults>>
         \/ /\ last_seq' = last_seq /\ pc' = "close" /\ faults < MaxFaults /\ faults' = faults + 1
            /\ conn' = FALSE /\ cursor' = 0 /\ pipe' = <<>>
      /\ UNCHANGED <<logVars, state_seq, src_up, world>>
      /\ UNCHANGED <<start_from, saved_seq, resume, checkpoint>>
      /\ UNCHANGED <<failed, attempt, kafka, published, lost, skipped, live_starts, stale>>
  BY DEF HandleEvent, Send, Disconnect, Fault, sourceVars, sourceLog, ghostVars
<1>3. Head(pipe) \in Frames
  BY <1>1, <1>2, FrameInHand
<1>4. Head(pipe).world \in 1..MaxWorlds /\ Head(pipe).seq \in 1..MaxSeq
  BY <1>2, <1>3, FrameParts
<1>5. attempt \in 0..MaxFaults
  BY TypedIsTypeOK DEF TypeOK
<1>6. m \in Message
  BY <1>4, <1>5 DEF Message
<1> HIDE DEF m
<1>7. SinkTyped'
  <2>1. /\ IsFiniteSet(queue \cup {m}) /\ Cardinality(queue) \in Nat
        /\ Cardinality(queue \cup {m}) \in {Cardinality(queue), Cardinality(queue) + 1}
    BY <1>1, FS_AddElement, FS_CardinalityType DEF SinkTyped
  <2>2. Cardinality(queue') <= QueueMax /\ IsFiniteSet(queue')
    BY <1>2, <2>1
  <2> QED
    BY <1>1, <1>2, <1>6, <2>2 DEF SinkTyped
<1>8. ThreadTyped'
  BY <1>1, <1>2, <1>4 DEF ThreadTyped, Position
<1>9. CountsTyped'
  <2>1. CASE pc' = pc /\ faults' = faults
    BY <1>1, <1>2, <2>1 DEF CountsTyped, RewindsCounted
  <2>2. CASE pc' = "close" /\ faults < MaxFaults /\ faults' = faults + 1
    <3>1. /\ faults \in Nat /\ faults + 1 \in 0..MaxFaults /\ attempt \in Nat
          /\ attempt + 0 + (IF failed = {} THEN 0 ELSE 1) <= faults
      BY <1>1, <1>2, <2>2 DEF CountsTyped, RewindsCounted
    <3>2. attempt + 0 + (IF failed = {} THEN 0 ELSE 1) <= faults + 1
      BY <3>1
    <3> QED
      BY <1>2, <2>2, <3>1, <3>2 DEF CountsTyped, RewindsCounted
  <2> QED
    BY <1>2, <2>1, <2>2
<1>10. FramesTyped'
  BY <1>1, <1>2, WireAdvances, WireCleared
<1>11. SourceTyped'
  BY <1>1, <1>2 DEF SourceTyped
<1> QED
  BY <1>2, <1>7, <1>8, <1>9, <1>10, <1>11, RestsTyped DEF TInv

(* A flush that fails forgets the failures, and a rewind is due for them. *)
LEMMA TypedRewinding == TInv /\ (FlushFails \/ Rewind) => TInv'
<1> USE EventLogAssumption, BridgeAssumption
<1> SUFFICES ASSUME TInv, FlushFails \/ Rewind PROVE TInv'
  OBVIOUS
<1>1. /\ FramesTyped /\ SourceTyped /\ ThreadTyped /\ SinkTyped /\ CountsTyped
      /\ faults \in Nat /\ attempt \in Nat /\ MaxFaults \in Nat /\ 0 \in 0..MaxSeq
  BY DEF TInv, CountsTyped
<1>2. CASE FlushFails
  <2>1. /\ pc = "stream" /\ pc' = "rewind" /\ failed' = {}
        /\ \/ failed # {} /\ faults' = faults
           \/ failed = {} /\ faults < MaxFaults /\ faults' = faults + 1
        /\ conn' = FALSE /\ cursor' = 0 /\ pipe' = <<>>
        /\ UNCHANGED <<logVars, state_seq, src_up, world>>
        /\ UNCHANGED <<start_from, last_seq, saved_seq, resume, checkpoint>>
        /\ UNCHANGED <<queue, attempt, kafka, published, lost, skipped, live_starts, stale>>
    BY <1>2 DEF FlushFails, Disconnect, Fault, sourceVars, sourceLog, bridgeVars, ghostVars
  <2>2. SourceTyped' /\ ThreadTyped' /\ SinkTyped'
    BY <1>1, <2>1 DEF SourceTyped, ThreadTyped, SinkTyped
  <2>3. CountsTyped'
    <3>1. attempt + 0 + (IF failed = {} THEN 0 ELSE 1) <= faults
      BY <1>1, <2>1 DEF CountsTyped, RewindsCounted
    <3>2. attempt + 1 + 0 <= faults' /\ faults' \in 0..MaxFaults
      <4>1. CASE failed # {} /\ faults' = faults
        BY <1>1, <3>1, <4>1 DEF CountsTyped
      <4>2. CASE failed = {} /\ faults < MaxFaults /\ faults' = faults + 1
        BY <1>1, <3>1, <4>2 DEF CountsTyped
      <4> QED
        BY <2>1, <4>1, <4>2
    <3> QED
      BY <1>1, <2>1, <3>2 DEF CountsTyped, RewindsCounted
  <2> QED
    BY <2>1, <2>2, <2>3, RestsTyped, WireCleared DEF TInv
<1>3. CASE Rewind
  <2>1. /\ pc = "rewind" /\ pc' = "connect" /\ last_seq' = saved_seq /\ attempt' = attempt + 1
        /\ UNCHANGED <<logVars, state_seq, src_up, world, conn, cursor, pipe>>
        /\ UNCHANGED <<start_from, saved_seq, resume, checkpoint>>
        /\ UNCHANGED <<queue, failed, kafka, published, lost, skipped, live_starts, stale, faults>>
    BY <1>3 DEF Rewind, sourceVars, sourceLog, connVars, ghostVars
  <2>2. ThreadTyped'
    BY <1>1, <2>1 DEF ThreadTyped
  <2>3. CountsTyped'
    BY <1>1, <2>1 DEF CountsTyped, RewindsCounted
  <2> QED
    BY <2>1, <2>2, <2>3, RestsTyped DEF TInv
<1> QED
  BY <1>2, <1>3

(* The process ends: by itself, or killed. *)
LEMMA TypedEnd == TInv /\ (Close \/ Kill) => TInv'
<1> USE EventLogAssumption, BridgeAssumption
<1> SUFFICES ASSUME TInv, Close \/ Kill PROVE TInv'
  OBVIOUS
<1>1. /\ FramesTyped /\ SourceTyped /\ ThreadTyped /\ SinkTyped /\ EventsTyped /\ CountsTyped
      /\ None \in Position /\ faults \in Nat /\ 0 \in 0..MaxSeq
  BY DEF TInv, CountsTyped, Position
<1>2. Exit /\ checkpoint' \in {checkpoint, last_seq}
  BY DEF Close, Kill
<1>3. /\ pc' = "down" /\ last_seq' = None /\ saved_seq' = None /\ resume' = None
      /\ conn' = FALSE /\ cursor' = 0 /\ pipe' = <<>>
      /\ queue' = {} /\ failed' = {} /\ attempt' = 0
      /\ UNCHANGED <<logVars, state_seq, src_up, world, start_from>>
      /\ UNCHANGED <<published, lost, skipped, live_starts, stale>>
  BY <1>2 DEF Exit, Disconnect, sourceVars, sourceLog, ghostVars
<1>4. faults' = faults \/ (faults < MaxFaults /\ faults' = faults + 1)
  BY DEF Close, Kill, Fault
<1>5. PICK some \in SUBSET queue : kafka' = kafka \cup {Written(m) : m \in some}
  BY <1>2 DEF Exit
<1>6. EventsTyped'
  <2>1. \A m \in some : m \in Message
    BY <1>1 DEF SinkTyped
  <2>2. {Written(m) : m \in some} \subseteq EventSet
    BY <2>1, EventsNamed
  <2> QED
    BY <1>1, <1>3, <1>5, <2>2 DEF EventsTyped
<1>7. SinkTyped'
  <2>1. IsFiniteSet({}) /\ Cardinality({}) = 0
    BY FS_EmptySet
  <2> QED
    BY <1>3, <2>1 DEF SinkTyped
<1>8. SourceTyped' /\ ThreadTyped'
  BY <1>1, <1>2, <1>3 DEF SourceTyped, ThreadTyped
<1>9. CountsTyped'
  <2>1. faults' \in 0..MaxFaults /\ 0 <= faults'
    BY <1>1, <1>4 DEF CountsTyped
  <2> QED
    BY <1>3, <2>1 DEF CountsTyped, RewindsCounted
<1>10. LogInv' /\ FramesTyped'
  BY <1>3, RestsTyped, WireCleared
<1> QED
  BY <1>6, <1>7, <1>8, <1>9, <1>10 DEF TInv

LEMMA TypedStep == TInv /\ [Next]_vars => TInv'
<1> SUFFICES ASSUME TInv, [Next]_vars PROVE TInv'
  OBVIOUS
<1>1. CASE \/ \E k \in 1..MaxSeq : Publish(k)
           \/ Serve \/ SourceStops \/ SourceStarts \/ SourceReset \/ Drop
  BY <1>1, TypedSource
<1>2. CASE \E m \in queue : Ack(m) \/ Fail(m)
  BY <1>2, TypedBroker
<1>3. CASE \/ Start \/ ResumePoint \/ OpenStream \/ OpenFails
           \/ HandleGap \/ Checkpoint \/ StreamEnds \/ Sigterm
  BY <1>3, TypedThread
<1>4. CASE HandleEvent
  BY <1>4, TypedHandleEvent
<1>5. CASE FlushFails \/ Rewind
  BY <1>5, TypedRewinding
<1>6. CASE Close \/ Kill
  BY <1>6, TypedEnd
<1>7. CASE UNCHANGED vars
  BY <1>7, RestsTyped DEF TInv, vars, sourceVars, sourceLog, connVars, bridgeVars, sinkVars, ghostVars
<1> QED
  BY <1>1, <1>2, <1>3, <1>4, <1>5, <1>6, <1>7 DEF Next, Source, Thread

(* Every variable of the bridge, of its producer, of its file and of the   *)
(* source keeps its type in every reachable state; the producer's queue    *)
(* never exceeds its limit.  This holds whenever a signal comes.           *)
THEOREM TypeCorrect == Spec => []TypeOK
<1>1. Init => TInv
  BY TypedInit
<1>2. TInv /\ [Next]_vars => TInv'
  BY TypedStep
<1>3. TInv => TypeOK
  BY TypedIsTypeOK
<1> QED
  BY <1>1, <1>2, <1>3, PTL DEF Spec

-----------------------------------------------------------------------------
(* What is accounted for.                                                  *)

(* Moving over a frame covers the events it stands for. *)
LEMMA UptoExtends ==
  ASSUME NEW w, NEW b \in Nat, NEW a \in Nat, NEW S,
         Upto(w, b) \subseteq S, {Event(w, n) : n \in (b + 1)..a} \subseteq S
  PROVE  Upto(w, a) \subseteq S
<1> SUFFICES ASSUME NEW n \in 1..a PROVE Event(w, n) \in S
  BY DEF Upto
<1>1. n \in 1..b \/ n \in (b + 1)..a
  OBVIOUS
<1> QED
  BY <1>1 DEF Upto

LEMMA UptoNames ==
  ASSUME NEW w, NEW n \in Nat
  PROVE  /\ n > 0 => Event(w, n) \in Upto(w, n)
         /\ \A e \in Upto(w, n) : e.world = w
         /\ \A k \in Nat : k <= n => Upto(w, k) \subseteq Upto(w, n)
<1>1. n > 0 => n \in 1..n
  OBVIOUS
<1>2. \A k \in Nat : k <= n => \A i \in 1..k : i \in 1..n
  OBVIOUS
<1> QED
  BY <1>1, <1>2 DEF Upto, Event

LEMMA NumberedInit == Init => Numbered /\ NothingInvented
<1> SUFFICES ASSUME Init PROVE Numbered /\ NothingInvented
  OBVIOUS
<1>1. Len(<<>>) = 0 /\ 1..0 = {}
  BY EmptySeq
<1> QED
  BY <1>1 DEF Init, LogInit, Numbered, NothingInvented, Upto, Settled, Pending

LEMMA StandingInit == Init => PositionsAgree /\ StreamContinues /\ Accounted /\ CheckpointSound
  BY DEF Init, PositionsAgree, StreamContinues, Accounted, CheckpointSound

LEMMA InvInit == Init => IInv
  BY TypedInit, NumberedInit, StandingInit DEF IInv

(* Publishing and a reset of the source number events; nothing else does. *)
LEMMA NumberedStep == TInv /\ Numbered /\ [Next]_vars => Numbered'
<1> USE EventLogAssumption, BridgeAssumption
<1> SUFFICES ASSUME TInv, Numbered, [Next]_vars PROVE Numbered'
  OBVIOUS
<1>1. log_seq \in Nat /\ world \in Nat
  BY DEF TInv, LogInv, LogTypeOK, SourceTyped
<1>2. ASSUME NEW k \in 1..MaxSeq, Publish(k) PROVE Numbered'
  <2>1. /\ log_seq' = log_seq + k /\ world' = world
        /\ published' = published \cup Upto(world, log_seq + k)
    BY <1>2 DEF Publish, Append_
  <2>2. PICK top \in Nat : top = log_seq + k
    BY <1>1
  <2>3. \A e \in Upto(world, top) : e.world = world
    BY <2>2, UptoNames
  <2> QED
    BY <1>1, <2>1, <2>2, <2>3 DEF Numbered
<1>3. CASE SourceReset
  <2>1. world' = world + 1 /\ log_seq' = 0 /\ published' = published
    BY <1>3 DEF SourceReset
  <2>2. Upto(world + 1, 0) = {}
    BY DEF Upto
  <2>3. \A e \in published : e.world <= world + 1
    <3> SUFFICES ASSUME NEW e \in published PROVE e.world <= world + 1
      OBVIOUS
    <3>1. e.world \in Nat /\ e.world <= world
      BY DEF TInv, EventsTyped, EventSet, Event, Numbered
    <3> QED
      BY <1>1, <3>1
  <2> QED
    BY <2>1, <2>2, <2>3 DEF Numbered
<1>4. ASSUME UNCHANGED <<log_seq, world, published>> PROVE Numbered'
  BY <1>4 DEF Numbered
<1>5. CASE Serve \/ SourceStops \/ Drop
  BY <1>4, <1>5 DEF Serve, SourceStops, Drop, sourceVars, sourceLog, logVars, ghostVars
<1>6. CASE \E m \in queue : Ack(m) \/ Fail(m)
  BY <1>4, <1>6 DEF Ack, Fail, sourceVars, sourceLog, logVars, ghostVars
<1>7. CASE Start \/ ResumePoint \/ OpenStream \/ OpenFails \/ HandleGap \/ HandleEvent
  BY <1>4, <1>7 DEF Start, ResumePoint, OpenStream, OpenFails, HandleGap, HandleEvent,
                    sourceVars, sourceLog, logVars, ghostVars
<1>8. CASE Checkpoint \/ FlushFails \/ Rewind \/ StreamEnds \/ Sigterm
  BY <1>4, <1>8 DEF Checkpoint, FlushFails, Rewind, StreamEnds, Sigterm,
                    sourceVars, sourceLog, logVars, ghostVars
<1>9. CASE Close \/ Kill
  BY <1>4, <1>9 DEF Close, Kill, Exit, sourceVars, sourceLog, logVars, ghostVars
<1>10. CASE UNCHANGED vars
  BY <1>4, <1>10 DEF vars, sourceVars, sourceLog, logVars, ghostVars
<1>11. CASE SourceStarts
  <2>1. world' = world /\ published' = published /\ log_seq' \in state_seq..log_seq
    BY <1>11 DEF SourceStarts, ghostVars
  <2>2. PICK n \in Nat : n = log_seq' /\ n <= log_seq
    BY <1>1, <2>1 DEF TInv, SourceTyped
  <2>3. Upto(world, n) \subseteq Upto(world, log_seq)
    BY <1>1, <2>2, UptoNames
  <2> QED
    BY <2>1, <2>2, <2>3 DEF Numbered
<1> QED
  BY <1>2, <1>3, <1>5, <1>6, <1>7, <1>8, <1>9, <1>10, <1>11 DEF Next, Source, Thread

(* Only what the source has numbered is sent, copied or reported. *)
LEMMA WireKnown ==
  ASSUME NothingInvented, published \subseteq published',
         Settled' \cup Pending' \subseteq published',
         pipe' \in {pipe, <<>>}
  PROVE  NothingInvented'
<1>1. Len(<<>>) = 0 /\ 1..0 = {}
  BY EmptySeq
<1> QED
  BY <1>1 DEF NothingInvented

LEMMA InventsNothing ==
  ASSUME TInv, Numbered, NothingInvented, [Next]_vars
  PROVE  NothingInvented'
<1> USE EventLogAssumption, BridgeAssumption
<1>1. /\ FramesTyped /\ log_seq \in Nat /\ log_seq <= MaxSeq /\ world \in 1..MaxWorlds
      /\ Settled \cup Pending \subseteq published
  BY DEF TInv, LogInv, LogTypeOK, SourceTyped, NothingInvented
<1>2. ASSUME published \subseteq published', UNCHANGED <<kafka, lost, skipped, queue>>,
             failed' \subseteq failed, pipe' \in {pipe, <<>>}
      PROVE  NothingInvented'
  <2>1. Settled' \cup Pending' \subseteq Settled \cup Pending
    BY <1>2 DEF Settled, Pending
  <2> QED
    BY <1>1, <1>2, <2>1, WireKnown
<1>3. ASSUME NEW k \in 1..MaxSeq, Publish(k) PROVE NothingInvented'
  BY <1>2, <1>3 DEF Publish, connVars, sinkVars
<1>4. CASE Serve
  <2>1. UNCHANGED <<kafka, lost, skipped, queue, failed, published>>
    BY <1>4 DEF Serve, sinkVars, ghostVars
  <2>2. Settled' = Settled /\ Pending' = Pending
    BY <2>1 DEF Settled, Pending
  <2>3. ASSUME NEW i \in 1..Len(pipe') PROVE Covers(pipe'[i]) \subseteq published
    <3>1. /\ pipe'[i].world = world /\ Before(pipe'[i]) \in Nat
          /\ After(pipe'[i]) <= log_seq
      BY <1>4, BatchChained
    <3>2. pipe'[i] \in Frames
      BY <1>4, BatchChained, ElementOfSeq
    <3>3. After(pipe'[i]) \in Nat
      BY <3>2, FrameParts
    <3>4. ASSUME NEW n \in (Before(pipe'[i]) + 1)..After(pipe'[i])
          PROVE  Event(world, n) \in published
      <4>1. n \in 1..log_seq
        BY <1>1, <3>1, <3>3
      <4> QED
        BY <4>1 DEF Numbered, Upto
    <3> QED
      BY <3>1, <3>4 DEF Covers
  <2> QED
    BY <1>1, <2>1, <2>2, <2>3 DEF NothingInvented
<1>5. CASE SourceStops \/ SourceStarts \/ SourceReset \/ Drop
  BY <1>2, <1>5 DEF SourceStops, SourceStarts, SourceReset, Drop, Disconnect,
                    connVars, sinkVars, ghostVars
<1>6. CASE \E m \in queue : Ack(m) \/ Fail(m)
  <2>1. PICK m \in queue : Ack(m) \/ Fail(m)
    BY <1>6
  <2>2. /\ UNCHANGED <<lost, skipped, published, pipe>> /\ queue' = queue \ {m}
        /\ kafka' \subseteq kafka \cup {Written(m)} /\ failed' \subseteq failed \cup {m}
    BY <2>1 DEF Ack, Fail, connVars, ghostVars
  <2>3. Settled' \cup Pending' \subseteq Settled \cup Pending
    BY <2>2 DEF Settled, Pending
  <2> QED
    BY <1>1, <2>2, <2>3, WireKnown
<1>7. CASE OpenStream
  <2>1. /\ UNCHANGED <<kafka, lost, queue, failed, published>> /\ pipe' = <<>>
        /\ skipped' \subseteq skipped \cup Upto(world, log_seq)
    BY <1>7 DEF OpenStream, sinkVars
  <2>2. Settled' \cup Pending' \subseteq Settled \cup Pending \cup Upto(world, log_seq)
    BY <2>1 DEF Settled, Pending
  <2>3. Settled' \cup Pending' \subseteq published
    BY <1>1, <2>2 DEF Numbered
  <2> QED
    BY <2>1, <2>3, WireKnown
<1>8. CASE HandleGap \/ HandleEvent
  <2>1. pipe # <<>> /\ pipe' \in {Tail(pipe), <<>>} /\ published' = published
    BY <1>8 DEF HandleGap, HandleEvent, Disconnect, ghostVars
  <2>2. /\ Head(pipe) = pipe[1] /\ 1 \in 1..Len(pipe)
        /\ \A i \in 1..Len(Tail(pipe)) : Tail(pipe)[i] = pipe[i + 1] /\ i + 1 \in 1..Len(pipe)
        /\ Head(pipe) \in Frames
    BY <1>1, <2>1, FrameInHand
  <2>3. Covers(Head(pipe)) \subseteq published
    BY <2>2 DEF NothingInvented
  <2>4. Settled' \cup Pending' \subseteq Settled \cup Pending \cup Covers(Head(pipe))
    <3>1. CASE HandleGap
      <4>1. /\ UNCHANGED <<kafka, skipped, queue, failed>>
            /\ lost' = lost \cup {Event(Head(pipe).world, n) :
                                    n \in (Head(pipe).after + 1)..(Head(pipe).oldest - 1)}
            /\ Head(pipe).kind = "gap"
        BY <3>1 DEF HandleGap, sinkVars
      <4>2. lost' = lost \cup Covers(Head(pipe))
        BY <4>1 DEF Covers, Before, After
      <4> QED
        BY <4>1, <4>2 DEF Settled, Pending
    <3>2. CASE HandleEvent
      <4>1. /\ UNCHANGED <<kafka, lost, skipped, failed>>
            /\ queue' = queue \cup {[world |-> Head(pipe).world, seq |-> Head(pipe).seq,
                                     attempt |-> attempt]}
            /\ Head(pipe).kind = "event"
        BY <3>2 DEF HandleEvent, Send, ghostVars
      <4>2. Head(pipe).seq \in Nat
        BY <2>2, <4>1, FrameParts
      <4>3. Event(Head(pipe).world, Head(pipe).seq) \in Covers(Head(pipe))
        BY <4>1, <4>2 DEF Covers, Before, After
      <4> QED
        BY <4>1, <4>3 DEF Settled, Pending, Written
    <3> QED
      BY <1>8, <3>1, <3>2
  <2>5. \A i \in 1..Len(pipe') : Covers(pipe'[i]) \subseteq published
    <3>1. Len(<<>>) = 0 /\ 1..0 = {}
      BY EmptySeq
    <3> QED
      BY <2>1, <2>2, <3>1 DEF NothingInvented
  <2> QED
    BY <1>1, <2>1, <2>3, <2>4, <2>5 DEF NothingInvented
<1>9. CASE Start \/ ResumePoint \/ OpenFails \/ Checkpoint \/ FlushFails \/ Rewind \/ StreamEnds
  BY <1>2, <1>9 DEF Start, ResumePoint, OpenFails, Checkpoint, FlushFails, Rewind, StreamEnds,
                    Disconnect, connVars, sinkVars, ghostVars
<1>10. CASE Sigterm
  BY <1>2, <1>10 DEF Sigterm, Disconnect, connVars, sinkVars, ghostVars
<1>11. CASE Close \/ Kill
  <2>1. Exit
    BY <1>11 DEF Close, Kill
  <2>2. /\ queue' = {} /\ failed' = {} /\ pipe' = <<>> /\ UNCHANGED <<published, lost, skipped>>
    BY <2>1 DEF Exit, Disconnect, ghostVars
  <2>3. PICK some \in SUBSET queue : kafka' = kafka \cup {Written(m) : m \in some}
    BY <2>1 DEF Exit
  <2>4. Settled' \cup Pending' \subseteq Settled \cup Pending
    BY <2>2, <2>3 DEF Settled, Pending
  <2> QED
    BY <1>1, <2>2, <2>4, WireKnown
<1>12. CASE UNCHANGED vars
  BY <1>2, <1>12 DEF vars, connVars, sinkVars, ghostVars
<1> QED
  BY <1>3, <1>4, <1>5, <1>6, <1>7, <1>8, <1>9, <1>10, <1>11, <1>12 DEF Next, Source, Thread

-----------------------------------------------------------------------------
(* Where the bridge stands.                                                *)

Standing == PositionsAgree /\ StreamContinues /\ Accounted /\ CheckpointSound

(* The bridge's thread stays where it is, and nothing accounted for is lost. *)
LEMMA StandsStill ==
  ASSUME Standing, UNCHANGED <<world, live_starts, stale, pc, last_seq, saved_seq, resume, checkpoint>>,
         pipe' = pipe, conn' => conn /\ cursor' = cursor,
         Settled \subseteq Settled', Settled \cup Pending \subseteq Settled' \cup Pending'
  PROVE  Standing'
<1>1. PositionsAgree' /\ CheckpointSound' /\ Accounted'
  BY DEF Standing, PositionsAgree, CheckpointSound, Accounted, Pending, Relived
<1>2. conn' \/ pipe' # <<>> => Reached' = Reached
  BY DEF Reached
<1>3. Chained => Chained'
  BY DEF Chained
<1>4. StreamContinues'
  BY <1>2, <1>3 DEF Standing, StreamContinues, Relived
<1> QED
  BY <1>1, <1>4 DEF Standing

(* The bridge's thread leaves the stream, a connection attempt or the       *)
(* backoff; what it had to account for it still has, or is about to rewind. *)
LEMMA StandsAside ==
  ASSUME Standing, UNCHANGED <<world, live_starts, stale, last_seq, saved_seq, checkpoint>>,
         pc \notin {"down", "rewind"}, pc' \in {"connect", "close", "rewind"},
         Settled \subseteq Settled',
         pc' # "rewind" => Settled \cup Pending \subseteq Settled' \cup Pending'
  PROVE  Standing'
<1>1. PositionsAgree' /\ StreamContinues'
  BY DEF Standing, PositionsAgree, StreamContinues
<1>2. CheckpointSound' /\ Accounted'
  BY DEF Standing, CheckpointSound, Accounted, Pending, Relived
<1> QED
  BY <1>1, <1>2 DEF Standing

(* The frame in hand is passed on or reported: the stream goes on behind it. *)
LEMMA StandsBehindFrame ==
  ASSUME TInv, Standing, pc = "stream", pc' = "stream", pipe # <<>>, pipe' = Tail(pipe),
         UNCHANGED <<world, live_starts, stale, conn, cursor, saved_seq, checkpoint>>,
         last_seq' = After(Head(pipe)),
         Settled \subseteq Settled', Settled \cup Pending \subseteq Settled' \cup Pending',
         Covers(Head(pipe)) \subseteq Settled' \cup Pending'
  PROVE  Standing'
<1> USE EventLogAssumption, BridgeAssumption
<1> DEFINE f == Head(pipe)
<1>1. /\ f \in Frames /\ f = pipe[1] /\ Len(pipe) \in Nat \ {0}
      /\ Tail(pipe) \in Seq(Frames) /\ Len(Tail(pipe)) = Len(pipe) - 1
      /\ \A i \in 1..Len(Tail(pipe)) : Tail(pipe)[i] = pipe[i + 1] /\ i + 1 \in 1..Len(pipe)
      /\ Before(f) < After(f)
  BY FrameInHand DEF TInv
<1>2. Before(f) \in 0..MaxSeq /\ After(f) \in 0..MaxSeq
  BY <1>1, FrameParts
<1>3. After(f) # None /\ last_seq' # None
  BY <1>2
<1>4. ~stale =>
        /\ Chained /\ (~Relived => Upto(world, Before(f)) \subseteq Settled \cup Pending)
        /\ last_seq # None => last_seq = Before(f)
  BY <1>1 DEF Standing, StreamContinues, Reached
<1>5. ~stale /\ ~Relived => Upto(world, After(f)) \subseteq Settled' \cup Pending'
  <2> SUFFICES ASSUME ~stale, ~Relived PROVE Upto(world, After(f)) \subseteq Settled' \cup Pending'
    OBVIOUS
  <2>1. f.world = world
    BY <1>1, <1>4 DEF Chained
  <2>2. {Event(world, n) : n \in (Before(f) + 1)..After(f)} \subseteq Settled' \cup Pending'
    BY <2>1 DEF Covers
  <2>3. Upto(world, Before(f)) \subseteq Settled' \cup Pending'
    BY <1>4
  <2>4. PICK b \in Nat, a \in Nat : b = Before(f) /\ a = After(f)
    BY <1>2
  <2>5. Upto(world, b) \subseteq Settled' \cup Pending'
    BY <2>3, <2>4
  <2>6. {Event(world, n) : n \in (b + 1)..a} \subseteq Settled' \cup Pending'
    BY <2>2, <2>4
  <2>7. Upto(world, a) \subseteq Settled' \cup Pending'
    BY <2>5, <2>6, UptoExtends
  <2> QED
    BY <2>4, <2>7
<1>6. Accounted'
  BY <1>5 DEF Accounted, Pending, Relived
<1>7. CheckpointSound'
  BY DEF Standing, CheckpointSound, Relived
<1>8. PositionsAgree'
  <2>1. saved_seq' = checkpoint'
    BY DEF Standing, PositionsAgree
  <2>2. ASSUME ~stale, checkpoint # None PROVE checkpoint <= After(f)
    <3>1. last_seq # None /\ checkpoint <= last_seq /\ last_seq = Before(f)
      BY <1>4, <2>2 DEF Standing, PositionsAgree
    <3>2. checkpoint \in Nat
      BY <2>2 DEF TInv, ThreadTyped, Position
    <3> QED
      BY <1>1, <1>2, <3>1, <3>2
  <2> QED
    BY <1>3, <2>1, <2>2 DEF PositionsAgree
<1>9. StreamContinues'
  <2> SUFFICES ASSUME ~stale, conn \/ Tail(pipe) # <<>>
               PROVE  /\ Chained'
                      /\ ~Relived => Upto(world, Reached') \subseteq Settled' \cup Pending'
                      /\ last_seq' = Reached'
    BY DEF StreamContinues, Relived
  <2>1. Chained
    BY <1>4
  <2>2. CASE Tail(pipe) = <<>>
    <3>1. Len(Tail(pipe)) = 0 /\ Len(pipe) = 1 /\ 1..0 = {} /\ 1..(0 - 1) = {}
      BY <1>1, <2>2, EmptySeq
    <3>2. After(pipe[Len(pipe)]) = cursor
      BY <2>1, <2>2 DEF Chained
    <3>3. Reached' = After(f)
      BY <1>1, <2>2, <3>1, <3>2 DEF Reached
    <3>4. Chained'
      BY <2>2, <3>1 DEF Chained
    <3> QED
      BY <1>5, <3>3, <3>4
  <2>3. CASE Tail(pipe) # <<>>
    <3>1. PICK m \in Nat \ {0} : m = Len(Tail(pipe)) /\ Len(pipe) = m + 1
      <4>1. PICK t \in Seq(Frames) : t = Tail(pipe)
        BY <1>1
      <4>2. Len(t) \in Nat \ {0}
        BY <2>3, <4>1, SomethingLeft, Zenon
      <4> QED
        <5>1. Len(Tail(pipe)) \in Nat \ {0}
          BY <4>1, <4>2
        <5>2. Len(pipe) = Len(Tail(pipe)) + 1
          BY <1>1
        <5> QED
          BY <5>1, <5>2
    <3>2. /\ 1 \in 1..m /\ m \in 1..m /\ Len(pipe) - 1 = m
          /\ \A i \in 1..(m - 1) : i \in 1..m /\ i + 1 \in 1..m
      BY <3>1
    <3>3. Tail(pipe)[1] = pipe[2] /\ Before(pipe[2]) = After(pipe[1])
      <4>1. Tail(pipe)[1] = pipe[2]
        BY <1>1, <3>1, <3>2
      <4>2. PICK i \in 1..(Len(pipe) - 1) : i = 1
        BY <3>2
      <4>3. Before(pipe[i + 1]) = After(pipe[i])
        BY <2>1 DEF Chained
      <4>4. i + 1 = 2
        BY <4>2
      <4> QED
        BY <4>1, <4>2, <4>3, <4>4
    <3>4. Reached' = After(f)
      BY <1>1, <2>3, <3>3 DEF Reached
    <3>5. \A i \in 1..m : Tail(pipe)[i].world = world
      BY <1>1, <2>1, <3>1 DEF Chained
    <3>6. \A i \in 1..(m - 1) : Before(Tail(pipe)[i + 1]) = After(Tail(pipe)[i])
      <4> SUFFICES ASSUME NEW i \in 1..(m - 1)
                   PROVE  Before(Tail(pipe)[i + 1]) = After(Tail(pipe)[i])
        OBVIOUS
      <4>1. PICK j \in 1..(Len(pipe) - 1) : j = i + 1
        BY <3>2
      <4>2. Tail(pipe)[i] = pipe[j] /\ Tail(pipe)[i + 1] = pipe[j + 1]
        BY <1>1, <3>1, <3>2, <4>1
      <4>3. Before(pipe[j + 1]) = After(pipe[j])
        BY <2>1 DEF Chained
      <4> QED
        BY <4>2, <4>3
    <3>7. Tail(pipe)[m] = pipe[Len(pipe)]
      BY <1>1, <3>1, <3>2
    <3>8. Chained'
      BY <2>1, <3>1, <3>5, <3>6, <3>7 DEF Chained
    <3> QED
      BY <1>5, <3>4, <3>8
  <2> QED
    BY <2>2, <2>3
<1> QED
  BY <1>6, <1>7, <1>8, <1>9 DEF Standing

(* The source's own steps, and the connection's. *)
LEMMA SourceStands ==
  ASSUME TInv, Standing,
         \/ \E k \in 1..MaxSeq : Publish(k)
         \/ Serve \/ SourceStops \/ SourceStarts \/ SourceReset \/ Drop
  PROVE  Standing'
<1>1. UNCHANGED <<kafka, lost, skipped, queue, failed>> =>
        Settled' = Settled /\ Pending' = Pending
  BY DEF Settled, Pending
<1>2. CASE (\E k \in 1..MaxSeq : Publish(k)) \/ SourceStops \/ SourceStarts
  BY <1>1, <1>2, StandsStill
     DEF Publish, SourceStops, SourceStarts, connVars, bridgeVars, sinkVars, ghostVars
<1>3. CASE SourceReset
  <2>1. stale' = TRUE /\ UNCHANGED <<pc, last_seq, saved_seq, resume, checkpoint>>
    BY <1>3 DEF SourceReset, bridgeVars
  <2> QED
    BY <2>1 DEF Standing, PositionsAgree, StreamContinues, Accounted, CheckpointSound, Relived
<1>4. CASE Drop
  <2>1. /\ UNCHANGED <<world, live_starts, stale, pc, last_seq, saved_seq, resume, checkpoint>>
        /\ UNCHANGED <<kafka, lost, skipped, queue, failed>> /\ conn' = FALSE /\ pipe' = <<>>
    BY <1>4 DEF Drop, Disconnect, sourceVars, sourceLog, bridgeVars, sinkVars, ghostVars
  <2>2. Settled' = Settled /\ Pending' = Pending
    BY <1>1, <2>1
  <2> QED
    BY <2>1, <2>2 DEF Standing, PositionsAgree, StreamContinues, Accounted, CheckpointSound,
                      Pending, Relived
<1>5. CASE Serve
  <2>1. /\ UNCHANGED <<world, live_starts, stale, pc, last_seq, saved_seq, resume, checkpoint>>
        /\ UNCHANGED <<kafka, lost, skipped, queue, failed, conn>> /\ conn /\ pipe = <<>>
    BY <1>5 DEF Serve, sourceVars, sourceLog, bridgeVars, sinkVars, ghostVars
  <2>2. Settled' = Settled /\ Pending' = Pending
    BY <1>1, <2>1
  <2>3. /\ pipe' # <<>>
        /\ \A i \in 1..Len(pipe') : pipe'[i].world = world
        /\ \A i \in 1..(Len(pipe') - 1) : Before(pipe'[i + 1]) = After(pipe'[i])
        /\ Before(pipe'[1]) = cursor /\ After(pipe'[Len(pipe')]) = cursor'
    BY <1>5, BatchChained
  <2>4. Chained' /\ Reached' = Reached
    BY <2>1, <2>3 DEF Chained, Reached
  <2>5. StreamContinues'
    BY <2>1, <2>2, <2>4 DEF Standing, StreamContinues, Relived
  <2>6. PositionsAgree' /\ Accounted' /\ CheckpointSound'
    BY <2>1, <2>2 DEF Standing, PositionsAgree, Accounted, CheckpointSound, Pending, Relived
  <2> QED
    BY <2>5, <2>6 DEF Standing
<1> QED
  BY <1>2, <1>3, <1>4, <1>5

LEMMA BrokerStands ==
  ASSUME Standing, NEW m \in queue, Ack(m) \/ Fail(m)
  PROVE  Standing'
<1>1. /\ UNCHANGED <<world, live_starts, stale, pc, last_seq, saved_seq, resume, checkpoint>>
      /\ UNCHANGED <<cursor, pipe, conn, lost, skipped>>
      /\ queue' = queue \ {m} /\ kafka \subseteq kafka'
      /\ \/ Written(m) \in kafka' /\ failed' = failed
         \/ failed' = failed \cup {m}
  BY DEF Ack, Fail, sourceVars, sourceLog, connVars, bridgeVars, ghostVars
<1>2. Settled \subseteq Settled' /\ Settled \cup Pending \subseteq Settled' \cup Pending'
  <2>1. CASE failed' = failed /\ Written(m) \in kafka'
    BY <1>1, <2>1 DEF Settled, Pending
  <2>2. CASE failed' = failed \cup {m}
    BY <1>1, <2>2 DEF Settled, Pending
  <2> QED
    BY <1>1, <2>1, <2>2 DEF Settled
<1> QED
  BY <1>1, <1>2, StandsStill

(* The bridge's thread, but for the frames: from the start of the process   *)
(* to an open stream, to the checkpoint, and back to it after a failure.    *)
LEMMA ThreadStands ==
  ASSUME ~SignalInRewind, TInv, Standing,
         \/ Start \/ ResumePoint \/ OpenStream \/ OpenFails
         \/ Checkpoint \/ FlushFails \/ Rewind \/ StreamEnds \/ Sigterm
  PROVE  Standing'
<1> USE EventLogAssumption, BridgeAssumption
<1>1. UNCHANGED <<kafka, lost, skipped, queue, failed>> =>
        Settled' = Settled /\ Pending' = Pending
  BY DEF Settled, Pending
<1>2. /\ last_seq \in Position /\ checkpoint \in Position /\ 0 # None /\ log_seq \in Nat
  BY DEF TInv, ThreadTyped, LogInv, LogTypeOK
<1>3. CASE Start
  <2>1. /\ UNCHANGED <<world, live_starts, stale, checkpoint, kafka, lost, skipped, queue, failed>>
        /\ pc' = "connect" /\ last_seq' = checkpoint /\ saved_seq' = checkpoint
    BY <1>3 DEF Start, sourceVars, sourceLog, sinkVars, ghostVars
  <2>2. checkpoint # None => checkpoint <= checkpoint
    BY <1>2 DEF Position
  <2> QED
    BY <1>1, <2>1, <2>2
       DEF Standing, PositionsAgree, StreamContinues, Accounted, CheckpointSound, Pending, Relived
<1>4. CASE ResumePoint
  <2>1. /\ pc = "connect" /\ pc' = "open"
        /\ UNCHANGED <<world, live_starts, stale, kafka, lost, skipped, queue, failed>>
        /\ \/ /\ last_seq = None /\ resume' \in {0, None}
              /\ UNCHANGED <<last_seq, saved_seq, checkpoint>>
           \/ resume' = 0 /\ last_seq' = None /\ saved_seq' = None /\ checkpoint' = None
           \/ /\ last_seq # None /\ resume' = last_seq
              /\ UNCHANGED <<last_seq, saved_seq, checkpoint>>
    BY <1>4 DEF ResumePoint, sourceVars, sourceLog, sinkVars, ghostVars
  <2>2. PositionsAgree'
    BY <2>1 DEF Standing, PositionsAgree
  <2> QED
    BY <1>1, <2>1, <2>2 DEF Standing, StreamContinues, Accounted, CheckpointSound, Pending, Relived
<1>5. CASE OpenStream
  <2>1. /\ pc = "open" /\ pc' = "stream" /\ conn' = TRUE /\ pipe' = <<>>
        /\ UNCHANGED <<world, log_seq, last_seq, saved_seq, checkpoint>>
        /\ UNCHANGED <<kafka, lost, queue, failed>>
        /\ cursor' = IF resume = None THEN log_seq ELSE resume
        /\ live_starts' = IF resume # None THEN live_starts ELSE IF live_starts = 0 THEN 1 ELSE 2
        /\ skipped \subseteq skipped'
        /\ live_starts = 0 /\ live_starts' = 1 => Upto(world, log_seq) \subseteq skipped'
        /\ stale' = (stale /\ last_seq # None)
    BY <1>5 DEF OpenStream, sourceVars, sourceLog, logVars, bridgeVars, sinkVars
  <2>2. /\ Settled \subseteq Settled' /\ Pending' = Pending
        /\ Relived => Relived'
    BY <2>1 DEF Settled, Pending, Relived
  <2>3. last_seq = None => checkpoint = None
    BY <2>1 DEF Standing, PositionsAgree
  <2>4. PositionsAgree' /\ CheckpointSound' /\ Accounted'
    BY <2>1, <2>2, <2>3 DEF Standing, PositionsAgree, CheckpointSound, Accounted, Pending
  <2>5. Chained'
    <3>1. Len(<<>>) = 0 /\ 1..0 = {} /\ 1..(0 - 1) = {}
      BY EmptySeq
    <3> QED
      BY <2>1, <3>1 DEF Chained
  <2>6. StreamContinues'
    <3> SUFFICES ASSUME ~stale'
                 PROVE  /\ ~Relived' => Upto(world, cursor') \subseteq Settled' \cup Pending'
                        /\ last_seq # None => last_seq = cursor'
      BY <2>1, <2>5 DEF StreamContinues, Reached
    <3>1. CASE last_seq # None
      <4>1. resume = last_seq /\ cursor' = last_seq /\ ~stale
        BY <2>1, <3>1 DEF Standing, PositionsAgree
      <4>2. ~Relived => Upto(world, last_seq) \subseteq Settled \cup Pending
        BY <2>1, <3>1, <4>1 DEF Standing, Accounted, Pending
      <4> QED
        BY <2>2, <4>1, <4>2
    <3>2. CASE last_seq = None
      <4>1. resume \in {0, None}
        BY <2>1, <3>2 DEF Standing, PositionsAgree
      <4>2. Upto(world, 0) = {}
        BY DEF Upto
      <4>3. CASE resume = 0
        BY <1>2, <2>1, <3>2, <4>2, <4>3
      <4>4. ASSUME resume = None, ~Relived'
            PROVE  cursor' = log_seq /\ Upto(world, log_seq) \subseteq Settled'
        BY <2>1, <4>4 DEF Settled, Relived
      <4> QED
        BY <3>2, <4>1, <4>3, <4>4
    <3> QED
      BY <3>1, <3>2
  <2> QED
    BY <2>4, <2>6 DEF Standing
<1>6. CASE OpenFails \/ StreamEnds
  BY <1>1, <1>6, StandsAside
     DEF OpenFails, StreamEnds, sourceVars, sourceLog, bridgeVars, sinkVars, ghostVars
<1>7. CASE Sigterm
  <2>1. pc \notin {"down", "rewind"} /\ pc' = "close"
    BY <1>7 DEF Sigterm
  <2> QED
    BY <1>1, <1>7, <2>1, StandsAside DEF Sigterm, sourceVars, sourceLog, bridgeVars, sinkVars, ghostVars
<1>8. CASE FlushFails
  <2>1. /\ pc = "stream" /\ pc' = "rewind" /\ UNCHANGED <<kafka, lost, skipped>>
        /\ UNCHANGED <<world, live_starts, stale, last_seq, saved_seq, resume, checkpoint>>
    BY <1>8 DEF FlushFails, sourceVars, sourceLog, bridgeVars, ghostVars
  <2>2. Settled' = Settled
    BY <2>1 DEF Settled
  <2> QED
    BY <2>1, <2>2, StandsAside
<1>9. CASE Rewind
  <2>1. /\ pc = "rewind" /\ pc' = "connect" /\ last_seq' = saved_seq
        /\ UNCHANGED <<world, live_starts, stale, saved_seq, resume, checkpoint>>
        /\ UNCHANGED <<kafka, lost, skipped, queue, failed>>
    BY <1>9 DEF Rewind, sourceVars, sourceLog, ghostVars
  <2>2. saved_seq = checkpoint /\ (checkpoint # None => checkpoint <= checkpoint)
    BY <1>2, <2>1 DEF Standing, PositionsAgree, Position
  <2> QED
    BY <1>1, <2>1, <2>2
       DEF Standing, PositionsAgree, StreamContinues, Accounted, CheckpointSound, Pending, Relived
<1>10. CASE Checkpoint
  <2>1. /\ pc = "stream" /\ pc' = pc /\ last_seq # None /\ queue = {} /\ failed = {}
        /\ checkpoint' = last_seq /\ saved_seq' = last_seq
        /\ UNCHANGED <<world, live_starts, stale, last_seq, resume, cursor, pipe, conn>>
        /\ UNCHANGED <<kafka, lost, skipped, queue, failed>>
    BY <1>10 DEF Checkpoint, Unsaved, Flushed, sourceVars, sourceLog, connVars, sinkVars, ghostVars
  <2>2. Pending = {} /\ last_seq <= last_seq
    BY <1>2, <2>1 DEF Pending, Position
  <2>3. ~stale /\ ~Relived => Upto(world, last_seq) \subseteq Settled
    BY <2>1, <2>2 DEF Standing, Accounted, Pending
  <2>4. PositionsAgree' /\ CheckpointSound' /\ Accounted'
    BY <1>1, <2>1, <2>2, <2>3 DEF PositionsAgree, CheckpointSound, Accounted, Relived
  <2>5. Chained' = Chained /\ Reached' = Reached
    BY <2>1 DEF Chained, Reached
  <2>6. StreamContinues'
    BY <1>1, <2>1, <2>5 DEF Standing, StreamContinues, Relived
  <2> QED
    BY <2>4, <2>6 DEF Standing
<1> QED
  BY <1>3, <1>4, <1>5, <1>6, <1>7, <1>8, <1>9, <1>10

LEMMA FrameStands ==
  ASSUME TInv, Standing, HandleGap \/ HandleEvent
  PROVE  Standing'
<1>1. pc = "stream" /\ pipe # <<>> /\ Head(pipe) \in Frames
  BY FrameInHand DEF TInv, HandleGap, HandleEvent
<1>2. CASE HandleGap
  <2>1. /\ UNCHANGED <<world, live_starts, stale, pc, conn, cursor, saved_seq, checkpoint>>
        /\ UNCHANGED <<kafka, skipped, queue, failed>> /\ pipe' = Tail(pipe)
        /\ Head(pipe).kind = "gap" /\ last_seq' = Head(pipe).oldest - 1
        /\ lost' = lost \cup {Event(Head(pipe).world, n) :
                                n \in (Head(pipe).after + 1)..(Head(pipe).oldest - 1)}
    BY <1>2 DEF HandleGap, sourceVars, sourceLog, sinkVars
  <2>2. last_seq' = After(Head(pipe)) /\ lost' = lost \cup Covers(Head(pipe))
    BY <2>1 DEF After, Before, Covers
  <2>3. /\ Settled \subseteq Settled' /\ Settled \cup Pending \subseteq Settled' \cup Pending'
        /\ Covers(Head(pipe)) \subseteq Settled' \cup Pending'
    BY <2>1, <2>2 DEF Settled, Pending
  <2> QED
    BY <1>1, <2>1, <2>2, <2>3, StandsBehindFrame
<1>3. CASE HandleEvent
  <2>1. /\ UNCHANGED <<world, live_starts, stale, saved_seq, checkpoint>>
        /\ UNCHANGED <<kafka, lost, skipped, failed>> /\ Head(pipe).kind = "event"
        /\ queue' = queue \cup {[world |-> Head(pipe).world, seq |-> Head(pipe).seq,
                                 attempt |-> attempt]}
        /\ \/ /\ last_seq' = Head(pipe).seq /\ pc' = pc /\ pipe' = Tail(pipe)
              /\ UNCHANGED <<conn, cursor>>
           \/ last_seq' = last_seq /\ pc' = "close"
    BY <1>3 DEF HandleEvent, Send, sourceVars, sourceLog, ghostVars
  <2>2. Settled \subseteq Settled' /\ Settled \cup Pending \subseteq Settled' \cup Pending'
    BY <2>1 DEF Settled, Pending
  <2>3. CASE /\ last_seq' = Head(pipe).seq /\ pc' = pc /\ pipe' = Tail(pipe)
             /\ UNCHANGED <<conn, cursor>>
    <3>1. Head(pipe).seq \in Nat
      BY <1>1, <2>1, FrameParts, EventLogAssumption
    <3>2. last_seq' = After(Head(pipe))
      BY <2>1, <2>3 DEF After
    <3>3. \A n \in (Head(pipe).seq - 1 + 1)..Head(pipe).seq : n = Head(pipe).seq
      BY <3>1
    <3>4. Covers(Head(pipe)) \subseteq {Event(Head(pipe).world, Head(pipe).seq)}
      BY <2>1, <3>3 DEF Covers, Before, After
    <3>5. Event(Head(pipe).world, Head(pipe).seq) \in Pending'
      <4>1. PICK m \in queue' : m = [world |-> Head(pipe).world, seq |-> Head(pipe).seq,
                                     attempt |-> attempt]
        BY <2>1
      <4>2. m.world = Head(pipe).world /\ m.seq = Head(pipe).seq
        BY <4>1
      <4>3. Written(m) \in Pending'
        BY DEF Pending, Written
      <4> QED
        BY <4>2, <4>3 DEF Written
    <3> QED
      BY <1>1, <2>1, <2>2, <2>3, <3>2, <3>4, <3>5, StandsBehindFrame
  <2>4. CASE last_seq' = last_seq /\ pc' = "close"
    BY <1>1, <2>1, <2>2, <2>4, StandsAside
  <2> QED
    BY <2>1, <2>3, <2>4
<1> QED
  BY <1>2, <1>3

(* The process ends: what its last flush confirmed, and no more, is saved. *)
LEMMA EndStands ==
  ASSUME TInv, Standing, Close \/ Kill
  PROVE  Standing'
<1>1. /\ pc' = "down" /\ last_seq' = None /\ saved_seq' = None
      /\ UNCHANGED <<world, lost, skipped, live_starts, stale>> /\ kafka \subseteq kafka'
  BY DEF Close, Kill, Exit, sourceVars, sourceLog, ghostVars
<1>2. PositionsAgree' /\ StreamContinues' /\ Accounted'
  BY <1>1 DEF PositionsAgree, StreamContinues, Accounted
<1>3. CheckpointSound'
  <2>1. CASE checkpoint' = checkpoint
    BY <1>1, <2>1 DEF Standing, CheckpointSound, Settled, Relived
  <2>2. CASE pc = "close" /\ checkpoint' = last_seq /\ last_seq # None /\ queue = {} /\ failed = {}
    <3>1. Pending = {}
      BY <2>2 DEF Pending
    <3>2. ~stale /\ ~Relived => Upto(world, last_seq) \subseteq Settled
      BY <2>2, <3>1 DEF Standing, Accounted, Pending
    <3> QED
      BY <1>1, <2>2, <3>2 DEF CheckpointSound, Settled, Relived
  <2> QED
    BY <2>1, <2>2 DEF Close, Kill, Unsaved, Flushed
<1> QED
  BY <1>2, <1>3 DEF Standing

LEMMA InvStep == ASSUME ~SignalInRewind PROVE IInv /\ [Next]_vars => IInv'
<1> SUFFICES ASSUME IInv, [Next]_vars PROVE IInv'
  OBVIOUS
<1>1. TInv /\ Numbered /\ NothingInvented /\ Standing
  BY DEF IInv, Standing
<1>2. TInv' /\ Numbered' /\ NothingInvented'
  BY <1>1, TypedStep, NumberedStep, InventsNothing
<1>3. CASE \/ \E k \in 1..MaxSeq : Publish(k)
           \/ Serve \/ SourceStops \/ SourceStarts \/ SourceReset \/ Drop
  BY <1>1, <1>2, <1>3, SourceStands DEF Standing, IInv
<1>4. CASE \E m \in queue : Ack(m) \/ Fail(m)
  BY <1>1, <1>2, <1>4, BrokerStands DEF Standing, IInv
<1>5. CASE \/ Start \/ ResumePoint \/ OpenStream \/ OpenFails
           \/ Checkpoint \/ FlushFails \/ Rewind \/ StreamEnds \/ Sigterm
  BY <1>1, <1>2, <1>5, ThreadStands DEF Standing, IInv
<1>6. CASE HandleGap \/ HandleEvent
  BY <1>1, <1>2, <1>6, FrameStands DEF Standing, IInv
<1>7. CASE Close \/ Kill
  BY <1>1, <1>2, <1>7, EndStands DEF Standing, IInv
<1>8. CASE UNCHANGED vars
  <2>1. Standing'
    BY <1>1, <1>8, StandsStill
       DEF vars, sourceVars, sourceLog, connVars, bridgeVars, sinkVars, ghostVars, Settled, Pending
  <2> QED
    BY <1>2, <2>1 DEF Standing, IInv
<1> QED
  BY <1>3, <1>4, <1>5, <1>6, <1>7, <1>8 DEF Next, Source, Thread

LEMMA Invariance == ASSUME ~SignalInRewind PROVE Spec => []IInv
<1>1. IInv /\ [Next]_vars => IInv'
  BY InvStep
<1> QED
  BY <1>1, InvInit, PTL DEF Spec

(* bridge.py:54-55: every event up to the position in memory is settled,   *)
(* or the producer still has it to report on, or has reported its failure  *)
(* to the flush that will see it; unless a signal can cut off a rewind, and *)
(* until the stream has been opened live a second time (the run of         *)
(* BridgeLive.cfg).                                                         *)
THEOREM EveryEventAccounted == ASSUME ~SignalInRewind PROVE Spec => []Accounted
<1>1. IInv => Accounted
  BY DEF IInv
<1> QED
  BY <1>1, Invariance, PTL

(* checkpoint.py:1-6: whenever the process dies, a restart from the        *)
(* checkpoint file misses no event of the world it belongs to, also when    *)
(* the source comes back without the end of its log; unless a signal can    *)
(* cut off a rewind (the run of BridgeSignal.cfg), and until the stream has *)
(* been opened live a second time (the run of BridgeLive.cfg).              *)
THEOREM CheckpointNeverAhead == ASSUME ~SignalInRewind PROVE Spec => []CheckpointSound
<1>1. IInv => CheckpointSound
  BY DEF IInv
<1> QED
  BY <1>1, Invariance, PTL

-----------------------------------------------------------------------------
(* The bridge implements AtLeastOnce.                                      *)

(* Where a restart would begin, in the world the source numbers now, so     *)
(* long as anything is promised of it.                                     *)
RestartAt == IF checkpoint = None \/ stale \/ Relived THEN 0 ELSE checkpoint

LEMMA RefinesInit == Init => ALO!Init
  BY DEF Init, LogInit, ALO!Init

(* A step that leaves the numbering and the restart alone: events come to  *)
(* Kafka, or events are excused, or neither.                               *)
LEMMA RefinesInPlace ==
  ASSUME NothingInvented', UNCHANGED <<world, log_seq, published>>, RestartAt' = RestartAt,
         \/ kafka \subseteq kafka' /\ UNCHANGED <<lost, skipped>>
         \/ UNCHANGED kafka /\ lost \subseteq lost' /\ skipped \subseteq skipped'
  PROVE  [ALO!Next]_(ALO!avars)
<1>1. kafka' \subseteq published /\ lost' \cup skipped' \subseteq published
  BY DEF NothingInvented, Settled
<1>2. CASE kafka \subseteq kafka' /\ UNCHANGED <<lost, skipped>>
  <2>1. ALO!Deliver
    BY <1>1, <1>2 DEF ALO!Deliver, RestartAt
  <2> QED
    BY <2>1 DEF ALO!Next
<1>3. CASE UNCHANGED kafka /\ lost \subseteq lost' /\ skipped \subseteq skipped'
  <2>1. ALO!Excuse
    BY <1>1, <1>3 DEF ALO!Excuse, RestartAt
  <2> QED
    BY <2>1 DEF ALO!Next
<1> QED
  BY <1>2, <1>3

(* The position is saved when a flush has confirmed all there was: it moves *)
(* forward, or stays where it was.                                          *)
LEMMA RefinesSave ==
  ASSUME IInv, pc \notin {"down", "rewind"}, Unsaved, Flushed, checkpoint' = last_seq,
         UNCHANGED <<world, log_seq, published, kafka, lost, skipped, live_starts, stale>>
  PROVE  [ALO!Next]_(ALO!avars)
<1>1. CASE stale \/ Relived
  BY <1>1 DEF ALO!avars, Relived
<1>2. CASE ~stale /\ ~Relived
  <2>1. /\ last_seq # None /\ last_seq \in Nat /\ checkpoint \in Position
        /\ checkpoint # None => checkpoint \in Nat /\ checkpoint <= last_seq
    BY <1>2, EventLogAssumption
       DEF Unsaved, IInv, TInv, ThreadTyped, Position, PositionsAgree
  <2>2. Upto(world, last_seq) \subseteq kafka \cup (lost \cup skipped)
    BY <1>2, <2>1 DEF IInv, Accounted, Flushed, Settled
  <2>3. PICK here \in Nat : here = RestartAt /\ here <= last_seq
    BY <1>2, <2>1 DEF RestartAt
  <2>4. RestartAt' = last_seq
    BY <1>2, <2>1 DEF RestartAt, Relived
  <2>5. CASE here = last_seq
    BY <2>3, <2>4, <2>5 DEF ALO!avars, RestartAt
  <2>6. CASE here # last_seq
    <3>1. last_seq > here
      BY <2>1, <2>3, <2>6
    <3>2. \A n \in 1..last_seq : ALO!Event(n) \in kafka \cup (lost \cup skipped)
      BY <2>2 DEF Upto, Event, ALO!Event
    <3>3. ALO!Advance
      BY <2>3, <2>4, <3>1, <3>2 DEF ALO!Advance, RestartAt
    <3> QED
      BY <3>3 DEF ALO!Next
  <2> QED
    BY <2>5, <2>6
<1> QED
  BY <1>1, <1>2

(* A position the source has not reached is of an older world, where        *)
(* nothing below it was saved in this one; or the source has numbered it,   *)
(* and its log has fallen back since: then copying starts over.             *)
LEMMA RefinesStartOver ==
  ASSUME IInv, pc = "connect", last_seq # None, last_seq > log_seq, checkpoint' = None,
         UNCHANGED <<world, log_seq, published, kafka, lost, skipped, live_starts, stale>>
  PROVE  [ALO!Next]_(ALO!avars)
<1>1. RestartAt' = 0
  BY DEF RestartAt
<1>2. CASE RestartAt = 0
  BY <1>1, <1>2 DEF ALO!avars, RestartAt
<1>3. CASE RestartAt # 0
  <2>1. ~stale /\ ~Relived
    BY <1>3 DEF RestartAt
  <2>2. last_seq \in Nat /\ log_seq \in Nat /\ last_seq > 0
    BY EventLogAssumption, BridgeAssumption
       DEF IInv, TInv, ThreadTyped, Position, LogInv, LogTypeOK
  <2>3. Upto(world, last_seq) \subseteq published
    BY <2>1 DEF IInv, Accounted, NothingInvented, Pending
  <2>4. Event(world, last_seq) \in published
    BY <2>2, <2>3, UptoNames
  <2>5. PICK e \in published : e.world = world /\ e.seq > log_seq
    BY <2>4 DEF Event
  <2>6. ALO!StartOver
    BY <1>1, <2>5 DEF ALO!StartOver, RestartAt
  <2> QED
    BY <2>6 DEF ALO!Next
<1> QED
  BY <1>2, <1>3

(* The source comes back, with the end of its log or without. *)
LEMMA RefinesSourceStarts ==
  ASSUME IInv, SourceStarts
  PROVE  [ALO!Next]_(ALO!avars)
<1>1. /\ UNCHANGED <<world, published, kafka, lost, skipped, checkpoint, live_starts, stale>>
      /\ log_seq' \in state_seq..log_seq
  BY DEF SourceStarts, ghostVars
<1>2. RestartAt' = RestartAt
  BY <1>1 DEF RestartAt, Relived
<1>3. log_seq \in Nat /\ state_seq \in Nat
  BY DEF IInv, TInv, LogInv, LogTypeOK, SourceTyped
<1>4. CASE log_seq' = log_seq
  BY <1>1, <1>2, <1>4 DEF ALO!avars, RestartAt
<1>5. CASE log_seq' # log_seq
  <2>1. log_seq' < log_seq
    BY <1>1, <1>3, <1>5
  <2>2. ALO!FallBack
    BY <1>1, <1>2, <2>1 DEF ALO!FallBack, RestartAt
  <2> QED
    BY <2>2 DEF ALO!Next
<1> QED
  BY <1>4, <1>5

LEMMA RefinesStep ==
  ASSUME IInv, IInv', [Next]_vars
  PROVE  [ALO!Next]_(ALO!avars)
<1>1. NothingInvented'
  BY DEF IInv
<1>2. ASSUME NEW k \in 1..MaxSeq, Publish(k) PROVE [ALO!Next]_(ALO!avars)
  <2>1. /\ log_seq' = log_seq + k /\ published' = published \cup Upto(world, log_seq + k)
        /\ UNCHANGED <<world, kafka, lost, skipped, checkpoint, live_starts, stale>>
    BY <1>2 DEF Publish, Append_
  <2>2. log_seq \in Nat
    BY DEF IInv, TInv, LogInv, LogTypeOK
  <2>3. log_seq' > log_seq
    BY <2>1, <2>2
  <2>4. published' = published \cup {ALO!Event(n) : n \in 1..log_seq'}
    BY <2>1 DEF Upto, Event, ALO!Event
  <2>5. ALO!Emit
    BY <2>1, <2>3, <2>4 DEF ALO!Emit, Relived
  <2> QED
    BY <2>5 DEF ALO!Next
<1>3. CASE SourceReset
  <2>1. ALO!NewWorld
    BY <1>3 DEF SourceReset, ALO!NewWorld
  <2> QED
    BY <2>1 DEF ALO!Next
<1>4. CASE Serve \/ SourceStops \/ Drop
  <2>1. UNCHANGED <<world, log_seq, published, kafka, lost, skipped, checkpoint, live_starts, stale>>
    BY <1>4 DEF Serve, SourceStops, Drop, sourceVars, sourceLog, logVars, ghostVars
  <2> QED
    BY <2>1 DEF ALO!avars, Relived
<1>5. CASE \E m \in queue : Ack(m) \/ Fail(m)
  <2>1. /\ UNCHANGED <<world, log_seq, published, lost, skipped, checkpoint, live_starts, stale>>
        /\ kafka \subseteq kafka'
    BY <1>5 DEF Ack, Fail, sourceVars, sourceLog, logVars, ghostVars
  <2> QED
    BY <1>1, <2>1, RefinesInPlace DEF RestartAt, Relived
<1>6. CASE ResumePoint
  <2>1. /\ UNCHANGED <<world, log_seq, published, kafka, lost, skipped, live_starts, stale>>
        /\ pc = "connect"
        /\ \/ checkpoint' = checkpoint
           \/ last_seq # None /\ last_seq > log_seq /\ checkpoint' = None
    BY <1>6 DEF ResumePoint, Ahead, sourceVars, sourceLog, logVars, ghostVars
  <2>2. CASE checkpoint' = checkpoint
    BY <2>1, <2>2 DEF ALO!avars, Relived
  <2>3. CASE last_seq # None /\ last_seq > log_seq /\ checkpoint' = None
    BY <2>1, <2>3, RefinesStartOver
  <2> QED
    BY <2>1, <2>2, <2>3
<1>7. CASE OpenStream
  <2>1. /\ UNCHANGED <<world, log_seq, published, kafka, lost, checkpoint>>
        /\ skipped \subseteq skipped' /\ stale' = (stale /\ last_seq # None)
        /\ resume # None => live_starts' = live_starts
        /\ pc = "open"
    BY <1>7 DEF OpenStream, sourceVars, sourceLog, logVars
  <2>2. /\ last_seq = None => checkpoint = None
        /\ last_seq # None => resume = last_seq
    BY <2>1 DEF IInv, PositionsAgree
  <2>3. RestartAt' = RestartAt
    BY <2>1, <2>2 DEF RestartAt, Relived
  <2> QED
    BY <1>1, <2>1, <2>3, RefinesInPlace
<1>8. CASE HandleGap
  <2>1. /\ UNCHANGED <<world, log_seq, published, kafka, skipped, checkpoint, live_starts, stale>>
        /\ lost \subseteq lost'
    BY <1>8 DEF HandleGap, sourceVars, sourceLog, logVars
  <2> QED
    BY <1>1, <2>1, RefinesInPlace DEF RestartAt, Relived
<1>9. CASE Checkpoint
  BY <1>9, RefinesSave DEF Checkpoint, sourceVars, sourceLog, logVars, ghostVars
<1>10. CASE Start \/ OpenFails \/ HandleEvent \/ FlushFails \/ Rewind \/ StreamEnds
  <2>1. UNCHANGED <<world, log_seq, published, kafka, lost, skipped, checkpoint, live_starts, stale>>
    BY <1>10 DEF Start, OpenFails, HandleEvent, FlushFails, Rewind, StreamEnds,
                 sourceVars, sourceLog, logVars, ghostVars
  <2> QED
    BY <2>1 DEF ALO!avars, Relived
<1>11. CASE Sigterm \/ UNCHANGED vars
  <2>1. UNCHANGED <<world, log_seq, published, kafka, lost, skipped, checkpoint, live_starts, stale>>
    BY <1>11 DEF Sigterm, vars, sourceVars, sourceLog, logVars, ghostVars
  <2> QED
    BY <2>1 DEF ALO!avars, Relived
<1>12. CASE Close \/ Kill
  <2>1. /\ UNCHANGED <<world, log_seq, published, lost, skipped, live_starts, stale>>
        /\ kafka \subseteq kafka'
        /\ queue = {} => kafka' = kafka
    BY <1>12 DEF Close, Kill, Exit, sourceVars, sourceLog, logVars, ghostVars
  <2>2. CASE checkpoint' = checkpoint
    BY <1>1, <2>1, <2>2, RefinesInPlace DEF RestartAt, Relived
  <2>3. CASE pc = "close" /\ Unsaved /\ Flushed /\ checkpoint' = last_seq
    BY <2>1, <2>3, RefinesSave DEF Flushed
  <2> QED
    BY <1>12, <2>2, <2>3 DEF Close, Kill
<1>13. CASE SourceStarts
  BY <1>13, RefinesSourceStarts
<1> QED
  BY <1>2, <1>3, <1>4, <1>5, <1>6, <1>7, <1>8, <1>9, <1>10, <1>11, <1>12, <1>13
     DEF Next, Source, Thread

(* bridge.py:1-19.  The bridge implements at-least-once copying: over       *)
(* reconnects, rewinds, kills, resets of the source and logs it comes back  *)
(* without the end of, its checkpoint moves only forward, and only over     *)
(* events that are in Kafka or excused; copying starts over from the oldest *)
(* event only while the source is behind what it had numbered, or as a new  *)
(* world.  Unless a signal can cut off a rewind, and until the stream has   *)
(* been opened live a second time.                                          *)
THEOREM ImplementsAtLeastOnce == ASSUME ~SignalInRewind PROVE Spec => CopiesAtLeastOnce
<1>1. Init => ALO!Init
  BY RefinesInit
<1>2. IInv /\ IInv' /\ [Next]_vars => [ALO!Next]_(ALO!avars)
  BY RefinesStep
<1> QED
  BY <1>1, <1>2, Invariance, PTL DEF Spec, CopiesAtLeastOnce, ALO!Spec
=============================================================================
