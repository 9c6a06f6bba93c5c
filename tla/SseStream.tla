----------------------------- MODULE SseStream -----------------------------
(***************************************************************************)
(* The source's two ways out of the event log, as FastAPI runs them in one *)
(* asyncio loop (src/source/bikeshare_sim/api.py):                         *)
(*                                                                         *)
(*   - GET /v1/stream: one sse_frames() generator per client.  It can be   *)
(*     interleaved with a publish wherever it yields or awaits;            *)
(*   - GET /v1/events: one page of the log per request.                    *)
(*                                                                         *)
(* A client that loses its connection comes back with the id of the last   *)
(* frame it got (Last-Event-ID).  The server may shut down and come back   *)
(* with its saved log.                                                     *)
(*                                                                         *)
(* pc[c] says where the generator of client c is:                          *)
(*   "off"    no connection                                                *)
(*   "loop"   about to test `while not log_.closed`                        *)
(*   "yield"  handing over the gap notice and the records it has read      *)
(*   "wait"   in wait_for_new(), on the asyncio.Event it found armed       *)
(***************************************************************************)
EXTENDS EventLog, FiniteSets

CONSTANTS
  Clients,     \* the consumers of GET /v1/stream
  TypeOf,      \* TypeOf[n]: the type of event n
  Limit,       \* records read from the log at a time (500 in the code)
  MaxDrops     \* bound of the model: connections lost, over all clients

ASSUME StreamAssumption == Limit \in Nat \ {0} /\ MaxDrops \in Nat

VARIABLES
  armed,       \* EventLog._new_data, an asyncio.Event: numbered, newest last
  fired,       \* the asyncio.Events that have been set
  closed,      \* EventLog.closed
  pc, last, records, gap, waits_on,   \* one sse_frames() generator per client
  last_id,     \* the id of the last frame the client got (its Last-Event-ID)
  received,    \* the events the client got
  told_lost,   \* the events a gap notice told the client it will not get
  started,     \* the seq after which the client first asked for events
  wanted,      \* the event types it asked for (?types=)
  drops        \* connections lost so far

serverVars == <<armed, fired, closed>>
generatorVars == <<pc, last, records, gap, waits_on>>
clientVars == <<last_id, received, told_lost, started, wanted>>
vars == <<logVars, serverVars, generatorVars, clientVars, drops>>

EventTypes == {TypeOf[n] : n \in 1..MaxSeq}

NotYet == MaxSeq + 1     \* last_id of a client that has never connected

Init ==
  /\ LogInit
  /\ armed = 0 /\ fired = {} /\ closed = FALSE
  /\ pc = [c \in Clients |-> "off"]
  /\ last = [c \in Clients |-> 0]
  /\ records = [c \in Clients |-> <<>>]
  /\ gap = [c \in Clients |-> NoGap]
  /\ waits_on = [c \in Clients |-> 0]
  /\ last_id = [c \in Clients |-> NotYet]
  /\ received = [c \in Clients |-> <<>>]
  /\ told_lost = [c \in Clients |-> {}]
  /\ started = [c \in Clients |-> 0]
  /\ wanted \in [Clients -> SUBSET EventTypes]
  /\ drops = 0

MutRearmThenSet(k) ==
  /\ Append_(k)
  /\ armed' = armed + 1
  /\ fired' = fired \cup {armed'}
  /\ UNCHANGED <<closed, generatorVars, clientVars, drops>>

MutRearmOnly(k) ==
  /\ Append_(k)
  /\ armed' = armed + 1
  /\ UNCHANGED <<fired, closed, generatorVars, clientVars, drops>>

(* EventLog.publish: set the current asyncio.Event, then arm a fresh one.  *)
(* The simulation task goes on publishing until the process ends.          *)
Publish(k) ==
  /\ Append_(k)
  /\ fired' = fired \cup {armed}
  /\ armed' = armed + 1
  /\ UNCHANGED <<closed, generatorVars, clientVars, drops>>

MutCloseSilently ==
  /\ ~closed
  /\ closed' = TRUE
  /\ UNCHANGED <<armed, fired, logVars, generatorVars, clientVars, drops>>

(* SIGTERM: close_streams() has the loop call EventLog.close(). *)
CloseStreams ==
  /\ ~closed
  /\ closed' = TRUE
  /\ fired' = fired \cup {armed}
  /\ UNCHANGED <<armed, logVars, generatorVars, clientVars, drops>>

(* The server exits once its streams have ended, and starts again from its *)
(* saved state: __setstate__ keeps the buffer and the seq, nothing else.   *)
Restart ==
  /\ closed
  /\ \A c \in Clients : pc[c] = "off"
  /\ closed' = FALSE /\ armed' = 0 /\ fired' = {}
  /\ waits_on' = [c \in Clients |-> 0]
  /\ UNCHANGED <<logVars, pc, last, records, gap, clientVars, drops>>

(* stream(): the first request says where to start (any after_seq so far,  *)
(* the last of them being live, from now); a later one carries             *)
(* Last-Event-ID.                                                          *)
Connect(c) ==
  /\ pc[c] = "off" /\ ~closed
  /\ IF last_id[c] = NotYet
     THEN \E after \in 0..log_seq :
            /\ last' = [last EXCEPT ![c] = after]
            /\ started' = [started EXCEPT ![c] = after]
            /\ last_id' = [last_id EXCEPT ![c] = after]
     ELSE /\ last' = [last EXCEPT ![c] = last_id[c]]
          /\ UNCHANGED <<started, last_id>>
  /\ pc' = [pc EXCEPT ![c] = "loop"]
  /\ UNCHANGED <<logVars, serverVars, records, gap, waits_on, received, told_lost, wanted, drops>>

(* One turn of the generator's loop, up to its first yield or await: end if *)
(* the log is closed, else read, and wait if there was nothing to read.     *)
Loop(c) ==
  LET r == ReadAfter(last[c], Limit)
  IN  /\ pc[c] = "loop"
      /\ \/ /\ closed
            /\ pc' = [pc EXCEPT ![c] = "off"]
            /\ UNCHANGED <<records, gap, waits_on>>
         \/ /\ ~closed
            /\ r.records = <<>> /\ r.gap = NoGap
            /\ pc' = [pc EXCEPT ![c] = "wait"]
            /\ waits_on' = [waits_on EXCEPT ![c] = armed]
            /\ UNCHANGED <<records, gap>>
         \/ /\ ~closed
            /\ r.records # <<>> \/ r.gap # NoGap
            /\ pc' = [pc EXCEPT ![c] = "yield"]
            /\ records' = [records EXCEPT ![c] = r.records]
            /\ gap' = [gap EXCEPT ![c] = r.gap]
            /\ UNCHANGED waits_on
      /\ UNCHANGED <<logVars, serverVars, last, clientVars, drops>>

(* The generator hands over its gap notice.  The frame has no id: the      *)
(* client's Last-Event-ID does not move.                                   *)
YieldGap(c) ==
  /\ pc[c] = "yield" /\ gap[c] # NoGap
  /\ told_lost' = [told_lost EXCEPT ![c] =
       @ \cup (gap[c].requested_after_seq + 1)..(gap[c].oldest_available_seq - 1)]
  /\ gap' = [gap EXCEPT ![c] = NoGap]
  /\ UNCHANGED <<logVars, serverVars, pc, last, records, waits_on,
                 last_id, received, started, wanted, drops>>

(* The generator moves over one record, and hands it over if it is wanted. *)
YieldRecord(c) ==
  LET n == Head(records[c])
  IN  /\ pc[c] = "yield" /\ gap[c] = NoGap
      /\ last' = [last EXCEPT ![c] = n]
      /\ records' = [records EXCEPT ![c] = Tail(@)]
      /\ pc' = [pc EXCEPT ![c] = IF Len(records[c]) = 1 THEN "loop" ELSE @]
      /\ IF TypeOf[n] \in wanted[c]
         THEN /\ received' = [received EXCEPT ![c] = Append(@, n)]
              /\ last_id' = [last_id EXCEPT ![c] = n]
         ELSE UNCHANGED <<received, last_id>>
      /\ UNCHANGED <<logVars, serverVars, gap, waits_on, told_lost, started, wanted, drops>>

(* wait_for_new() returns because its asyncio.Event was set ... *)
Wake(c) ==
  /\ pc[c] = "wait" /\ waits_on[c] \in fired
  /\ pc' = [pc EXCEPT ![c] = "loop"]
  /\ UNCHANGED <<logVars, serverVars, last, records, gap, waits_on, clientVars, drops>>

(* ... or after KEEPALIVE_S: a keepalive comment goes out, and the loop goes on. *)
KeepAlive(c) ==
  /\ pc[c] = "wait" /\ waits_on[c] \notin fired
  /\ pc' = [pc EXCEPT ![c] = "loop"]
  /\ UNCHANGED <<logVars, serverVars, last, records, gap, waits_on, clientVars, drops>>

(* The connection is lost: what the generator had still to hand over is gone. *)
Drop(c) ==
  /\ pc[c] # "off" /\ drops < MaxDrops
  /\ drops' = drops + 1
  /\ pc' = [pc EXCEPT ![c] = "off"]
  /\ records' = [records EXCEPT ![c] = <<>>]
  /\ gap' = [gap EXCEPT ![c] = NoGap]
  /\ UNCHANGED <<logVars, serverVars, last, waits_on, clientVars>>

Generator(c) == Loop(c) \/ YieldGap(c) \/ YieldRecord(c) \/ Wake(c)

Next ==
  \/ \E k \in 1..MaxSeq : Publish(k)
  \/ CloseStreams
  \/ Restart
  \/ \E c \in Clients : Connect(c) \/ Generator(c) \/ KeepAlive(c) \/ Drop(c)

(* The event loop runs every task that is ready; nothing makes the world   *)
(* publish, a client connect, or the operator stop the server.             *)
Fairness == \A c \in Clients : WF_vars(Generator(c))

Spec == Init /\ [][Next]_vars /\ Fairness

-----------------------------------------------------------------------------
MutPageAfterFirst(after, limit) ==
  LET r == ReadAfter(after, limit)
  IN  [events |-> r.records,
       next   |-> IF r.records # <<>> THEN r.records[Len(r.records)] ELSE FirstSeq - 1,
       gap    |-> r.gap]

(* GET /v1/events without a type filter: one page, and where the next one starts. *)
EventsPage(after, limit) ==
  LET r == ReadAfter(after, limit)
  IN  [events |-> r.records,
       next   |-> IF r.records # <<>> THEN r.records[Len(r.records)]
                  ELSE IF after < FirstSeq - 1 THEN FirstSeq - 1 ELSE after,
       gap    |-> r.gap]

-----------------------------------------------------------------------------
TypeOK ==
  /\ LogTypeOK
  /\ armed \in Nat /\ fired \subseteq 0..armed /\ closed \in BOOLEAN
  /\ pc \in [Clients -> {"off", "loop", "yield", "wait"}]
  /\ last \in [Clients -> 0..MaxSeq]
  /\ records \in [Clients -> Seq(1..MaxSeq)]
  /\ \A c \in Clients : Len(records[c]) <= Limit
  /\ gap \in [Clients -> [requested_after_seq : 0..MaxSeq, oldest_available_seq : 0..MaxSeq]]
  /\ waits_on \in [Clients -> 0..armed]
  /\ last_id \in [Clients -> 0..NotYet]
  /\ received \in [Clients -> Seq(1..MaxSeq)]
  /\ told_lost \in [Clients -> SUBSET (1..MaxSeq)]
  /\ started \in [Clients -> 0..MaxSeq]
  /\ wanted \in [Clients -> SUBSET EventTypes]
  /\ drops \in 0..MaxDrops

Got(c) == {received[c][i] : i \in 1..Len(received[c])}

(* eventlog.py:8-11, api.py:149-156.  A client gets its events in order,    *)
(* each once, and between the seq it started after and the last id it got   *)
(* it has every event it wants or has been told of its loss: across         *)
(* reconnections, a buffer that moves on while a batch is being handed      *)
(* over, restarts and type filters, nothing is skipped in silence.         *)
NothingSkipped ==
  \A c \in Clients : last_id[c] # NotYet =>
    /\ \A i, j \in 1..Len(received[c]) : i < j => received[c][i] < received[c][j]
    /\ \A n \in (started[c] + 1)..last_id[c] :
         TypeOf[n] \in wanted[c] => n \in Got(c) \cup told_lost[c]

(* eventlog.py:14 and 61-63.  A generator that waits while there is        *)
(* something to do (an event it has not read, a shutdown) waits on an      *)
(* asyncio.Event that has been set: it never sleeps through a publish or a *)
(* close until its keepalive.                                              *)
NoLostWakeup ==
  \A c \in Clients : pc[c] = "wait" /\ (log_seq > last[c] \/ closed) => waits_on[c] \in fired

(* api.py:161-175.  A consumer that pages through /v1/events, asking each  *)
(* time after the page's next_after_seq, moves exactly over the events of  *)
(* the page and those of its gap notice, and a page that moves nowhere     *)
(* means the log has nothing newer.                                        *)
PagesComplete ==
  \A after \in 0..log_seq, limit \in 1..MaxLen :
    LET p    == EventsPage(after, limit)
        told == IF p.gap = NoGap THEN {}
                ELSE (p.gap.requested_after_seq + 1)..(p.gap.oldest_available_seq - 1)
        on   == {p.events[i] : i \in 1..Len(p.events)}
    IN  /\ p.next >= after
        /\ (after + 1)..p.next = told \cup on
        /\ p.next = after => log_seq = after

(* eventlog.py:8-11.  Both readers of the log, the stream and the page, get *)
(* every event or are told of the gap.                                     *)
NoSilentGap == NothingSkipped /\ PagesComplete

(* api.py:89-95.  After SIGTERM every stream ends by itself, so the server *)
(* can shut down: no generator stays in its wait, or keeps finding more.   *)
ShutdownCompletes == closed ~> \A c \in Clients : pc[c] = "off"

(* api.py:146-158.  A connected client catches up: every event it wants    *)
(* reaches it, or it is told of the loss, or its connection ends.          *)
CatchesUp ==
  \A c \in Clients : \A n \in 1..MaxSeq :
    (pc[c] # "off" /\ log_seq >= n /\ n > started[c])
      ~> (pc[c] = "off" \/ last[c] >= n)
=============================================================================
