------------------------------- MODULE Bridge -------------------------------
(***************************************************************************)
(* The bridge (src/ingest/bikeshare_bridge): one thread that reads the     *)
(* source's SSE stream and hands every event to a Kafka producer, which    *)
(* delivers in the background.  Its checkpoint file says where it resumes. *)
(*                                                                         *)
(* Around it: the source with its event log (it may stop, come back with   *)
(* the log it saved last, which is older after a kill, or come back as a   *)
(* new world whose log starts empty), the connection, and the broker,      *)
(* which acknowledges or fails each message.                               *)
(*                                                                         *)
(* An event is its world and its seq: a seq that the source issues again   *)
(* after a kill is taken for the same event, which is ReplayIdentical of   *)
(* Simulation (so long as nobody has touched the fault controls).          *)
(*                                                                         *)
(* pc says where the bridge's thread is:                                   *)
(*   "down"     no process                                                 *)
(*   "connect"  at the top of consume_once(), or in the backoff before it  *)
(*   "open"     resume point chosen, GET /v1/stream not answered yet       *)
(*   "stream"   in the loop over the frames                                *)
(*   "rewind"   DeliveryFailed is on its way from sink.flush() to run()    *)
(*   "close"    in close(), after SIGTERM or an unexpected exception       *)
(***************************************************************************)
EXTENDS EventLog, FiniteSets

CONSTANTS
  None,            \* Python's None
  Limit,           \* records the source reads from its log at a time (500)
  QueueMax,        \* messages the producer's local queue holds
  MaxFaults,       \* bound of the model: stops, drops, failures, signals, kills
  MaxWorlds,       \* bound of the model: worlds the source numbers
  SignalInRewind   \* may SIGTERM come between a failed flush and the rewind?

ASSUME BridgeAssumption ==
  /\ None \notin Nat
  /\ Limit \in Nat \ {0} /\ QueueMax \in Nat \ {0} 
  /\ MaxFaults \in Nat /\ MaxWorlds \in Nat \ {0} /\ SignalInRewind \in BOOLEAN

VARIABLES
  src_up,          \* the source's process runs
  world,           \* which world the source's log numbers
  state_seq,       \* the newest seq in the log that the source loaded last
  conn, cursor,    \* an SSE stream is open; the generator's `last`, 0 without one
  pipe,            \* frames sent on it and not handled yet
  pc, start_from,  \* the bridge's thread; BRIDGE_START_FROM
  last_seq,        \* last seq handed to the producer
  saved_seq,       \* last seq known to be in Kafka
  resume,          \* after_seq of the connection being opened, None otherwise
  checkpoint,      \* checkpoint.json, None when there is no file
  queue,           \* messages the producer has not reported on yet
  failed,          \* KafkaSink._failures
  attempt,         \* rewinds so far: tells the copies of an event apart
  kafka,           \* events with a copy in Kafka
  published,       \* events the source has numbered, of every world
  lost,            \* events the bridge has logged as lost upstream
  skipped,         \* events before the first live start
  live_starts,     \* streams opened live, 2 when there are more
  stale,           \* the bridge still holds a position of an older world
  faults           \* faults so far

sourceLog == <<logVars, state_seq>>
sourceVars == <<sourceLog, src_up, world>>
connVars == <<conn, cursor, pipe>>
bridgeVars == <<last_seq, saved_seq, resume, start_from>>
sinkVars == <<queue, failed, attempt>>
ghostVars == <<published, lost, skipped, live_starts, stale>>
vars == <<sourceVars, connVars, pc, bridgeVars, checkpoint, sinkVars, kafka, ghostVars, faults>>

Event(w, n) == [world |-> w, seq |-> n]
Upto(w, n) == {Event(w, i) : i \in 1..n}

(* A second stream was opened live.  The setting is meant for the first     *)
(* start only (config.py:9), so only what came before that is excused.     *)
Relived == live_starts = 2

Init ==
  /\ LogInit /\ src_up = TRUE /\ world = 1 /\ state_seq = 0
  /\ conn = FALSE /\ cursor = 0 /\ pipe = <<>>
  /\ pc = "down" /\ start_from \in {"oldest", "live"}
  /\ last_seq = None /\ saved_seq = None /\ resume = None /\ checkpoint = None
  /\ queue = {} /\ failed = {} /\ attempt = 0 /\ kafka = {}
  /\ published = {} /\ lost = {} /\ skipped = {} /\ live_starts = 0 /\ stale = FALSE
  /\ faults = 0

Fault == faults < MaxFaults /\ faults' = faults + 1

(* The connection is gone, and what was on the wire with it. *)
Disconnect == conn' = FALSE /\ cursor' = 0 /\ pipe' = <<>>

-----------------------------------------------------------------------------
(* The source.  Its log and its stream are modelled in full in SseStream.  *)

Publish(k) ==
  /\ src_up
  /\ Append_(k)
  /\ published' = published \cup Upto(world, log_seq + k)
  /\ UNCHANGED <<state_seq, src_up, world, connVars, pc, bridgeVars, checkpoint, sinkVars,
                 kafka, lost, skipped, live_starts, stale, faults>>

(* sse_frames() reads a batch and sends it; what it has sent can be handled *)
(* after the buffer has moved on.                                           *)
Serve ==
  LET r == ReadAfter(cursor, Limit)
      Frame(n) == [kind |-> "event", world |-> world, seq |-> n]
      notice == [kind |-> "gap", world |-> world,
                 after |-> r.gap.requested_after_seq, oldest |-> r.gap.oldest_available_seq]
  IN  /\ conn /\ src_up /\ pipe = <<>>
      /\ r.records # <<>>
      /\ pipe' = (IF r.gap = NoGap THEN <<>> ELSE <<notice>>)
                   \o [i \in 1..Len(r.records) |-> Frame(r.records[i])]
      /\ cursor' = r.records[Len(r.records)]
      /\ UNCHANGED <<sourceVars, conn, pc, bridgeVars, checkpoint, sinkVars, kafka,
                     ghostVars, faults>>

SourceStops ==
  /\ src_up /\ Fault
  /\ src_up' = FALSE /\ conn' = FALSE /\ cursor' = 0
  /\ UNCHANGED <<sourceLog, world, pipe, pc, bridgeVars, checkpoint, sinkVars, kafka,
                 ghostVars>>

(* The source comes back with the log of its state.pkl, saved every minute  *)
(* and at a shutdown, but not at a kill: a log of some earlier moment, not  *)
(* older than the one it began with (without a state.pkl the configuration  *)
(* makes the same world again from its start) ...                           *)
SourceStarts ==
  /\ ~src_up /\ src_up' = TRUE
  /\ \E n \in state_seq..log_seq :
       /\ state_seq' = n /\ log_seq' = n
       /\ buffer' = KeepNewest([i \in 1..n |-> i])
  /\ UNCHANGED <<world, connVars, pc, bridgeVars, checkpoint, sinkVars, kafka,
                 ghostVars, faults>>

(* ... or with the log of a new world (`make source-reset`). *)
SourceReset ==
  /\ ~src_up /\ world < MaxWorlds
  /\ src_up' = TRUE /\ world' = world + 1
  /\ buffer' = <<>> /\ log_seq' = 0 /\ state_seq' = 0
  /\ stale' = TRUE
  /\ UNCHANGED <<connVars, pc, bridgeVars, checkpoint, sinkVars, kafka,
                 published, lost, skipped, live_starts, faults>>

(* The connection breaks. *)
Drop ==
  /\ conn /\ Fault
  /\ Disconnect
  /\ UNCHANGED <<sourceVars, pc, bridgeVars, checkpoint, sinkVars, kafka, ghostVars>>

-----------------------------------------------------------------------------
(* The broker.  Acknowledgements come in any order across partitions; a    *)
(* message can fail (delivery.timeout.ms) although a copy was written.     *)

Written(m) == Event(m.world, m.seq)

Ack(m) ==
  /\ m \in queue
  /\ queue' = queue \ {m}
  /\ kafka' = kafka \cup {Written(m)}
  /\ UNCHANGED <<sourceVars, connVars, pc, bridgeVars, checkpoint, failed, attempt,
                 ghostVars, faults>>

Fail(m) ==
  /\ m \in queue /\ Fault
  /\ queue' = queue \ {m}
  /\ failed' = failed \cup {m}
  /\ kafka' \in {kafka, kafka \cup {Written(m)}}
  /\ UNCHANGED <<sourceVars, connVars, pc, bridgeVars, checkpoint, attempt, ghostVars>>

-----------------------------------------------------------------------------
(* The bridge's thread.                                                    *)

(* A process starts: Bridge.__init__ loads the checkpoint. *)
Start ==
  /\ pc = "down"
  /\ last_seq' = checkpoint /\ saved_seq' = checkpoint
  /\ pc' = "connect"
  /\ UNCHANGED <<sourceVars, connVars, resume, start_from, checkpoint, sinkVars, kafka,
                 ghostVars, faults>>

MutAheadOrAtEnd == src_up /\ last_seq >= log_seq

(* GET /health answers with the log's last seq, and the position is beyond. *)
Ahead == src_up /\ last_seq > log_seq

(* _resume_point().  A position the source has not reached means that it is *)
(* a new world, or has come back with an older log: start from its oldest.  *)
(* /health may also go unanswered.                                          *)
ResumePoint ==
  /\ pc = "connect" /\ pc' = "open"
  /\ \/ /\ last_seq = None
        /\ resume' = IF start_from = "oldest" THEN 0 ELSE None
        /\ UNCHANGED <<last_seq, saved_seq, checkpoint, faults>>
     \/ /\ last_seq # None /\ Ahead
        /\ resume' = 0
        /\ last_seq' = None /\ saved_seq' = None /\ checkpoint' = None
        /\ UNCHANGED faults
     \/ /\ last_seq # None
        /\ resume' = last_seq
        /\ IF Ahead THEN Fault ELSE UNCHANGED faults
        /\ UNCHANGED <<last_seq, saved_seq, checkpoint>>
  /\ UNCHANGED <<sourceVars, connVars, start_from, sinkVars, kafka, ghostVars>>

(* GET /v1/stream: answered, and from None the stream starts live. *)
OpenStream ==
  /\ pc = "open" /\ src_up
  /\ pc' = "stream" /\ conn' = TRUE /\ pipe' = <<>>
  /\ cursor' = IF resume = None THEN log_seq ELSE resume
  /\ live_starts' = IF resume # None THEN live_starts ELSE IF live_starts = 0 THEN 1 ELSE 2
  /\ skipped' = skipped \cup (IF live_starts = 0 /\ live_starts' = 1
                              THEN Upto(world, log_seq) ELSE {})
  /\ stale' = (stale /\ last_seq # None)
  /\ resume' = None
  /\ UNCHANGED <<sourceVars, last_seq, saved_seq, start_from, checkpoint, sinkVars, kafka,
                 published, lost, faults>>

(* The source cannot be reached: back off, and try again from last_seq. *)
OpenFails ==
  /\ pc = "open" /\ ~src_up
  /\ pc' = "connect" /\ resume' = None
  /\ UNCHANGED <<sourceVars, connVars, last_seq, saved_seq, start_from, checkpoint, sinkVars,
                 kafka, ghostVars, faults>>

(* handle() of a gap notice. *)
HandleGap ==
  LET f == Head(pipe)
  IN  /\ pc = "stream" /\ pipe # <<>> /\ f.kind = "gap"
      /\ pipe' = Tail(pipe)
      /\ last_seq' = f.oldest - 1
      /\ lost' = lost \cup {Event(f.world, n) : n \in (f.after + 1)..(f.oldest - 1)}
      /\ UNCHANGED <<sourceVars, conn, cursor, pc, saved_seq, resume, start_from, checkpoint,
                     sinkVars, kafka, published, skipped, live_starts, stale, faults>>

MutSendNoBackpressure(f) ==
  /\ queue' = queue \cup {[world |-> f.world, seq |-> f.seq, attempt |-> attempt]}
  /\ UNCHANGED <<failed, attempt>>

(* KafkaSink.send(): waits while the local queue is full, then enqueues. *)
Send(f) ==
  /\ Cardinality(queue) < QueueMax
  /\ queue' = queue \cup {[world |-> f.world, seq |-> f.seq, attempt |-> attempt]}
  /\ UNCHANGED <<failed, attempt>>

(* handle() of an event: contract.route() makes exactly one message of it,  *)
(* valid or not.  A signal can come after send() and before last_seq moves. *)
HandleEvent ==
  LET f == Head(pipe)
  IN  /\ pc = "stream" /\ pipe # <<>> /\ f.kind = "event"
      /\ Send(f)
      /\ \/ /\ last_seq' = f.seq /\ pipe' = Tail(pipe)
            /\ UNCHANGED <<conn, cursor, pc, faults>>
         \/ /\ pc' = "close" /\ Fault
            /\ Disconnect /\ UNCHANGED last_seq
      /\ UNCHANGED <<sourceVars, saved_seq, resume, start_from, checkpoint, kafka, ghostVars>>

Unsaved == last_seq # None /\ last_seq # saved_seq

MutFlushIgnoresFailures == queue = {}

(* KafkaSink.flush() returned: nothing is in flight, nothing has failed. *)
Flushed == queue = {} /\ failed = {}

(* maybe_checkpoint(), when the flush confirms every message. *)
Checkpoint ==
  /\ pc = "stream" /\ Unsaved /\ Flushed
  /\ checkpoint' = last_seq /\ saved_seq' = last_seq
  /\ UNCHANGED <<sourceVars, connVars, pc, last_seq, resume, start_from, sinkVars, kafka,
                 ghostVars, faults>>

(* maybe_checkpoint(), when the flush raises DeliveryFailed: a delivery has *)
(* failed, or messages are unacknowledged after 30 s.  flush() forgets the  *)
(* failures as it raises, and the exception closes the stream.              *)
FlushFails ==
  /\ pc = "stream" /\ Unsaved
  /\ \/ failed # {} /\ UNCHANGED faults
     \/ failed = {} /\ queue # {} /\ Fault
  /\ failed' = {}
  /\ pc' = "rewind" /\ Disconnect
  /\ UNCHANGED <<sourceVars, bridgeVars, checkpoint, queue, attempt, kafka, ghostVars>>

MutRewindKeepsPosition ==
  /\ pc = "rewind" /\ pc' = "connect"
  /\ attempt' = attempt + 1
  /\ UNCHANGED <<sourceVars, connVars, bridgeVars, checkpoint, queue, failed, kafka, ghostVars, faults>>

(* run()'s except DeliveryFailed: the position goes back to the checkpoint. *)
(* Messages still queued stay with the producer.                           *)
Rewind ==
  /\ pc = "rewind" /\ pc' = "connect"
  /\ last_seq' = saved_seq
  /\ attempt' = attempt + 1
  /\ UNCHANGED <<sourceVars, connVars, saved_seq, resume, start_from, checkpoint, queue, failed,
                 kafka, ghostVars, faults>>

(* The stream has ended: reconnect after last_seq, saved or not. *)
StreamEnds ==
  /\ pc = "stream" /\ ~conn /\ pipe = <<>>
  /\ pc' = "connect"
  /\ UNCHANGED <<sourceVars, connVars, bridgeVars, checkpoint, sinkVars, kafka, ghostVars, faults>>

(* SIGTERM raises SystemExit wherever the thread is, which closes the       *)
(* stream and unwinds run() into close().                                   *)
Sigterm ==
  /\ pc \in {"connect", "open", "stream"} \cup (IF SignalInRewind THEN {"rewind"} ELSE {})
  /\ Fault
  /\ pc' = "close" /\ Disconnect /\ resume' = None
  /\ UNCHANGED <<sourceVars, last_seq, saved_seq, start_from, checkpoint, sinkVars, kafka,
                 ghostVars>>

(* The process ends.  Any of the messages still queued may have been       *)
(* written; nobody will know.                                              *)
Exit ==
  /\ pc' = "down"
  /\ last_seq' = None /\ saved_seq' = None /\ resume' = None
  /\ Disconnect
  /\ queue' = {} /\ failed' = {} /\ attempt' = 0
  /\ \E some \in SUBSET queue : kafka' = kafka \cup {Written(m) : m \in some}
  /\ UNCHANGED <<sourceVars, start_from, ghostVars>>

MutCloseSavesAnyway ==
  /\ pc = "close" /\ Exit
  /\ checkpoint' = IF Unsaved THEN last_seq ELSE checkpoint
  /\ UNCHANGED faults

(* close(): flush, and save the position if every message is confirmed. *)
Close ==
  /\ pc = "close" /\ Exit
  /\ \/ Unsaved /\ Flushed /\ checkpoint' = last_seq
     \/ ~(Unsaved /\ Flushed) /\ UNCHANGED checkpoint
  /\ UNCHANGED faults

(* SIGKILL, out of memory, a power cut: no close(). *)
Kill ==
  /\ pc # "down" /\ Fault /\ Exit
  /\ UNCHANGED checkpoint

-----------------------------------------------------------------------------
Source == SourceStarts \/ Serve

Thread ==
  \/ Start \/ ResumePoint \/ OpenStream \/ OpenFails
  \/ HandleGap \/ HandleEvent \/ Checkpoint \/ FlushFails
  \/ Rewind \/ StreamEnds \/ Close

Next ==
  \/ \E k \in 1..MaxSeq : Publish(k)
  \/ Source \/ SourceStops \/ SourceReset \/ Drop
  \/ \E m \in queue : Ack(m) \/ Fail(m)
  \/ Thread \/ Sigterm \/ Kill

(* The source has numbered events that its log does not reach now. *)
Behind == \E e \in published : e.world = world /\ e.seq > log_seq

(* The bridge's process is restarted whenever it stops and its thread runs *)
(* on; the source comes back, sends what it has, and issues again what it   *)
(* had not saved (a restart resumes its clock); the broker answers.  Faults *)
(* are bounded, so they stop.                                              *)
Fairness ==
  /\ WF_vars(Thread)
  /\ WF_vars(Source)
  /\ WF_vars(Behind /\ \E k \in 1..MaxSeq : Publish(k))
  /\ WF_vars(\E m \in queue : Ack(m))

Spec == Init /\ [][Next]_vars /\ Fairness

-----------------------------------------------------------------------------
Position == {None} \cup 0..MaxSeq
EventSet == {Event(w, n) : w \in 1..MaxWorlds, n \in 1..MaxSeq}
Message == [world : 1..MaxWorlds, seq : 1..MaxSeq, attempt : 0..MaxFaults]

TypeOK ==
  /\ LogTypeOK /\ src_up \in BOOLEAN /\ world \in 1..MaxWorlds /\ state_seq \in 0..MaxSeq
  /\ conn \in BOOLEAN /\ cursor \in 0..MaxSeq
  /\ \A i \in 1..Len(pipe) : pipe[i].kind \in {"event", "gap"}
  /\ pc \in {"down", "connect", "open", "stream", "rewind", "close"}
  /\ start_from \in {"oldest", "live"}
  /\ {last_seq, saved_seq, resume, checkpoint} \subseteq Position
  /\ queue \subseteq Message /\ failed \subseteq Message /\ attempt \in 0..MaxFaults
  /\ Cardinality(queue) <= QueueMax
  /\ published \subseteq EventSet
  /\ kafka \subseteq EventSet /\ lost \subseteq EventSet /\ skipped \subseteq EventSet
  /\ live_starts \in 0..2 /\ stale \in BOOLEAN /\ faults \in 0..MaxFaults

Settled == kafka \cup lost \cup skipped

(* checkpoint.py:1-6.  Every event up to the checkpoint is in Kafka, unless *)
(* its loss upstream was reported or it is older than the first live start: *)
(* a restart from the checkpoint file, at whatever moment the process dies, *)
(* misses nothing.  Not after a second live start.                          *)
CheckpointSound ==
  checkpoint # None /\ ~stale /\ ~Relived => Upto(world, checkpoint) \subseteq Settled

(* bridge.py:54-55.  Every event up to last_seq is settled, or the producer *)
(* still has it to report on, or has reported its failure to flush(): no    *)
(* failed delivery is forgotten before the position has gone back.  Not     *)
(* after a second live start.                                               *)
Accounted ==
  last_seq # None /\ ~stale /\ ~Relived /\ pc # "rewind" =>
    Upto(world, last_seq) \subseteq Settled \cup {Written(m) : m \in queue \cup failed}

(* bridge.py:18, "reconnect from the last checkpoint and re-send".  Once a  *)
(* failed delivery has made the bridge rewind, its checkpoint passes no     *)
(* event that is not settled, whatever BRIDGE_START_FROM says.              *)
FailuresResent ==
  attempt > 0 /\ checkpoint # None /\ ~stale => Upto(world, checkpoint) \subseteq Settled

(* bridge.py:1-19.  The bridge implements at-least-once copying: its        *)
(* checkpoint moves only forward, and only over settled events, unless the  *)
(* source has come back with an older log or as a new world.  After a       *)
(* second live start nothing is promised: the position counts as none.      *)
ALO == INSTANCE AtLeastOnce WITH
  newest    <- log_seq,
  emitted   <- published,
  delivered <- kafka,
  excused   <- lost \cup skipped,
  position  <- IF checkpoint = None \/ stale \/ Relived THEN 0 ELSE checkpoint

CopiesAtLeastOnce == ALO!Spec

(* bridge.py:1-19.  Faults stop, so every event the source has numbered     *)
(* gets to Kafka or is reported lost, also one that a kill took back from   *)
(* its log; unless the source becomes a new world the bridge has not        *)
(* noticed, or the bridge starts live a second time.                        *)
EventuallySettled ==
  \A n \in 1..MaxSeq :
    (log_seq >= n /\ ~stale) ~> (Event(world, n) \in Settled \/ stale \/ Relived)
=============================================================================
