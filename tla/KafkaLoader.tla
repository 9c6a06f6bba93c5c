---------------------------- MODULE KafkaLoader ----------------------------
(***************************************************************************)
(* The warehouse loader of one Kafka topic                                 *)
(* (src/orchestration/include/landing/kafka_loader.py, run by              *)
(* src/orchestration/dags/stream_landing.py): each task lands one bounded  *)
(* slice per partition.  Around it: the topic, whose messages arrive and   *)
(* expire, and `make spark-reset`, which deletes the topic and has         *)
(* src/scripts/forget_landed_topic.py forget what was landed from it.      *)
(*                                                                         *)
(* A message is <<generation, offset>>: offsets number the messages of ONE *)
(* creation of the topic.                                                  *)
(*                                                                         *)
(* pc says where the landing task is; it holds the DuckDB write lock       *)
(* (warehouse.connect) from planning until it ends:                        *)
(*   "idle"     no task runs                                               *)
(*   "read"     slices planned, in the loop of read_slices()               *)
(*   "commit"   slices read, the transaction has not committed             *)
(*   "ack"      committed in DuckDB, positions not yet committed to Kafka  *)
(***************************************************************************)
EXTENDS Integers

CONSTANTS
  Partitions,
  None,          \* no stored position
  MaxPer,        \* max_per_partition
  MaxOffset,     \* bound of the model: messages of each partition
  MaxGenerations,\* bound of the model: times the topic is created
  MaxFaults      \* bound of the model: tasks that fail, die or time out early

ASSUME LoaderAssumption ==
  /\ None \notin Nat
  /\ MaxPer \in Nat \ {0}
  /\ MaxOffset \in [Partitions -> Nat] /\ MaxGenerations \in Nat \ {0} /\ MaxFaults \in Nat

VARIABLES
  topic,         \* "up", "deleted", or "forgotten" (deleted, and the warehouse knows)
  generation,    \* which creation of the topic the offsets number
  low, high,     \* watermark offsets per partition
  rows,          \* the topic's raw table, per partition
  position,      \* raw._kafka_offsets.next_offset, None without a row
  group,         \* the offsets committed to Kafka, for display
  pc,
  start, end,    \* Slice.start, Slice.end
  next_offset,   \* Slice.next_offset
  note,          \* Slice.note
  incoming,      \* the rows read so far
  warned,        \* offsets logged as expired before landing
  first,         \* where landing began: the low watermark of the first slice
  faults         \* faults so far

topicVars == <<topic, generation, low, high>>
tableVars == <<rows, position>>
sliceVars == <<start, end, next_offset, note, incoming>>
vars == <<topicVars, tableVars, group, pc, sliceVars, warned, first, faults>>

All(v) == [p \in Partitions |-> v]
Messages(from, upto) == {<<generation, o>> : o \in from..(upto - 1)}

Init ==
  /\ topic = "up" /\ generation = 1
  /\ low = All(0) /\ high = All(0)
  /\ rows = All({}) /\ position = All(None) /\ group = All(None)
  /\ pc = "idle"
  /\ start = All(0) /\ end = All(0) /\ next_offset = All(0)
  /\ note = All("none") /\ incoming = All({})
  /\ warned = All({}) /\ first = All(None)
  /\ faults = 0

Fault == faults < MaxFaults /\ faults' = faults + 1

-----------------------------------------------------------------------------
(* The topic.                                                              *)

Produce(p) ==
  /\ topic = "up" /\ high[p] < MaxOffset[p]
  /\ high' = [high EXCEPT ![p] = @ + 1]
  /\ UNCHANGED <<topic, generation, low, tableVars, group, pc, sliceVars, warned,
                 first, faults>>

(* Retention removes the oldest message, landed or not. *)
Expire(p) ==
  /\ topic = "up" /\ low[p] < high[p]
  /\ low' = [low EXCEPT ![p] = @ + 1]
  /\ UNCHANGED <<topic, generation, high, tableVars, group, pc, sliceVars, warned,
                 first, faults>>

(* `make spark-reset`: the topic goes, and its group offsets with it. *)
DeleteTopic ==
  /\ topic = "up" /\ generation < MaxGenerations
  /\ topic' = "deleted" /\ group' = All(None)
  /\ UNCHANGED <<generation, low, high, tableVars, pc, sliceVars, warned, first, faults>>

MutForgetBesideTask ==
  /\ topic = "deleted"
  /\ topic' = "forgotten"
  /\ rows' = All({}) /\ position' = All(None)
  /\ warned' = All({}) /\ first' = All(None)
  /\ UNCHANGED <<generation, low, high, group, pc, sliceVars, faults>>

(* forget_landed_topic.py, once Kafka confirms the topic is gone and the    *)
(* warehouse's lock is free: rows and positions in one transaction.         *)
ForgetTopic ==
  /\ topic = "deleted" /\ pc = "idle"
  /\ topic' = "forgotten"
  /\ rows' = All({}) /\ position' = All(None)
  /\ warned' = All({}) /\ first' = All(None)
  /\ UNCHANGED <<generation, low, high, group, pc, sliceVars, faults>>

(* kafka-init (`make up`, which the reset asks for once it has forgotten). *)
(* A topic that is created although the script gave up is not modelled.    *)
CreateTopic ==
  /\ topic = "forgotten"
  /\ topic' = "up" /\ generation' = generation + 1
  /\ low' = All(0) /\ high' = All(0)
  /\ UNCHANGED <<tableVars, group, pc, sliceVars, warned, first, faults>>

-----------------------------------------------------------------------------
(* The landing task.                                                       *)

Lower(a, b) == IF a < b THEN a ELSE b
Higher(a, b) == IF a < b THEN b ELSE a

(* The stored position, or the earliest retained offset on the first run.  *)
Stored(p) == IF position[p] = None THEN low[p] ELSE position[p]

(* The task has ended: its slices are gone, the lock is free. *)
Ended ==
  /\ pc' = "idle"
  /\ start' = All(0) /\ end' = All(0) /\ next_offset' = All(0)
  /\ note' = All("none") /\ incoming' = All({})

MutPlanFromGroup ==
  LET from(p) == IF group[p] = None THEN low[p] ELSE group[p]
      begin(p) == Higher(from(p), low[p])
  IN  /\ pc = "idle" /\ topic = "up"
      /\ pc' = "read"
      /\ start' = [p \in Partitions |-> begin(p)]
      /\ end' = [p \in Partitions |-> Lower(high[p], begin(p) + MaxPer)]
      /\ next_offset' = [p \in Partitions |-> begin(p)]
      /\ note' = [p \in Partitions |-> IF from(p) < low[p] THEN "expired" ELSE "none"]
      /\ incoming' = All({})
      /\ warned' = [p \in Partitions |-> warned[p] \cup from(p)..(low[p] - 1)]
      /\ UNCHANGED <<topicVars, tableVars, group, first, faults>>

MutPlanUnset ==
  LET begin(p) == Higher(Stored(p), low[p])
  IN  /\ pc = "idle" /\ topic = "up"
      /\ pc' = "read"
      /\ start' = [p \in Partitions |-> begin(p)]
      /\ end' = [p \in Partitions |-> Lower(high[p], begin(p) + MaxPer)]
      /\ next_offset' = All(-1)
      /\ note' = [p \in Partitions |-> IF Stored(p) < low[p] THEN "expired" ELSE "none"]
      /\ incoming' = All({})
      /\ warned' = [p \in Partitions |-> warned[p] \cup Stored(p)..(low[p] - 1)]
      /\ UNCHANGED <<topicVars, tableVars, group, first, faults>>

(* plan_slices(): the watermarks are a snapshot; what expired unlanded is   *)
(* logged and noted.                                                        *)
PlanSlices ==
  LET begin(p) == Higher(Stored(p), low[p])
  IN  /\ pc = "idle" /\ topic = "up"
      /\ pc' = "read"
      /\ start' = [p \in Partitions |-> begin(p)]
      /\ end' = [p \in Partitions |-> Lower(high[p], begin(p) + MaxPer)]
      /\ next_offset' = [p \in Partitions |-> begin(p)]
      /\ note' = [p \in Partitions |-> IF Stored(p) < low[p] THEN "expired" ELSE "none"]
      /\ incoming' = All({})
      /\ warned' = [p \in Partitions |-> warned[p] \cup Stored(p)..(low[p] - 1)]
      /\ UNCHANGED <<topicVars, tableVars, group, first, faults>>

Unread(p) == next_offset[p] < end[p]

MutReadFromEarliest(p) ==
  LET o == Higher(next_offset[p], low[p])
  IN  /\ pc = "read" /\ topic = "up"
      /\ Unread(p) /\ o < end[p]
      /\ incoming' = [incoming EXCEPT ![p] = @ \cup {<<generation, o>>}]
      /\ next_offset' = [next_offset EXCEPT ![p] = o + 1]
      /\ UNCHANGED <<topicVars, tableVars, group, pc, start, end, note, warned, first, faults>>

(* One message of read_slices().  An offset that has expired since planning *)
(* is not there to be read: the consumer resets to the log's end, past the  *)
(* slice, and the partition waits for the time budget to run out.           *)
ReadMessage(p) ==
  LET o == next_offset[p]
  IN  /\ pc = "read" /\ topic = "up"
      /\ Unread(p) /\ low[p] <= o
      /\ incoming' = [incoming EXCEPT ![p] = @ \cup {<<generation, o>>}]
      /\ next_offset' = [next_offset EXCEPT ![p] = o + 1]
      /\ UNCHANGED <<topicVars, tableVars, group, pc, start, end, note, warned, first, faults>>

(* Slices whose next message can still be read. *)
Waiting == {p \in Partitions : Unread(p) /\ topic = "up" /\ low[p] <= next_offset[p]}

MutShowFirst ==
  /\ pc = "read" /\ pc' = "commit"
  /\ note' = [p \in Partitions |-> IF Unread(p) THEN "timeout" ELSE note[p]]
  /\ group' = [p \in Partitions |-> IF topic = "up" THEN next_offset[p] ELSE group[p]]
  /\ \/ Waiting = {} /\ UNCHANGED faults
     \/ Waiting # {} /\ Fault
  /\ UNCHANGED <<topicVars, tableVars, start, end, next_offset, incoming, warned, first>>

(* read_slices() returns: every slice is read, or its time budget is spent. *)
StopReading ==
  /\ pc = "read" /\ pc' = "commit"
  /\ note' = [p \in Partitions |-> IF Unread(p) THEN "timeout" ELSE note[p]]
  /\ \/ Waiting = {} /\ UNCHANGED faults
     \/ Waiting # {} /\ Fault
  /\ UNCHANGED <<topicVars, tableVars, group, start, end, next_offset, incoming, warned, first>>

Moved == {p \in Partitions : next_offset[p] # start[p] \/ note[p] # "none"}

(* The primary key on (topic, partition, offset). *)
PrimaryKeyHolds ==
  \A p \in Partitions : \A m \in incoming[p], r \in rows[p] : m[2] # r[2]

NothingMoved ==
  /\ pc = "commit" /\ Moved = {}
  /\ Ended
  /\ UNCHANGED <<topicVars, tableVars, group, warned, first, faults>>

MutCommitRowsFirst ==
  /\ pc = "commit" /\ Moved # {} /\ PrimaryKeyHolds
  /\ rows' = [p \in Partitions |-> rows[p] \cup incoming[p]]
  /\ \/ UNCHANGED position /\ Ended /\ Fault
     \/ /\ position' = [p \in Partitions |-> IF p \in Moved THEN next_offset[p] ELSE position[p]]
        /\ pc' = "ack" /\ UNCHANGED <<sliceVars, faults>>
  /\ first' = [p \in Partitions |->
                 IF p \in Moved /\ first[p] = None THEN start[p] ELSE first[p]]
  /\ UNCHANGED <<topicVars, group, warned>>

(* BEGIN .. COMMIT: the rows, the new positions and the audit row.  A       *)
(* statement that fails rolls all three back (TaskFails).                   *)
CommitTransaction ==
  /\ pc = "commit" /\ Moved # {} /\ PrimaryKeyHolds
  /\ pc' = "ack"
  /\ rows' = [p \in Partitions |-> rows[p] \cup incoming[p]]
  /\ position' = [p \in Partitions |-> IF p \in Moved THEN next_offset[p] ELSE position[p]]
  /\ first' = [p \in Partitions |->
                 IF p \in Moved /\ first[p] = None THEN start[p] ELSE first[p]]
  /\ UNCHANGED <<topicVars, group, sliceVars, warned, faults>>

(* consumer.commit(), "strictly after COMMIT". *)
CommitToKafka ==
  /\ pc = "ack" /\ topic = "up"
  /\ Ended
  /\ group' = [p \in Partitions |-> IF p \in Moved THEN next_offset[p] ELSE group[p]]
  /\ UNCHANGED <<topicVars, tableVars, warned, first, faults>>

(* ... to a topic that has gone. *)
CommitRefused ==
  /\ pc = "ack" /\ topic # "up"
  /\ Ended
  /\ UNCHANGED <<topicVars, tableVars, group, warned, first, faults>>

(* The task raises, or its process dies, anywhere: DuckDB keeps what was    *)
(* committed, the lock is free, and Airflow starts the task again.          *)
TaskFails ==
  /\ pc # "idle" /\ Fault
  /\ Ended
  /\ UNCHANGED <<topicVars, tableVars, group, warned, first>>

-----------------------------------------------------------------------------
Task ==
  \/ PlanSlices \/ StopReading \/ NothingMoved
  \/ \E p \in Partitions : ReadMessage(p)
  \/ CommitTransaction \/ CommitToKafka \/ CommitRefused

Reset == ForgetTopic \/ CreateTopic

Next ==
  \/ \E p \in Partitions : Produce(p) \/ Expire(p)
  \/ DeleteTopic \/ Reset
  \/ Task \/ TaskFails

(* Airflow starts the task every five minutes, and it runs on. *)
Fairness == WF_vars(Task)

Spec == Init /\ [][Next]_vars /\ Fairness

-----------------------------------------------------------------------------
MessageSet == (1..MaxGenerations) \X Nat

TypeOK ==
  /\ topic \in {"up", "deleted", "forgotten"} /\ generation \in 1..MaxGenerations
  /\ topic # "up" => generation < MaxGenerations
  /\ low \in [Partitions -> Nat] /\ high \in [Partitions -> Nat]
  /\ rows \in [Partitions -> SUBSET MessageSet]
  /\ position \in [Partitions -> Nat \cup {None}]
  /\ group \in [Partitions -> Nat \cup {None}]
  /\ pc \in {"idle", "read", "commit", "ack"}
  /\ start \in [Partitions -> Nat] /\ end \in [Partitions -> Nat]
  /\ next_offset \in [Partitions -> Nat]
  /\ note \in [Partitions -> {"none", "expired", "timeout"}]
  /\ incoming \in [Partitions -> SUBSET MessageSet]
  /\ warned \in [Partitions -> SUBSET Nat]
  /\ first \in [Partitions -> Nat \cup {None}]
  /\ faults \in 0..MaxFaults

(* kafka_loader.py:14-18.  The table holds, of the topic that exists now,   *)
(* exactly the messages from where landing began to the stored position,    *)
(* less those logged as expired: none is missing, none is left over from a  *)
(* deleted topic, none is there that a later task would land again.         *)
LandedExactly ==
  \A p \in Partitions :
    IF position[p] = None THEN rows[p] = {}
    ELSE rows[p] = {<<generation, o>> : o \in (first[p]..(position[p] - 1)) \ warned[p]}

(* kafka_loader.py:17-18.  The primary key is a second line of defence: no  *)
(* batch a task is about to commit ever collides with it, so a landing is   *)
(* never refused for good.                                                  *)
NoCollision == pc = "commit" => PrimaryKeyHolds

(* kafka_loader.py:11-12.  The progress shown in the Console is never ahead *)
(* of the warehouse, although nothing reads it back.                        *)
ShownIsLanded ==
  \A p \in Partitions : group[p] # None => position[p] # None /\ group[p] <= position[p]

(* kafka_loader.py:1-22.  The loader implements exactly-once landing.       *)
Abstract == INSTANCE ExactlyOnce WITH table <- rows, reported <- warned

LandsExactlyOnce == Abstract!Spec

(* kafka_loader.py:3-11.  Every message of the topic is landed, unless it   *)
(* expires first or the topic is deleted: no position gets stuck.           *)
EventuallyLanded ==
  \A p \in Partitions : \A n \in 1..MaxOffset[p] :
    (topic = "up" /\ high[p] >= n) ~>
      \/ position[p] # None /\ position[p] >= n
      \/ low[p] >= n
      \/ topic # "up"
=============================================================================
