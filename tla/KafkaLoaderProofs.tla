------------------------- MODULE KafkaLoaderProofs -------------------------
(***************************************************************************)
(* Proofs about the warehouse loader, for any partitions, any slice size,  *)
(* any number of messages, resets and faults: its type invariant, its      *)
(* safety properties, and that it implements ExactlyOnce.                  *)
(***************************************************************************)
EXTENDS KafkaLoader, TLAPS

-----------------------------------------------------------------------------
(* The inductive invariant, part by part.                                  *)

(* A stored position and the place where landing began come together. *)
BeginningKnown ==
  \A p \in Partitions :
    /\ position[p] = None => first[p] = None
    /\ position[p] # None => first[p] # None /\ first[p] <= position[p]

(* Only what retention has removed is ever logged as expired. *)
WarnedGone == \A p \in Partitions : \A o \in warned[p] : o < low[p]

(* A reset leaves nothing behind, and no task runs when it completes. *)
NothingKept ==
  topic = "forgotten" =>
    /\ pc = "idle"
    /\ \A p \in Partitions : rows[p] = {} /\ position[p] = None /\ warned[p] = {}

(* Kafka drops the group's offsets with the topic. *)
GroupDropped == topic # "up" => \A p \in Partitions : group[p] = None

(* The slice being read continues the stored position: what lies between   *)
(* the two was logged as expired, nothing from its start on was, and its    *)
(* rows are the messages from its start to next_offset.                    *)
Continues(p) ==
  /\ start[p] <= next_offset[p]
  /\ incoming[p] = Messages(start[p], next_offset[p])
  /\ position[p] # None =>
       position[p] <= start[p] /\ position[p]..(start[p] - 1) \subseteq warned[p]
  /\ \A o \in warned[p] : o < start[p]

SlicesContinue == pc \in {"read", "commit"} => \A p \in Partitions : Continues(p)

(* Between COMMIT and the commit to Kafka, the position is what is shown next. *)
AckIsLanded == pc = "ack" => \A p \in Moved : position[p] = next_offset[p]

IInv ==
  /\ TypeOK /\ LandedExactly /\ ShownIsLanded
  /\ BeginningKnown /\ WarnedGone /\ NothingKept /\ GroupDropped
  /\ SlicesContinue /\ AckIsLanded

-----------------------------------------------------------------------------
(* Types.                                                                  *)

LEMMA TypeInit == Init => TypeOK
  BY LoaderAssumption DEF Init, TypeOK, All

LEMMA TypeStep == TypeOK /\ [Next]_vars => TypeOK'
<1> SUFFICES ASSUME TypeOK, [Next]_vars PROVE TypeOK'
  OBVIOUS
<1> USE LoaderAssumption DEF TypeOK
<1>1. ASSUME NEW p \in Partitions, Produce(p) PROVE TypeOK'
  BY <1>1 DEF Produce, tableVars, sliceVars
<1>2. ASSUME NEW p \in Partitions, Expire(p) PROVE TypeOK'
  BY <1>2 DEF Expire, tableVars, sliceVars
<1>3. CASE DeleteTopic
  BY <1>3 DEF DeleteTopic, All, tableVars, sliceVars
<1>4. CASE ForgetTopic
  BY <1>4 DEF ForgetTopic, All, sliceVars
<1>5. CASE CreateTopic
  <2>1. generation' \in 1..MaxGenerations
    BY <1>5 DEF CreateTopic
  <2>2. low' \in [Partitions -> Nat] /\ high' \in [Partitions -> Nat]
    BY <1>5 DEF CreateTopic, All
  <2> QED
    BY <1>5, <2>1, <2>2 DEF CreateTopic, tableVars, sliceVars
<1>6. CASE PlanSlices
  <2>1. \A p \in Partitions : Stored(p) \in Nat
    BY DEF Stored
  <2>2. \A a, b \in Nat : Higher(a, b) \in Nat /\ Lower(a, b) \in Nat
    BY DEF Higher, Lower
  <2>3. start' \in [Partitions -> Nat] /\ next_offset' \in [Partitions -> Nat]
    BY <1>6, <2>1, <2>2 DEF PlanSlices
  <2>4. end' \in [Partitions -> Nat]
    <3>1. \A p \in Partitions : Higher(Stored(p), low[p]) + MaxPer \in Nat
      <4>1. \A p \in Partitions : Higher(Stored(p), low[p]) \in Nat
        BY <2>1, <2>2
      <4> QED
        BY <4>1
    <3>2. \A p \in Partitions : Lower(high[p], Higher(Stored(p), low[p]) + MaxPer) \in Nat
      BY <2>2, <3>1
    <3> QED
      BY <1>6, <3>2 DEF PlanSlices
  <2>5. note' \in [Partitions -> {"none", "expired", "timeout"}]
    BY <1>6 DEF PlanSlices
  <2>6. warned' \in [Partitions -> SUBSET Nat]
    BY <1>6, <2>1 DEF PlanSlices
  <2>7. incoming' \in [Partitions -> SUBSET MessageSet] /\ pc' = "read"
    BY <1>6 DEF PlanSlices, All
  <2> QED
    BY <1>6, <2>3, <2>4, <2>5, <2>6, <2>7 DEF PlanSlices, topicVars, tableVars
<1>7. CASE StopReading
  BY <1>7 DEF StopReading, Fault, topicVars, tableVars
<1>8. CASE NothingMoved
  BY <1>8 DEF NothingMoved, Ended, All, topicVars, tableVars
<1>9. ASSUME NEW p \in Partitions, ReadMessage(p) PROVE TypeOK'
  <2>1. <<generation, next_offset[p]>> \in MessageSet
    BY DEF MessageSet
  <2>2. incoming' \in [Partitions -> SUBSET MessageSet]
    BY <1>9, <2>1 DEF ReadMessage
  <2>3. next_offset' \in [Partitions -> Nat]
    <3>1. next_offset[p] + 1 \in Nat
      OBVIOUS
    <3> QED
      BY <1>9, <3>1 DEF ReadMessage
  <2>4. UNCHANGED <<topicVars, tableVars, group, pc, start, end, note, warned, first, faults>>
    BY <1>9 DEF ReadMessage
  <2> QED
    BY <2>2, <2>3, <2>4 DEF topicVars, tableVars
<1>10. CASE CommitTransaction
  <2>1. rows' \in [Partitions -> SUBSET MessageSet]
    BY <1>10 DEF CommitTransaction
  <2>2. position' \in [Partitions -> Nat \cup {None}]
    BY <1>10 DEF CommitTransaction
  <2>3. first' \in [Partitions -> Nat \cup {None}]
    BY <1>10 DEF CommitTransaction
  <2> QED
    BY <1>10, <2>1, <2>2, <2>3 DEF CommitTransaction, topicVars, sliceVars
<1>11. CASE CommitToKafka
  BY <1>11 DEF CommitToKafka, Ended, All, topicVars, tableVars
<1>12. CASE CommitRefused
  BY <1>12 DEF CommitRefused, Ended, All, topicVars, tableVars
<1>13. CASE TaskFails
  BY <1>13 DEF TaskFails, Fault, Ended, All, topicVars, tableVars
<1>14. CASE UNCHANGED vars
  BY <1>14 DEF vars, topicVars, tableVars, sliceVars
<1> QED
  BY <1>1, <1>2, <1>3, <1>4, <1>5, <1>6, <1>7, <1>8, <1>9, <1>10, <1>11, <1>12, <1>13, <1>14
  DEF Next, Reset, Task

(* Every state of the loader has the types of TypeOK, whatever the         *)
(* constants: in particular no position is ever Slice.next_offset's unset  *)
(* default of -1.                                                          *)
THEOREM TypeCorrect == Spec => []TypeOK
  BY TypeInit, TypeStep, PTL DEF Spec

-----------------------------------------------------------------------------
(* The invariant is inductive.                                             *)

LEMMA InvInit == Init => IInv
  BY TypeInit DEF Init, IInv, All, LandedExactly, ShownIsLanded, BeginningKnown, WarnedGone,
    NothingKept, GroupDropped, SlicesContinue, AckIsLanded

(* A task that ends, or a step that leaves the task idle, keeps what the    *)
(* invariant says of slices.                                               *)
LEMMA TableUnchanged ==
  ASSUME LandedExactly, BeginningKnown, UNCHANGED <<generation, rows, position, warned, first>>
  PROVE  LandedExactly' /\ BeginningKnown'
  BY DEF LandedExactly, BeginningKnown

LEMMA EndedStep ==
  ASSUME IInv, Ended, UNCHANGED <<topicVars, tableVars, warned, first>>, TypeOK',
         ShownIsLanded', GroupDropped'
  PROVE  IInv'
<1>1. LandedExactly' /\ BeginningKnown'
  BY TableUnchanged DEF IInv, topicVars, tableVars
<1>2. WarnedGone' /\ NothingKept'
  BY DEF IInv, WarnedGone, NothingKept, Ended, topicVars, tableVars
<1>3. SlicesContinue' /\ AckIsLanded'
  BY DEF Ended, SlicesContinue, AckIsLanded
<1> QED
  BY <1>1, <1>2, <1>3 DEF IInv

(* What a transaction does to one partition it moves: the new rows continue *)
(* the old ones.                                                           *)
LEMMA CommitPartition ==
  ASSUME IInv, CommitTransaction, NEW p \in Partitions, p \in Moved
  PROVE  /\ position'[p] = next_offset[p] /\ first'[p] \in Nat
         /\ first'[p] <= next_offset[p]
         /\ rows'[p] = {<<generation, o>> : o \in (first'[p]..(next_offset[p] - 1)) \ warned[p]}
<1> USE DEF IInv, TypeOK
<1>1. Continues(p)
  BY DEF CommitTransaction, SlicesContinue
<1>2. /\ position'[p] = next_offset[p]
      /\ rows'[p] = rows[p] \cup Messages(start[p], next_offset[p])
      /\ first'[p] = IF first[p] = None THEN start[p] ELSE first[p]
  BY <1>1 DEF CommitTransaction, Continues
<1>3. start[p] \in Nat /\ next_offset[p] \in Nat /\ start[p] <= next_offset[p]
      /\ \A o \in warned[p] : o < start[p]
  BY <1>1 DEF Continues
<1>4. CASE position[p] = None
  <2>1. rows[p] = {} /\ first[p] = None
    BY <1>4 DEF LandedExactly, BeginningKnown
  <2>2. (start[p]..(next_offset[p] - 1)) \ warned[p] = start[p]..(next_offset[p] - 1)
    BY <1>3
  <2> QED
    BY <1>2, <1>3, <2>1, <2>2 DEF Messages
<1>5. CASE position[p] # None
  <2>1. /\ position[p] \in Nat /\ first[p] \in Nat /\ first[p] <= position[p]
        /\ position[p] <= start[p] /\ position[p]..(start[p] - 1) \subseteq warned[p]
    BY <1>1, <1>5 DEF BeginningKnown, Continues
  <2>2. rows[p] = {<<generation, o>> : o \in (first[p]..(position[p] - 1)) \ warned[p]}
    BY <1>5 DEF LandedExactly
  <2>3. (first[p]..(next_offset[p] - 1)) \ warned[p]
          = ((first[p]..(position[p] - 1)) \ warned[p]) \cup start[p]..(next_offset[p] - 1)
    BY <1>3, <2>1
  <2>4. first'[p] = first[p]
    BY <1>2, <2>1, LoaderAssumption
  <2> QED
    BY <1>2, <1>3, <2>1, <2>2, <2>3, <2>4 DEF Messages
<1> QED
  BY <1>4, <1>5

(* Planning: what expired is logged before the slice starts above it. *)
LEMMA PlanStep == IInv /\ PlanSlices => IInv'
<1> SUFFICES ASSUME IInv, PlanSlices PROVE IInv'
  OBVIOUS
<1> USE DEF IInv
<1>1. TypeOK'
  BY TypeStep DEF Next, Task
<1>2. ASSUME NEW p \in Partitions
      PROVE  /\ Stored(p) \in Nat /\ low[p] \in Nat
             /\ start'[p] = Higher(Stored(p), low[p])
             /\ next_offset'[p] = start'[p] /\ incoming'[p] = {}
             /\ warned'[p] = warned[p] \cup Stored(p)..(low[p] - 1)
  BY DEF TypeOK, PlanSlices, All, Stored
<1>3. UNCHANGED <<topic, generation, low, rows, position, group, first>> /\ pc' = "read"
  BY DEF PlanSlices, topicVars, tableVars
<1>4. LandedExactly'
  <2> SUFFICES ASSUME NEW p \in Partitions, position[p] # None
               PROVE  (first[p]..(position[p] - 1)) \ warned[p]
                        = (first[p]..(position[p] - 1)) \ warned'[p]
    BY <1>2, <1>3 DEF LandedExactly
  <2>1. Stored(p) = position[p]
    BY DEF Stored
  <2>2. position[p] \in Nat /\ first[p] \in Nat
    BY DEF TypeOK, BeginningKnown
  <2> QED
    BY <1>2, <2>1, <2>2
<1>5. WarnedGone'
  BY <1>2, <1>3 DEF WarnedGone, TypeOK
<1>6. ASSUME NEW p \in Partitions PROVE Continues(p)'
  <2>1. /\ start'[p] \in Nat /\ Stored(p) <= start'[p] /\ low[p] <= start'[p]
        /\ start'[p] = Stored(p) \/ start'[p] = low[p]
    BY <1>2 DEF Higher
  <2>2. incoming'[p] = Messages(start[p], next_offset[p])'
    BY <1>2, <2>1 DEF Messages
  <2>3. position'[p] # None => Stored(p) = position'[p]
    BY <1>3 DEF Stored
  <2>4. \A o \in warned'[p] : o \in Nat /\ o < start'[p]
    BY <1>2, <2>1 DEF WarnedGone, TypeOK
  <2>5. Stored(p)..(start'[p] - 1) \subseteq warned'[p]
    BY <1>2, <2>1
  <2> QED
    BY <1>2, <1>3, <2>1, <2>2, <2>3, <2>4, <2>5 DEF Continues
<1>7. SlicesContinue' /\ AckIsLanded'
  BY <1>3, <1>6 DEF SlicesContinue, AckIsLanded
<1>8. ShownIsLanded' /\ BeginningKnown' /\ GroupDropped'
  BY <1>3 DEF ShownIsLanded, BeginningKnown, GroupDropped
<1>9. NothingKept'
  BY <1>3 DEF NothingKept, PlanSlices
<1> QED
  BY <1>1, <1>4, <1>5, <1>7, <1>8, <1>9

(* Reading: the slice grows by the message at its end. *)
LEMMA ReadStep == ASSUME IInv, NEW p \in Partitions, ReadMessage(p) PROVE IInv'
<1> USE DEF IInv
<1>1. TypeOK'
  BY TypeStep DEF Next, Task
<1>2. UNCHANGED <<topic, generation, low, rows, position, group, first, warned, start, pc>>
  BY DEF ReadMessage, topicVars, tableVars
<1>3. LandedExactly' /\ BeginningKnown'
  BY <1>2, TableUnchanged
<1>4. ASSUME NEW q \in Partitions PROVE Continues(q)'
  <2>1. Continues(q) /\ start[q] \in Nat /\ next_offset[q] \in Nat
    BY DEF SlicesContinue, ReadMessage, TypeOK
  <2>2. CASE q # p
    <3>1. next_offset'[q] = next_offset[q] /\ incoming'[q] = incoming[q]
      BY <2>2 DEF ReadMessage, TypeOK
    <3> QED
      BY <1>2, <2>1, <3>1 DEF Continues, Messages
  <2>3. CASE q = p
    <3>1. /\ next_offset'[q] = next_offset[q] + 1
          /\ incoming'[q] = incoming[q] \cup {<<generation, next_offset[q]>>}
      BY <2>3 DEF ReadMessage, TypeOK
    <3>2. start[q]..((next_offset[q] + 1) - 1)
            = start[q]..(next_offset[q] - 1) \cup {next_offset[q]}
      BY <2>1 DEF Continues
    <3>3. incoming'[q] = Messages(start[q], next_offset[q] + 1)
      BY <2>1, <3>1, <3>2 DEF Continues, Messages
    <3>4. incoming'[q] = Messages(start[q], next_offset[q])'
      BY <1>2, <3>1, <3>3 DEF Messages
    <3> QED
      BY <1>2, <2>1, <3>1, <3>4 DEF Continues
  <2> QED
    BY <2>2, <2>3
<1>5. SlicesContinue' /\ AckIsLanded'
  BY <1>2, <1>4 DEF SlicesContinue, AckIsLanded, ReadMessage
<1>6. ShownIsLanded' /\ WarnedGone' /\ GroupDropped' /\ NothingKept'
  BY <1>2 DEF ShownIsLanded, WarnedGone, GroupDropped, NothingKept
<1> QED
  BY <1>1, <1>3, <1>5, <1>6

LEMMA CommitStep == IInv /\ CommitTransaction => IInv'
<1> SUFFICES ASSUME IInv, CommitTransaction PROVE IInv'
  OBVIOUS
<1> USE DEF IInv
<1>1. TypeOK'
  BY TypeStep DEF Next, Task
<1>2. UNCHANGED <<topic, generation, low, group, warned, start, next_offset, note>>
      /\ pc = "commit" /\ pc' = "ack"
  BY DEF CommitTransaction, topicVars, sliceVars
<1>3. \A p \in Partitions : Continues(p)
  BY <1>2 DEF SlicesContinue
<1>4. ASSUME NEW p \in Partitions, p \notin Moved
      PROVE  position'[p] = position[p] /\ rows'[p] = rows[p] /\ first'[p] = first[p]
  <2>1. next_offset[p] = start[p] /\ start[p] \in Nat
    BY <1>4 DEF Moved, TypeOK
  <2>2. incoming[p] = {}
    BY <1>3, <2>1 DEF Continues, Messages
  <2> QED
    BY <1>4, <2>2 DEF CommitTransaction, TypeOK
<1>5. ASSUME NEW p \in Moved
      PROVE  /\ p \in Partitions /\ position'[p] = next_offset[p] /\ next_offset[p] \in Nat
             /\ first'[p] \in Nat /\ first'[p] <= next_offset[p]
             /\ rows'[p] = {<<generation, o>> : o \in (first'[p]..(next_offset[p] - 1)) \ warned[p]}
  BY CommitPartition DEF Moved, TypeOK
<1>6. LandedExactly'
  <2>1. ASSUME NEW p \in Partitions
        PROVE  IF position'[p] = None THEN rows'[p] = {}
               ELSE rows'[p] = {<<generation, o>> : o \in (first'[p]..(position'[p] - 1)) \ warned[p]}
    <3>1. CASE p \in Moved
      BY <1>5, <3>1, LoaderAssumption
    <3>2. CASE p \notin Moved
      BY <1>4, <3>2 DEF LandedExactly
    <3> QED
      BY <3>1, <3>2
  <2> QED
    BY <1>2, <2>1 DEF LandedExactly
<1>7. BeginningKnown'
  BY <1>4, <1>5, LoaderAssumption DEF BeginningKnown
<1>8. ShownIsLanded'
  <2> SUFFICES ASSUME NEW p \in Partitions, group[p] # None
               PROVE  position'[p] # None /\ group[p] <= position'[p]
    BY <1>2 DEF ShownIsLanded
  <2>1. position[p] # None /\ group[p] <= position[p] /\ group[p] \in Nat /\ position[p] \in Nat
    BY DEF ShownIsLanded, TypeOK
  <2>2. position[p] <= start[p] /\ start[p] <= next_offset[p]
        /\ start[p] \in Nat /\ next_offset[p] \in Nat
    BY <1>3, <2>1 DEF Continues, TypeOK
  <2>3. CASE p \in Moved
    BY <1>5, <2>1, <2>2, <2>3, LoaderAssumption
  <2>4. CASE p \notin Moved
    BY <1>4, <2>1, <2>4
  <2> QED
    BY <2>3, <2>4
<1>9. AckIsLanded' /\ SlicesContinue'
  <2>1. Moved' = Moved
    BY <1>2 DEF Moved
  <2> QED
    BY <1>2, <1>5, <2>1 DEF AckIsLanded, SlicesContinue
<1>10. WarnedGone' /\ GroupDropped' /\ NothingKept'
  BY <1>2 DEF WarnedGone, GroupDropped, NothingKept
<1> QED
  BY <1>1, <1>6, <1>7, <1>8, <1>9, <1>10

(* The topic's own steps, and the reset. *)
LEMMA TopicStep ==
  ASSUME IInv, DeleteTopic \/ Reset \/ (\E p \in Partitions : Produce(p) \/ Expire(p))
  PROVE  IInv'
<1> USE DEF IInv
<1>1. TypeOK'
  BY TypeStep DEF Next
<1>2. ASSUME NEW p \in Partitions, Produce(p) \/ Expire(p) PROVE IInv'
  <2>1. UNCHANGED <<topic, generation, tableVars, group, pc, sliceVars, warned, first>>
    BY <1>2 DEF Produce, Expire
  <2>2. \A q \in Partitions : low[q] <= low'[q]
    BY <1>2 DEF Produce, Expire, TypeOK
  <2>3. WarnedGone'
    BY <1>1, <2>1, <2>2 DEF WarnedGone, TypeOK
  <2>4. LandedExactly' /\ BeginningKnown'
    BY <2>1, TableUnchanged DEF tableVars
  <2>5. SlicesContinue' /\ AckIsLanded'
    BY <2>1 DEF SlicesContinue, Continues, Messages, AckIsLanded, Moved, tableVars, sliceVars
  <2>6. ShownIsLanded' /\ NothingKept' /\ GroupDropped'
    BY <2>1 DEF ShownIsLanded, NothingKept, GroupDropped, tableVars
  <2> QED
    BY <1>1, <2>3, <2>4, <2>5, <2>6
<1>3. CASE DeleteTopic
  <2>1. UNCHANGED <<generation, low, tableVars, pc, sliceVars, warned, first>>
    BY <1>3 DEF DeleteTopic
  <2>2. \A p \in Partitions : group'[p] = None
    BY <1>3 DEF DeleteTopic, All
  <2>3. LandedExactly' /\ BeginningKnown'
    BY <2>1, TableUnchanged DEF tableVars
  <2>4. SlicesContinue' /\ AckIsLanded'
    BY <2>1 DEF SlicesContinue, Continues, Messages, AckIsLanded, Moved, tableVars, sliceVars
  <2>5. ShownIsLanded' /\ GroupDropped' /\ WarnedGone' /\ NothingKept'
    BY <1>3, <2>1, <2>2 DEF DeleteTopic, ShownIsLanded, GroupDropped, WarnedGone, NothingKept
  <2> QED
    BY <1>1, <2>3, <2>4, <2>5
<1>4. CASE ForgetTopic
  <2>1. /\ pc = "idle" /\ pc' = "idle" /\ topic = "deleted" /\ topic' = "forgotten"
        /\ UNCHANGED <<low, group>>
        /\ \A p \in Partitions : rows'[p] = {} /\ position'[p] = None /\ warned'[p] = {}
                                  /\ first'[p] = None
    BY <1>4 DEF ForgetTopic, All
  <2>2. LandedExactly' /\ BeginningKnown' /\ WarnedGone' /\ NothingKept'
    BY <2>1 DEF LandedExactly, BeginningKnown, WarnedGone, NothingKept
  <2>3. ShownIsLanded' /\ GroupDropped' /\ SlicesContinue' /\ AckIsLanded'
    BY <2>1 DEF ShownIsLanded, GroupDropped, SlicesContinue, AckIsLanded
  <2> QED
    BY <1>1, <2>2, <2>3
<1>5. CASE CreateTopic
  <2>1. /\ topic = "forgotten" /\ topic' = "up" /\ pc = "idle" /\ pc' = "idle"
        /\ UNCHANGED <<group, first>>
        /\ \A p \in Partitions : rows'[p] = {} /\ position'[p] = None /\ warned'[p] = {}
    BY <1>5 DEF CreateTopic, tableVars, NothingKept
  <2>2. LandedExactly' /\ BeginningKnown' /\ WarnedGone' /\ NothingKept'
    BY <1>5, <2>1 DEF LandedExactly, BeginningKnown, WarnedGone, NothingKept, CreateTopic, tableVars
  <2>3. ShownIsLanded' /\ GroupDropped' /\ SlicesContinue' /\ AckIsLanded'
    BY <2>1 DEF ShownIsLanded, GroupDropped, SlicesContinue, AckIsLanded
  <2> QED
    BY <1>1, <2>2, <2>3
<1> QED
  BY <1>2, <1>3, <1>4, <1>5 DEF Reset

LEMMA InvStep == IInv /\ [Next]_vars => IInv'
<1> SUFFICES ASSUME IInv, [Next]_vars PROVE IInv'
  OBVIOUS
<1>1. TypeOK'
  BY TypeStep DEF IInv
<1>2. CASE DeleteTopic \/ Reset \/ (\E p \in Partitions : Produce(p) \/ Expire(p))
  BY <1>2, TopicStep
<1>3. CASE PlanSlices
  BY <1>3, PlanStep
<1>4. CASE \E p \in Partitions : ReadMessage(p)
  BY <1>4, ReadStep
<1>5. CASE StopReading
  <2>1. /\ UNCHANGED <<topicVars, tableVars, group, start, next_offset, incoming, warned, first>>
        /\ pc = "read" /\ pc' = "commit"
    BY <1>5 DEF StopReading
  <2>2. LandedExactly' /\ BeginningKnown'
    BY <2>1, TableUnchanged DEF IInv, topicVars, tableVars
  <2>3. SlicesContinue' /\ AckIsLanded'
    BY <2>1 DEF IInv, SlicesContinue, Continues, Messages, AckIsLanded, topicVars, tableVars
  <2>4. ShownIsLanded' /\ WarnedGone' /\ NothingKept' /\ GroupDropped'
    BY <2>1 DEF IInv, ShownIsLanded, WarnedGone, NothingKept, GroupDropped, topicVars, tableVars
  <2> QED
    BY <1>1, <2>2, <2>3, <2>4 DEF IInv
<1>6. CASE CommitTransaction
  BY <1>6, CommitStep
<1>7. CASE NothingMoved \/ CommitRefused \/ TaskFails
  <2>1. Ended /\ UNCHANGED <<topicVars, tableVars, group, warned, first>>
    BY <1>7 DEF NothingMoved, CommitRefused, TaskFails
  <2>2. ShownIsLanded' /\ GroupDropped'
    BY <2>1 DEF IInv, ShownIsLanded, GroupDropped, topicVars, tableVars
  <2> QED
    BY <1>1, <2>1, <2>2, EndedStep
<1>8. CASE CommitToKafka
  <2>1. Ended /\ UNCHANGED <<topicVars, tableVars, warned, first>> /\ topic' = "up"
    BY <1>8 DEF CommitToKafka, topicVars
  <2>2. ShownIsLanded'
    <3>1. ASSUME NEW p \in Partitions, group'[p] # None
          PROVE  position[p] # None /\ group'[p] <= position[p]
      <4>1. CASE p \in Moved
        <5>1. group'[p] = next_offset[p] /\ position[p] = next_offset[p] /\ next_offset[p] \in Nat
          BY <1>8, <4>1 DEF CommitToKafka, IInv, AckIsLanded, TypeOK
        <5> QED
          BY <5>1, LoaderAssumption
      <4>2. CASE p \notin Moved
        BY <1>8, <3>1, <4>2 DEF CommitToKafka, IInv, ShownIsLanded, TypeOK
      <4> QED
        BY <4>1, <4>2
    <3> QED
      BY <2>1, <3>1 DEF ShownIsLanded, tableVars
  <2>3. GroupDropped'
    BY <2>1 DEF GroupDropped
  <2> QED
    BY <1>1, <2>1, <2>2, <2>3, EndedStep
<1>9. CASE UNCHANGED vars
  BY <1>1, <1>9 DEF IInv, vars, topicVars, tableVars, sliceVars, LandedExactly, ShownIsLanded,
    BeginningKnown, WarnedGone, NothingKept, GroupDropped, SlicesContinue, Continues, Messages,
    AckIsLanded, Moved
<1> QED
  BY <1>2, <1>3, <1>4, <1>5, <1>6, <1>7, <1>8, <1>9 DEF Next, Task

(* No landed row and no row about to land have the same offset: the rows    *)
(* lie below the stored position, the slice at or above it.                *)
LEMMA NoCollisionFollows == IInv => NoCollision
<1> SUFFICES ASSUME IInv, pc = "commit", NEW p \in Partitions, NEW m \in incoming[p],
                    NEW r \in rows[p]
             PROVE  m[2] # r[2]
  BY DEF NoCollision, PrimaryKeyHolds
<1> USE DEF IInv, TypeOK
<1>1. Continues(p)
  BY DEF SlicesContinue
<1>2. position[p] # None /\ position[p] \in Nat /\ first[p] \in Nat
  BY DEF LandedExactly, BeginningKnown
<1>3. PICK o \in start[p]..(next_offset[p] - 1) : m = <<generation, o>>
  BY <1>1 DEF Continues, Messages
<1>4. PICK q \in (first[p]..(position[p] - 1)) \ warned[p] : r = <<generation, q>>
  BY <1>2 DEF LandedExactly
<1> QED
  BY <1>1, <1>2, <1>3, <1>4 DEF Continues

-----------------------------------------------------------------------------
(* The properties of the run MCKafkaLoader, for every value of the          *)
(* constants.                                                              *)

LEMMA Invariance == Spec => []IInv
  BY InvInit, InvStep, PTL DEF Spec

(* The table holds exactly the messages between where landing began and the *)
(* stored position, less those logged as expired, through any sequence of   *)
(* tasks, failures, expiries and resets.                                    *)
THEOREM ExactlyOnceLanding == Spec => []LandedExactly
<1>1. IInv => LandedExactly
  BY DEF IInv
<1> QED
  BY <1>1, Invariance, PTL

(* The primary key of the raw table never refuses a batch. *)
THEOREM NeverCollides == Spec => []NoCollision
  BY NoCollisionFollows, Invariance, PTL

(* The offsets shown in the Console never run ahead of the warehouse. *)
THEOREM ShownAfterLanded == Spec => []ShownIsLanded
<1>1. IInv => ShownIsLanded
  BY DEF IInv
<1> QED
  BY <1>1, Invariance, PTL

-----------------------------------------------------------------------------
(* The loader implements ExactlyOnce.                                      *)

LEMMA RefinesInit == Init => Abstract!Init
  BY DEF Init, Abstract!Init, All

(* A transaction lands, in every partition it moves, the slice planned for it. *)
LEMMA RefinesLand == IInv /\ CommitTransaction => Abstract!Land
<1> SUFFICES ASSUME IInv, CommitTransaction PROVE Abstract!Land
  OBVIOUS
<1> USE DEF IInv, TypeOK
<1>1. UNCHANGED <<generation, warned>> /\ pc = "commit"
  BY DEF CommitTransaction, topicVars
<1>2. ASSUME NEW p \in Partitions, p \notin Moved
      PROVE  rows'[p] = rows[p] /\ position'[p] = position[p]
  <2>1. next_offset[p] = start[p] /\ start[p] \in Nat
    BY <1>2 DEF Moved
  <2>2. incoming[p] = {}
    BY <1>1, <2>1 DEF SlicesContinue, Continues, Messages
  <2> QED
    BY <1>2, <2>2 DEF CommitTransaction
<1>3. ASSUME NEW p \in Partitions, p \in Moved
      PROVE  position'[p] # None /\ Abstract!LandSlice(p)
  <2>1. Continues(p) /\ start[p] \in Nat /\ next_offset[p] \in Nat
    BY <1>1 DEF SlicesContinue
  <2>2. position'[p] = next_offset[p] /\ rows'[p] = rows[p] \cup incoming[p]
    BY <1>3 DEF CommitTransaction
  <2>3. incoming[p] = Abstract!Slice(start[p], position'[p])
    BY <2>1, <2>2 DEF Continues, Messages, Abstract!Slice
  <2>4. rows[p] \cap incoming[p] = {}
    BY <1>1, NoCollisionFollows DEF NoCollision, PrimaryKeyHolds
  <2>5. start[p] \in 0..position'[p]
    BY <2>1, <2>2 DEF Continues
  <2>6. position[p] # None =>
          position[p] <= start[p] /\ position[p]..(start[p] - 1) \subseteq warned[p]
    BY <2>1 DEF Continues
  <2> QED
    BY <2>1, <2>2, <2>3, <2>4, <2>5, <2>6, LoaderAssumption DEF Abstract!LandSlice
<1> QED
  BY <1>1, <1>2, <1>3 DEF Abstract!Land

LEMMA RefinesStep == IInv /\ [Next]_vars => [Abstract!Next]_(Abstract!avars)
<1> SUFFICES ASSUME IInv, [Next]_vars
             PROVE  Abstract!Next \/ UNCHANGED <<generation, rows, position, warned>>
  BY DEF Abstract!avars
<1>1. CASE CommitTransaction
  BY <1>1, RefinesLand DEF Abstract!Next
<1>2. CASE PlanSlices
  <2>1. \A p \in Partitions : warned[p] \subseteq warned'[p]
    BY <1>2 DEF PlanSlices
  <2>2. Abstract!Report
    BY <1>2, <2>1 DEF PlanSlices, topicVars, tableVars, Abstract!Report
  <2> QED
    BY <2>2 DEF Abstract!Next
<1>3. CASE ForgetTopic
  <2>1. Abstract!Forget
    BY <1>3 DEF ForgetTopic, All, Abstract!Forget
  <2> QED
    BY <2>1 DEF Abstract!Next
<1>4. CASE CreateTopic
  <2>1. Abstract!Renumber
    BY <1>4 DEF CreateTopic, tableVars, IInv, NothingKept, Abstract!Renumber
  <2> QED
    BY <2>1 DEF Abstract!Next
<1>5. CASE \/ DeleteTopic \/ StopReading \/ NothingMoved \/ CommitToKafka \/ CommitRefused
           \/ TaskFails \/ UNCHANGED vars
           \/ \E p \in Partitions : Produce(p) \/ Expire(p) \/ ReadMessage(p)
  BY <1>5 DEF DeleteTopic, StopReading, NothingMoved, CommitToKafka, CommitRefused, TaskFails,
    Produce, Expire, ReadMessage, vars, topicVars, tableVars
<1> QED
  BY <1>1, <1>2, <1>3, <1>4, <1>5 DEF Next, Task, Reset

(* Every behaviour of the loader, crashes, expiries and resets included, is *)
(* one of ExactlyOnce: table and positions change in one step or not at all. *)
THEOREM ImplementsExactlyOnce == Spec => LandsExactlyOnce
  BY RefinesInit, RefinesStep, Invariance, PTL DEF Spec, LandsExactlyOnce, Abstract!Spec
=============================================================================
