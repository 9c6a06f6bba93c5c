---------------------------- MODULE ExactlyOnce ----------------------------
(***************************************************************************)
(* What the warehouse loader promises (the docstring of                    *)
(* src/orchestration/include/landing/kafka_loader.py): a topic's messages  *)
(* and the positions they are read from change together.  A position only  *)
(* moves forward, over messages that arrive in the same step or whose      *)
(* expiry has been reported; a message arrives once; only a reset of the   *)
(* topic takes messages or positions away, and it takes all of both.       *)
(***************************************************************************)
EXTENDS Integers

CONSTANTS Partitions, None

VARIABLES
  generation,  \* which creation of the topic the offsets number
  table,       \* per partition, the messages <<generation, offset>> that arrived
  position,    \* per partition, the next offset to read, None at first
  reported     \* per partition, the offsets reported expired

avars == <<generation, table, position, reported>>

Slice(first, next) == {<<generation, o>> : o \in first..(next - 1)}

Init ==
  /\ generation = 1
  /\ table = [p \in Partitions |-> {}]
  /\ position = [p \in Partitions |-> None]
  /\ reported = [p \in Partitions |-> {}]

Report ==
  /\ \A p \in Partitions : reported[p] \subseteq reported'[p]
  /\ UNCHANGED <<generation, table, position>>

(* Partition p's next slice: from where it stood, less what was reported.  *)
LandSlice(p) ==
  \E first \in 0..position'[p] :
    /\ position[p] # None =>
         /\ position[p] <= first
         /\ position[p]..(first - 1) \subseteq reported[p]
    /\ table[p] \cap Slice(first, position'[p]) = {}
    /\ table'[p] = table[p] \cup Slice(first, position'[p])

Land ==
  /\ \A p \in Partitions :
       \/ table'[p] = table[p] /\ position'[p] = position[p]
       \/ position'[p] # None /\ LandSlice(p)
  /\ UNCHANGED <<generation, reported>>

Forget ==
  /\ table' = [p \in Partitions |-> {}]
  /\ position' = [p \in Partitions |-> None]
  /\ reported' = [p \in Partitions |-> {}]
  /\ UNCHANGED generation

(* Offsets are numbered anew only when nothing of the old numbering is left. *)
Renumber ==
  /\ \A p \in Partitions : table[p] = {} /\ position[p] = None
  /\ generation' = generation + 1
  /\ UNCHANGED <<table, position, reported>>

Next == Report \/ Land \/ Forget \/ Renumber

Spec == Init /\ [][Next]_avars
=============================================================================
