--------------------------- MODULE MCKafkaLoader ---------------------------
(***************************************************************************)
(* Two partitions, one of them long enough for a backlog that takes two    *)
(* tasks (slices of two messages, a third one left), two creations of the  *)
(* topic, and one task that fails, dies or times out early.                *)
(***************************************************************************)
EXTENDS KafkaLoader

CONSTANTS p1, p2

MCPartitions == {p1, p2}
MCMaxOffset == [p \in MCPartitions |-> IF p = p1 THEN 3 ELSE 1]
=============================================================================
