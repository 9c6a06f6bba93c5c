---------------------------- MODULE MCSseStream ----------------------------
(***************************************************************************)
(* One client with every choice of type filter; a buffer of two events and *)
(* reads of two, so that a batch in flight can leave the buffer and a      *)
(* reader can fall behind by more than the buffer.                         *)
(***************************************************************************)
EXTENDS SseStream

MCTypeOf == [n \in 1..MaxSeq |-> IF n % 2 = 0 THEN "trip" ELSE "status"]
=============================================================================
