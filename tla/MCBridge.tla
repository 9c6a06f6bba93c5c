------------------------------ MODULE MCBridge ------------------------------
(***************************************************************************)
(* The bridge on three events, a buffer of two (so that a slow bridge      *)
(* meets a gap), a producer queue of two, and any mix of MaxFaults faults. *)
(***************************************************************************)
EXTENDS Bridge
=============================================================================
