---------------------------- MODULE MCFaultLayer ----------------------------
(***************************************************************************)
(* One station, three events and two injections or triggers of any kinds,   *)
(* late events held for one step, episodes of up to two steps.             *)
(***************************************************************************)
EXTENDS FaultLayer
=============================================================================
