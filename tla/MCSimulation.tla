---------------------------- MODULE MCSimulation ----------------------------
(***************************************************************************)
(* Six ticks of simulated time, steps of two ticks, at most two steps per   *)
(* catch-up (so that a fast-forward needs several), two wall ticks between  *)
(* two re-anchorings, two admin calls, two stops of the process, and one    *)
(* change of configuration.                                                 *)
(***************************************************************************)
EXTENDS Simulation
=============================================================================
