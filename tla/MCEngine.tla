------------------------------ MODULE MCEngine ------------------------------
(***************************************************************************)
(* Three stations with four docks, three bikes: one dock is free when all  *)
(* bikes are docked, so riders often meet full stations.  Rides take up to *)
(* two ticks and steps two, so a ride may end in the step it began in.     *)
(***************************************************************************)
EXTENDS Engine, TLC

MCStations == {"a", "b", "c"}
MCCapacity == "a" :> 1 @@ "b" :> 1 @@ "c" :> 2
MCNear == "a" :> <<"b", "c">> @@ "b" :> <<"a", "c">> @@ "c" :> <<"b", "a">>
=============================================================================
