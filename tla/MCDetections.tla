---------------------------- MODULE MCDetections ----------------------------
(***************************************************************************)
(* Two trips and a report: the report comes while the first trip is under *)
(* way, and the second trip late enough for the first to be judged.  The   *)
(* station has more docks before the report, and again after it, and the   *)
(* report finds more bikes than it had docks at first.  With any two       *)
(* injections.                                                             *)
(***************************************************************************)
EXTENDS Detections, TLC

MCStartedAt == "a" :> 0 @@ "b" :> 4
MCEndedAt == "a" :> 2 @@ "b" :> 6
MCReportedAt == "r" :> 1
MCDocks == 0 :> 10 @@ 1 :> 12 @@ 3 :> 16
MCBikes == "r" :> 11
=============================================================================
