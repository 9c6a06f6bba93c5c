--------------------------- MODULE MCStreamQueries ---------------------------
(***************************************************************************)
(* Three trips: one as long as a trip may be, a short one within it, and   *)
(* one later, whose halves move the watermarks past both.                  *)
(***************************************************************************)
EXTENDS StreamQueries, TLC

MCStartedAt == "long" :> 1 @@ "short" :> 2 @@ "later" :> 6
MCEndedAt == "long" :> 4 @@ "short" :> 3 @@ "later" :> 8
=============================================================================
