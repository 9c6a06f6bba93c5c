---------------------------- MODULE MCBatchLayer ----------------------------
(***************************************************************************)
(* Two trips and one station; one page.  Two trips are what it takes for   *)
(* the newest row of fct_trips to be of another trip than a late half.     *)
(***************************************************************************)
EXTENDS BatchLayer, TLC

Start(t) == [trip |-> t, half |-> "trip_started"]
End(t) == [trip |-> t, half |-> "trip_ended"]
MCLandings ==
  {{Start("t1")}, {End("t1")}, {Start("t1"), Start("t2"), End("t2")}}
=============================================================================
