--------------------------- MODULE StationHistory ---------------------------
(***************************************************************************)
(* snap_stations: the versions of a station (a type-2 slowly changing      *)
(* dimension), dim_stations and the capacity dbt judges a report with.     *)
(* The stations are independent of each other: one of them is modelled.    *)
(*                                                                         *)
(* Time is counted in capacity changes: at time v the station has its v-th *)
(* capacity, and v is the updated_at that the API reports.                 *)
(***************************************************************************)
EXTENDS Integers, FiniteSets

CONSTANT Forever  \* 9999-12-31, later than every change

(* dim_stations: the version that is current. *)
Current(history) == {v \in history : v.to = Forever}

MutNeverClosed(history, updated) ==
  IF \A v \in Current(history) : v.from < updated
  THEN history \cup {[from |-> updated, to |-> Forever, capacity |-> updated]}
  ELSE history

(* One run of the snapshot (timestamp strategy) over stg_stations: a newer  *)
(* updated_at closes the current version and opens the next.               *)
Snapshot(history, updated) ==
  IF \A v \in Current(history) : v.from < updated
  THEN {IF v.to = Forever THEN [v EXCEPT !.to = updated] ELSE v : v \in history}
         \cup {[from |-> updated, to |-> Forever, capacity |-> updated]}
  ELSE history

MutJudgedNow(history, t) == Current(history)

(* int_detections' dbt_over_capacity: the versions a report made at time t  *)
(* is judged with.                                                         *)
JudgedWith(history, t) == {v \in history : v.from <= t /\ t < v.to}
=============================================================================
