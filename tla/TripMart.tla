------------------------------ MODULE TripMart ------------------------------
(***************************************************************************)
(* The dbt models between the landed trip events and the trip fact table:  *)
(* stg_trip_events (a view), int_trips (a view) and fct_trips, the only    *)
(* table of the marts that is not rebuilt from nothing at every build.     *)
(*                                                                         *)
(* raw.trip_events is the sequence of its landings, each the set of events *)
(* whose copies it brought; a landing's place in it is its loaded_at.      *)
(***************************************************************************)
EXTENDS Naturals, Sequences, FiniteSets, FiniteSetsExt

CONSTANTS Trips, None

Event == [trip : Trips, half : {"trip_started", "trip_ended"}]

(* A copy of e landed with each of these batches. *)
Copies(raw, e) == {b \in DOMAIN raw : e \in raw[b]}

(* stg_trip_events: one row per event, the first copy landed wins. *)
StgTripEvents(raw) ==
  {[event |-> e, loaded_at |-> Min(Copies(raw, e))] :
     e \in {x \in Event : Copies(raw, x) # {}}}

MutEarliestHalf(halves) == Min({h.loaded_at : h \in halves})

(* greatest(s.loaded_at, e.loaded_at): when the trip's latest half landed. *)
LatestHalf(halves) == Max({h.loaded_at : h \in halves})

(* int_trips: the halves of each trip, paired. *)
IntTrips(raw) ==
  LET Half(t) == {h \in StgTripEvents(raw) : h.event.trip = t}
  IN  {[trip |-> t, complete |-> Cardinality(Half(t)) = 2, loaded_at |-> LatestHalf(Half(t))] :
         t \in {x \in Trips : Half(x) # {}}}

MutAllTrips(raw) == IntTrips(raw)

CompleteTrips(raw) == {t \in IntTrips(raw) : t.complete}

(* loaded_at > (select max(loaded_at) from this): no row passes when the    *)
(* table is empty, because the maximum is NULL.                            *)
SinceLastBuild(this, raw) ==
  {t \in CompleteTrips(raw) : this # {} /\ \A row \in this : t.loaded_at > row.loaded_at}

(* fct_trips: everything at the first build, then delete+insert by trip.    *)
FctTrips(this, raw) ==
  IF this = None THEN CompleteTrips(raw)
  ELSE LET new == SinceLastBuild(this, raw)
       IN  {row \in this : \A t \in new : t.trip # row.trip} \cup new
=============================================================================
