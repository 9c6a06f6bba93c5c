------------------------------- MODULE Engine -------------------------------
(***************************************************************************)
(* The truthful world of the source (src/source/bikeshare_sim/engine.py    *)
(* and world.py): bikes are docked at stations or ridden between them.     *)
(*                                                                         *)
(* Engine.step() simulates [t0, t0 + StepLen) and is one synchronous call; *)
(* phase says how far it is: departures, arrivals, snapshots, rebalancing, *)
(* expansion.  Times are ticks from the t0 of the step being taken.        *)
(***************************************************************************)
EXTENDS Integers, Sequences, SequencesExt, FiniteSets, FiniteSetsExt

CONSTANTS
  Stations, Bikes, None,
  Capacity,      \* [Stations -> Nat]: docks at the start
  Near,          \* per station, the other ones from the nearest to the farthest
  StepLen,       \* step_seconds, in ticks
  MaxRide,       \* bound of the model: ticks a ride or a detour takes
  AddedDocks,    \* bound of the model: the docks an expansion adds, of 2, 4, 6
  MaxTrips,      \* bound of the model: trips
  MaxExpansions  \* bound of the model: capacity changes and rebalancing rounds

(* The docks at the start, one by one. *)
Slots == UNION {{i} \X (1..Capacity[i]) : i \in Stations}
Docks == Cardinality(Slots)

(* build_world() checks n_bikes against the docks, world.py:193, and no     *)
(* station has fewer than 15, world.py:173.  Near orders the others.        *)
ASSUME EngineAssumption ==
  /\ IsFiniteSet(Stations) /\ IsFiniteSet(Bikes)
  /\ Capacity \in [Stations -> Nat \ {0}]
  /\ 100 * Cardinality(Bikes) <= 85 * Docks
  /\ StepLen \in Nat \ {0} /\ MaxRide \in Nat \ {0}
  /\ AddedDocks \subseteq {2, 4, 6}
  /\ Near \in [Stations -> Seq(Stations)]
  /\ \A i \in Stations : {Near[i][k] : k \in DOMAIN Near[i]} = Stations \ {i}
  /\ MaxTrips \in Nat /\ MaxExpansions \in Nat

VARIABLES
  phase,
  docked,        \* the bikes parked at each station
  capacity,
  rides,         \* _rides: [bike, dest, started, arrives]
  watched,       \* the station whose snapshots are followed, any one
  last,          \* its latest snapshot, [bikes, docks], or None
  flow,          \* its net trips since then: stamped before the coming
                 \* snapshot, and beyond it
  trucked,       \* a truck moved its bikes since then
  freed,         \* tick at which a bike was last docked, 0 for earlier steps
  trips, expansions

seen == <<watched, last, flow, trucked>>
vars == <<phase, docked, capacity, rides, watched, last, flow, trucked, freed, trips, expansions>>

Count(i) == Cardinality(docked[i])
Riding == {r.bike : r \in rides}

(* _initial_docking(): the same occupancy everywhere, and one bike more at  *)
(* the stations with most room until every bike is docked.                  *)
Floors == [i \in Stations |-> (Capacity[i] * Cardinality(Bikes)) \div Docks]
Remainder == Cardinality(Bikes) - FoldFunction(+, 0, Floors)
Room(i) == Capacity[i] - Floors[i]

InitialDocking(d) ==
  \E more \in kSubset(Remainder, Stations) :
    /\ \A i \in more, j \in Stations \ more : Room(i) >= Room(j)
    /\ \A i \in Stations : Cardinality(d[i]) = Floors[i] + (IF i \in more THEN 1 ELSE 0)

Init ==
  /\ phase = "departures"
  /\ \E at \in [Bikes -> Stations] :
       docked = [i \in Stations |-> {b \in Bikes : at[b] = i}]
  /\ InitialDocking(docked)
  /\ capacity = Capacity
  /\ rides = {}
  /\ watched \in Stations /\ last = None /\ trucked = FALSE
  /\ flow = [before |-> 0, beyond |-> 0]
  /\ freed = [b \in Bikes |-> 0]
  /\ trips = 0 /\ expansions = 0

-----------------------------------------------------------------------------
MutScheduledTime == StepLen - 1

(* The time a snapshot is stamped with: the step's end t1. *)
SnapshotTime == StepLen

(* int_status_sequence.sql's moves: a trip event at tick t counts for the   *)
(* first snapshot stamped later.                                           *)
Moved(i, t, delta) ==
  flow' = IF i # watched THEN flow
          ELSE IF t < SnapshotTime THEN [flow EXCEPT !.before = @ + delta]
          ELSE [flow EXCEPT !.beyond = @ + delta]

(* _start_trip(): one of the step's departures, at some time in the step.   *)
Depart(i, b) ==
  /\ phase = "departures" /\ b \in docked[i]
  /\ trips < MaxTrips /\ trips' = trips + 1
  /\ docked' = [docked EXCEPT ![i] = @ \ {b}]
  /\ \E dest \in Stations, s \in 0..(StepLen - 1), d \in 1..MaxRide :
       /\ rides' = rides \cup {[bike |-> b, dest |-> dest, started |-> s, arrives |-> s + d]}
       /\ Moved(i, s, -1)
  /\ UNCHANGED <<phase, capacity, watched, last, trucked, freed, expansions>>

(* The heap's head: the earliest arrival before t1. *)
Due == {r \in rides : r.arrives < StepLen /\ \A q \in rides : r.arrives <= q.arrives}

HasRoom(i) == Count(i) < capacity[i]

MutDockAnyway(r) ==
  /\ phase = "arrivals" /\ r \in Due
  /\ docked' = [docked EXCEPT ![r.dest] = @ \cup {r.bike}]
  /\ rides' = rides \ {r}
  /\ freed' = [freed EXCEPT ![r.bike] = r.arrives]
  /\ Moved(r.dest, r.arrives, 1)
  /\ UNCHANGED <<phase, capacity, watched, last, trucked, trips, expansions>>

(* _arrivals(): the bike is docked ... *)
Arrive(r) ==
  /\ phase = "arrivals" /\ r \in Due /\ HasRoom(r.dest)
  /\ docked' = [docked EXCEPT ![r.dest] = @ \cup {r.bike}]
  /\ rides' = rides \ {r}
  /\ freed' = [freed EXCEPT ![r.bike] = r.arrives]
  /\ Moved(r.dest, r.arrives, 1)
  /\ UNCHANGED <<phase, capacity, watched, last, trucked, trips, expansions>>

(* _nearest_free_dock() *)
FreeElsewhere(i) == {k \in DOMAIN Near[i] : HasRoom(Near[i][k])}

(* A wrong Redirect: the ride is rescheduled towards the same full dock. *)
MutRedirectKeepsTarget(r) ==
  /\ phase = "arrivals" /\ r \in Due /\ ~HasRoom(r.dest) /\ FreeElsewhere(r.dest) # {}
  /\ \E d \in 1..MaxRide :
       rides' = (rides \ {r}) \cup {[r EXCEPT !.arrives = @ + d]}
  /\ UNCHANGED <<phase, docked, capacity, seen, freed, trips, expansions>>

(* ... or the rider goes on to the nearest station with a free dock. *)
Redirect(r) ==
  /\ phase = "arrivals" /\ r \in Due /\ ~HasRoom(r.dest) /\ FreeElsewhere(r.dest) # {}
  /\ \E d \in 1..MaxRide :
       rides' = (rides \ {r}) \cup
         {[r EXCEPT !.dest = Near[r.dest][Min(FreeElsewhere(r.dest))], !.arrives = @ + d]}
  /\ UNCHANGED <<phase, docked, capacity, seen, freed, trips, expansions>>

(* _status_snapshots(): the watched station's report is due in this step,   *)
(* or not.                                                                 *)
Snapshots ==
  /\ phase = "snapshots"
  /\ \/ /\ last' = [bikes |-> Count(watched), docks |-> capacity[watched] - Count(watched)]
        /\ flow' = [before |-> flow.beyond, beyond |-> 0]
        /\ trucked' = FALSE
     \/ /\ flow' = [before |-> flow.before + flow.beyond, beyond |-> 0]
        /\ UNCHANGED <<last, trucked>>
  /\ UNCHANGED <<watched, docked, capacity, rides, freed, trips, expansions>>

-----------------------------------------------------------------------------
(* _rebalance_if_due(): the fullest stations give to the emptiest.          *)

Fuller(i, j) == Count(i) * capacity[j] > Count(j) * capacity[i]
Donors == {i \in Stations : 10 * Count(i) > 8 * capacity[i]}
Takers == {i \in Stations : 10 * Count(i) < 2 * capacity[i]}
Least(a, b) == IF a < b THEN a ELSE b
Load(d, r) == Least(Least(Count(d) - capacity[d] \div 2, capacity[r] \div 2 - Count(r)), 20)

(* zip() of the two sorted lists; equal occupancies keep the stations' order, *)
(* which is open here.                                                       *)
Sorted(q, before(_, _)) == \A i, j \in DOMAIN q : i < j => ~before(q[j], q[i])

Pairs ==
  UNION {{[k \in 1..Least(Len(ds), Len(rs)) |-> <<ds[k], rs[k]>>] :
            rs \in {q \in SetToSeqs(Takers) : Sorted(q, LAMBDA a, b : Fuller(b, a))}} :
         ds \in {q \in SetToSeqs(Donors) : Sorted(q, Fuller)}}

MutRebalanceCopies ==
  /\ expansions < MaxExpansions /\ expansions' = expansions + 1
  /\ \E pairs \in Pairs : \E bikes \in [DOMAIN pairs -> SUBSET Bikes] :
       /\ \A k \in DOMAIN pairs :
            LET load == Load(pairs[k][1], pairs[k][2])
            IN  bikes[k] \subseteq docked[pairs[k][1]]
                /\ Cardinality(bikes[k]) = (IF load > 0 THEN load ELSE 0)
       /\ docked' = [i \in Stations |->
                       docked[i]
                         \cup UNION {bikes[k] : k \in {x \in DOMAIN pairs : pairs[x][2] = i}}]
       /\ trucked' = trucked

Rebalance ==
  /\ expansions < MaxExpansions /\ expansions' = expansions + 1
  /\ \E pairs \in Pairs : \E bikes \in [DOMAIN pairs -> SUBSET Bikes] :
       /\ \A k \in DOMAIN pairs :
            LET load == Load(pairs[k][1], pairs[k][2])
            IN  bikes[k] \subseteq docked[pairs[k][1]]
                /\ Cardinality(bikes[k]) = (IF load > 0 THEN load ELSE 0)
       /\ docked' = [i \in Stations |->
                       (docked[i] \ UNION {bikes[k] : k \in {x \in DOMAIN pairs : pairs[x][1] = i}})
                         \cup UNION {bikes[k] : k \in {x \in DOMAIN pairs : pairs[x][2] = i}}]
       /\ trucked' = (trucked \/ docked'[watched] # docked[watched])

RebalanceIfDue ==
  /\ phase = "rebalance"
  /\ Rebalance \/ UNCHANGED <<docked, trucked, expansions>>
  /\ UNCHANGED <<capacity, rides, watched, last, flow, freed, trips>>

MutShrink(i) == capacity' = [capacity EXCEPT ![i] = @ - 1]

Expand(i) == \E more \in AddedDocks : capacity' = [capacity EXCEPT ![i] = @ + more]

(* _maybe_expand_a_station() *)
MaybeExpand ==
  /\ phase = "expand"
  /\ \/ UNCHANGED <<capacity, expansions>>
     \/ expansions < MaxExpansions /\ expansions' = expansions + 1
        /\ \E i \in Stations : Expand(i)
  /\ UNCHANGED <<docked, trips>>

Earlier(t) == IF t < StepLen THEN 0 ELSE t - StepLen

(* step() returns: the cursor moves on to t1. *)
MoveCursor ==
  /\ rides' = {[r EXCEPT !.started = Earlier(@), !.arrives = @ - StepLen] : r \in rides}
  /\ freed' = [b \in Bikes |-> 0]

-----------------------------------------------------------------------------
(* The order of the parts of a step. *)

MutArrivalsFirst ==
  \/ phase = "departures" /\ phase' = "snapshots"
  \/ phase = "arrivals" /\ Due = {} /\ phase' = "departures"
  \/ phase = "snapshots" /\ phase' = "rebalance"
  \/ phase = "rebalance" /\ phase' = "expand"
  \/ phase = "expand" /\ phase' = "arrivals"

NextPart ==
  \/ phase = "departures" /\ phase' = "arrivals"
  \/ phase = "arrivals" /\ Due = {} /\ phase' = "snapshots"
  \/ phase = "snapshots" /\ phase' = "rebalance"
  \/ phase = "rebalance" /\ phase' = "expand"
  \/ phase = "expand" /\ phase' = "departures"

Proceed ==
  /\ NextPart
  /\ \/ phase \in {"departures", "arrivals"}
          /\ UNCHANGED <<docked, capacity, rides, seen, freed, trips, expansions>>
     \/ Snapshots
     \/ RebalanceIfDue
     \/ MaybeExpand /\ MoveCursor /\ UNCHANGED seen

Next ==
  \/ \E i \in Stations : \E b \in docked[i] : Depart(i, b)
  \/ \E r \in rides : Arrive(r) \/ Redirect(r)
  \/ Proceed

(* Steps are taken and end; trips stop (MaxTrips). *)
Fairness == WF_vars(Proceed) /\ WF_vars(\E r \in rides : Arrive(r) \/ Redirect(r))

Spec == Init /\ [][Next]_vars /\ Fairness

-----------------------------------------------------------------------------
TypeOK ==
  /\ phase \in {"departures", "arrivals", "snapshots", "rebalance", "expand"}
  /\ docked \in [Stations -> SUBSET Bikes]
  /\ \A i \in Stations : capacity[i] >= Capacity[i]
  /\ rides \subseteq [bike : Bikes, dest : Stations, started : 0..(StepLen - 1), arrives : Nat]
  /\ watched \in Stations /\ trucked \in BOOLEAN
  /\ last \in {None} \cup [bikes : 0..Cardinality(Bikes), docks : Nat]
  /\ flow \in [before : Int, beyond : Int]
  /\ freed \in [Bikes -> 0..(StepLen - 1)]
  /\ trips \in 0..MaxTrips /\ expansions \in 0..MaxExpansions

(* engine.py:53-59, 150-180.  Every bike is in exactly one place, a station *)
(* or one ride, through departures, detours and rebalancing.               *)
BikesConserved ==
  \A b \in Bikes :
    Cardinality({i \in Stations : b \in docked[i]}) + Cardinality({r \in rides : r.bike = b}) = 1

(* engine.py:182-187, 214.  No station holds more bikes than docks (so     *)
(* docks_available is never negative), and a rider who finds the target    *)
(* full always finds a free dock elsewhere: "every station is full" is     *)
(* prevented by the n_bikes check, whatever trucks and expansions do.      *)
DocksSuffice ==
  /\ \A i \in Stations : Count(i) <= capacity[i]
  /\ phase = "arrivals" =>
       \A r \in Due : HasRoom(r.dest) \/ FreeElsewhere(r.dest) # {}

(* engine.py:150-187.  The fleet and its docks fit together: every bike has *)
(* one place at a time, and there is a dock for every bike that arrives.    *)
FleetFits == BikesConserved /\ DocksSuffice

(* int_status_sequence.sql:51-53. *)
StaleSnapshot ==
  /\ last # None /\ flow.before # 0
  /\ Count(watched) = last.bikes /\ capacity[watched] - Count(watched) = last.docks

(* engine.py:191-199, int_status_sequence.sql:6-8.  A truthful snapshot is  *)
(* taken for a frozen station (the same counts again although the trips     *)
(* stamped in between have a net flow) only where a truck moved bikes: not  *)
(* because of trips before or after the snapshot in the same step, detours, *)
(* or docks that were added.                                                *)
NoFalseStale ==
  phase = "snapshots" /\ StaleSnapshot => trucked

(* engine.py:65-74.  Sorted by event_time, a bike's events make sense: it   *)
(* never leaves a dock before the time of the event that put it there.      *)
BikeHistoryInOrder ==
  \A r \in rides : r.started >= freed[r.bike]

(* engine.py:150-163.  When departures stop every ride ends, however often  *)
(* riders meet full stations.                                              *)
RidesEnd ==
  \A b \in Bikes : (b \in Riding) ~> (b \notin Riding)
=============================================================================
