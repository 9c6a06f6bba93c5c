----------------------------- MODULE Detections -----------------------------
(***************************************************************************)
(* From faults to findings to the scorecard: which events the bridge's     *)
(* contract rejects (contract.py), what the batch checks find in those     *)
(* that land (int_detections.sql), and how the findings are scored against *)
(* the fault log that has been extracted (mart_detection_scorecard.sql).   *)
(*                                                                         *)
(* Time is counted in the engine's steps.  Events land in any order, each  *)
(* when it has been emitted (the bridge and the loader are modelled in     *)
(* full elsewhere); a copy that lands again is the row that is there.      *)
(* The reports are of one station, whose docks become more.  Episodes, and *)
(* the checks that target them, are left to Engine; Spark's alerts to      *)
(* StreamQueries.                                                          *)
(***************************************************************************)
EXTENDS StationHistory, FiniteSetsExt

CONSTANTS
  TripIds, Reports,                   \* the trips, the status reports
  StartedAt, EndedAt, ReportedAt,     \* the steps they happen in
  Docks,                              \* from when on, the station has how many docks
  Bikes,                              \* the bikes a report truly finds
  MaxTrip,                            \* max_trip_hours
  JudgeAfter,                         \* judge_after_hours
  MaxHits                             \* bound of the model: injections

ASSUME DetectionsAssumption ==
  /\ TripIds \cap Reports = {} /\ MaxTrip \in Nat /\ MaxHits \in Nat
  /\ JudgeAfter \in Nat /\ MaxTrip <= JudgeAfter
  /\ \A t \in TripIds : /\ StartedAt[t] \in Nat
                        /\ EndedAt[t] \in StartedAt[t]..(StartedAt[t] + MaxTrip)
  /\ \A r \in Reports : ReportedAt[r] \in Nat /\ Forever > ReportedAt[r] + 1
  /\ Forever \in Nat /\ 0 \in DOMAIN Docks /\ \A x \in DOMAIN Docks : x \in 0..(Forever - 1)
  /\ \A x, y \in DOMAIN Docks : Docks[x] \in Nat /\ (x < y => Docks[x] < Docks[y])
  /\ \A r \in Reports : \E x \in DOMAIN Docks : x <= ReportedAt[r] /\ Bikes[r] \in 0..Docks[x]

TripKinds == {"trip_started", "trip_ended"}
VendorEvents == [kind : TripKinds, of : TripIds] \cup [kind : {"station_status"}, of : Reports]

Time(e) ==
  CASE e.kind = "trip_started"   -> StartedAt[e.of]
    [] e.kind = "trip_ended"     -> EndedAt[e.of]
    [] e.kind = "station_status" -> ReportedAt[e.of]

(* event_time: a report is stamped with the end of its step. *)
Stamp(e) == IF e.kind = "station_status" THEN Time(e) + 1 ELSE Time(e)

(* The station's updated_at at time t; it stands for the capacity then. *)
UpdatedAt(t) == Max({x \in DOMAIN Docks : x <= t})

Other(e) == [e EXCEPT !.kind = CHOOSE k \in TripKinds : k # e.kind]

VARIABLES
  now,        \* the step about to be taken
  fault_log,  \* in the source: [fault, event, injected_at]
  held,       \* copies held back
  emitted,    \* copies that have left
  landed,     \* copies in the raw tables, raw.dlq among them
  first,      \* per event, the copy that landed first
  extracted,  \* raw.fault_log
  snap_stations  \* the versions that the builds have kept

detectionsVars == <<now, fault_log, held, emitted, landed, first, extracted, snap_stations>>

DetectionsInit ==
  /\ now = 0 /\ fault_log = {} /\ held = {} /\ emitted = {} /\ landed = {}
  /\ first = [e \in {} |-> e] /\ extracted = {}
  /\ snap_stations = {}

-----------------------------------------------------------------------------
(* The source.  FaultLayer models the injectors and their order in full.   *)

(* The two variants of impossible_status. *)
Impossible == {"over_capacity", "negative"}
Fault(i) == IF i \in Impossible THEN "impossible_status" ELSE i

(* What may hit an event of this kind; nothing else hits one that is        *)
(* dropped.                                                                *)
Hits(kind) ==
  LET any == {"schema_drift", "duplicate", "late_event"}
  IN  CASE kind = "trip_started"   -> (SUBSET any) \cup {{"orphan_trip"}}
        [] kind = "trip_ended"     -> (SUBSET (any \cup {"teleport"})) \cup {{"orphan_trip"}}
        [] kind = "station_status" ->
             {h \in SUBSET (any \cup Impossible) : ~(Impossible \subseteq h)}

Copy(e, h, late, again) ==
  [event |-> e, marks |-> h \cap ({"schema_drift", "teleport"} \cup Impossible),
   late |-> late, again |-> again]

Original(e, h) == Copy(e, h, "late_event" \in h, FALSE)
Duplicates(e, h) == IF "duplicate" \in h THEN {Copy(e, h, FALSE, TRUE)} ELSE {}

(* process() of a step: every fault is logged at the step's end; late       *)
(* events and duplicates are held back.                                    *)
Step ==
  LET events == {e \in VendorEvents : Time(e) = now}
  IN  \E h \in [events -> UNION {Hits(e.kind) : e \in events}] :
        LET passed == {e \in events : "orphan_trip" \notin h[e]}
            punctual == {e \in passed : "late_event" \notin h[e]}
        IN  /\ \A e \in events : h[e] \in Hits(e.kind)
            /\ fault_log' = fault_log \cup
                 UNION {{[fault |-> Fault(i), event |-> e, injected_at |-> now + 1] : i \in h[e]}
                          : e \in events}
            /\ Cardinality(fault_log') <= MaxHits
            /\ emitted' = emitted \cup {Original(e, h[e]) : e \in punctual}
            /\ held' = held \cup {Original(e, h[e]) : e \in passed \ punctual}
                            \cup UNION {Duplicates(e, h[e]) : e \in passed}
            /\ now <= Max({Time(e) : e \in VendorEvents}) /\ now' = now + 1
            /\ UNCHANGED <<landed, first, extracted, snap_stations>>

MutReleaseKeeps(c) ==
  /\ emitted' = emitted \cup {c}
  /\ UNCHANGED <<now, fault_log, held, landed, first, extracted, snap_stations>>

(* A duplicate is held for 5 minutes at most, a late event for 30 at least. *)
Release(c) ==
  /\ c.late => \A d \in held : d.event = c.event => d.late
  /\ held' = held \ {c} /\ emitted' = emitted \cup {c}
  /\ UNCHANGED <<now, fault_log, landed, first, extracted, snap_stations>>

Land(c) ==
  /\ landed' = landed \cup {c}
  /\ first' = IF c.event \in DOMAIN first THEN first
              ELSE [e \in DOMAIN first \cup {c.event} |-> IF e = c.event THEN c ELSE first[e]]
  /\ UNCHANGED <<now, fault_log, held, emitted, extracted, snap_stations>>

(* extract_fault_log(): by fault_id, page after page; a step logs all its   *)
(* faults at once.                                                         *)
ExtractFaultLog ==
  /\ extracted' = fault_log
  /\ UNCHANGED <<now, fault_log, held, emitted, landed, first, snap_stations>>

(* extract_stations(), and a build that takes the row.  A row replaced       *)
(* before a build has taken it leaves nothing; and this and the extraction *)
(* of the log are tasks of their own, each of which may fail.              *)
SnapshotStations ==
  /\ snap_stations' = Snapshot(snap_stations, UpdatedAt(now))
  /\ UNCHANGED <<now, fault_log, held, emitted, landed, first, extracted>>

DetectionsNext ==
  \/ Step \/ ExtractFaultLog \/ SnapshotStations
  \/ \E c \in held : Release(c)
  \/ \E c \in emitted \ landed : Land(c)

DetectionsSpec == DetectionsInit /\ [][DetectionsNext]_detectionsVars

-----------------------------------------------------------------------------
(* The contract.  A payload is the class of value in each of its fields.   *)

Contract ==
  [trip_started   |-> [trip_id |-> "str", bike_id |-> "str", bike_type |-> "str",
                       station_id |-> "str", rider_type |-> "str"],
   trip_ended     |-> [trip_id |-> "str", bike_id |-> "str", bike_type |-> "str",
                       station_id |-> "str", start_station_id |-> "str", duration_s |-> "nat"],
   station_status |-> [station_id |-> "str", bikes_available |-> "nat", ebikes_available |-> "nat",
                       docks_available |-> "nat", is_renting |-> "bool"]]

(* _impossible_status() *)
Counted(p, marks) ==
  IF "negative" \in marks THEN [p EXCEPT !.bikes_available = "negative"] ELSE p

(* _schema_drift() *)
Drifted(kind, p) ==
  CASE kind = "trip_started"   -> [p EXCEPT !.bike_id = "null"]
    [] kind = "trip_ended"     -> [p EXCEPT !.duration_s = "str"]
    [] kind = "station_status" ->
         [f \in (DOMAIN p \ {"bikes_available"}) \cup {"num_bikes_available"} |->
            IF f = "num_bikes_available" THEN p.bikes_available ELSE p[f]]

Payload(c) ==
  LET p == Counted(Contract[c.event.kind], c.marks)
  IN  IF "schema_drift" \in c.marks THEN Drifted(c.event.kind, p) ELSE p

MutNoFloor(c) ==
  /\ DOMAIN Payload(c) = DOMAIN Contract[c.event.kind]
  /\ \A f \in DOMAIN Payload(c) :
       Payload(c)[f] = Contract[c.event.kind][f] \/ Payload(c)[f] = "negative"

(* route() finds no error: no field is missing, unknown or mistyped. *)
Valid(c) == Payload(c) = Contract[c.event.kind]

(* stg_dead_letters, by event; the trip can still be read. *)
Rejected == {c.event : c \in {x \in landed : ~Valid(x)}}

-----------------------------------------------------------------------------
(* The findings of int_detections in a build that starts now: a check, and *)
(* what it points at.                                                      *)

(* stg_trip_events, stg_station_status: one row per event, of the first    *)
(* copy that landed.                                                       *)
Staged == {c.event : c \in {x \in landed : Valid(x)}}
SourceCopies(e) == Cardinality({c \in landed : c.event = e})
StagedTrips == {e \in Staged : e.kind \in TripKinds}
LatestEvent == Max({Time(e) : e \in StagedTrips})

(* int_trips: missing_start, or missing_end. *)
Orphan(e) ==
  /\ e.kind \in TripKinds /\ Other(e) \notin Staged
  /\ e.kind = "trip_started" => Time(e) + MaxTrip <= LatestEvent

(* The bikes a report shows: one more than the docks at least, if that was *)
(* injected.  The capacity is read when the step is over.                  *)
Shown(c) ==
  IF "over_capacity" \in c.marks THEN Docks[UpdatedAt(Stamp(c.event))] + 1
  ELSE Bikes[c.event.of]

OverCapacity(e) ==
  /\ e.kind = "station_status"
  /\ \E v \in JudgedWith(snap_stations, Stamp(e)) : Shown(first[e]) > Docks[v.capacity]

(* A ride has a speed once the stations are there (int_trips).  An injected *)
(* one is above 45 km/h (faults.py:205).  A truthful one would need a draw  *)
(* more than four standard deviations out (engine.py:142-148): not modelled. *)
TooFast(e) == "teleport" \in first[e].marks /\ snap_stations # {}

Found(check, events) == {[check |-> check, event |-> e] : e \in events}

Findings ==
  Found("contract_violation", Rejected)
    \cup Found("duplicate_event", {e \in Staged : SourceCopies(e) > 1})
    \cup Found("late_event", {e \in Staged : first[e].late})
    \cup Found("over_capacity", {e \in Staged : OverCapacity(e)})
    \cup Found("teleport", {e \in Staged : TooFast(e)})
    \cup Found("orphan_trip", {e \in Staged : Orphan(e)})

-----------------------------------------------------------------------------
(* The scorecard.                                                          *)

(* detection_checks.csv *)
Targets ==
  [contract_violation |-> {"schema_drift", "impossible_status"},
   duplicate_event |-> {"duplicate"}, late_event |-> {"late_event"},
   over_capacity |-> {"impossible_status"}, teleport |-> {"teleport"},
   orphan_trip |-> {"orphan_trip"}]

(* match_on: the trip for orphans, else the event. *)
Points(d, f) ==
  /\ f.fault \in Targets[d.check]
  /\ IF d.check = "orphan_trip" THEN f.event.of = d.event.of ELSE f.event = d.event

Matched(d) == \E f \in extracted : Points(d, f)
Explained(d) == d.check = "orphan_trip" /\ \E e \in Rejected : e.of = d.event.of

MutEventsOnly == IF StagedTrips = {} THEN {} ELSE {LatestEvent - JudgeAfter}

(* judged_until is the least of these two; least() passes over a NULL. *)
Horizons ==
  (IF StagedTrips = {} THEN {} ELSE {LatestEvent - JudgeAfter})
    \cup (IF extracted = {} THEN {} ELSE {Max({f.injected_at : f \in extracted})})

Judged(t) == LET horizons == Horizons IN horizons # {} /\ t < Min(horizons)

-----------------------------------------------------------------------------
CopySet == [event : VendorEvents, marks : SUBSET ({"schema_drift", "teleport"} \cup Impossible),
            late : BOOLEAN, again : BOOLEAN]

DetectionsTypeOK ==
  /\ now \in Nat /\ held \cup emitted \subseteq CopySet /\ held \cap emitted = {}
  /\ landed \subseteq emitted /\ extracted \subseteq fault_log
  /\ DOMAIN first = {c.event : c \in landed} /\ \A e \in DOMAIN first : first[e] \in landed
  /\ \A f \in fault_log : f.injected_at = Time(f.event) + 1 /\ f.injected_at <= now
  /\ \A v \in snap_stations : v.from \in DOMAIN Docks /\ v.from <= now /\ v.from < v.to

(* Before that, the horizon is that of one side alone. *)
BothSides == StagedTrips # {} /\ extracted # {}

Underway(e) == \E c \in held \cup (emitted \ landed) : c.event = e
Dropped(e) == \E f \in fault_log : f.fault = "orphan_trip" /\ f.event = e

(* No build has seen the capacity that the station had at a report; it was *)
(* overtaken by the next, or is not extracted yet.                         *)
Unseen(e) == \A v \in snap_stations : v.from # UpdatedAt(Stamp(e))

(* A report is from before the first version that a build has seen. *)
Unversioned(e) == \A v \in snap_stations : Stamp(e) < v.from

(* mart_detection_scorecard.sql:4-15, int_detections.sql:40-48.  Once      *)
(* faults have been extracted, a finding is judged only when the fault it  *)
(* points at is known, however far the extraction lags behind the events.  *)
(* One that matches none is an orphan with a half that was rejected, that  *)
(* is still on its way, or whose drop is not extracted yet; or a truthful  *)
(* report judged with an older capacity than its own, which was unseen.    *)
Precise ==
  BothSides =>
    \A d \in Findings :
      Judged(Stamp(d.event)) /\ ~Matched(d) =>
        \/ /\ d.check = "orphan_trip"
           /\ \/ Explained(d) \/ Underway(Other(d.event))
              \/ \E f \in fault_log \ extracted : Points(d, f)
        \/ d.check = "over_capacity" /\ Unseen(d.event)

(* README.md:199-204.  The checks together find every judged fault, but for *)
(* one whose event was rejected, is still on its way, or came first as a    *)
(* punctual duplicate; for a dropped half whose other half never landed     *)
(* either; and for an impossible status from before the station's first    *)
(* version, or a teleport when no stations were extracted.                  *)
NoneOverlooked ==
  BothSides =>
    \A f \in extracted : Judged(f.injected_at) =>
      \/ Underway(f.event)
      \/ \E d \in Findings : Points(d, f)
      \/ f.fault \in {"duplicate", "late_event", "teleport"} /\ f.event \in Rejected
      \/ f.fault = "late_event" /\ first[f.event].again
      \/ f.fault = "impossible_status" /\ Unversioned(f.event)
      \/ f.fault = "teleport" /\ snap_stations = {}
      \/ /\ f.fault = "orphan_trip"
         /\ \/ Dropped(Other(f.event)) \/ Other(f.event) \in Rejected
            \/ Underway(Other(f.event))
=============================================================================
