----------------------------- MODULE BatchLayer -----------------------------
(***************************************************************************)
(* From the landed data to the page: the three DAGs of orchestration/dags, *)
(* the marts dbt builds in the warehouse (TripMart, StationHistory), the   *)
(* serving copy of serving/publish.py and the page of dashboard/app.py.    *)
(*                                                                         *)
(* A task that opens the warehouse holds the one slot of the pool duckdb   *)
(* while it does.  A run of stream_landing or api_extract is one step (its *)
(* landing is KafkaLoader's subject); a run of dbt_transform takes several *)
(* and lets others in between its tasks, not inside them.                  *)
(*                                                                         *)
(* A table of the marts carries asof, the raw data it was built from.      *)
(***************************************************************************)
EXTENDS TripMart, StationHistory

CONSTANTS
  Landings,    \* bound of the model: the sets of trip events one landing brings
  MaxBatches,  \* bound of the model: landings with trip events
  MaxSource    \* bound of the model: those landings and capacity changes

(* The rows of the tables, the raw data a table can be built from, and the  *)
(* tables.                                                                  *)
Versions == [from : 0..MaxSource, to : 0..MaxSource \cup {Forever}, capacity : 0..MaxSource]
TripRows == [trip : Trips, complete : {TRUE}, loaded_at : 1..MaxBatches]
Asof == [batches : 0..MaxBatches, stations : 0..MaxSource \cup {None}]

DimTable == [rows : SUBSET Versions, asof : Asof]
FctTable == [rows : SUBSET TripRows, asof : Asof]

Tables == {"dim_stations", "fct_trips"}

ASSUME BatchAssumption ==
  /\ Landings \subseteq (SUBSET Event) \ {{}} /\ MaxBatches \in Nat /\ MaxSource \in Nat
  /\ Forever \in Nat /\ Forever > MaxSource
  /\ None \notin Nat /\ None \notin DimTable /\ None \notin FctTable
  /\ None \notin [Tables -> DimTable \cup FctTable]

VARIABLES
  changes,    \* capacity changes in the source so far
  raw,        \* raw.trip_events
  stations,   \* raw.stations: the updated_at it holds, or None
  queued,     \* an asset event waits for the next run of dbt_transform
  run,        \* dbt_transform: the task it is at
  made,       \* the models of the running build that are done
  snapped,    \* the values of raw.stations that builds have taken (ghost)
  history,    \* snapshots.snap_stations
  marts,      \* the tables of the marts
  tmp,        \* serving_path.tmp, None without it
  served,     \* the serving copy
  page        \* the dashboard: its step, the trips it shows, and whether the
              \* mtime it holds is that of the copy in place

source == <<changes, raw, stations>>
transform == <<run, made, snapped, history, marts>>
serving == <<tmp, served, page>>
vars == <<changes, raw, stations, queued,
          run, made, snapped, history, marts, tmp, served, page>>

NoMarts == [t \in Tables |-> None]

Init ==
  /\ changes = 0 /\ raw = <<>> /\ stations = None
  /\ queued = FALSE
  /\ run = "idle" /\ made = {}
  /\ snapped = {} /\ history = {} /\ marts = NoMarts
  /\ tmp = None /\ served = None
  /\ page = [step |-> "idle", shows |-> None, mtime |-> "old"]

(* The one slot of the pool duckdb. *)
PoolFree == ~(run = "build" /\ made # {}) /\ run # "copying"

-----------------------------------------------------------------------------
(* The source, and the DAGs stream_landing and api_extract.                 *)

(* A station gets more docks. *)
Expand ==
  /\ changes + Len(raw) < MaxSource /\ changes' = changes + 1
  /\ UNCHANGED <<raw, stations, queued, transform, serving>>

(* stream_landing.  report() skips itself, and queues nothing, when nothing *)
(* landed; also when a task failed after its COMMIT, because its retry      *)
(* found nothing new.  Rows of the other topics count too.                 *)
StreamLanding ==
  /\ PoolFree
  /\ \/ raw' = raw
     \/ \E rows \in Landings :
          /\ Len(raw) < MaxBatches /\ changes + Len(raw) < MaxSource
          /\ raw' = Append(raw, rows)
  /\ queued' \in {queued, TRUE}
  /\ UNCHANGED <<changes, stations, transform, serving>>

(* extract_stations: the table is replaced in one transaction. *)
ExtractStations == PoolFree /\ stations' = changes

MutReportWhenChanged ==
  /\ ExtractStations
  /\ queued' \in IF stations' = stations THEN {queued} ELSE {queued, TRUE}
  /\ UNCHANGED <<changes, raw, transform, serving>>

(* api_extract.  report() queues an event after every run, changed or not,  *)
(* unless another extract failed after its retries.                        *)
ApiExtract ==
  /\ ExtractStations
  /\ queued' \in {queued, TRUE}
  /\ UNCHANGED <<changes, raw, transform, serving>>

-----------------------------------------------------------------------------
(* The DAG dbt_transform.                                                   *)

(* The events that came since the last run began are of one run. *)
StartRun ==
  /\ run = "idle" /\ queued
  /\ queued' = FALSE
  /\ run' = "build"
  /\ UNCHANGED <<source, made, snapped, history, marts, serving>>

AsOf == [batches |-> Len(raw), stations |-> stations]

(* dbt_build has the slot from its first model to its end. *)
BuildTrips ==
  /\ run = "build" /\ "fct_trips" \notin made /\ made' = made \cup {"fct_trips"}
  /\ LET this == IF marts["fct_trips"] = None THEN None ELSE marts["fct_trips"].rows
     IN  marts' = [marts EXCEPT !["fct_trips"] = [rows |-> FctTrips(this, raw), asof |-> AsOf]]
  /\ UNCHANGED <<source, queued, run, snapped, history, serving>>

(* snap_stations, then dim_stations. *)
BuildStations ==
  /\ run = "build" /\ "dim_stations" \notin made /\ made' = made \cup {"dim_stations"}
  /\ history' = IF stations = None THEN history ELSE Snapshot(history, stations)
  /\ snapped' = snapped \cup ({stations} \ {None})
  /\ marts' = [marts EXCEPT !["dim_stations"] = [rows |-> Current(history'), asof |-> AsOf]]
  /\ UNCHANGED <<source, queued, run, serving>>

(* The relationships test of fct_trips.start_station_id. *)
TestsPass == marts["fct_trips"].rows # {} => marts["dim_stations"].rows # {}

BuildSucceeds ==
  /\ run = "build" /\ made = Tables /\ TestsPass
  /\ run' = "report" /\ made' = {}
  /\ UNCHANGED <<source, queued, snapped, history, marts, serving>>

MutPublishAnyway == "publish"

(* A failed task is tried again, or the run ends (how often is left open):  *)
(* without publishing.                                                     *)
GiveUp == "idle"

(* Any error or failed test: what was built before it stays. *)
BuildFails ==
  /\ run = "build" /\ made' = {}
  /\ run' \in {"build", GiveUp}
  /\ UNCHANGED <<source, queued, snapped, history, marts, serving>>

(* quality_report. *)
Report ==
  /\ run = "report"
  /\ run' \in {"publish", GiveUp}
  /\ UNCHANGED <<source, queued, made, snapped, history, marts, serving>>

-----------------------------------------------------------------------------
(* publish().                                                               *)

(* Leftovers are removed and every table is copied to the new file.  Nobody *)
(* reads that file, and the slot keeps the marts as they are meanwhile.    *)
CopyTables ==
  /\ run = "publish" /\ run' = "copying"
  /\ tmp' = marts
  /\ UNCHANGED <<source, queued, made, snapped, history, marts, served, page>>

(* DETACH, then os.replace(): the file has another mtime. *)
Replace ==
  /\ run = "copying"
  /\ served' = tmp /\ tmp' = None
  /\ page' = [page EXCEPT !.mtime = "old"]
  /\ run' = "idle"
  /\ UNCHANGED <<source, queued, made, snapped, history, marts>>

(* While copying or before the swap: a leftover stays, whatever it holds.   *)
PublishFails ==
  /\ run = "copying" /\ run' \in {"publish", "idle"}
  /\ tmp' = NoMarts
  /\ UNCHANGED <<source, queued, made, snapped, history, marts, served, page>>

-----------------------------------------------------------------------------
(* The page, which the reader or follow_new_copies() runs again.  Run again *)
(* with the mtime it holds it shows the same: load() is cached by it.      *)

TripsOf(copy) == {row.trip : row \in copy["fct_trips"].rows}

Stat ==
  /\ page.step = "idle" /\ served # None /\ page.mtime = "old"
  /\ page' = [page EXCEPT !.step = "stat", !.mtime = "current"]
  /\ UNCHANGED <<source, queued, transform, tmp, served>>

(* load(): the file is opened once, all queries read that one version. *)
Show ==
  /\ page.step = "stat"
  /\ page' = [page EXCEPT !.step = "idle", !.shows = TripsOf(served)]
  /\ UNCHANGED <<source, queued, transform, tmp, served>>

Next ==
  \/ Expand \/ StreamLanding \/ ApiExtract
  \/ StartRun \/ BuildTrips \/ BuildStations \/ BuildSucceeds \/ BuildFails
  \/ Report \/ CopyTables \/ Replace \/ PublishFails
  \/ Stat \/ Show

(* follow_new_copies(), every 30 s on a page that shows a copy. *)
Follow == page.shows # None /\ Stat

Model == BuildTrips \/ BuildStations

(* The schedules go on, tasks get the pool's slot, and what is tried again  *)
(* and again succeeds at some time.                                        *)
Fairness ==
  /\ SF_vars(ApiExtract /\ queued') /\ WF_vars(StartRun)
  /\ SF_vars(Model) /\ SF_vars(Model /\ made' = Tables) /\ SF_vars(BuildSucceeds)
  /\ SF_vars(Report /\ run' = "publish")
  /\ WF_vars(CopyTables) /\ SF_vars(Replace)
  /\ WF_vars(Follow) /\ WF_vars(Show)

Spec == Init /\ [][Next]_vars /\ Fairness

-----------------------------------------------------------------------------
TypeOK ==
  /\ changes \in 0..MaxSource /\ stations \in 0..changes \cup {None}
  /\ raw \in Seq(Landings) /\ Len(raw) <= MaxBatches
  /\ queued \in BOOLEAN /\ made \subseteq Tables
  /\ run \in {"idle", "build", "report", "publish", "copying"}
  /\ snapped \subseteq 0..changes /\ history \subseteq Versions
  /\ marts["dim_stations"] # None =>
       marts["dim_stations"].rows \subseteq Versions /\ marts["dim_stations"].asof \in Asof
  /\ marts["fct_trips"] # None =>
       marts["fct_trips"].rows \subseteq TripRows /\ marts["fct_trips"].asof \in Asof
  /\ page.step \in {"idle", "stat"} /\ page.mtime \in {"old", "current"}
  /\ page.shows # None => page.shows \subseteq Trips /\ served # None

(* fct_trips.sql:10-14, int_trips.sql:54-55, stg_trip_events.sql:43.  The   *)
(* incremental table has the trips, with the halves, that a full refresh    *)
(* from the same raw data would give it, whatever duplicates, late halves,  *)
(* failed builds and retries came between; unless its first build found no *)
(* complete trip.  (The distance and the speed, which int_trips computes    *)
(* from the stations, are not columns of the model.)                       *)
FctTripsComplete ==
  LET fct == marts["fct_trips"]
  IN  fct # None /\ fct.rows # {} => fct.rows = CompleteTrips(SubSeq(raw, 1, fct.asof.batches))

(* fct_trips.sql:10-14, README.md:188-189.  After every build each trip     *)
(* whose halves have landed is in the table.                               *)
EveryTripBuilt ==
  run = "report" =>
    {t.trip : t \in CompleteTrips(SubSeq(raw, 1, marts["fct_trips"].asof.batches))}
      \subseteq {t.trip : t \in marts["fct_trips"].rows}

(* snap_stations.yml:7-11, int_detections.sql:40-48.  From the first version *)
(* on, a report is judged with exactly one capacity, never with one the     *)
(* station got later, and with its own if a build saw that version: only a  *)
(* change that was followed by another before a build saw it is missed.    *)
HistoryTrue ==
  \A t \in 0..changes :
    LET judged == JudgedWith(history, t)
    IN  /\ Cardinality(judged) = IF \E v \in snapped : v <= t THEN 1 ELSE 0
        /\ \A v \in judged : v.capacity <= t /\ (t \in snapped => v.capacity = t)

(* publish.py:12-15, dbt_transform.py:101, app.py:9-13.  The tables of the  *)
(* serving copy are those of one successful build: from the same raw data,  *)
(* tests passed.                                                           *)
ServingWhole ==
  served # None =>
    /\ \A t \in Tables : served[t] # None
    /\ served["fct_trips"].asof = served["dim_stations"].asof
    /\ served["fct_trips"].rows # {} => served["dim_stations"].rows # {}

(* A first build without a complete trip. *)
NeverFilled == marts["fct_trips"] # None /\ marts["fct_trips"].rows = {}

(* stream_landing.py:70-72, dbt_transform.py:43, app.py:94-98.  A trip      *)
(* whose halves have landed is shown by a page that shows a copy, even when *)
(* the landing that completed it reported nothing (its retry did).         *)
EventuallyShown ==
  page.shows # None ~> \/ NeverFilled
                       \/ /\ page.shows # None
                          /\ \A t \in CompleteTrips(raw) : t.trip \in page.shows
=============================================================================
