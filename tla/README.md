# Formal models of the bike-share pipeline

TLA+ modules that model this repository's own code, TLC configurations that
check them on small instances, and TLAPS proofs of what they establish for every
instance. `PROJECT.json` is the index: for every definition the source lines it
translates, for every run its properties, for every property a mutant of the
code's model that breaks it, and the findings and hazards with their lines.

    tlc -config MCBridge.cfg MCBridge        one run
    tlapm KafkaLoaderProofs.tla              one module of proofs

## 1. The system

```
 source-api (one process, one asyncio loop)
   SimClock -> Engine -> FaultLayer -> EventLog -> GET /v1/stream, /v1/events
                                                        |  (SSE, Last-Event-ID)
 bridge (one thread + librdkafka's own)            <----+
   contract.route -> KafkaSink -> Kafka topics; checkpoint.json
                                      |
        +-----------------------------+------------------------------+
 Spark analyzer (4 queries)                     Airflow, every 5 min (stream_landing)
   alerts topic, Parquet lake                     kafka_loader: Kafka -> DuckDB raw.*
                                                api_extract: REST -> DuckDB raw.*
                                                dbt_transform: raw -> staging -> marts
                                                publish: read-only copy -> dashboard
```

Components, their state and operations, and what is hard about each.

| Component | State | Operations | Interacts through | Hard behaviour | What makes it correct |
|---|---|---|---|---|---|
| Clock, simulation task (`clock.py`, `simulation.py`) | anchor, speed, paused; engine cursor; `state.pkl` | controls, `catch_up`, `save`, `load_or_create` | admin routes; everything of the source is pickled together | kill between two saves; fast-forward; controls in any order | no event before its time; controls keep the time; a replayed seq is the same event |
| Engine, world (`engine.py`, `world.py`) | bikes docked per station, capacities, heap of rides | `step()` | its events go to the fault layer | full stations and detours, trucks, expansions; order of the parts of a step | bikes conserved, docks suffice, one consistent story per step |
| Fault layer (`faults.py`) | triggers, episodes, delayed heap, stall buffer, last and frozen payloads, fault log | `process()`, `trigger()`, `update()` | admin routes between steps | overlapping episodes, a stall after a stall, triggers that cannot fire | events conserved; the log is the ground truth; order kept |
| Event log, SSE (`eventlog.py`, `api.py`) | ring buffer, last seq, the armed `asyncio.Event`, closed | `publish`, `read_after`, `wait_for_new`, `close`; one generator per client | asyncio tasks; reconnecting clients | publishing between read and wait; buffer moving while a batch is handed over; shutdown | nothing skipped in silence, no lost wake-up, streams end |
| Bridge (`bikeshare_bridge/`) | last and saved seq, checkpoint file, producer queue, failures | connect, handle, checkpoint, rewind, close | SSE, `/health`, Kafka callbacks, signals | asynchronous failures, SIGTERM anywhere, kills, a source that is reset or comes back with an older log | the checkpoint never passes an undelivered event |
| Loader (`kafka_loader.py`, `warehouse.py`) | raw tables, `_kafka_offsets`, `_ingest_batches`, the shown group offsets | plan, read, one transaction, show; forget | Kafka, DuckDB's write lock, Airflow retries, `make spark-reset` | crashes at every step, retention while reading, recreated topic | exactly once |
| API extract (`api_extract.py`) | `raw.stations`, bikes, weather, fault_log | four extracts with cursors | REST API, DuckDB | a source that was reset | snapshots replaced whole, no gap in the cursors |
| DAGs (`dags/`, `publish.py`) | assets, pool, the serving copy | land, report, build, publish | Airflow | retries that report nothing, crash while publishing | what landed is built; readers see whole copies |
| dbt models (`transform/`) | staging views, incremental `fct_trips`, snapshot, scorecards | builds | DuckDB | duplicates, late halves, empty first build, NULL comparisons | one row per trip, none lost |
| Spark analyzer (`streaming/`) | checkpoints, watermarks, state stores, reference cache | 4 queries | Kafka, REST reference | replayed micro-batches, late events | pairs once; alerts stable under replay |
| Dashboard, compose, scripts | none of their own | queries, deployment | serving copy | - | - |

The full list of hazards, with lines and the properties aimed at them, is in
`PROJECT.json`.

## 2. What is modelled

The source, the bridge, the loader, the batch layer up to the page and to the
scorecard, and the stream queries. A definition keeps
its Python name where TLA+ allows; a comment names the method it stands for.
`Mut...` definitions are plausible bugs, used only to show that a property
notices them.

| Module | Models | How |
|---|---|---|
| `EventLog` | `eventlog.py` | The ring buffer and `read_after` as state and operators. An event is its seq. Used by the next two modules. |
| `SseStream` | `eventlog.py`, `api.py` 89-175 | `sse_frames()` as a program counter per client, cut at every `yield` and `await`, because everything else runs on the same loop in between. The armed `asyncio.Event` is numbered, so setting one that nobody waits on is visible. A client's first connection is after any position (`after_seq`) or live. `EventsPage` is the body of `/v1/events`. |
| `Bridge` | `bikeshare_bridge/` | One program counter for the thread, cut where a signal, a callback or the source can come in between; the producer's queue and `_failures`; the file. The source comes back with the log it saved last: after a kill that is an older one of the same world, and the bridge, ahead of it, starts over (`ResumePoint`). `SignalInRewind` says whether SIGTERM may fall between a failed `flush()` and the rewind. Signals anywhere else are always allowed. |
| `AtLeastOnce` | the bridge's promise | The abstract specification `Bridge` refines: copies in any order and number, a position that moves only over what is settled, and goes back only while the source is behind what it had numbered (`StartOver`). |
| `KafkaLoader` | `kafka_loader.py`, `forget_landed_topic.py`, `make spark-reset` | Planning, reading message by message, the transaction, the commit to Kafka; retention, production and the reset happen in between; a task can fail at every step. |
| `ExactlyOnce` | the loader's promise | The abstract specification `KafkaLoader` refines: rows and position move in one step, over contiguous offsets or reported losses. |
| `KafkaLoaderProofs`, `BridgeProofs`, `SseStreamProofs` | | Theorems about these modules, section 5. |
| `SourceProofs` | | Theorems about `Simulation` and `FaultLayer`, section 5. |
| `WarehouseProofs` | | Theorems about `BatchLayer` and what `TripMart` and `StationHistory` compute, and about `Detections`, section 5. |
| `EventLogProofs` | | Lemmas about the ring buffer: what `read_after` returns and what it reports lost. Used by the proofs of the stream and of the bridge. |
| `FaultLayer` | `faults.py` | `process()` in stages (episodes, events, leaving), every injector in its order, the log. Rates and draws are choices, so `configure()` and `update()` (which only change rates) are the stutter. Times are counted in steps. |
| `Engine` | `engine.py`, `world.py`, `int_status_sequence.sql` | `step()` in its order, and the stale-snapshot check of dbt applied to what it emits (one station, any, is watched). Where a bike goes and how long it takes is a choice; station capacities, the heap's order and the nearest free dock are exact. Snapshot and truck timers are choices too (a snapshot or a round may be due in any step). |
| `EngineProofs` | | Theorems about the engine, section 5. |
| `Simulation` | `clock.py`, `simulation.py`, admin routes | The clock formula over integer ticks, `catch_up`, `save`/`load_or_create`, kills. An event is what determines it: the world's configuration, the step, and `branch`, the history of the fault layer, which every admin call about faults (and a restart that resets changed controls) makes new. |
| `TripMart` | `stg_trip_events`, `int_trips`, `fct_trips` | Operators over the sequence of landings. A landing's place is its `loaded_at`; `FctTrips(this, raw)` is one incremental build and `CompleteTrips(raw)` what a full refresh gives. |
| `StationHistory` | `snap_stations`, `dim_stations`, `dbt_over_capacity` | Operators over the set of versions of one station. Time is counted in capacity changes. |
| `BatchLayer` | the three DAGs, `publish.py`, the page of `app.py` | Composes the two above with the schedules, the pool's slot, retries, the serving copy and a reader. Each table carries `asof`, the raw data it was built from. |
| `Detections` | `contract.py`, `int_detections`, `stg_dead_letters`, `mart_detection_scorecard`, `extract_fault_log` | Faults are drawn for every event of a step; copies land in any order once emitted; the fault log is extracted at any time. The contract, the findings and the scorecard are operators over what has landed and what has been extracted, because they are views. The station of the reports has more docks from time to time, its row is extracted and its version kept at any time, and a report is joined with the versions by the end of its step, as in `int_detections` (`OverCapacity`). A payload is the class of value in each of its fields. |
| `ReferenceRules` | `reference.py`, `start_reference_rules`, `over_capacity` | The cached copy of the reference, its TTL, failed refreshes, replayed batches and new drivers. |
| `StreamQueries` | `main.py`, `rules.py`: the job | One query at a time, chosen at the start, because they share nothing. A micro-batch is planned, written and committed; a crash before the commit runs the same plan again. |
| `StreamQueriesProofs` | | Theorems about the two stream modules, section 5. |

Ghost variables (what a client got, what was published, what was reported lost)
are grouped apart in each module and never guard an action, except the counters
that bound the model.

## 3. What the runs check

Every bound is a CONSTANT with a name that starts with `Max` and a guard in the
actions; no state constraint and no symmetry is used.

| Run | Instance | Shows |
|---|---|---|
| `sse` | one client, buffer of 2, reads of 2, five events, two drops | `NoSilentGap` (`NothingSkipped`: in order, once, delivered or reported lost, across reconnections and filters; `PagesComplete`: the pages of `/v1/events` compose), `NoLostWakeup`; streams end at shutdown, connected clients catch up. Clients do not affect each other (each has its own generator and the log is only read), so one is enough. A buffer of two and five events make a reader fall behind by more than a buffer, and a batch in flight leave the buffer. |
| `bridge` | three events, buffer 2, queue 2, two worlds, any two faults | `Accounted`, refinement of `AtLeastOnce` (from which `CheckpointSound` follows: the position only moves over settled events), and every event settled in the end, also one that a kill took back from the source's log. Two faults let a second failure hit the recovery from the first (kill during a rewind, a kill of the bridge after the source fell back, reset after a kill). |
| `bridge_signal` | as above with one world, `SignalInRewind` | Finding 1: `CheckpointSound` fails. |
| `bridge_live` | as above with one world | Finding 2: `FailuresResent` fails. |
| `loader` | two partitions of 3 and 1 messages, slices of 2, two creations of the topic, one failure | `LandedExactly`, `NoCollision`, `ShownIsLanded`, refinement of `ExactlyOnce`, no partition stuck. Three messages need two tasks; the failure can hit either, before or after the reset. |
| `faults` | one station, three events, two injections or triggers of any kind | `EmittedAsLogged` (`Conserved`: no event lost or doubled; `GroundTruth`: values, marks and order of what is emitted), everything emitted in the end. Two injections give every pair of faults on one event or on two, stalls back to back included. |
| `engine` | stations with 1, 1 and 2 docks, three bikes, rides of up to 2 ticks, steps of 2, expansions of 2 docks | `FleetFits` (`BikesConserved`, `DocksSuffice`), `NoFalseStale`, `BikeHistoryInOrder`, rides end. One dock is free when every bike is docked, the tightest the 85 % rule allows here, so detours chain. A ride may end in its step, in the next, or after a detour; snapshots may be any number of steps apart. |
| `simulation` | six ticks, steps of 2, two steps per catch-up, two admin calls, two stops, two configurations | `TimeHolds`, `ReplayIdentical`, the engine catches up. Two stops give a kill after a restart from an older state. |
| `batch` | two trips, one station, two landings of any of three sets of halves, two changes of the source in all | `FctTripsComplete`, `HistoryTrue`, `ServingWhole`, and every complete trip shown in the end. The landings bring a start alone, its end alone, and both halves of the second trip beside a copy of the first start: a late half behind a newer complete trip, which is where filtering on the wrong time loses a trip. Two capacity changes are what a build can miss one of. Failures and retries are not bounded. |
| `batch_first` | the same | Finding 3. |
| `detections` | two trips and a report, any two injections, trips of 2 steps, judged 2 steps later, one station with 10, then 12, then 16 docks | `Precise`, `NoneOverlooked`. The report falls within the first trip and the second trip ends late enough for the first to be judged, so a half can be dropped, rejected, late or copied, alone or with one more fault on the same event, on its other half, or on the report, and the extraction can fall between any two of these. The report finds 11 bikes after the first expansion and before the second: more than the docks of a version that misses the first, fewer than those of its own. Its version can thus be there, be unseen, or be later than the report. |
| `spark` | three trips (one as long as a trip may be, one short, one later), seven reads of their six events, one crash; for `reference_rules` four ticks, a TTL of one, one expansion | `NoFalseOrphan`, `OrphanReported`, `MissingExplained`, `OverCapacityJudged`. The later trip moves the watermarks past the others; one read more than there are events leaves room for a copy before or after its window closes. |

`CHECK_DEADLOCK FALSE` where it is said: the bounds end the behaviours, and a
source that nobody asks for anything may rest. The schedules of `BatchLayer` never
stop, so its runs check for deadlock.

Fairness is weak and only on what the code's scheduling runs: the asyncio tasks
that are ready (`SseStream`), the bridge's thread, its restart policy, the source
that comes back and the broker that answers (`Bridge`; `restart:
unless-stopped`; a source that came back with an older log issues again what it had
not saved, because a restart resumes its clock), the five-minute schedule with retries (`KafkaLoader`), the
simulation's task (`FaultLayer`, `Engine`, `Simulation`). Nothing else makes the
world publish, a client connect, an admin call, or a fault happen; faults are
bounded, which says that they stop. `BatchLayer` bounds no failures: it asks for
strong fairness of what is tried again and again (an extract that reports, a model
that gets built, a build that passes, a publication that ends), because schedules
and retries keep coming back to it, and for weak fairness of the scheduler and of a
page that polls. `StreamQueries` asks for the trigger and for batches that end.

## 4. Findings

1. **A signal in a rewind loses events** (`bridge_signal`). `KafkaSink.flush()`
   clears its failures and raises; a SIGTERM before `run()` has gone back to
   `saved_seq` unwinds into `close()`, whose forced checkpoint now finds nothing
   wrong and saves a position past events that are not in Kafka.
2. **A bridge that starts live can start live again** (`bridge_live`).
   `BRIDGE_START_FROM=live` is for the first start only (`config.py` 9-10), and the code
   takes "no position" for that (`bridge.py` 182). A delivery that fails before the first
   checkpoint rewinds to no position, so the stream opens at the newest event: what had
   failed is neither in Kafka nor reported, and the next checkpoint passes it, where
   `bridge.py` 18 promises to re-send. The same happens when the connection breaks
   before its first frame, when the process dies before its first checkpoint, and when
   the process dies after it has cleared the checkpoint to start over. The properties
   excuse what came before the first live start (`skipped`), and exclude by name what
   follows a second one (`Relived`).
3. **A first build without a complete trip empties `fct_trips` for good**
   (`batch_first`). The table is created with no row, so `max(loaded_at)` is NULL and
   no later trip passes the incremental condition until a full refresh.
   `FctTripsComplete` shows that this is the only way: a table with a row is always
   what a full refresh would give.

Also seen while modelling, and excluded from the properties with a named condition
rather than hidden:

- A trip whose end was dropped is judged by the time of its start while the fault
  carries the time of the end, so that the finding counts as false when the
  extracted fault log ends between the two, which `mart_detection_scorecard.sql`
  13-15 means to rule out (`Precise` names this and the other ways in which a finding
  is misjudged).
- A report is judged with the version of its station that a build has kept. An expansion
  overtaken by the next between two extracts, or not extracted yet although the fault
  log is, leaves an older capacity, and a truthful report above it is a judged finding
  that no fault explains (`Unseen` in `Detections`). A report from before its station's
  first version is joined with none: an `impossible_status` above the capacity is then
  found by no check, although the repository's `README.md` 199-202 says that together they
  catch every one (`Unversioned`).
- A source that was killed comes back with its last save, up to a minute old. The bridge
  takes it for a reset, clears its checkpoint and copies the buffer again: harmless
  copies, but the events that have left the buffer by then are reported as lost upstream
  although they are in Kafka. Only then does the checkpoint go back (`StartOver`).
- The note of a slice that began past expired offsets is replaced by the note of a read
  timeout (`kafka_loader.py` 74, 103), so the audit row of such a batch does not say
  that messages were lost; the log does.
- A trigger is popped before it is known whether its episode can start, and injects
  nothing when a stall is already active or the station has no status to freeze
  (`IgnoreStall`, `IgnoreFreeze` in `FaultLayer`; `faults.py` 113-114 promises one
  injection).
- A reset source that overtakes the bridge's old position is not noticed (`stale` in
  `Bridge`): the first events of the new world are skipped.
- A station fault when every station already has one raises in the simulation task
  (`phase = "dead"` in `FaultLayer`).
- Changed fault controls are not restored at a restart, so a replay may differ
  (`branch` in `Simulation`).
- Trucks move bikes without any event, so the stale-snapshot rule's reason ("The
  count had to change", `int_status_sequence.sql` 7) does not hold for a station
  that a truck has visited, and `NoFalseStale` excludes it (`trucked` in `Engine`).
- A micro-batch of `reference_rules` that is run again may read a newer reference,
  so both attempts' alerts reach Kafka and `rules.py` 95's "identical alerts" holds
  only for the other queries.
- `missing_in_stream` may be negative for as long as Spark is ahead of the landings
  within the compared windows (`MissingExplained` takes what Spark has read as
  landed).
- Two capacity changes between two builds leave one version, whose interval begins
  at the second (`HistoryTrue` says what is kept).
- Before any fault is extracted, or any trip has landed, the scorecard's horizon is
  that of one side alone, because DuckDB's `least` passes over NULL (`BothSides` in
  `Detections`).
- The other half of a judged orphan may still be held back by the source, since a
  trip of 3 hours and a delay of 3 are more than the 4 that are waited (`Underway`).
- A trip built before the stations are first extracted keeps a NULL distance and speed
  for ever: `FctTripsComplete` is about which trips and halves are in the table, and these
  two columns are not in the model. No teleport is found as long as there are no stations.
- A page opened before the first copy exists stops before it starts following copies
  (`app.py` 421-430).

## 5. What is proved

Every theorem is for all values of the constants that satisfy the module's named
assumptions: any number of clients, events, messages, trips, any buffer, batch,
slice, any times and watermarks, any number of faults. Each rests on an inductive
invariant (`IInv`, `RInv`, `PInv`, `FaultInv`, `DetectionsInv`) written as a conjunction of named parts, which
TLC has checked on the instance of the run before it was proved. A proof has one
step or lemma per action, and under it one step per part the action can disturb.

### The loader

`KafkaLoaderProofs` proves, for every set of partitions, slice size, number of
messages, topic creations and failures, from `LoaderAssumption` alone:

| Theorem | Statement |
|---|---|
| `TypeCorrect` | `Spec => []TypeOK` |
| `ExactlyOnceLanding` | `Spec => []LandedExactly` |
| `NeverCollides` | `Spec => []NoCollision` |
| `ShownAfterLanded` | `Spec => []ShownIsLanded` |
| `ImplementsExactlyOnce` | `Spec => LandsExactlyOnce`, the refinement of `ExactlyOnce` |

`LandedExactly` is not inductive by itself. The invariant that is adds what the
code relies on without saying so: where landing began is known and not past the
position (`BeginningKnown`), everything reported lost is below the low watermark
(`WarnedGone`), nothing is kept of a deleted topic once it is forgotten
(`NothingKept`), the group's offsets go with the topic (`GroupDropped`), a task's
slice continues the table and its rows are exactly the offsets read so far
(`SlicesContinue`), and between COMMIT and the commit to Kafka the positions are
those of the slices (`AckIsLanded`). The proof has one step per action, and under
it one per conjunct the action can disturb. The first two of these facts carry
the argument that a batch cannot collide; `NothingKept` is why the forget script
must wait for the lock and for Kafka's confirmation.

### The bridge

`BridgeProofs`, from `BridgeAssumption` and `EventLogAssumption`:

| Theorem | Statement | Under |
|---|---|---|
| `TypeCorrect` | `Spec => []TypeOK` | |
| `EveryEventAccounted` | `Spec => []Accounted` | `~SignalInRewind` |
| `CheckpointNeverAhead` | `Spec => []CheckpointSound` | `~SignalInRewind` |
| `ImplementsAtLeastOnce` | `Spec => CopiesAtLeastOnce`, the refinement of `AtLeastOnce` | `~SignalInRewind` |

`~SignalInRewind` leaves out only a SIGTERM between the raise of `KafkaSink.flush()`
and the end of the rewind; with it `CheckpointSound` is false (finding 1), so the
hypothesis is exactly what the code relies on. A SIGTERM at any other step, kills,
delivery failures, lost connections, and a source that comes back with the same log, an
older one or that of a new world are all in the theorems. Two cases are excluded inside
the properties, by name, because there they are false: a new world that the bridge has
not noticed (`stale`), and a second live start (`Relived`, finding 2). In both the abstract
position is none.

The argument: the frames on the wire go on from one to the next and from the
position the bridge has reached (`StreamContinues`), each frame covers the events
between its two positions (`Covers`: one event, or those a gap notice reports), and
everything up to that position is settled, with the producer, or failed. The
position in memory and the file agree at every step (`PositionsAgree`). `Accounted`
then makes a checkpoint sound: it is written only after `flush()` found nothing
queued and nothing failed. Positions beyond the source's log are nothing special here:
an event the source issues again is the one it issued before (`ReplayIdentical` of
`Simulation`, so long as nobody has used the fault controls), and a position is always
over events that were published, not over those the log has now. The refinement needs
one thing more: when `/health` shows the position ahead of the source, the log is behind
what was published, which is when `AtLeastOnce` lets it start over. `BatchChained` takes from `EventLogProofs` that a read of
the ring buffer goes on from its cursor, gap notice first.

### The source's stream and its pages

`SseStreamProofs`, from `StreamAssumption` (the batch size is at least one) and
`EventLogAssumption`:

| Theorem | Statement |
|---|---|
| `TypeCorrect` | `Spec => []TypeOK` |
| `NeverSleepsThrough` | `Spec => []NoLostWakeup` |
| `ReadersMissNothing` | `Spec => []NoSilentGap` |

`NoLostWakeup` needs that a waiting generator is on the event armed now or on one
that has been set (`WaitsOnNewest`). `NoSilentGap` needs, for each client, what its
generator has read and not handed over yet (`InHand`: contiguous, after the gap that
is still to be announced or has been) and that everything up to the generator's
position is received or reported lost (`Follows`). That the pages of `/v1/events`
compose holds of every state of the log (`PagesComplete`).

### The source's process

`SourceProofs`, from `SimulationAssumption`:

| Theorem | Statement |
|---|---|
| `TypeCorrect` | `Spec => []TypeOK` |
| `TimeKept` | `Spec => TimeHolds` |
| `ReplaysIdentical` | `Spec => []ReplayIdentical` |

The invariant says that the clock, the engine's cursor and the log are of one moment
(`Consistent`: the log numbers the steps of one world, one by one, up to the cursor),
both in memory and in `state.pkl` (`SavedConsistent`), which is what pickling all of
them together is for.

### The fault layer

`SourceProofs`, from `FaultLayerAssumption` (`None` is no station, and no station is
named like a kind of trip event): for any stations, and any number of events,
injections and triggers, delays and durations.

| Theorem | Statement |
|---|---|
| `FaultTypeCorrect` | `FaultSpec => []FaultTypeOK`: in particular one stall at a time |
| `EmittedIsLogged` | `FaultSpec => []EmittedAsLogged` |

`EmittedAsLogged` speaks of what has left; the invariant `FaultInv` has to speak of
every place a copy can be. `CopiesInv` says that each copy, wherever it is, is wrong
as the log says and not otherwise, and that what is held back is late or a duplicate
on record. It is kept because the log only grows, and never again about an earlier
event, so that what it says of an event stands once its injectors have run
(`RecordStands`, `InjectRecords`). `OrderInv` orders the places: what has left is
before the backlog, the backlog before the step's events. With `BacklogInv`, that a
backlog is either in the buffer, under an active stall, or has just been released,
this is what a stall after a stall needs: the order in which `process()` joins the
lists (`LeaveInOrder`). `StatusInv` says that a frozen station has an earlier status of
its own to repeat, `EpisodesInv` that every episode is on record at its id.
`Conserved` is inductive with these: the copies of an event are counted place by
place, and the two held copies of one event are told apart by their heap counter
(`HeldOver` and the lemmas after it), as in the code, where a set without that counter
would make one of them.

### The engine

`EngineProofs`, from `EngineAssumption`: the city and the fleet are finite, every
station is built with at least one dock (the code gives it 15 or more), the bikes
are at most 85 % of the docks (`build_world()` refuses more), and a station's list of
the nearest ones names all the others.

| Theorem | Statement |
|---|---|
| `TypeCorrect` | `Spec => []TypeOK` |
| `EveryBikeHasItsPlace` | `Spec => []FleetFits` |
| `TruthIsNotStale` | `Spec => []NoFalseStale` |
| `HistoryInOrder` | `Spec => []BikeHistoryInOrder` |

A bike is docked once or on one ride (`OnePlace`). Were every station full, the bikes
in the docks would outnumber the fleet: `NotAllFull` counts them against `Slots`,
the docks the city was built with, so a diverted bike always finds a dock
(`FreeDock`). A round of trucks moves several loads at once; `PairsApart` says that a
station is in at most one of them, on one side, and `LoadFits` that what arrives
leaves the taker at most half full. `NoFalseStale` needs that, without a truck, the
watched station has what its latest snapshot shows and the net of the trips stamped
since, and that no trip is stamped beyond the next snapshot (`SnapshotInv`). That
holds because nothing is due in this step any more once the arrivals are done
(`RidesInv`, `NoneDue`): the order of the parts of `step()`. The same order keeps a
bike's history in order: what lands in a step leaves in a later one (`FreedInv`).

### The batch layer

`WarehouseProofs`, from `BatchAssumption` (`None` is no table, and no update is
numbered `Forever`):

| Theorem | Statement |
|---|---|
| `TypeCorrect` | `Spec => []TypeOK` |
| `IncrementalEqualsFull` | `Spec => []FctTripsComplete` |
| `ReportsJudgedOnce` | `Spec => []HistoryTrue` |
| `ServesOneBuild` | `Spec => []ServingWhole` |

The first rests on `IncrementalIsFull`: a trip is complete from the landing that
brings its later half on, its `loaded_at` is that landing, and so what a build finds
above `max(loaded_at)` is exactly what has completed since the last one, whatever
copies came with it (`CompleteTripsAre`, `PrefixFirst`). The second rests on the
shape of the history (`Chained`, `NoHole`): one version from each value a build has
taken, each up to the next. The third on `BuiltAsOf`: while the build has the slot
nothing lands, so its tables are from one state of the raw data, and they stay as
they are until the copy has been swapped in.

### The detections

`WarehouseProofs`, from `DetectionsAssumption` (a trip takes `max_trip_hours` at most,
a finding is judged no sooner than that, the station only gets more docks, and a truthful
report shows no more bikes than it has docks then, which is `FleetFits` of `Engine`): for
any trips and reports, at any times, any expansions and any number of faults.

| Theorem | Statement |
|---|---|
| `DetectionsTypeCorrect` | `DetectionsSpec => []DetectionsTypeOK` |
| `ScorecardPrecise` | `DetectionsSpec => []Precise` |
| `ScorecardOverlooksNone` | `DetectionsSpec => []NoneOverlooked` |

Findings and scorecard are views, so the invariant `DetectionsInv` is about what they
read. A copy carries the marks that the log has of its event, and there is one original
and one duplicate at most (`CopiesSound`, `OneOfEach`); every event of the steps taken
was dropped, and nothing else was done to it, or there is its original, and a
duplicate if one is logged (`EventsSound`). The first makes the checks on one event
exact: a copy that fails the contract was drifted or negative and only then
(`DriftIsInvalid`, `NegativeIsInvalid`, `CleanIsValid`), and a second row of an event
is its logged duplicate (`FindingOnRecord`, `FaultFound`). The log is extracted up to
some step and not beyond (`LogSound`), so that a fault of an event before the horizon is
in the extracted log (`KnownWhenJudged`): that is why a lagging extraction misjudges
nothing. The versions of the station each begin at one of its expansions and meet without
a hole from the first on (`VersionsSound`), so a report is joined with at most one of
them, of its own capacity or of an older one (`JudgedThen`). An older one is smaller, so
an injected count above the capacity is above it too, whatever the builds have missed,
as soon as there is a version at all; and a truthful count is above it only if no build
saw its own (`ShownAgainst`). These are the two exceptions the properties name for
`over_capacity`, `Unversioned` and `Unseen`, and TLC finds each of them needed. What is left
are the orphans, which are findings about an event that is not
there: the other half lies within a trip's length of the one that landed, so it too is
past when the first is judged (`OtherHalf`, `JudgedIsPast`), and the second part of the
invariant says where it is (`HalfIsSomewhere`): dropped, rejected, staged, or on its way.

### The stream queries

`StreamQueriesProofs` proves, for every set of trips, event times, watermark,
time to live, window length, number of reads and crashes, from
`ReferenceAssumption` and `StreamAssumption` (there are finitely many trips, none
takes longer than `max_trip_duration`, and `None` is neither a number nor a plan):

| Theorem | Statement |
|---|---|
| `StaleNoLongerThanTtl` | `Spec => []OverCapacityJudged` |
| `OrphansAreTrue` | `Spec => []NoFalseOrphan` |
| `LakeCountsOnce` | `Spec => []MissingExplained` |
| `TypeCorrect` | `Spec => []TypeOK` |

The first follows from `RInv`: the cached copy is behind the station, or behind
what a report says of it, only if it was fetched before the expansion
(`CopySound`), so its age bounds how long a report can be misjudged. The second
follows from `PInv`: a half that counted is in the join's state or has expired
(`KeptOrExpired`), no half in the state waits for a partner that has counted
(`NoneWaits`), and an alert is that of an orphan of the batch being run, or of a
half whose partner has not counted and can no longer (`AlertsJust`). What closes
the argument is that rows are late against the watermark that evicted state in
the batch before (`PartnerTooLate`): had Spark dropped late rows by an older
watermark than the one it evicts by, a partner could still arrive. That the
watermark never falls needs the maximum of a finite set of times to exist; the
lemmas before it show that from the well-foundedness of the naturals.

The third follows from `MInv`: what the query remembers of each event is what may
come again without being late (`SeenIs`), the open windows hold the count of what
was accepted in them and the closed ones nothing (`CountsAre`), and the lake has the
whole count of a closed window and nothing of an open one (`Balanced`), or, between
the write and the commit of a batch, what that batch closes (`Accounts`). A window
closes once, so the second write of a batch that crashed finds what the first left
(`MetricsWrite`), and a batch adds nothing to a window that had closed
(`BatchCounts`). What remains is the reading of the mart: a window it compares is
one the watermark has closed (`ComparedClosed`).

### Only model-checked

Every safety invariant and action property of the runs that are to pass is proved, and
both refinements. All liveness (`EventuallyEmitted`, `EngineCatchesUp`,
`EventuallyShown` and the others) stays with TLC: the prover does not reason about
fairness and ENABLED; so does `RidesEnd` of the engine. No module that a proof reaches
declares a RECURSIVE operator. `SourceProofs` and `WarehouseProofs` each hold the proofs
of two independent specifications; the initial state, the next-state relation and the
types of `FaultLayer` and `Detections` carry their module's name for that reason.

## 6. Not modelled, and why

Wording, JSON, pydantic and SQL types; throughput reports and metrics; HTTP
errors of the admin API (they change nothing); Kafka and DuckDB themselves,
which appear as external actions with the guarantees the code relies on
(idempotent producer, atomic transactions, one writer). The order of messages
within a partition after a rewind is not modelled.

`api_extract`: the cursor of weather, and bikes (the same snapshot as stations).
What a source that comes back with an older log does to the batch side is not modelled:
`BatchLayer` and `Detections` have one that only goes on. A topic that is created again
although `forget_landed_topic.py` gave up (it is still listed, or the warehouse is
locked; the script then exits with an error and `make` stops) is not modelled.
In `Detections` a ride is too fast exactly when its teleport was injected: `_teleport` picks
a station that makes it so. A truthful ride above 45 km/h is a draw of `_ride_duration` more
than four standard deviations out (a street is 1.35 times the straight line, so the mean
is 14 km/h), less than one ride in a hundred thousand, and is left out: its
finding would match no fault.
Contract: topic names, keys, and rejections the source never causes. dbt: in the
scorecard, Spark's alerts and the checks for episodes (stale snapshot, reporting gap,
stalls); the hourly and daily marts and `source_freshness`. Spark: `station_health`'s thresholds, `teleports` and
`late_events`; its engine is external and modelled from what the code relies on
(watermarks, state eviction, the offset and commit logs, the sinks' guarantees).
Dashboard: charts, and sessions that load at the same time: DuckDB gives a process
its already open instance, so two loads that overlap a publication might share the
old copy. `smoke.py` and the peek scripts only read.

## 7. Plan

Done: every module above, and proofs of the safety properties of all of them. Next, in
this order:

1. The cursors of `api_extract` against a source that is reset.
2. Episodes in `Detections`: what the checks for frozen and silent stations find.
3. `station_health` against the engine's truth.
