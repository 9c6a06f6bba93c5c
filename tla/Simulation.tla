----------------------------- MODULE Simulation -----------------------------
(***************************************************************************)
(* The source's process (src/source/bikeshare_sim/simulation.py, clock.py, *)
(* and the admin routes of api.py): the simulated clock and its controls,  *)
(* the engine that catches up with it, and the saved state it resumes.     *)
(*                                                                         *)
(* One wall tick is one simulated tick at speed 1.  An engine step takes   *)
(* StepLen ticks and emits one event: what it is depends on the world, on  *)
(* the step, and on the fault layer's history (`branch`), which an admin   *)
(* call about faults makes differ from every other one.  The history is in *)
(* the saved random generators and triggers.                               *)
(***************************************************************************)
EXTENDS Integers, Sequences

CONSTANTS
  StepLen,       \* step_seconds, in ticks
  MaxSteps,      \* MAX_STEPS_PER_TICK
  Speeds,        \* speeds an admin sets
  DefaultSpeed,  \* settings.clock.speed
  MaxNow,        \* bound of the model: simulated time
  MaxElapsed,    \* bound of the model: wall ticks between two re-anchorings
  MaxAdmin,      \* bound of the model: admin calls
  MaxStops,      \* bound of the model: times the process stops
  MaxWorlds      \* bound of the model: world configurations

ASSUME SimulationAssumption ==
  /\ StepLen \in Nat \ {0} /\ MaxSteps \in Nat \ {0}
  /\ Speeds \subseteq Nat \ {0} /\ DefaultSpeed \in Speeds
  /\ {MaxNow, MaxElapsed, MaxAdmin, MaxStops} \subseteq Nat /\ MaxWorlds \in Nat \ {0}

VARIABLES
  up,
  anchor_sim, elapsed,   \* the clock: _anchor_sim, and wall ticks since _anchor_wall
  speed, paused,
  cursor,                \* Engine.cursor
  log,                   \* the events published, by seq
  branch, custom,        \* the fault layer's history; its controls are not the settings'
  world,                 \* the configuration's fingerprint
  saved,                 \* state.pkl
  seen,                  \* what a consumer has read, by seq, in this world
  branches, admin, stops

clockVars == <<anchor_sim, elapsed, speed, paused>>
simVars == <<cursor, log, branch, custom>>
vars == <<up, clockVars, simVars, world, saved, seen, branches, admin, stops>>

Event(step) == [world |-> world, step |-> step, branch |-> branch]
NoState == [world |-> 0]

(* Simulation.__init__(): everything follows from the configuration. *)
FreshWorld ==
  /\ anchor_sim' = 0 /\ elapsed' = 0 /\ speed' = DefaultSpeed /\ paused' = FALSE
  /\ cursor' = 0 /\ log' = <<>> /\ branch' = 0 /\ custom' = FALSE

Init ==
  /\ up = TRUE
  /\ anchor_sim = 0 /\ elapsed = 0 /\ speed = DefaultSpeed /\ paused = FALSE
  /\ cursor = 0 /\ log = <<>> /\ branch = 0 /\ branches = 0 /\ custom = FALSE
  /\ world = 1 /\ saved = NoState /\ seen = <<>>
  /\ admin = 0 /\ stops = 0

(* now() *)
Now == IF paused THEN anchor_sim ELSE anchor_sim + elapsed * speed

MutReanchorRunning ==
  IF paused THEN UNCHANGED <<anchor_sim, elapsed>> ELSE anchor_sim' = Now /\ elapsed' = 0

(* _reanchor() *)
Reanchor == anchor_sim' = Now /\ elapsed' = 0

-----------------------------------------------------------------------------
(* The clock and its controls.                                             *)

WallTick ==
  /\ up /\ elapsed < MaxElapsed
  /\ paused \/ Now + speed <= MaxNow
  /\ elapsed' = elapsed + 1
  /\ UNCHANGED <<up, anchor_sim, speed, paused, simVars, world, saved, seen, branches, admin, stops>>

Call == up /\ admin < MaxAdmin /\ admin' = admin + 1

(* PATCH /admin/clock: a speed, a pause or a resume, or several; each of   *)
(* set_speed(), pause() and resume() re-anchors first.                     *)
UpdateClock ==
  /\ Call
  /\ Reanchor
  /\ speed' \in Speeds /\ paused' \in BOOLEAN
  /\ UNCHANGED <<up, simVars, world, saved, seen, branches, stops>>

(* POST /admin/clock/advance *)
Advance ==
  /\ Call
  /\ \E delta \in 1..(MaxNow - Now) : anchor_sim' = Now + delta
  /\ elapsed' = 0
  /\ UNCHANGED <<up, speed, paused, simVars, world, saved, seen, branches, stops>>

(* PATCH /admin/faults and POST .../trigger: from here on the fault layer   *)
(* draws differently; only the controls are forgotten at a restart.         *)
ChangeFaults ==
  /\ Call
  /\ branch' = branches + 1 /\ branches' = branches + 1
  /\ custom' \in BOOLEAN
  /\ UNCHANGED <<up, clockVars, cursor, log, world, saved, seen, stops>>

-----------------------------------------------------------------------------
(* The engine.                                                             *)

Least(a, b) == IF a < b THEN a ELSE b

MutOvershoot == Least(MaxSteps, ((Now - cursor) + StepLen - 1) \div StepLen)

(* Steps catch_up() runs: while cursor + step <= target, and MaxSteps at most. *)
StepsDue == Least(MaxSteps, (Now - cursor) \div StepLen)

MutCatchUpRunning ==
  /\ up /\ StepsDue > 0 /\ ~paused
  /\ cursor' = cursor + StepsDue * StepLen
  /\ log' = log \o [i \in 1..StepsDue |-> Event(cursor \div StepLen + i)]
  /\ UNCHANGED <<up, clockVars, branch, custom, world, saved, seen, branches, admin, stops>>

MutPublishOnce ==
  /\ up /\ StepsDue > 0
  /\ cursor' = cursor + StepsDue * StepLen
  /\ log' = Append(log, Event(cursor \div StepLen + 1))
  /\ UNCHANGED <<up, clockVars, branch, custom, world, saved, seen, branches, admin, stops>>

(* The last seq is always the engine's last step: nothing is published twice. *)
CatchUp ==
  /\ up /\ StepsDue > 0
  /\ cursor' = cursor + StepsDue * StepLen
  /\ log' = log \o [i \in 1..StepsDue |-> Event(cursor \div StepLen + i)]
  /\ UNCHANGED <<up, clockVars, branch, custom, world, saved, seen, branches, admin, stops>>

(* A consumer reads on from where it is: the seqs it has are not read again. *)
Read ==
  /\ up /\ Len(seen) < Len(log)
  /\ seen' = seen \o SubSeq(log, Len(seen) + 1, Len(log))
  /\ UNCHANGED <<up, clockVars, simVars, world, saved, branches, admin, stops>>

-----------------------------------------------------------------------------
(* Persistence.                                                            *)

MutStateNoLog ==
  [world |-> world, sim_now |-> Now, speed |-> speed, paused |-> paused,
   cursor |-> cursor, log |-> <<>>, branch |-> branch, custom |-> custom]

(* save(): one pickle of everything, replaced atomically.  The clock keeps  *)
(* the simulated time only.                                                *)
State ==
  [world |-> world, sim_now |-> Now, speed |-> speed, paused |-> paused,
   cursor |-> cursor, log |-> log, branch |-> branch, custom |-> custom]

(* Every minute, from run(). *)
Save ==
  /\ up /\ saved # State
  /\ saved' = State
  /\ UNCHANGED <<up, clockVars, simVars, world, seen, branches, admin, stops>>

(* The end of lifespan(): a graceful stop saves. *)
Shutdown ==
  /\ up /\ stops < MaxStops /\ stops' = stops + 1
  /\ up' = FALSE /\ saved' = State
  /\ UNCHANGED <<clockVars, simVars, world, seen, branches, admin>>

Kill ==
  /\ up /\ stops < MaxStops /\ stops' = stops + 1
  /\ up' = FALSE
  /\ UNCHANGED <<clockVars, simVars, world, saved, seen, branches, admin>>

(* SimClock.__setstate__(), then the controls of the settings. *)
LoadClock ==
  /\ anchor_sim' = saved.sim_now /\ elapsed' = 0
  /\ speed' = DefaultSpeed /\ paused' = FALSE

(* load_or_create() with a saved state of this world.  configure() puts the *)
(* settings' fault controls back.                                          *)
Load ==
  /\ ~up /\ saved.world = world
  /\ up' = TRUE
  /\ LoadClock
  /\ cursor' = saved.cursor /\ log' = saved.log /\ custom' = FALSE
  /\ IF saved.custom
     THEN branch' = branches + 1 /\ branches' = branches + 1
     ELSE branch' = saved.branch /\ UNCHANGED branches
  /\ UNCHANGED <<world, saved, seen, admin, stops>>

(* ... without one: the same configuration starts the same world again. *)
Create ==
  /\ ~up /\ saved = NoState
  /\ up' = TRUE
  /\ FreshWorld
  /\ UNCHANGED <<world, saved, seen, branches, admin, stops>>

(* ... with one of another world: it is set aside, and a new world starts. *)
Reconfigure ==
  /\ ~up /\ world < MaxWorlds
  /\ up' = TRUE /\ world' = world + 1 /\ saved' = NoState
  /\ FreshWorld
  /\ seen' = <<>>
  /\ UNCHANGED <<branches, admin, stops>>

-----------------------------------------------------------------------------
Next ==
  \/ WallTick \/ UpdateClock \/ Advance \/ ChangeFaults
  \/ CatchUp \/ Read
  \/ Save \/ Shutdown \/ Kill \/ Load \/ Create \/ Reconfigure

(* run() loops for as long as the process is up. *)
Fairness == WF_vars(CatchUp)

Spec == Init /\ [][Next]_vars /\ Fairness

-----------------------------------------------------------------------------
Events == [world : 1..MaxWorlds, step : 1..MaxNow, branch : 0..(MaxAdmin + MaxStops)]

TypeOK ==
  /\ {up, paused, custom} \subseteq BOOLEAN
  /\ anchor_sim \in 0..MaxNow /\ elapsed \in 0..MaxElapsed /\ speed \in Speeds
  /\ {log, seen} \subseteq Seq(Events)
  /\ cursor = StepLen * Len(log)
  /\ branch \in 0..branches
  /\ world \in 1..MaxWorlds /\ admin \in 0..MaxAdmin /\ stops \in 0..MaxStops

(* simulation.py:62-72, eventlog.py:45-63, clock.py:5-7.  No event is       *)
(* emitted before its time: the engine never runs ahead of the clock,       *)
(* whatever the speeds, pauses, saves and restarts, a crash between two     *)
(* saves included; and the controls leave the simulated time as it is, it   *)
(* neither jumps back nor skips.                                           *)
TimeHolds ==
  /\ [](cursor <= Now)
  /\ [][UpdateClock => Now' = Now]_vars

(* simulation.py:119-160.  After a restart, even from a state older than    *)
(* what consumers have read, a seq means the same event as before, unless   *)
(* the fault layer's history has changed.                                  *)
ReplayIdentical ==
  \A n \in 1..Least(Len(seen), Len(log)) :
    seen[n].branch = log[n].branch => seen[n] = log[n]

(* simulation.py:62-88.  The engine catches up with the clock, MaxSteps at  *)
(* a time, even after a fast-forward and while the clock is paused.        *)
EngineCatchesUp ==
  \A t \in 1..MaxNow : (up /\ Now >= t) ~> (cursor > t - StepLen \/ ~up)
=============================================================================
