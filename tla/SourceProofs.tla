---------------------------- MODULE SourceProofs ----------------------------
(***************************************************************************)
(* Proofs about the source.  Its process, for any step length, speeds,     *)
(* number of steps per tick, admin calls, stops and configurations: its    *)
(* types, that no event is emitted before its time and the controls keep   *)
(* the time, and that a replay after a restart issues the same events.     *)
(* The fault layer, for any stations, durations, delays and triggers: its  *)
(* types, and that what has been emitted is the truth changed as the fault *)
(* log says, and by nothing else.                                          *)
(***************************************************************************)
EXTENDS Simulation, FaultLayer, FiniteSetTheorems, SequenceTheorems, TLAPS

-----------------------------------------------------------------------------
(* Steps and ticks.                                                        *)

LEMMA WholeSteps ==
  ASSUME NEW s \in Nat \ {0}, NEW n \in Nat
  PROVE  (s * n) \div s = n
  OBVIOUS

LEMMA StepsBelow ==
  ASSUME NEW s \in Nat \ {0}, NEW d \in Nat
  PROVE  d \div s \in Nat /\ (d \div s) * s <= d
  OBVIOUS

LEMMA StepsAdd ==
  ASSUME NEW s \in Nat \ {0}, NEW a \in Nat, NEW b \in Nat
  PROVE  s * a + b * s = s * (a + b)
  OBVIOUS

LEMMA StepsAtLeast ==
  ASSUME NEW s \in Nat \ {0}, NEW a \in Nat
  PROVE  a <= s * a
  OBVIOUS

(* A clock just re-anchored at t shows t, paused or not. *)
LEMMA JustAnchored ==
  ASSUME NEW t \in Nat, NEW p, NEW e, e = 0, NEW s \in Nat
  PROVE  (IF p THEN t ELSE t + e * s) = t
<1>1. t + 0 * s = t
  OBVIOUS
<1> QED
  BY <1>1

LEMMA MoreCalls ==
  ASSUME NEW b \in Nat, NEW u, NEW c \in Nat, NEW d \in Nat, NEW s \in Nat,
         b + (IF u THEN 0 ELSE 1) <= c + s, c <= d
  PROVE  b + (IF u THEN 0 ELSE 1) <= d + s
  OBVIOUS

LEMMA StepsMonotone ==
  ASSUME NEW s \in Nat \ {0}, NEW a \in Nat, NEW b \in Nat, a <= b
  PROVE  a * s <= b * s
  OBVIOUS

-----------------------------------------------------------------------------
(* The inductive invariant, part by part.                                  *)

(* Each seq of a log numbers a step of the world, in order. *)
Numbers(events, w) == \A n \in 1..Len(events) : events[n].world = w /\ events[n].step = n

(* A clock that shows t, and what the engine and the log make of it. *)
Consistent(t, at, events, w) ==
  /\ t \in 0..MaxNow /\ at \in Nat /\ at <= t
  /\ events \in Seq(Events) /\ at = StepLen * Len(events)
  /\ Numbers(events, w)

(* state.pkl is one moment of a process: its clock, its engine and its log  *)
(* belong together.                                                        *)
SavedConsistent ==
  saved # NoState =>
    /\ saved = [world |-> saved.world, sim_now |-> saved.sim_now, speed |-> saved.speed,
                paused |-> saved.paused, cursor |-> saved.cursor, log |-> saved.log,
                branch |-> saved.branch, custom |-> saved.custom]
    /\ saved.world \in 1..MaxWorlds /\ saved.custom \in BOOLEAN
    /\ saved.branch \in 0..branches
    /\ Consistent(saved.sim_now, saved.cursor, saved.log, saved.world)

(* Every history of the fault layer comes from an admin call, or from a    *)
(* restart after a stop.                                                   *)
BranchesCounted == branches \in Nat /\ branches + (IF up THEN 0 ELSE 1) <= admin + stops

IInv ==
  /\ TypeOK
  /\ Consistent(Now, cursor, log, world)
  /\ Numbers(seen, world)
  /\ SavedConsistent /\ BranchesCounted

-----------------------------------------------------------------------------
(* The initial states.                                                     *)

LEMMA FreshConsistent ==
  ASSUME NEW w \in 1..MaxWorlds
  PROVE  Consistent(0, 0, <<>>, w) /\ Numbers(<<>>, w)
<1>1. 0 = StepLen * Len(<<>>) /\ 0 \in 0..MaxNow
  BY SimulationAssumption
<1>2. <<>> \in Seq(Events) /\ Len(<<>>) = 0
  BY EmptySeq
<1> QED
  BY <1>1, <1>2 DEF Consistent, Numbers

LEMMA InvInit == Init => IInv
<1> SUFFICES ASSUME Init PROVE IInv
  OBVIOUS
<1> USE SimulationAssumption DEF Init
<1>1. 1 \in 1..MaxWorlds /\ Now = 0
  BY DEF Now
<1>2. Consistent(0, 0, <<>>, 1) /\ Numbers(<<>>, 1)
  BY <1>1, FreshConsistent
<1>3. TypeOK
  <2>1. <<>> \in Seq(Events) /\ 0 = StepLen * Len(<<>>)
    BY <1>2 DEF Consistent
  <2>2. /\ MaxNow \in Nat /\ MaxElapsed \in Nat /\ MaxAdmin \in Nat /\ MaxStops \in Nat
        /\ DefaultSpeed \in Speeds
    OBVIOUS
  <2>3. {log, seen} \subseteq Seq(Events) /\ cursor = StepLen * Len(log)
    BY <2>1
  <2>4. {up, paused, custom} \subseteq BOOLEAN
    OBVIOUS
  <2> QED
    BY <1>1, <2>2, <2>3, <2>4 DEF TypeOK
<1>4. SavedConsistent /\ BranchesCounted
  BY DEF SavedConsistent, BranchesCounted
<1> QED
  BY <1>1, <1>2, <1>3, <1>4 DEF IInv

-----------------------------------------------------------------------------
(* The clock.                                                              *)

(* A state that shows the same time or a later one, of an engine that has   *)
(* not moved.                                                              *)
LEMMA LaterConsistent ==
  ASSUME NEW t, NEW u \in 0..MaxNow, NEW at, NEW events, NEW w, Consistent(t, at, events, w), t <= u
  PROVE  Consistent(u, at, events, w)
  BY SimulationAssumption DEF Consistent

(* Setting the speed, pausing and resuming leave the simulated time as it  *)
(* is, in whatever order and state.                                        *)
LEMMA ControlsKeepTime == TypeOK /\ UpdateClock => Now' = Now
<1> SUFFICES ASSUME TypeOK, UpdateClock PROVE Now' = Now
  OBVIOUS
<1>1. anchor_sim' = Now /\ elapsed' = 0 /\ speed' \in Nat
  BY SimulationAssumption DEF UpdateClock, Reanchor
<1>2. Now \in Nat
  <2>1. elapsed * speed \in Nat
    BY SimulationAssumption DEF TypeOK
  <2> QED
    BY <2>1 DEF TypeOK, Now
<1>3. Now' = anchor_sim'
  BY <1>1, <1>2, JustAnchored, Zenon DEF Now
<1> QED
  BY <1>1, <1>3

LEMMA ReadingIsNumber == TypeOK => Now \in Nat /\ elapsed * speed \in Nat
<1> SUFFICES ASSUME TypeOK PROVE Now \in Nat /\ elapsed * speed \in Nat
  OBVIOUS
<1>1. elapsed * speed \in Nat
  BY SimulationAssumption DEF TypeOK
<1> QED
  BY <1>1 DEF TypeOK, Now

(* What the parts of the invariant say of a process whose engine, log and   *)
(* saved state stay as they are.                                           *)
LEMMA ClockStep ==
  ASSUME IInv, UNCHANGED <<up, simVars, world, saved, seen, branches, stops>>,
         admin' \in Nat, admin <= admin', TypeOK',
         Now' \in 0..MaxNow, Now <= Now'
  PROVE  IInv'
<1>1. Consistent(Now', cursor', log', world')
  BY LaterConsistent DEF IInv, simVars
<1>2. Numbers(seen', world') /\ SavedConsistent'
  <2>1. seen' = seen /\ world' = world /\ saved' = saved /\ branches' = branches
    OBVIOUS
  <2> QED
    BY <2>1 DEF IInv, SavedConsistent
<1>3. BranchesCounted'
  <2>1. /\ up' = up /\ branches' = branches /\ stops' = stops
        /\ admin \in Nat /\ stops \in Nat
    BY SimulationAssumption DEF IInv, TypeOK
  <2>2. /\ branches' \in Nat /\ stops' \in Nat
        /\ branches' + (IF up' THEN 0 ELSE 1) <= admin + stops'
    BY <2>1 DEF IInv, BranchesCounted
  <2> QED
    BY <2>1, <2>2, MoreCalls, Zenon DEF BranchesCounted
<1> QED
  BY <1>1, <1>2, <1>3 DEF IInv

LEMMA WallTickStep == IInv /\ WallTick => IInv'
<1> SUFFICES ASSUME IInv, WallTick PROVE IInv'
  OBVIOUS
<1> USE SimulationAssumption
<1>1. TypeOK /\ Now \in 0..MaxNow
  BY DEF IInv, Consistent
<1>2. speed \in Nat /\ elapsed \in Nat /\ anchor_sim \in Nat
  BY <1>1 DEF TypeOK
<1>3. TypeOK'
  BY <1>1 DEF WallTick, TypeOK, simVars
<1>4. (elapsed + 1) * speed = elapsed * speed + speed
  BY <1>2
<1>5. Now' \in 0..MaxNow /\ Now <= Now'
  <2>1. CASE paused
    BY <1>1, <1>2, <2>1 DEF WallTick, Now
  <2>2. CASE ~paused
    <3>1. Now' = anchor_sim + (elapsed * speed + speed) /\ Now = anchor_sim + elapsed * speed
      BY <1>2, <1>4, <2>2 DEF WallTick, Now
    <3>3. PICK x \in Nat : x = elapsed * speed
      BY <1>1, ReadingIsNumber
    <3>4. anchor_sim + (x + speed) = (anchor_sim + x) + speed
      BY <1>2
    <3>5. Now' = Now + speed
      BY <3>1, <3>3, <3>4
    <3>2. Now + speed <= MaxNow
      BY <2>2 DEF WallTick
    <3> QED
      BY <1>1, <1>2, <3>2, <3>5
  <2> QED
    BY <2>1, <2>2
<1> QED
  BY <1>1, <1>3, <1>5, ClockStep DEF WallTick, TypeOK

LEMMA UpdateClockStep == IInv /\ UpdateClock => IInv'
<1> SUFFICES ASSUME IInv, UpdateClock PROVE IInv'
  OBVIOUS
<1> USE SimulationAssumption
<1>1. TypeOK /\ Now \in 0..MaxNow
  BY DEF IInv, Consistent
<1>2. TypeOK'
  <2>1. admin' \in 0..MaxAdmin
    <3>1. admin' = admin + 1 /\ admin < MaxAdmin /\ admin \in 0..MaxAdmin
      BY <1>1 DEF UpdateClock, Call, TypeOK
    <3> QED
      BY <3>1
  <2>2. /\ anchor_sim' \in 0..MaxNow /\ elapsed' \in 0..MaxElapsed
        /\ speed' \in Speeds /\ paused' \in BOOLEAN
    BY <1>1 DEF UpdateClock, Reanchor
  <2>3. UNCHANGED <<up, cursor, log, branch, custom, world, seen, branches, stops>>
    BY DEF UpdateClock, simVars
  <2> QED
    BY <1>1, <2>1, <2>2, <2>3 DEF TypeOK
<1>3. Now' = Now
  BY <1>1, ControlsKeepTime
<1>4. admin \in Nat /\ admin' = admin + 1
  BY <1>1 DEF UpdateClock, Call, TypeOK
<1>5. admin' \in Nat /\ admin <= admin'
  BY <1>4
<1>6. UNCHANGED <<up, simVars, world, saved, seen, branches, stops>>
  BY DEF UpdateClock
<1>7. Now' \in 0..MaxNow /\ Now <= Now'
  BY <1>1, <1>3
<1> QED
  BY <1>2, <1>5, <1>6, <1>7, ClockStep

LEMMA AdvanceStep == IInv /\ Advance => IInv'
<1> SUFFICES ASSUME IInv, Advance PROVE IInv'
  OBVIOUS
<1> USE SimulationAssumption
<1>1. TypeOK /\ Now \in 0..MaxNow
  BY DEF IInv, Consistent
<1>2. PICK delta \in 1..(MaxNow - Now) : anchor_sim' = Now + delta
  BY DEF Advance
<1>3. anchor_sim' \in 0..MaxNow /\ anchor_sim' \in Nat /\ Now <= anchor_sim'
  BY <1>1, <1>2
<1>4. TypeOK'
  <2>1. admin' \in 0..MaxAdmin
    <3>1. admin' = admin + 1 /\ admin < MaxAdmin /\ admin \in 0..MaxAdmin
      BY <1>1 DEF Advance, Call, TypeOK
    <3> QED
      BY <3>1
  <2>2. elapsed' \in 0..MaxElapsed /\ {up', paused', custom'} \subseteq BOOLEAN
    BY <1>1 DEF Advance, TypeOK, simVars
  <2>3. UNCHANGED <<up, speed, cursor, log, branch, custom, world, seen, branches, stops>>
    BY DEF Advance, simVars
  <2> QED
    BY <1>1, <1>3, <2>1, <2>2, <2>3 DEF TypeOK
<1>5. Now' = anchor_sim'
  <2>1. elapsed' = 0 /\ speed' \in Nat
    BY <1>1 DEF Advance, TypeOK
  <2> QED
    BY <1>3, <2>1, JustAnchored, Zenon DEF Now
<1> QED
  BY <1>1, <1>3, <1>4, <1>5, ClockStep DEF Advance, Call, TypeOK

LEMMA ChangeFaultsStep == IInv /\ ChangeFaults => IInv'
<1> SUFFICES ASSUME IInv, ChangeFaults PROVE IInv'
  OBVIOUS
<1> USE SimulationAssumption
<1>1. TypeOK'
  BY DEF IInv, BranchesCounted, ChangeFaults, Call, TypeOK, clockVars
<1>2. Now' = Now
  BY DEF ChangeFaults, clockVars, Now
<1>3. Consistent(Now', cursor', log', world') /\ Numbers(seen', world')
  BY <1>2 DEF IInv, ChangeFaults
<1>4. SavedConsistent'
  BY DEF IInv, BranchesCounted, SavedConsistent, ChangeFaults
<1>5. BranchesCounted'
  BY DEF IInv, BranchesCounted, ChangeFaults, Call, TypeOK
<1> QED
  BY <1>1, <1>3, <1>4, <1>5 DEF IInv

-----------------------------------------------------------------------------
(* The engine.                                                             *)

(* catch_up() takes whole steps, and never one that ends after the target. *)
LEMMA StepsInTime ==
  ASSUME IInv
  PROVE  /\ StepsDue \in Int /\ StepsDue * StepLen <= Now - cursor
         /\ StepsDue <= MaxSteps
<1> USE SimulationAssumption
<1>1. Now - cursor \in Nat
  BY DEF IInv, Consistent
<1>2. /\ (Now - cursor) \div StepLen \in Nat
      /\ ((Now - cursor) \div StepLen) * StepLen <= Now - cursor
  BY <1>1, StepsBelow
<1>3. StepsDue \in Nat /\ StepsDue <= (Now - cursor) \div StepLen /\ StepsDue <= MaxSteps
  BY <1>2 DEF StepsDue, Least
<1>4. StepsDue * StepLen <= ((Now - cursor) \div StepLen) * StepLen
  BY <1>2, <1>3, StepsMonotone
<1> QED
  BY <1>1, <1>2, <1>3, <1>4

LEMMA CatchUpStep == IInv /\ CatchUp => IInv'
<1> SUFFICES ASSUME IInv, CatchUp PROVE IInv'
  OBVIOUS
<1> USE SimulationAssumption
<1> DEFINE due == StepsDue
           more == [i \in 1..due |-> Event(cursor \div StepLen + i)]
<1>1. /\ TypeOK /\ Now \in 0..MaxNow /\ cursor \in Nat /\ cursor <= Now
      /\ log \in Seq(Events) /\ cursor = StepLen * Len(log) /\ Len(log) \in Nat
  BY DEF IInv, Consistent
<1>2. due \in Nat \ {0} /\ due * StepLen <= Now - cursor
  BY StepsInTime DEF CatchUp
<1>3. cursor' = cursor + due * StepLen /\ log' = log \o more /\ Now' = Now
  BY DEF CatchUp, clockVars, Now
<1>4. cursor' = StepLen * (Len(log) + due)
  BY <1>1, <1>2, <1>3, StepsAdd
<1>5. cursor' \in Nat /\ cursor' <= Now
  <2>1. due * StepLen \in Nat
    BY <1>2
  <2> QED
    BY <1>1, <1>2, <1>3, <2>1
<1>6. Len(log) + due <= MaxNow
  <2>1. Len(log) + due <= StepLen * (Len(log) + due)
    BY <1>1, <1>2, StepsAtLeast
  <2> QED
    BY <1>1, <1>2, <1>4, <1>5, <2>1
<1>7. cursor \div StepLen = Len(log)
  BY <1>1, WholeSteps
<1>8. \A i \in 1..due : more[i] = [world |-> world, step |-> Len(log) + i, branch |-> branch]
  BY <1>7 DEF Event
<1>9. more \in Seq(Events) /\ Len(more) = due
  <2>1. branch \in 0..(MaxAdmin + MaxStops)
    <3>1. PICK b \in Nat, a \in 0..MaxAdmin, n \in 0..MaxStops :
            b = branches /\ a = admin /\ n = stops
      BY <1>1 DEF IInv, BranchesCounted, TypeOK
    <3>2. branch \in 0..b
      BY <1>1, <3>1 DEF TypeOK
    <3>3. b <= a + n
      BY <3>1 DEF IInv, BranchesCounted
    <3> QED
      BY <3>2, <3>3
  <2>2. world \in 1..MaxWorlds
    BY <1>1 DEF TypeOK
  <2>3. ASSUME NEW i \in 1..due PROVE more[i] \in Events
    <3>1. Len(log) + i \in 1..MaxNow
      BY <1>1, <1>2, <1>6
    <3>2. more[i] = [world |-> world, step |-> Len(log) + i, branch |-> branch]
      BY <1>8
    <3> HIDE DEF more
    <3> QED
      BY <2>1, <2>2, <3>1, <3>2 DEF Events
  <2>4. more \in [1..due -> Events]
    BY <2>3
  <2> HIDE DEF more, due
  <2> QED
    BY <1>2, <2>4, SeqDef
<1>10. /\ log' \in Seq(Events) /\ Len(log') = Len(log) + due
       /\ \A n \in 1..Len(log') : log'[n] = IF n <= Len(log) THEN log[n] ELSE more[n - Len(log)]
  <2> HIDE DEF due, more
  <2>1. /\ log \o more \in Seq(Events) /\ Len(log \o more) = Len(log) + Len(more)
        /\ \A n \in 1..(Len(log) + Len(more)) :
             (log \o more)[n] = IF n <= Len(log) THEN log[n] ELSE more[n - Len(log)]
    BY <1>1, <1>9, ConcatProperties, Zenon
  <2> QED
    BY <1>3, <1>9, <2>1, Zenon
<1>11. Numbers(log', world')
  <2>1. \A n \in 1..Len(log) : log[n].world = world /\ log[n].step = n
    BY DEF IInv, Consistent, Numbers
  <2>2. world' = world
    BY DEF CatchUp
  <2>3. ASSUME NEW n \in 1..Len(log'), ~(n <= Len(log))
        PROVE  log'[n].world = world /\ log'[n].step = n
    <3>1. n - Len(log) \in 1..due /\ Len(log) + (n - Len(log)) = n
      BY <1>1, <1>2, <1>10, <2>3
    <3>2. log'[n] = more[n - Len(log)]
      BY <1>10, <2>3
    <3>3. more[n - Len(log)] = [world |-> world, step |-> n, branch |-> branch]
      BY <1>8, <3>1
    <3> QED
      BY <3>2, <3>3
  <2>4. ASSUME NEW n \in 1..Len(log'), n <= Len(log)
        PROVE  log'[n].world = world /\ log'[n].step = n
    <3>1. n \in 1..Len(log)
      BY <1>1, <1>10, <2>4
    <3>2. log'[n] = log[n]
      BY <1>10, <2>4
    <3> QED
      BY <2>1, <3>1, <3>2
  <2> QED
    BY <2>2, <2>3, <2>4 DEF Numbers
<1>12. Consistent(Now', cursor', log', world')
  BY <1>1, <1>3, <1>4, <1>5, <1>10, <1>11 DEF Consistent
<1>13. TypeOK'
  BY <1>1, <1>4, <1>10 DEF CatchUp, clockVars, TypeOK
<1>14. Numbers(seen', world') /\ SavedConsistent' /\ BranchesCounted'
  BY DEF IInv, CatchUp, Numbers, SavedConsistent, BranchesCounted
<1> QED
  BY <1>12, <1>13, <1>14 DEF IInv

(* Reading on copies what the log says of the seqs not read before. *)
LEMMA ReadStep == IInv /\ Read => IInv'
<1> SUFFICES ASSUME IInv, Read PROVE IInv'
  OBVIOUS
<1> DEFINE more == SubSeq(log, Len(seen) + 1, Len(log))
<1>1. /\ TypeOK /\ log \in Seq(Events) /\ seen \in Seq(Events)
      /\ Len(seen) \in Nat /\ Len(log) \in Nat /\ Len(seen) < Len(log)
      /\ seen' = seen \o more
  BY DEF IInv, TypeOK, Read
<1>2. /\ more \in Seq(Events) /\ Len(more) = Len(log) - Len(seen)
      /\ \A i \in 1..Len(more) : more[i] = log[Len(seen) + i]
  BY <1>1
<1>3. /\ seen' \in Seq(Events) /\ Len(seen') = Len(log)
      /\ \A n \in 1..Len(seen') : seen'[n] = IF n <= Len(seen) THEN seen[n] ELSE log[n]
  <2> HIDE DEF more
  <2>1. seen' \in Seq(Events) /\ Len(seen') = Len(log)
    BY <1>1, <1>2
  <2>2. ASSUME NEW n \in 1..Len(seen')
        PROVE  seen'[n] = IF n <= Len(seen) THEN seen[n] ELSE more[n - Len(seen)]
    BY <1>1, <1>2
  <2>3. ASSUME NEW n \in 1..Len(seen'), ~(n <= Len(seen))
        PROVE  more[n - Len(seen)] = log[n]
    <3>1. n - Len(seen) \in 1..Len(more) /\ Len(seen) + (n - Len(seen)) = n
      BY <1>1, <1>2, <2>1, <2>3
    <3> QED
      BY <1>2, <3>1
  <2> QED
    BY <2>1, <2>2, <2>3
<1>4. Numbers(seen', world')
  BY <1>1, <1>3 DEF IInv, Consistent, Numbers, Read
<1>5. TypeOK'
  BY <1>1, <1>3 DEF Read, clockVars, simVars, TypeOK
<1>6. Now' = Now
  BY DEF Read, clockVars, Now
<1>7. Consistent(Now', cursor', log', world') /\ SavedConsistent' /\ BranchesCounted'
  BY <1>6 DEF IInv, Read, simVars, SavedConsistent, BranchesCounted
<1> QED
  BY <1>4, <1>5, <1>7 DEF IInv

-----------------------------------------------------------------------------
(* Persistence.                                                            *)

(* What save() pickles is a moment of the process. *)
LEMMA StateConsistent == IInv /\ saved' = State /\ branches' = branches => SavedConsistent'
<1> SUFFICES ASSUME IInv, saved' = State, branches' = branches PROVE SavedConsistent'
  OBVIOUS
<1>1. /\ State = [world |-> world, sim_now |-> Now, speed |-> speed, paused |-> paused,
                  cursor |-> cursor, log |-> log, branch |-> branch, custom |-> custom]
      /\ State.world = world /\ State.sim_now = Now /\ State.speed = speed
      /\ State.paused = paused /\ State.cursor = cursor /\ State.log = log
      /\ State.branch = branch /\ State.custom = custom
  BY DEF State
<1>2. world \in 1..MaxWorlds /\ custom \in BOOLEAN /\ branch \in 0..branches
  BY DEF IInv, TypeOK
<1>3. Consistent(State.sim_now, State.cursor, State.log, State.world)
  BY <1>1 DEF IInv
<1> HIDE DEF State
<1> QED
  BY <1>1, <1>2, <1>3 DEF SavedConsistent

(* A process whose clock, engine, log and consumer stay as they are. *)
LEMMA RestStep ==
  ASSUME IInv, UNCHANGED <<clockVars, simVars, world, seen, branches, admin>>,
         up' \in BOOLEAN, stops' \in 0..MaxStops
  PROVE  /\ TypeOK' /\ Consistent(Now', cursor', log', world') /\ Numbers(seen', world')
<1>1. Now' = Now
  BY DEF clockVars, Now
<1>2. TypeOK'
  BY DEF IInv, clockVars, simVars, TypeOK
<1> QED
  BY <1>1, <1>2 DEF IInv, simVars

LEMMA SaveStep == IInv /\ Save => IInv'
<1> SUFFICES ASSUME IInv, Save PROVE IInv'
  OBVIOUS
<1>1. TypeOK' /\ Consistent(Now', cursor', log', world') /\ Numbers(seen', world')
  BY RestStep DEF Save, IInv, TypeOK
<1>2. SavedConsistent'
  BY StateConsistent DEF Save
<1>3. BranchesCounted'
  BY DEF IInv, Save, BranchesCounted
<1> QED
  BY <1>1, <1>2, <1>3 DEF IInv

LEMMA ShutdownStep == IInv /\ Shutdown => IInv'
<1> SUFFICES ASSUME IInv, Shutdown PROVE IInv'
  OBVIOUS
<1> USE SimulationAssumption
<1>1. stops' \in 0..MaxStops
  <2>1. stops' = stops + 1 /\ stops < MaxStops
    BY DEF Shutdown
  <2>2. stops \in 0..MaxStops /\ MaxStops \in Nat
    BY DEF IInv, TypeOK
  <2> QED
    BY <2>1, <2>2
<1>2. TypeOK' /\ Consistent(Now', cursor', log', world') /\ Numbers(seen', world')
  BY <1>1, RestStep DEF Shutdown
<1>3. SavedConsistent'
  BY StateConsistent DEF Shutdown
<1>4. BranchesCounted'
  BY DEF IInv, TypeOK, Shutdown, BranchesCounted
<1> QED
  BY <1>2, <1>3, <1>4 DEF IInv

LEMMA KillStep == IInv /\ Kill => IInv'
<1> SUFFICES ASSUME IInv, Kill PROVE IInv'
  OBVIOUS
<1> USE SimulationAssumption
<1>1. stops' \in 0..MaxStops
  <2>1. stops' = stops + 1 /\ stops < MaxStops
    BY DEF Kill
  <2>2. stops \in 0..MaxStops /\ MaxStops \in Nat
    BY DEF IInv, TypeOK
  <2> QED
    BY <2>1, <2>2
<1>2. TypeOK' /\ Consistent(Now', cursor', log', world') /\ Numbers(seen', world')
  BY <1>1, RestStep DEF Kill
<1>3. SavedConsistent'
  BY DEF IInv, Kill, SavedConsistent
<1>4. BranchesCounted'
  <2>1. /\ BranchesCounted /\ up /\ ~up'
        /\ branches' = branches /\ admin' = admin /\ stops' = stops + 1
    BY DEF IInv, Kill
  <2>2. PICK b \in Nat, a \in Nat, n \in Nat : b = branches /\ a = admin /\ n = stops
    BY DEF IInv, TypeOK, BranchesCounted
  <2>3. b + 0 <= a + n /\ branches' = b /\ admin' = a /\ stops' = n + 1
    BY <2>1, <2>2 DEF BranchesCounted
  <2>4. b + 1 <= a + (n + 1)
    BY <2>2, <2>3
  <2> QED
    BY <2>1, <2>2, <2>3, <2>4 DEF BranchesCounted
<1> QED
  BY <1>2, <1>3, <1>4 DEF IInv

(* A restart takes up the moment that was saved; a history that forgets the *)
(* controls is a new one, and the stop before it pays for it.               *)
LEMMA LoadStep == IInv /\ Load => IInv'
<1> SUFFICES ASSUME IInv, Load PROVE IInv'
  OBVIOUS
<1> USE SimulationAssumption
<1>1. /\ TypeOK /\ SavedConsistent /\ BranchesCounted /\ Numbers(seen, world)
      /\ branches \in Nat /\ ~up /\ saved.world = world
  BY DEF IInv, BranchesCounted, Load
<1>2. saved # NoState
  <2>1. NoState.world = 0 /\ world # 0
    BY <1>1 DEF NoState, TypeOK
  <2> HIDE DEF NoState
  <2> QED
    BY <1>1, <2>1
<1>3. /\ saved.branch \in 0..branches
      /\ Consistent(saved.sim_now, saved.cursor, saved.log, world)
  BY <1>1, <1>2 DEF SavedConsistent
<1>4. /\ up' = TRUE /\ cursor' = saved.cursor /\ log' = saved.log /\ custom' = FALSE
      /\ anchor_sim' = saved.sim_now /\ elapsed' = 0 /\ speed' = DefaultSpeed /\ paused' = FALSE
      /\ world' = world /\ saved' = saved /\ seen' = seen /\ admin' = admin /\ stops' = stops
  BY DEF Load, LoadClock
<1>5. \/ branches' = branches + 1 /\ branch' = branches + 1
      \/ branches' = branches /\ branch' = saved.branch
  BY DEF Load
<1>6. Now' = saved.sim_now
  <2>1. saved.sim_now \in Nat /\ DefaultSpeed \in Nat
    BY <1>3 DEF Consistent
  <2> QED
    BY <1>4, <2>1, JustAnchored, Zenon DEF Now
<1>7. Consistent(Now', cursor', log', world') /\ Numbers(seen', world')
  BY <1>1, <1>3, <1>4, <1>6
<1>8. branch' \in 0..branches'
  BY <1>1, <1>3, <1>5
<1>9. TypeOK'
  <2>1. saved.sim_now \in 0..MaxNow /\ 0 \in 0..MaxElapsed
    BY <1>3 DEF Consistent
  <2>2. saved.log \in Seq(Events) /\ saved.cursor = StepLen * Len(saved.log)
    BY <1>3 DEF Consistent
  <2>3. seen \in Seq(Events)
    BY <1>1 DEF TypeOK
  <2>4. {log', seen'} \subseteq Seq(Events) /\ cursor' = StepLen * Len(log')
    BY <1>4, <2>2, <2>3
  <2> QED
    BY <1>1, <1>4, <1>8, <2>1, <2>4 DEF TypeOK
<1>10. SavedConsistent'
  <2>1. saved.branch \in 0..branches'
    BY <1>1, <1>3, <1>5
  <2> QED
    BY <1>1, <1>2, <1>4, <2>1 DEF SavedConsistent
<1>11. BranchesCounted'
  <2>1. admin \in Nat /\ stops \in Nat /\ branches + 1 <= admin + stops
    BY <1>1 DEF BranchesCounted, TypeOK
  <2>2. branches' \in Nat /\ branches' <= admin + stops
    BY <1>1, <1>5, <2>1
  <2>3. branches' + (IF up' THEN 0 ELSE 1) = branches'
    BY <1>1, <1>4, <1>5
  <2> QED
    BY <1>4, <2>2, <2>3 DEF BranchesCounted
<1> QED
  BY <1>7, <1>9, <1>10, <1>11 DEF IInv

(* A world that starts afresh, with its first configuration or another. *)
LEMMA FreshStep ==
  ASSUME IInv, FreshWorld, ~up, up' = TRUE, world' \in 1..MaxWorlds,
         {seen'} \subseteq Seq(Events), Numbers(seen', world'),
         SavedConsistent', UNCHANGED <<branches, admin, stops>>
  PROVE  IInv'
<1> USE SimulationAssumption
<1>1. branches \in Nat /\ admin \in 0..MaxAdmin /\ stops \in 0..MaxStops /\ MaxNow \in Nat
  BY DEF IInv, TypeOK, BranchesCounted
<1>2. /\ anchor_sim' = 0 /\ elapsed' = 0 /\ speed' = DefaultSpeed /\ paused' = FALSE
      /\ cursor' = 0 /\ log' = <<>> /\ branch' = 0 /\ custom' = FALSE
  BY DEF FreshWorld
<1>3. Now' = 0
  BY <1>2, JustAnchored, Zenon DEF Now
<1>4. Consistent(Now', cursor', log', world')
  BY <1>2, <1>3, FreshConsistent, Zenon
<1>5. TypeOK'
  <2>1. <<>> \in Seq(Events) /\ 0 = StepLen * Len(<<>>)
    BY FreshConsistent, <1>1 DEF Consistent
  <2>2. {log', seen'} \subseteq Seq(Events) /\ cursor' = StepLen * Len(log')
    BY <1>2, <2>1
  <2>3. 0 \in 0..MaxNow /\ 0 \in 0..MaxElapsed /\ 0 \in 0..branches
    BY <1>1
  <2> QED
    BY <1>1, <1>2, <2>2, <2>3 DEF TypeOK
<1>6. BranchesCounted'
  BY <1>1 DEF IInv, BranchesCounted
<1> QED
  BY <1>4, <1>5, <1>6 DEF IInv

LEMMA CreateStep == IInv /\ Create => IInv'
<1> SUFFICES ASSUME IInv, Create PROVE IInv'
  OBVIOUS
<1>1. /\ world' = world /\ saved' = saved /\ seen' = seen /\ branches' = branches
      /\ saved = NoState
  BY DEF Create
<1>2. world' \in 1..MaxWorlds /\ {seen'} \subseteq Seq(Events) /\ Numbers(seen', world')
  BY <1>1 DEF IInv, TypeOK
<1>3. SavedConsistent'
  BY <1>1 DEF SavedConsistent
<1> QED
  BY <1>2, <1>3, FreshStep DEF Create

LEMMA ReconfigureStep == IInv /\ Reconfigure => IInv'
<1> SUFFICES ASSUME IInv, Reconfigure PROVE IInv'
  OBVIOUS
<1>1. world' \in 1..MaxWorlds
  BY SimulationAssumption DEF IInv, TypeOK, Reconfigure
<1>2. {seen'} \subseteq Seq(Events) /\ Numbers(seen', world')
  BY <1>1, FreshConsistent DEF Consistent, Reconfigure
<1>3. SavedConsistent'
  BY DEF SavedConsistent, Reconfigure
<1> QED
  BY <1>1, <1>2, <1>3, FreshStep DEF Reconfigure

-----------------------------------------------------------------------------
LEMMA InvStep == IInv /\ [Next]_vars => IInv'
<1> SUFFICES ASSUME IInv, [Next]_vars PROVE IInv'
  OBVIOUS
<1>1. CASE WallTick BY <1>1, WallTickStep
<1>2. CASE UpdateClock BY <1>2, UpdateClockStep
<1>3. CASE Advance BY <1>3, AdvanceStep
<1>4. CASE ChangeFaults BY <1>4, ChangeFaultsStep
<1>5. CASE CatchUp BY <1>5, CatchUpStep
<1>6. CASE Read BY <1>6, ReadStep
<1>7. CASE Save BY <1>7, SaveStep
<1>8. CASE Shutdown BY <1>8, ShutdownStep
<1>9. CASE Kill BY <1>9, KillStep
<1>10. CASE Load BY <1>10, LoadStep
<1>11. CASE Create BY <1>11, CreateStep
<1>12. CASE Reconfigure BY <1>12, ReconfigureStep
<1>13. CASE UNCHANGED vars
  BY <1>13 DEF vars, clockVars, simVars, IInv, TypeOK, Consistent, Now, Numbers,
               SavedConsistent, BranchesCounted
<1> QED
  BY <1>1, <1>2, <1>3, <1>4, <1>5, <1>6, <1>7, <1>8, <1>9, <1>10, <1>11, <1>12, <1>13
  DEF Next

LEMMA Invariance == Spec => []IInv
  BY InvInit, InvStep, PTL DEF Spec

(* Every variable of the process keeps its type in every reachable state,  *)
(* the engine's cursor stands at the end of the last step in the log, and  *)
(* no history of the fault layer is used before it is made.                *)
THEOREM TypeCorrect == Spec => []TypeOK
<1>1. IInv => TypeOK
  BY DEF IInv
<1> QED
  BY <1>1, Invariance, PTL

(* simulation.py:62-72, eventlog.py:45-63, clock.py:5-7: whatever the      *)
(* speeds, pauses, fast-forwards, saves, stops and restarts, the engine is *)
(* never ahead of the clock, and no clock control moves the time.          *)
THEOREM TimeKept == Spec => TimeHolds
<1>1. IInv => cursor <= Now
  BY DEF IInv, Consistent
<1>2. IInv /\ [Next]_vars => [UpdateClock => Now' = Now]_vars
  BY ControlsKeepTime DEF IInv
<1> QED
  BY <1>1, <1>2, Invariance, PTL DEF Spec, TimeHolds

(* simulation.py:119-160: what a restart publishes again under a seq that  *)
(* consumers have already read is the event they read, unless the history  *)
(* of the fault layer has changed in between.                              *)
THEOREM ReplaysIdentical == Spec => []ReplayIdentical
<1>1. ASSUME IInv PROVE ReplayIdentical
  <2> SUFFICES ASSUME NEW n \in 1..Least(Len(seen), Len(log)), seen[n].branch = log[n].branch
               PROVE  seen[n] = log[n]
    BY DEF ReplayIdentical
  <2>1. /\ log \in Seq(Events) /\ seen \in Seq(Events)
        /\ Numbers(log, world) /\ Numbers(seen, world)
    BY <1>1 DEF IInv, TypeOK, Consistent
  <2>2. n \in 1..Len(seen) /\ n \in 1..Len(log)
    BY <2>1 DEF Least
  <2>3. seen[n] \in Events /\ log[n] \in Events
    BY <2>1, <2>2, ElementOfSeq
  <2>4. /\ seen[n].world = world /\ seen[n].step = n
        /\ log[n].world = world /\ log[n].step = n
    BY <2>1, <2>2 DEF Numbers
  <2> QED
    BY <2>3, <2>4 DEF Events
<1> QED
  BY <1>1, Invariance, PTL

LogEntries == [fault : Faults, event : 0..MaxEvents, station : Stations \cup {None}]

FaultTyped ==
  /\ phase \in {"idle", "episodes", "events", "dead"}
  /\ truth \in Seq(Kinds) /\ Len(truth) <= MaxEvents
  /\ forced \in [Faults -> {{}} \cup {{s} : s \in Stations \cup {None}}]
  /\ tried \subseteq EpisodeFaults
  /\ log_entries \in Seq(LogEntries)
  /\ last_status \in [Stations -> 0..MaxEvents] /\ frozen_payload \in [Stations -> 0..MaxEvents]
  /\ suppressed \subseteq 1..Len(truth) /\ faults \in 0..MaxFaults

CopiesTyped ==
  /\ emitted \in Seq(Copies) /\ flushed \in Seq(Copies)
  /\ out \in Seq(Copies) /\ stall_buffer \in Seq(Copies)
  /\ delayed \subseteq [copy : Copies, counter : Nat, release_in : 0..(MaxDelay + 1)]
  /\ IsFiniteSet(delayed)

(* Every episode is the one on record at its id, one stall at a time; none *)
(* is over before the end of the step.                                     *)
EpisodesInv ==
  /\ episodes \subseteq [id : 1..Len(log_entries), fault : EpisodeFaults,
                         station : Stations \cup {None}, ends_in : 0..MaxDuration]
  /\ \A e \in episodes :
       /\ log_entries[e.id].fault = e.fault /\ log_entries[e.id].station = e.station
       /\ e.fault = "stream_stall" <=> e.station = None
       /\ phase \in {"episodes", "events"} => e.ends_in > 0
  /\ \A e, d \in episodes : e.fault = "stream_stall" /\ d.fault = "stream_stall" => e = d

(* A status that a station may repeat is one of its own, and a frozen       *)
(* station has one to repeat and its episode on record.                     *)
StatusOf(s, n) == n <= Len(truth) /\ truth[n] = s
StatusInv ==
  /\ \A s \in Stations :
       /\ last_status[s] # 0 => StatusOf(s, last_status[s])
       /\ frozen_payload[s] # 0 =>
            StatusOf(s, frozen_payload[s]) /\ EpisodeLogged("frozen_station", s)
  /\ \A e \in episodes : e.fault = "frozen_station" => frozen_payload[e.station] # 0
  /\ \A n \in suppressed : EpisodeLogged("silent_station", truth[n])
  /\ \A i \in 1..Len(log_entries) : log_entries[i].event <= Len(truth)

(* What the log says of a copy is what is wrong with it. *)
AsLogged(c) ==
  /\ c.event <= Len(truth) /\ c.marks = {f \in MarkFaults : Logged(f, c.event)}
  /\ c.shows # c.event =>
       /\ c.shows < c.event /\ truth[c.shows] = truth[c.event]
       /\ EpisodeLogged("frozen_station", truth[c.event])
AllAsLogged(q) == \A i \in 1..Len(q) : AsLogged(q[i])
CopiesInv ==
  /\ AllAsLogged(emitted) /\ AllAsLogged(flushed) /\ AllAsLogged(out) /\ AllAsLogged(stall_buffer)
  /\ \A x \in delayed : AsLogged(x.copy) /\ ~Punctual(x.copy.event)

(* The punctual events of q, and all of those before those of r, are in     *)
(* order.                                                                  *)
InOrder(q) ==
  \A i, j \in 1..Len(q) :
    i < j /\ Punctual(q[i].event) /\ Punctual(q[j].event) => q[i].event < q[j].event
Before(q, r) ==
  \A i \in 1..Len(q), j \in 1..Len(r) :
    Punctual(q[i].event) /\ Punctual(r[j].event) => q[i].event < r[j].event

OrderInv ==
  /\ InOrder(emitted) /\ InOrder(flushed) /\ InOrder(out) /\ InOrder(stall_buffer)
  /\ Before(emitted, flushed) /\ Before(emitted, stall_buffer) /\ Before(emitted, out)
  /\ Before(flushed, out) /\ Before(stall_buffer, out)

(* Nothing is under way between two steps, and a backlog is kept in one    *)
(* place: in the buffer only while a stall is active.                      *)
BacklogInv ==
  /\ phase = "idle" => flushed = <<>>
  /\ phase \in {"idle", "episodes"} => out = <<>>
  /\ stall_buffer # <<>> => StallActive /\ flushed = <<>>

FaultInv ==
  FaultTyped /\ CopiesTyped /\ EpisodesInv /\ StatusInv /\ CopiesInv /\ OrderInv /\ BacklogInv
    /\ Conserved

-----------------------------------------------------------------------------
(* Counting copies of an event.                                            *)

LEMMA CountType ==
  ASSUME NEW q \in Seq(Copies), NEW n
  PROVE  IsFiniteSet({i \in 1..Len(q) : q[i].event = n}) /\ Count(q, n) \in Nat
<1>1. IsFiniteSet(1..Len(q))
  <2>1. 1 \in Int /\ Len(q) \in Int
    BY LenProperties
  <2> QED
    BY <2>1, FS_Interval
<1>2. {i \in 1..Len(q) : q[i].event = n} \subseteq 1..Len(q)
  OBVIOUS
<1> QED
  BY <1>1, <1>2, FS_Subset, FS_CardinalityType DEF Count

LEMMA CountNone ==
  ASSUME NEW q \in Seq(Copies), NEW n, \A i \in 1..Len(q) : q[i].event # n
  PROVE  Count(q, n) = 0
<1>1. {i \in 1..Len(q) : q[i].event = n} = {}
  OBVIOUS
<1> QED
  BY <1>1, FS_EmptySet DEF Count

LEMMA CountEmpty == \A n : Count(<<>>, n) = 0
<1> SUFFICES ASSUME NEW n PROVE Count(<<>>, n) = 0
  OBVIOUS
<1>1. <<>> \in Seq(Copies) /\ Len(<<>>) = 0
  BY EmptySeq
<1>2. \A i \in 1..Len(<<>>) : FALSE
  BY <1>1
<1> QED
  BY <1>1, <1>2, CountNone

LEMMA CountOne ==
  ASSUME NEW c \in Copies, NEW n
  PROVE  <<c>> \in Seq(Copies) /\ Count(<<c>>, n) = IF c.event = n THEN 1 ELSE 0
<1>1. <<c>> \in Seq(Copies) /\ Len(<<c>>) = 1 /\ <<c>>[1] = c
  OBVIOUS
<1>2. {i \in 1..Len(<<c>>) : <<c>>[i].event = n} = IF c.event = n THEN {1} ELSE {}
  BY <1>1
<1> QED
  BY <1>1, <1>2, FS_Singleton, FS_EmptySet DEF Count

LEMMA CountConcat ==
  ASSUME NEW q \in Seq(Copies), NEW r \in Seq(Copies), NEW n
  PROVE  q \o r \in Seq(Copies) /\ Count(q \o r, n) = Count(q, n) + Count(r, n)
<1>1. PICK a \in Nat, b \in Nat : a = Len(q) /\ b = Len(r)
  BY LenProperties
<1>2. /\ q \o r \in Seq(Copies) /\ Len(q \o r) = a + b
      /\ \A i \in 1..(a + b) : (q \o r)[i] = IF i <= a THEN q[i] ELSE r[i - a]
  BY <1>1, ConcatProperties
<1> DEFINE A == {i \in 1..a : q[i].event = n}
           B == {i \in 1..b : r[i].event = n}
           C == {i \in (a + 1)..(a + b) : r[i - a].event = n}
           f == [i \in B |-> i + a]
<1>3. {i \in 1..(a + b) : (q \o r)[i].event = n} = A \cup C
  <2>1. ASSUME NEW i \in 1..(a + b) PROVE (q \o r)[i].event = n <=> i \in A \cup C
    <3>1. CASE i <= a
      <4>1. (q \o r)[i] = q[i] /\ i \in 1..a /\ i \notin (a + 1)..(a + b)
        BY <1>2, <3>1
      <4> QED
        BY <4>1
    <3>2. CASE ~(i <= a)
      <4>1. (q \o r)[i] = r[i - a] /\ i \notin 1..a /\ i \in (a + 1)..(a + b)
        BY <1>2, <3>2
      <4> QED
        BY <4>1
    <3> QED
      BY <3>1, <3>2
  <2>2. A \cup C \subseteq 1..(a + b)
    OBVIOUS
  <2> QED
    BY <2>1, <2>2
<1>4. f \in Bijection(B, C)
  <2>1. f \in [B -> C]
    <3>1. ASSUME NEW i \in B PROVE i + a \in C
      <4>1. i + a \in (a + 1)..(a + b) /\ (i + a) - a = i
        OBVIOUS
      <4> QED
        BY <4>1
    <3> QED
      BY <3>1
  <2>2. \A i, j \in B : f[i] = f[j] => i = j
    OBVIOUS
  <2>3. ASSUME NEW k \in C PROVE \E i \in B : f[i] = k
    <3>1. k - a \in B /\ (k - a) + a = k
      OBVIOUS
    <3> QED
      BY <3>1
  <2> QED
    BY <2>1, <2>2, <2>3 DEF Bijection, Injection, Surjection, IsInjective
<1>5. /\ IsFiniteSet(A) /\ Cardinality(A) \in Nat /\ Cardinality(A) = Count(q, n)
      /\ IsFiniteSet(B) /\ Cardinality(B) \in Nat /\ Cardinality(B) = Count(r, n)
  BY <1>1, CountType DEF Count
<1>6. IsFiniteSet(C) /\ Cardinality(C) = Cardinality(B)
  BY <1>4, <1>5, FS_Bijection DEF ExistsBijection
<1>7. A \cap C = {}
  OBVIOUS
<1>8. Cardinality(A \cup C) = Cardinality(A) + Cardinality(C) - Cardinality(A \cap C)
  BY <1>5, <1>6, FS_Union
<1>9. Cardinality(A \cap C) = 0
  BY <1>7, FS_EmptySet
<1>10. Count(q \o r, n) = Cardinality(A \cup C)
  BY <1>2, <1>3 DEF Count
<1> QED
  BY <1>2, <1>5, <1>6, <1>8, <1>9, <1>10

LEMMA CountAppend ==
  ASSUME NEW q \in Seq(Copies), NEW c \in Copies, NEW n
  PROVE  /\ Append(q, c) \in Seq(Copies)
         /\ Count(Append(q, c), n) = Count(q, n) + IF c.event = n THEN 1 ELSE 0
<1>1. Append(q, c) = q \o <<c>>
  BY AppendIsConcat
<1>2. <<c>> \in Seq(Copies) /\ Count(<<c>>, n) = IF c.event = n THEN 1 ELSE 0
  BY CountOne
<1>3. q \o <<c>> \in Seq(Copies) /\ Count(q \o <<c>>, n) = Count(q, n) + Count(<<c>>, n)
  BY <1>2, CountConcat
<1> QED
  BY <1>1, <1>2, <1>3

(* SetToSeqs(): the elements of a finite set in some order, each once. *)
LEMMA EachOnce ==
  ASSUME NEW S, IsFiniteSet(S), NEW q \in SetToSeqs(S)
  PROVE  /\ q \in Seq(S) /\ Len(q) \in Nat /\ q \in [1..Len(q) -> S] /\ DOMAIN q = 1..Len(q)
         /\ \A i, j \in 1..Len(q) : q[i] = q[j] => i = j
         /\ \A x \in S : \E i \in 1..Len(q) : q[i] = x
<1>1. PICK m \in Nat : m = Cardinality(S)
  BY FS_CardinalityType
<1>2. q \in [1..m -> S] /\ \A i, j \in 1..m : i # j => q[i] # q[j]
  BY <1>1 DEF SetToSeqs
<1>3. q \in Seq(S)
  BY <1>2, SeqDef
<1>4. Len(q) = m /\ DOMAIN q = 1..Len(q)
  BY <1>2, <1>3, LenProperties
<1>5. \A x \in S : \E i \in 1..m : q[i] = x
  <2>1. q \in Injection(1..m, S)
    BY <1>2 DEF Injection, IsInjective
  <2>2. Cardinality(1..m) = m
    BY FS_Interval
  <2>3. q \in Surjection(1..m, S)
    BY <1>1, <2>1, <2>2, FS_Injection
  <2> QED
    BY <2>3 DEF Surjection
<1> QED
  BY <1>2, <1>3, <1>4, <1>5

(* What is released in a step: every copy that is due, once. *)
LEMMA ReleasedIsDue ==
  ASSUME CopiesTyped, NEW released \in Released
  PROVE  /\ released \in Seq(Copies)
         /\ \A i \in 1..Len(released) : \E x \in Due : released[i] = x.copy
         /\ \A n : Count(released, n) = Cardinality({x \in Due : x.copy.event = n})
<1>1. PICK q \in SetToSeqs(Due) : released = [i \in 1..Len(q) |-> q[i].copy]
  BY DEF Released
<1>2. IsFiniteSet(Due) /\ \A x \in Due : x.copy \in Copies
  BY FS_Subset DEF CopiesTyped, Due
<1>3. PICK m \in Nat : m = Len(q)
  BY <1>2, EachOnce
<1>4. q \in [1..m -> Due] /\ \A i, j \in 1..m : q[i] = q[j] => i = j
  BY <1>2, <1>3, EachOnce
<1>6. \A x \in Due : \E i \in 1..m : q[i] = x
  BY <1>2, <1>3, EachOnce
<1>7. released \in [1..m -> Copies] /\ \A i \in 1..m : released[i] = q[i].copy /\ q[i] \in Due
  BY <1>1, <1>2, <1>3, <1>4
<1>8. released \in Seq(Copies) /\ Len(released) = m
  <2>1. released \in Seq(Copies)
    BY <1>7, SeqDef
  <2> QED
    BY <1>7, <2>1, LenProperties
<1>9. ASSUME NEW n PROVE Count(released, n) = Cardinality({x \in Due : x.copy.event = n})
  <2> DEFINE A == {i \in 1..m : released[i].event = n}
             B == {x \in Due : x.copy.event = n}
             f == [i \in A |-> q[i]]
  <2>1. f \in [A -> B] /\ \A i \in A : f[i] = q[i]
    BY <1>7
  <2>2. \A i, j \in A : f[i] = f[j] => i = j
    BY <1>4, <2>1
  <2>3. \A x \in B : \E i \in A : f[i] = x
    <3> SUFFICES ASSUME NEW x \in B PROVE \E i \in A : f[i] = x
      OBVIOUS
    <3>1. PICK i \in 1..m : q[i] = x
      BY <1>6
    <3>2. i \in A
      BY <1>7, <3>1
    <3> QED
      BY <2>1, <3>1, <3>2
  <2>4. f \in Bijection(A, B)
    <3> HIDE DEF f, A, B
    <3> QED
      BY <2>1, <2>2, <2>3 DEF Bijection, Injection, Surjection, IsInjective
  <2>5. IsFiniteSet(A) /\ Cardinality(A) = Count(released, n)
    BY <1>8, CountType DEF Count
  <2> HIDE DEF f, A
  <2> QED
    BY <2>4, <2>5, FS_Bijection DEF ExistsBijection
<1> QED
  BY <1>7, <1>8, <1>9

-----------------------------------------------------------------------------
(* What a longer log still says.                                           *)

(* More events happen and more faults are logged, none of them of an event  *)
(* that had happened before.                                                *)
RecordGrows ==
  /\ Len(truth) <= Len(truth') /\ \A n \in 1..Len(truth) : truth'[n] = truth[n]
  /\ Len(log_entries) <= Len(log_entries')
  /\ \A i \in 1..Len(log_entries) : log_entries'[i] = log_entries[i]
  /\ \A i \in 1..Len(log_entries') :
       i > Len(log_entries) => log_entries'[i].event \notin 1..Len(truth)

LEMMA RecordStands ==
  ASSUME FaultTyped, FaultTyped', RecordGrows
  PROVE  /\ \A f : \A n \in 1..Len(truth) : Logged(f, n)' <=> Logged(f, n)
         /\ \A n \in 1..Len(truth) : Punctual(n)' <=> Punctual(n)
         /\ \A f, s : EpisodeLogged(f, s) => EpisodeLogged(f, s)'
         /\ \A s : \A n \in 1..Len(truth) : StatusOf(s, n) => StatusOf(s, n)'
         /\ \A c \in Copies : AsLogged(c) => AsLogged(c)'
<1>1. PICK a \in Nat, b \in Nat : a = Len(log_entries) /\ b = Len(log_entries')
  BY LenProperties DEF FaultTyped
<1>2. PICK m \in Nat, k \in Nat : m = Len(truth) /\ k = Len(truth') /\ m <= k
  BY LenProperties DEF FaultTyped, RecordGrows
<1>3. /\ a <= b /\ \A i \in 1..a : log_entries'[i] = log_entries[i] /\ i \in 1..b
      /\ \A i \in 1..b : i \in 1..a \/ log_entries'[i].event \notin 1..m
  BY <1>1, <1>2 DEF RecordGrows
<1>4. ASSUME NEW f, NEW n \in 1..Len(truth) PROVE Logged(f, n)' <=> Logged(f, n)
  BY <1>1, <1>2, <1>3 DEF Logged
<1>5. ASSUME NEW n \in 1..Len(truth) PROVE Punctual(n)' <=> Punctual(n)
  BY <1>4 DEF Punctual
<1>6. ASSUME NEW f, NEW s, EpisodeLogged(f, s) PROVE EpisodeLogged(f, s)'
  BY <1>1, <1>3, <1>6 DEF EpisodeLogged
<1>7. ASSUME NEW s, NEW n \in 1..Len(truth), StatusOf(s, n) PROVE StatusOf(s, n)'
  BY <1>2, <1>7 DEF StatusOf, RecordGrows
<1>8. ASSUME NEW c \in Copies, AsLogged(c) PROVE AsLogged(c)'
  <2>1. /\ c.event \in 1..m /\ c.event <= k
        /\ c.shows \in Nat /\ c.event \in Nat
    BY <1>2, <1>8 DEF AsLogged, Copies
  <2>2. {f \in MarkFaults : Logged(f, c.event)} = {f \in MarkFaults : Logged(f, c.event)'}
    BY <1>2, <1>4, <2>1
  <2>3. c.marks = {f \in MarkFaults : Logged(f, c.event)}'
    BY <1>8, <2>2 DEF AsLogged
  <2>4. ASSUME c.shows # c.event
        PROVE /\ c.shows < c.event /\ truth'[c.shows] = truth'[c.event]
              /\ EpisodeLogged("frozen_station", truth[c.event])'
    <3>1. /\ c.shows < c.event /\ truth[c.shows] = truth[c.event]
          /\ EpisodeLogged("frozen_station", truth[c.event])
      BY <1>8, <2>4 DEF AsLogged
    <3>2. c.shows \in 1..m
      BY <2>1, <3>1 DEF Copies
    <3>3. truth'[c.shows] = truth[c.shows] /\ truth'[c.event] = truth[c.event]
      BY <1>2, <2>1, <3>2 DEF RecordGrows
    <3>4. PICK s : s = truth[c.event]
      OBVIOUS
    <3>5. EpisodeLogged("frozen_station", s)'
      BY <1>6, <3>1, <3>4
    <3>6. truth'[c.event] = s
      BY <3>3, <3>4
    <3> QED
      BY <3>1, <3>3, <3>5, <3>6 DEF EpisodeLogged
  <2> QED
    BY <1>2, <2>1, <2>3, <2>4 DEF AsLogged
<1> QED
  BY <1>4, <1>5, <1>6, <1>7, <1>8

LEMMA ExpectedStands ==
  ASSUME FaultTyped, FaultTyped', RecordGrows,
         \A n \in 1..Len(truth) : n \in suppressed' <=> n \in suppressed,
         NEW n \in 1..Len(truth)
  PROVE  Expected(n)' = Expected(n)
<1>1. \A f : Logged(f, n)' <=> Logged(f, n)
  BY RecordStands
<1> QED
  BY <1>1, Zenon DEF Expected

LEMMA CopiesStand ==
  ASSUME FaultTyped, FaultTyped', RecordGrows, NEW q \in Seq(Copies), AllAsLogged(q)
  PROVE  /\ \A i \in 1..Len(q) : AsLogged(q[i])'
         /\ \A i \in 1..Len(q) : Punctual(q[i].event)' <=> Punctual(q[i].event)
<1> SUFFICES ASSUME NEW i \in 1..Len(q)
             PROVE  AsLogged(q[i])' /\ (Punctual(q[i].event)' <=> Punctual(q[i].event))
  OBVIOUS
<1>1. q[i] \in Copies /\ AsLogged(q[i])
  BY ElementOfSeq DEF AllAsLogged
<1>2. PICK m \in Nat : m = Len(truth)
  BY LenProperties DEF FaultTyped
<1>3. q[i].event \in 1..Len(truth)
  BY <1>1, <1>2 DEF AsLogged, Copies
<1>4. AsLogged(q[i])'
  BY <1>1, RecordStands
<1> QED
  BY <1>3, <1>4, RecordStands

LEMMA OrderStands ==
  ASSUME FaultTyped, FaultTyped', RecordGrows, NEW q \in Seq(Copies), AllAsLogged(q)
  PROVE  /\ InOrder(q) => InOrder(q)'
         /\ \A r \in Seq(Copies) : AllAsLogged(r) /\ Before(q, r) => Before(q, r)'
<1>1. \A i \in 1..Len(q) : Punctual(q[i].event)' <=> Punctual(q[i].event)
  BY CopiesStand
<1>2. ASSUME NEW r \in Seq(Copies), AllAsLogged(r), Before(q, r) PROVE Before(q, r)'
  <2>1. \A i \in 1..Len(r) : Punctual(r[i].event)' <=> Punctual(r[i].event)
    BY <1>2, CopiesStand
  <2> QED
    BY <1>1, <1>2, <2>1, Zenon DEF Before
<1>3. InOrder(q) => InOrder(q)'
  BY <1>1, Zenon DEF InOrder
<1> QED
  BY <1>2, <1>3

(* Where the copies are does not matter for any of this. *)
LEMMA RestStands ==
  ASSUME FaultTyped, FaultTyped', CopiesTyped, CopiesInv, OrderInv, RecordGrows,
         UNCHANGED <<delayed, stall_buffer, flushed, out, emitted>>
  PROVE  /\ CopiesTyped' /\ CopiesInv' /\ OrderInv'
         /\ \A n : Around(n)' = Around(n)
<1>1. CopiesTyped'
  BY DEF CopiesTyped
<1>3. CopiesInv'
  <2>1. /\ AllAsLogged(emitted)' /\ AllAsLogged(flushed)'
        /\ AllAsLogged(out)' /\ AllAsLogged(stall_buffer)'
    BY CopiesStand DEF CopiesInv, AllAsLogged, CopiesTyped
  <2>2. ASSUME NEW x \in delayed PROVE AsLogged(x.copy)' /\ ~Punctual(x.copy.event)'
    <3>1. x.copy \in Copies /\ AsLogged(x.copy) /\ ~Punctual(x.copy.event)
      BY DEF CopiesTyped, CopiesInv
    <3>2. PICK m \in Nat : m = Len(truth)
      BY LenProperties DEF FaultTyped
    <3>3. x.copy.event \in 1..Len(truth)
      BY <3>1, <3>2 DEF AsLogged, Copies
    <3> QED
      BY <3>1, <3>3, RecordStands
  <2> QED
    BY <2>1, <2>2 DEF CopiesInv
<1>4. OrderInv'
  <2>1. /\ InOrder(emitted)' /\ InOrder(flushed)' /\ InOrder(out)' /\ InOrder(stall_buffer)'
    BY OrderStands DEF OrderInv, CopiesTyped, CopiesInv, InOrder
  <2>2. /\ Before(emitted, flushed)' /\ Before(emitted, stall_buffer)' /\ Before(emitted, out)'
        /\ Before(flushed, out)' /\ Before(stall_buffer, out)'
    BY OrderStands DEF OrderInv, CopiesTyped, CopiesInv, Before
  <2> QED
    BY <2>1, <2>2 DEF OrderInv
<1>5. ASSUME NEW n PROVE Around(n)' = Around(n)
  BY DEF Around, Count
<1> QED
  BY <1>1, <1>3, <1>4, <1>5

-----------------------------------------------------------------------------
(* The steps.                                                              *)

LEMMA FaultStarts == FaultInit => FaultInv
<1> SUFFICES ASSUME FaultInit PROVE FaultInv
  OBVIOUS
<1>1. <<>> \in Seq(Kinds) /\ <<>> \in Seq(Copies) /\ <<>> \in Seq(LogEntries) /\ Len(<<>>) = 0
  BY EmptySeq
<1>2. \A i \in 1..Len(<<>>) : FALSE
  BY <1>1
<1>3. FaultTyped
  BY <1>1, FaultLayerAssumption DEF FaultInit, FaultTyped
<1>4. CopiesTyped
  BY <1>1, FS_EmptySet DEF FaultInit, CopiesTyped
<1>5. EpisodesInv /\ StatusInv
  BY <1>2 DEF FaultInit, EpisodesInv, StatusInv
<1>6. CopiesInv /\ OrderInv
  BY <1>2 DEF FaultInit, CopiesInv, OrderInv, AllAsLogged, InOrder, Before
<1>7. BacklogInv /\ Conserved
  BY <1>1, <1>2 DEF FaultInit, BacklogInv, Conserved
<1> QED
  BY <1>3, <1>4, <1>5, <1>6, <1>7 DEF FaultInv

(* Steps that leave the events, the log and the copies as they are, but for *)
(* a backlog that is lost with the task.                                   *)
LEMMA QuietStep ==
  ASSUME FaultInv, FaultTyped',
         UNCHANGED <<truth, episodes, delayed, stall_buffer, last_status, frozen_payload,
                     out, emitted, log_entries, suppressed>>,
         \/ phase' = phase /\ flushed' = flushed
         \/ phase = "episodes" /\ phase' = "events" /\ flushed' = flushed
         \/ phase = "episodes" /\ phase' = "dead" /\ flushed' = <<>>
  PROVE  FaultInv'
<1>1. /\ FaultTyped /\ CopiesTyped /\ EpisodesInv /\ StatusInv /\ CopiesInv
      /\ OrderInv /\ BacklogInv /\ Conserved
  BY DEF FaultInv
<1>2. RecordGrows
  <2>1. PICK a \in Nat, b \in Nat : a = Len(log_entries) /\ b = Len(truth)
    BY <1>1, LenProperties DEF FaultTyped
  <2>2. \A i \in 1..a : ~(i > a)
    OBVIOUS
  <2> QED
    BY <2>1, <2>2 DEF RecordGrows
<1>3. <<>> \in Seq(Copies) /\ \A i \in 1..Len(<<>>) : FALSE
  BY EmptySeq
<1>4. CopiesTyped'
  BY <1>1, <1>3 DEF CopiesTyped
<1>5. EpisodesInv' /\ StatusInv'
  <2>1. EpisodesInv'
    BY <1>1 DEF EpisodesInv
  <2>2. StatusInv'
    BY <1>1 DEF StatusInv, StatusOf, EpisodeLogged
  <2> QED
    BY <2>1, <2>2
<1>6. CopiesInv' /\ OrderInv' /\ (phase' # "dead" => \A n : Around(n)' = Around(n))
  <2>1. CASE flushed' = flushed
    BY <1>1, <1>2, <2>1, RestStands
  <2>2. CASE phase' = "dead" /\ flushed' = <<>>
    <3>1. \A c : AsLogged(c) => AsLogged(c)'
      BY DEF AsLogged, Logged, EpisodeLogged
    <3>2. \A n : Punctual(n)' <=> Punctual(n)
      BY DEF Punctual, Logged
    <3>3. CopiesInv'
      BY <1>1, <1>3, <2>2, <3>1, <3>2 DEF CopiesInv, AllAsLogged
    <3>4. OrderInv'
      BY <1>1, <1>3, <2>2, <3>2 DEF OrderInv, InOrder, Before
    <3> QED
      BY <2>2, <3>3, <3>4
  <2> QED
    BY <2>1, <2>2
<1>7. BacklogInv'
  BY <1>1 DEF BacklogInv, StallActive, Active
<1>8. Conserved'
  <2>1. phase' # "dead" => phase # "dead"
    OBVIOUS
  <2>2. \A n \in 1..Len(truth) : Expected(n)' = Expected(n)
    BY <1>1, <1>2, ExpectedStands
  <2> QED
    BY <1>1, <1>6, <2>1, <2>2 DEF Conserved
<1> QED
  BY <1>4, <1>5, <1>6, <1>7, <1>8 DEF FaultInv

LEMMA TriggerStep ==
  ASSUME FaultInv, NEW f \in Faults, NEW s \in Stations \cup {None}, Trigger(f, s)
  PROVE  FaultInv'
<1>1. FaultTyped'
  <2>1. faults' \in 0..MaxFaults
    BY FaultLayerAssumption DEF Trigger, FaultInv, FaultTyped
  <2>2. forced' \in [Faults -> {{}} \cup {{x} : x \in Stations \cup {None}}]
    BY DEF Trigger, FaultInv, FaultTyped
  <2> QED
    BY <2>1, <2>2 DEF Trigger, FaultInv, FaultTyped
<1> QED
  BY <1>1, QuietStep DEF Trigger

(* A turn of an episode fault takes its trigger or counts as an injection. *)
LEMMA TurnTyped ==
  ASSUME FaultTyped, NEW f \in EpisodeFaults, Turn(f)
  PROVE  /\ faults' \in 0..MaxFaults /\ tried' \subseteq EpisodeFaults
         /\ forced' \in [Faults -> {{}} \cup {{s} : s \in Stations \cup {None}}]
<1>1. faults' \in 0..MaxFaults
  BY FaultLayerAssumption DEF Turn, FaultTyped
<1>2. tried' \subseteq EpisodeFaults
  BY DEF Turn, FaultTyped
<1>3. forced' \in [Faults -> {{}} \cup {{s} : s \in Stations \cup {None}}]
  BY DEF Turn, FaultTyped
<1> QED
  BY <1>1, <1>2, <1>3

LEMMA IgnoreStep ==
  ASSUME FaultInv,
         \/ IgnoreStall
         \/ \E s \in Stations : IgnoreFreeze(s)
         \/ \E f \in StationFaults : NoFreeStation(f)
  PROVE  FaultInv'
<1>1. PICK f \in EpisodeFaults : Turn(f)
  BY DEF IgnoreStall, IgnoreFreeze, NoFreeStation, EpisodeFaults, StationFaults
<1>2. FaultTyped'
  BY <1>1, TurnTyped DEF IgnoreStall, IgnoreFreeze, NoFreeStation, FaultInv, FaultTyped
<1>3. phase = "episodes"
  BY <1>1 DEF Turn
<1> QED
  BY <1>2, <1>3, QuietStep DEF IgnoreStall, IgnoreFreeze, NoFreeStation

LEMMA EpisodesUpdatedStep == FaultInv /\ EpisodesUpdated => FaultInv'
<1> SUFFICES ASSUME FaultInv, EpisodesUpdated PROVE FaultInv'
  OBVIOUS
<1>1. FaultTyped'
  BY DEF EpisodesUpdated, FaultInv, FaultTyped
<1> QED
  BY <1>1, QuietStep DEF EpisodesUpdated

LEMMA FaultStutters == FaultInv /\ UNCHANGED faultVars => FaultInv'
<1> SUFFICES ASSUME FaultInv, UNCHANGED faultVars PROVE FaultInv'
  OBVIOUS
<1>1. FaultTyped'
  BY DEF faultVars, FaultInv, FaultTyped
<1> QED
  BY <1>1, QuietStep DEF faultVars

LEMMA EndEpisodesStep == FaultInv /\ EndEpisodes => FaultInv'
<1> SUFFICES ASSUME FaultInv, EndEpisodes PROVE FaultInv'
  OBVIOUS
<1> DEFINE ended == {e \in episodes : e.ends_in = 0}
           stall_ended == \E e \in ended : e.fault = "stream_stall"
<1>1. /\ FaultTyped /\ CopiesTyped /\ EpisodesInv /\ StatusInv /\ CopiesInv
      /\ OrderInv /\ BacklogInv /\ Conserved
  BY DEF FaultInv
<1>2. /\ phase = "idle" /\ phase' = "episodes" /\ episodes' = episodes \ ended /\ tried' = {}
      /\ flushed' = IF stall_ended THEN stall_buffer ELSE <<>>
      /\ stall_buffer' = IF stall_ended THEN <<>> ELSE stall_buffer
      /\ UNCHANGED <<truth, forced, delayed, last_status, frozen_payload, out,
                     emitted, log_entries, suppressed, faults>>
  BY DEF EndEpisodes
<1>3. flushed = <<>> /\ out = <<>>
  BY <1>1, <1>2 DEF BacklogInv
<1>4. <<>> \in Seq(Copies) /\ \A i \in 1..Len(<<>>) : FALSE
  BY EmptySeq
<1>5. \/ flushed' = stall_buffer /\ stall_buffer' = <<>>
      \/ flushed' = flushed /\ stall_buffer' = stall_buffer /\ ~stall_ended
  BY <1>2, <1>3
<1>6. FaultTyped' /\ CopiesTyped'
  BY <1>1, <1>2, <1>4, <1>5 DEF FaultTyped, CopiesTyped
<1>7. EpisodesInv'
  <2>1. \A e \in episodes' : e \in episodes /\ e.ends_in # 0
    BY <1>2
  <2>2. \A e \in episodes : e.ends_in \in Nat
    BY <1>1 DEF EpisodesInv
  <2> HIDE DEF ended
  <2> QED
    BY <1>1, <1>2, <2>1, <2>2 DEF EpisodesInv
<1>8. StatusInv'
  BY <1>1, <1>2 DEF StatusInv, StatusOf, EpisodeLogged
<1>9. (\A c : AsLogged(c) => AsLogged(c)') /\ (\A n : Punctual(n)' <=> Punctual(n))
  BY <1>2 DEF AsLogged, Logged, EpisodeLogged, Punctual
<1>10. CopiesInv' /\ OrderInv'
  <2> HIDE DEF stall_ended
  <2>1. CopiesInv'
    BY <1>1, <1>2, <1>4, <1>5, <1>9 DEF CopiesInv, AllAsLogged
  <2>2. (\A q : InOrder(q) => InOrder(q)') /\ (\A q, r : Before(q, r) => Before(q, r)')
    BY <1>9, Zenon DEF InOrder, Before
  <2>3. InOrder(<<>>) /\ \A q : Before(q, <<>>) /\ Before(<<>>, q)
    BY <1>4 DEF InOrder, Before
  <2>4. emitted' = emitted /\ out' = out
    BY <1>2
  <2>5. /\ InOrder(emitted) /\ InOrder(flushed) /\ InOrder(out) /\ InOrder(stall_buffer)
        /\ Before(emitted, flushed) /\ Before(emitted, stall_buffer) /\ Before(emitted, out)
        /\ Before(flushed, out) /\ Before(stall_buffer, out)
    BY <1>1 DEF OrderInv
  <2>6. CASE flushed' = stall_buffer /\ stall_buffer' = <<>>
    <3>1. InOrder(emitted)' /\ InOrder(flushed)' /\ InOrder(out)' /\ InOrder(stall_buffer)'
      BY <2>2, <2>3, <2>4, <2>5, <2>6 DEF InOrder
    <3>2. /\ Before(emitted, flushed)' /\ Before(emitted, stall_buffer)'
          /\ Before(emitted, out)' /\ Before(flushed, out)' /\ Before(stall_buffer, out)'
      BY <2>2, <2>3, <2>4, <2>5, <2>6 DEF Before
    <3> QED
      BY <2>1, <3>1, <3>2 DEF OrderInv
  <2>7. CASE flushed' = flushed /\ stall_buffer' = stall_buffer
    <3>1. InOrder(emitted)' /\ InOrder(flushed)' /\ InOrder(out)' /\ InOrder(stall_buffer)'
      BY <2>2, <2>4, <2>5, <2>7 DEF InOrder
    <3>2. /\ Before(emitted, flushed)' /\ Before(emitted, stall_buffer)'
          /\ Before(emitted, out)' /\ Before(flushed, out)' /\ Before(stall_buffer, out)'
      BY <2>2, <2>4, <2>5, <2>7 DEF Before
    <3> QED
      BY <2>1, <3>1, <3>2 DEF OrderInv
  <2> QED
    BY <1>5, <2>1, <2>6, <2>7
<1>11. BacklogInv'
  <2>1. ASSUME stall_buffer' # <<>> PROVE StallActive' /\ flushed' = <<>>
    <3>1. ~stall_ended /\ stall_buffer # <<>> /\ flushed' = <<>>
      BY <1>3, <1>5, <2>1
    <3>2. PICK e \in episodes : e.fault = "stream_stall" /\ e.station = None
      BY <1>1, <3>1 DEF BacklogInv, StallActive, Active
    <3>3. e \in episodes'
      BY <1>2, <3>1, <3>2
    <3> QED
      BY <3>1, <3>2, <3>3 DEF StallActive, Active
  <2> QED
    BY <1>2, <1>3, <2>1 DEF BacklogInv
<1>12. Conserved'
  <2> SUFFICES ASSUME NEW n \in 1..Len(truth) PROVE Around(n)' = Expected(n)'
    BY <1>2 DEF Conserved
  <2>1. Expected(n)' = Expected(n)
    BY <1>2 DEF Expected, Logged
  <2>2. Around(n) = Expected(n)
    BY <1>1, <1>2 DEF Conserved
  <2>3. /\ Count(emitted, n)' = Count(emitted, n) /\ Count(out, n)' = Count(out, n)
        /\ Cardinality({x \in delayed : x.copy.event = n})'
             = Cardinality({x \in delayed : x.copy.event = n})
    BY <1>2 DEF Count
  <2>4. Count(flushed, n) = 0 /\ Count(<<>>, n) = 0
    BY <1>3, CountEmpty
  <2>5. PICK a \in Nat, b \in Nat, c \in Nat :
          a = Count(emitted, n) /\ b = Count(out, n) /\ c = Count(stall_buffer, n)
    BY <1>1, CountType DEF CopiesTyped
  <2>6. Count(flushed, n)' + Count(out, n)' + Count(stall_buffer, n)' = b + c
    <3>1. CASE flushed' = stall_buffer /\ stall_buffer' = <<>>
      <4>1. Count(flushed, n)' = c /\ Count(stall_buffer, n)' = 0
        BY <2>4, <2>5, <3>1 DEF Count
      <4> QED
        BY <2>3, <2>5, <4>1
    <3>2. CASE flushed' = flushed /\ stall_buffer' = stall_buffer
      <4>1. Count(flushed, n)' = 0 /\ Count(stall_buffer, n)' = c
        BY <2>4, <2>5, <3>2 DEF Count
      <4> QED
        BY <2>3, <2>5, <4>1
    <3> QED
      BY <1>5, <3>1, <3>2
  <2>7. PICK f \in Nat, g \in Nat : f = Count(flushed, n)' /\ g = Count(stall_buffer, n)'
    BY <1>6, CountType DEF CopiesTyped, Count
  <2>8. PICK d \in Nat : d = Cardinality({x \in delayed : x.copy.event = n})
    <3>1. {x \in delayed : x.copy.event = n} \subseteq delayed
      OBVIOUS
    <3> QED
      BY <1>1, <3>1, FS_Subset, FS_CardinalityType DEF CopiesTyped
  <2>9. Around(n) = a + 0 + b + c + d
    BY <2>4, <2>5, <2>8 DEF Around
  <2>10. Around(n)' = a + f + b + g + d
    BY <2>3, <2>5, <2>7, <2>8 DEF Around
  <2>11. f + b + g = b + c
    BY <2>3, <2>5, <2>6, <2>7
  <2>12. Around(n)' = Around(n)
    BY <2>9, <2>10, <2>11
  <2> QED
    BY <2>1, <2>2, <2>12
<1> QED
  BY <1>6, <1>7, <1>8, <1>10, <1>11, <1>12 DEF FaultInv

(* An episode starts: it is logged under its number, and no event is.  *)
LEMMA BeginsStep ==
  ASSUME FaultInv, NEW f \in EpisodeFaults, NEW s \in Stations \cup {None},
         Turn(f), Begins(f, s), f = "stream_stall" <=> s = None,
         f = "stream_stall" => ~StallActive,
         f = "frozen_station" => last_status[s] # 0,
         frozen_payload' = IF f = "frozen_station"
                           THEN [frozen_payload EXCEPT ![s] = last_status[s]] ELSE frozen_payload,
         UNCHANGED <<phase, truth, delayed, stall_buffer, last_status, flushed, out, emitted,
                     suppressed>>
  PROVE  FaultInv'
<1>1. /\ FaultTyped /\ CopiesTyped /\ EpisodesInv /\ StatusInv /\ CopiesInv
      /\ OrderInv /\ BacklogInv /\ Conserved /\ phase = "episodes"
  BY DEF FaultInv, Turn
<1>2. PICK d \in 1..MaxDuration :
        episodes' = episodes \cup {[id |-> Len(log_entries) + 1, fault |-> f,
                                    station |-> s, ends_in |-> d]}
  BY DEF Begins
<1>3. Entry(f, 0, s) \in LogEntries
  BY FaultLayerAssumption DEF Entry, LogEntries, Faults
<1>4. /\ log_entries' \in Seq(LogEntries) /\ Len(log_entries') = Len(log_entries) + 1
      /\ \A i \in 1..Len(log_entries) : log_entries'[i] = log_entries[i]
      /\ log_entries'[Len(log_entries) + 1] = Entry(f, 0, s)
  BY <1>1, <1>3, AppendProperties DEF Begins, FaultTyped
<1>5. PICK a \in Nat, m \in Nat : a = Len(log_entries) /\ m = Len(truth)
  BY <1>1, LenProperties DEF FaultTyped
<1>6. RecordGrows
  <2>1. ASSUME NEW i \in 1..(a + 1), i > a PROVE log_entries'[i].event \notin 1..m
    <3>1. i = a + 1
      BY <2>1
    <3> QED
      BY <1>4, <1>5, <3>1 DEF Entry
  <2> QED
    BY <1>4, <1>5, <2>1 DEF RecordGrows
<1>7. FaultTyped'
  <2>1. frozen_payload' \in [Stations -> 0..MaxEvents]
    BY <1>1 DEF FaultTyped
  <2> QED
    BY <1>1, <1>4, <2>1, TurnTyped DEF FaultTyped
<1>8. CopiesTyped' /\ CopiesInv' /\ OrderInv' /\ \A n : Around(n)' = Around(n)
  BY <1>1, <1>6, <1>7, RestStands
<1>9. EpisodesInv'
  <2> DEFINE new == [id |-> a + 1, fault |-> f, station |-> s, ends_in |-> d]
  <2>1. episodes' = episodes \cup {new}
    BY <1>2, <1>5
  <2>2. Len(log_entries') = a + 1
    BY <1>4, <1>5
  <2>3. new \in [id : 1..(a + 1), fault : EpisodeFaults, station : Stations \cup {None},
                 ends_in : 0..MaxDuration]
    BY FaultLayerAssumption
  <2>4. /\ episodes \subseteq [id : 1..a, fault : EpisodeFaults, station : Stations \cup {None},
                              ends_in : 0..MaxDuration]
        /\ 1..a \subseteq 1..(a + 1)
    BY <1>1, <1>5 DEF EpisodesInv
  <2>5. ASSUME NEW e \in episodes
        PROVE  /\ e \in [id : 1..(a + 1), fault : EpisodeFaults, station : Stations \cup {None},
                         ends_in : 0..MaxDuration]
               /\ log_entries'[e.id].fault = e.fault /\ log_entries'[e.id].station = e.station
               /\ e.fault = "stream_stall" <=> e.station = None
               /\ e.ends_in > 0
    <3>1. e.id \in 1..a
      BY <2>4
    <3>2. log_entries'[e.id] = log_entries[e.id]
      BY <1>4, <1>5, <3>1
    <3> QED
      BY <1>1, <2>4, <3>2 DEF EpisodesInv
  <2>6. /\ log_entries'[new.id].fault = new.fault /\ log_entries'[new.id].station = new.station
        /\ new.fault = "stream_stall" <=> new.station = None
        /\ new.ends_in > 0
    BY <1>4, <1>5 DEF Entry
  <2>7. f = "stream_stall" => \A e \in episodes : e.fault # "stream_stall"
    BY <1>1 DEF EpisodesInv, StallActive, Active
  <2>8. \A e, g \in episodes' : e.fault = "stream_stall" /\ g.fault = "stream_stall" => e = g
    BY <1>1, <2>1, <2>7 DEF EpisodesInv
  <2> HIDE DEF new
  <2>9. \A e \in episodes' : e \in episodes \/ e = new
    BY <2>1
  <2> QED
    BY <2>2, <2>3, <2>5, <2>6, <2>8, <2>9 DEF EpisodesInv
<1>10. StatusInv'
  <2>1. \A g, t : EpisodeLogged(g, t) => EpisodeLogged(g, t)'
    BY <1>1, <1>6, <1>7, RecordStands
  <2>2. EpisodeLogged(f, s)'
    <3>1. a + 1 \in 1..Len(log_entries') /\ log_entries'[a + 1] = Entry(f, 0, s)
      BY <1>4, <1>5
    <3> QED
      BY <3>1 DEF EpisodeLogged, Entry
  <2>3. ASSUME NEW t \in Stations
        PROVE /\ last_status'[t] # 0 => StatusOf(t, last_status[t])'
              /\ frozen_payload'[t] # 0 =>
                   StatusOf(t, frozen_payload[t])' /\ EpisodeLogged("frozen_station", t)'
    <3>1. last_status[t] # 0 => StatusOf(t, last_status[t])'
      BY <1>1 DEF StatusInv, StatusOf
    <3>2. CASE f = "frozen_station" /\ t = s
      <4>1. frozen_payload'[t] = last_status[t]
        BY <1>1, <3>2 DEF FaultTyped
      <4> QED
        BY <2>2, <3>1, <3>2, <4>1 DEF StatusOf
    <3>3. CASE ~(f = "frozen_station" /\ t = s)
      <4>1. frozen_payload'[t] = frozen_payload[t]
        BY <1>1, <3>3 DEF FaultTyped
      <4> QED
        BY <1>1, <2>1, <3>1, <4>1 DEF StatusInv, StatusOf
    <3> QED
      BY <3>2, <3>3
  <2>4. ASSUME NEW e \in episodes', e.fault = "frozen_station"
        PROVE  frozen_payload'[e.station] # 0
    <3>1. CASE e \in episodes
      <4>1. frozen_payload[e.station] # 0 /\ e.station \in Stations
        BY <1>1, <2>4, <3>1 DEF StatusInv, EpisodesInv
      <4>2. frozen_payload'[e.station] \in {frozen_payload[e.station], last_status[s]}
        BY <1>1, <4>1 DEF FaultTyped
      <4>3. CASE frozen_payload'[e.station] = frozen_payload[e.station]
        BY <4>1, <4>3
      <4>4. CASE frozen_payload'[e.station] # frozen_payload[e.station]
        BY <4>2, <4>4
      <4> QED
        BY <4>3, <4>4
    <3>2. CASE e \notin episodes
      <4>1. e.fault = f /\ e.station = s /\ f = "frozen_station" /\ s \in Stations
        BY <1>2, <2>4, <3>2
      <4> QED
        BY <1>1, <4>1 DEF FaultTyped
    <3> QED
      BY <3>1, <3>2
  <2>5. ASSUME NEW n \in suppressed' PROVE EpisodeLogged("silent_station", truth[n])'
    <3>1. PICK t : t = truth[n]
      OBVIOUS
    <3>2. EpisodeLogged("silent_station", t)'
      BY <1>1, <2>1, <3>1 DEF StatusInv
    <3> QED
      BY <3>1, <3>2 DEF EpisodeLogged
  <2>6. \A i \in 1..Len(log_entries') : log_entries'[i].event <= Len(truth')
    <3> SUFFICES ASSUME NEW i \in 1..(a + 1) PROVE log_entries'[i].event <= m
      BY <1>4, <1>5
    <3>1. CASE i \in 1..a
      BY <1>1, <1>4, <1>5, <3>1 DEF StatusInv
    <3>2. CASE i = a + 1
      BY <1>4, <1>5, <3>2 DEF Entry
    <3> QED
      BY <3>1, <3>2
  <2> QED
    BY <2>3, <2>4, <2>5, <2>6 DEF StatusInv
<1>11. BacklogInv'
  BY <1>1, <1>2 DEF BacklogInv, StallActive, Active
<1>12. Conserved'
  <2>1. \A n \in 1..Len(truth) : Expected(n)' = Expected(n)
    BY <1>1, <1>6, <1>7, ExpectedStands
  <2> QED
    BY <1>1, <1>8, <2>1 DEF Conserved
<1> QED
  BY <1>7, <1>8, <1>9, <1>10, <1>11, <1>12 DEF FaultInv

LEMMA StartStep ==
  ASSUME FaultInv,
         \/ StartStall
         \/ \E f \in StationFaults : \E s \in Stations : StartStationEpisode(f, s)
  PROVE  FaultInv'
<1>1. CASE StartStall
  BY <1>1, BeginsStep DEF StartStall, EpisodeFaults
<1>2. ASSUME NEW f \in StationFaults, NEW s \in Stations, StartStationEpisode(f, s)
      PROVE  FaultInv'
  BY <1>2, BeginsStep, FaultLayerAssumption DEF StartStationEpisode, EpisodeFaults, StationFaults
<1> QED
  BY <1>1, <1>2

-----------------------------------------------------------------------------
(* An event of the step.                                                   *)

(* The faults that hit an event are on record for it, and no others.        *)
LEMMA InjectRecords ==
  ASSUME FaultTyped, StatusInv, NEW kind \in Kinds, NEW h \in SUBSET Eligible(kind),
         Len(truth) < MaxEvents, truth' = Append(truth, kind),
         NEW n, n = Len(truth) + 1, Inject(h, n)
  PROVE  /\ RecordGrows /\ log_entries' \in Seq(LogEntries)
         /\ faults' \in 0..MaxFaults
         /\ forced' \in [Faults -> {{}} \cup {{s} : s \in Stations \cup {None}}]
         /\ \A f : Logged(f, n)' <=> f \in h
         /\ \A i \in 1..Len(log_entries') : log_entries'[i].event <= n
<1>1. PICK m \in Nat, a \in Nat : m = Len(truth) /\ a = Len(log_entries)
  BY LenProperties DEF FaultTyped
<1>2. /\ Len(truth') = m + 1 /\ \A k \in 1..m : truth'[k] = truth[k]
  BY <1>1, AppendProperties DEF FaultTyped
<1>3. h \subseteq Faults /\ IsFiniteSet(h)
  <2>1. Eligible(kind) \subseteq {"schema_drift", "duplicate", "late_event", "impossible_status",
                                  "orphan_trip", "teleport"}
    BY DEF Eligible
  <2>2. IsFiniteSet({"schema_drift", "duplicate", "late_event", "impossible_status",
                     "orphan_trip", "teleport"})
    <3>1. \A S, x : IsFiniteSet(S) => IsFiniteSet(S \cup {x})
      BY FS_AddElement
    <3>2. IsFiniteSet({} \cup {"schema_drift"} \cup {"duplicate"} \cup {"late_event"}
                        \cup {"impossible_status"} \cup {"orphan_trip"} \cup {"teleport"})
      BY <3>1, FS_EmptySet, Zenon
    <3>3. {"schema_drift", "duplicate", "late_event", "impossible_status", "orphan_trip", "teleport"}
            = {} \cup {"schema_drift"} \cup {"duplicate"} \cup {"late_event"}
                 \cup {"impossible_status"} \cup {"orphan_trip"} \cup {"teleport"}
      OBVIOUS
    <3> QED
      BY <3>2, <3>3
  <2> QED
    BY <2>1, <2>2, FS_Subset DEF Faults, EpisodeFaults, StationFaults, MarkFaults
<1>4. faults' \in 0..MaxFaults
  <2>1. PICK u \in Nat : u = Cardinality({f \in h : ~Armed(f)})
    <3>1. {f \in h : ~Armed(f)} \subseteq h
      OBVIOUS
    <3> QED
      BY <1>3, <3>1, FS_Subset, FS_CardinalityType
  <2>2. faults \in Nat /\ faults + u <= MaxFaults /\ faults' = faults + u /\ MaxFaults \in Nat
    BY <2>1, FaultLayerAssumption DEF Inject, FaultTyped
  <2> QED
    BY <2>2
<1>5. forced' \in [Faults -> {{}} \cup {{s} : s \in Stations \cup {None}}]
  BY DEF Inject, FaultTyped
<1>6. PICK hit \in SetToSeqs(h) :
        log_entries' = log_entries \o [i \in DOMAIN hit |-> Entry(hit[i], m + 1, None)]
  BY <1>1 DEF Inject
<1>7. /\ hit \in Seq(h) /\ DOMAIN hit = 1..Len(hit) /\ Len(hit) \in Nat
      /\ \A i \in 1..Len(hit) : hit[i] \in h
      /\ \A f \in h : \E i \in 1..Len(hit) : hit[i] = f
  BY <1>3, EachOnce
<1>8. PICK b \in Nat : b = Len(hit)
  BY <1>7
<1> DEFINE new == [i \in 1..b |-> Entry(hit[i], m + 1, None)]
<1>9. new \in Seq(LogEntries) /\ Len(new) = b
  <2>1. ASSUME NEW i \in 1..b PROVE Entry(hit[i], m + 1, None) \in LogEntries
    BY <1>1, <1>3, <1>7, <1>8, FaultLayerAssumption DEF Entry, LogEntries
  <2>2. new \in [1..b -> LogEntries]
    BY <2>1
  <2> HIDE DEF new
  <2>3. new \in Seq(LogEntries)
    BY <2>2, SeqDef
  <2> QED
    BY <2>2, <2>3, LenProperties
<1>10. \A i \in 1..b : new[i] = [fault |-> hit[i], event |-> m + 1, station |-> None]
  BY DEF Entry
<1>11. log_entries' = log_entries \o new
  BY <1>6, <1>7, <1>8
<1> HIDE DEF new
<1>12. /\ log_entries' \in Seq(LogEntries) /\ Len(log_entries') = a + b
       /\ \A i \in 1..(a + b) : log_entries'[i] = IF i <= a THEN log_entries[i] ELSE new[i - a]
  BY <1>1, <1>9, <1>11, ConcatProperties DEF FaultTyped
<1>13. ASSUME NEW i \in 1..a PROVE i \in 1..(a + b) /\ log_entries'[i] = log_entries[i]
  BY <1>12
<1>14. ASSUME NEW i \in 1..(a + b), i \notin 1..a
       PROVE  \E k \in 1..b : i = k + a /\ log_entries'[i] = Entry(hit[k], m + 1, None)
  <2>1. i - a \in 1..b /\ log_entries'[i] = new[i - a] /\ i = (i - a) + a
    BY <1>12, <1>14
  <2>2. new[i - a] = Entry(hit[i - a], m + 1, None)
    BY <1>10, <2>1 DEF Entry
  <2> QED
    BY <2>1, <2>2
<1>15. ASSUME NEW k \in 1..b
       PROVE  k + a \in 1..(a + b) /\ log_entries'[k + a] = Entry(hit[k], m + 1, None)
  <2>1. k + a \in 1..(a + b) /\ ~(k + a <= a) /\ (k + a) - a = k
    OBVIOUS
  <2>2. log_entries'[k + a] = new[k]
    BY <1>12, <2>1
  <2> QED
    BY <1>10, <2>1, <2>2 DEF Entry
<1>16. ASSUME NEW i \in 1..a PROVE log_entries[i].event \in 0..m
  <2>1. log_entries[i] \in LogEntries
    BY <1>1, ElementOfSeq DEF FaultTyped
  <2> QED
    BY <1>1, <2>1 DEF StatusInv, LogEntries
<1>17. ASSUME NEW f, NEW k PROVE Entry(f, k, None).event = k /\ Entry(f, k, None).fault = f
  BY DEF Entry
<1>18. RecordGrows
  <2>1. ASSUME NEW i \in 1..(a + b), i > a PROVE log_entries'[i].event \notin 1..m
    <3>1. i \notin 1..a
      BY <2>1
    <3>2. log_entries'[i].event = m + 1
      BY <1>14, <1>17, <3>1
    <3> QED
      BY <3>2
  <2> QED
    BY <1>1, <1>2, <1>12, <1>13, <2>1 DEF RecordGrows
<1>19. ASSUME NEW f PROVE Logged(f, n)' <=> f \in h
  <2>1. ASSUME NEW i \in 1..(a + b), log_entries'[i].fault = f, log_entries'[i].event = m + 1
        PROVE  f \in h
    <3>1. i \notin 1..a
      <4> SUFFICES ASSUME i \in 1..a PROVE FALSE
        OBVIOUS
      <4>1. log_entries[i].event \in 0..m /\ log_entries[i].event = m + 1
        BY <1>13, <1>16, <2>1
      <4> QED
        BY <4>1
    <3>2. PICK k \in 1..b : log_entries'[i] = Entry(hit[k], m + 1, None)
      BY <1>14, <3>1
    <3>3. hit[k] = f
      BY <1>17, <2>1, <3>2
    <3> QED
      BY <1>7, <1>8, <3>3
  <2>2. ASSUME f \in h
        PROVE  \E i \in 1..(a + b) : log_entries'[i].fault = f /\ log_entries'[i].event = m + 1
    <3>1. PICK k \in 1..b : hit[k] = f
      BY <1>7, <1>8, <2>2
    <3> QED
      BY <1>15, <1>17, <3>1
  <2>3. (\E i \in 1..Len(log_entries') : log_entries'[i].fault = f /\ log_entries'[i].event = m + 1)
          <=> f \in h
    BY <1>12, <2>1, <2>2
  <2> QED
    BY <1>1, <2>3 DEF Logged
<1>20. ASSUME NEW i \in 1..(a + b) PROVE log_entries'[i].event <= m + 1
  <2>1. CASE i \in 1..a
    <3>1. log_entries'[i].event \in 0..m
      BY <1>13, <1>16, <2>1
    <3> QED
      BY <3>1
  <2>2. CASE i \notin 1..a
    <3>1. log_entries'[i].event = m + 1
      BY <1>14, <1>17, <2>2
    <3> QED
      BY <3>1
  <2> QED
    BY <2>1, <2>2
<1> QED
  BY <1>1, <1>4, <1>5, <1>12, <1>18, <1>19, <1>20

(* The event that has just happened was nowhere before. *)
LEMMA NotYet ==
  ASSUME FaultTyped, CopiesTyped, CopiesInv, NEW n, n = Len(truth) + 1
  PROVE  /\ Count(emitted, n) = 0 /\ Count(flushed, n) = 0
         /\ Count(out, n) = 0 /\ Count(stall_buffer, n) = 0
         /\ {x \in delayed : x.copy.event = n} = {}
         /\ Around(n) = 0
<1>1. PICK m \in Nat : m = Len(truth)
  BY LenProperties DEF FaultTyped
<1>2. \A c \in Copies : AsLogged(c) => c.event # n
  BY <1>1 DEF AsLogged, Copies
<1>3. ASSUME NEW q \in Seq(Copies), AllAsLogged(q) PROVE Count(q, n) = 0
  <2>1. \A i \in 1..Len(q) : q[i] \in Copies /\ q[i].event # n
    BY <1>2, <1>3, ElementOfSeq DEF AllAsLogged
  <2> QED
    BY <2>1, CountNone
<1>4. {x \in delayed : x.copy.event = n} = {}
  BY <1>2 DEF CopiesTyped, CopiesInv
<1>5. Cardinality({x \in delayed : x.copy.event = n}) = 0
  BY <1>4, FS_EmptySet
<1>6. /\ Count(emitted, n) = 0 /\ Count(flushed, n) = 0
      /\ Count(out, n) = 0 /\ Count(stall_buffer, n) = 0
  BY <1>3 DEF CopiesTyped, CopiesInv
<1> QED
  BY <1>4, <1>5, <1>6 DEF Around

(* An event happens: whatever becomes of it, the episodes stand, and what   *)
(* is known of the stations grows by it.                                   *)
LEMMA EventHappens ==
  ASSUME FaultInv, FaultTyped', RecordGrows, NEW kind \in Kinds, NEW n,
         phase = "events", truth' = Append(truth, kind), n = Len(truth) + 1,
         UNCHANGED <<phase, episodes, frozen_payload, flushed, stall_buffer>>,
         \A i \in 1..Len(log_entries') : log_entries'[i].event <= n,
         \/ last_status' = last_status
         \/ kind \in Stations /\ last_status' = [last_status EXCEPT ![kind] = n],
         \/ suppressed' = suppressed
         \/ suppressed' = suppressed \cup {n} /\ EpisodeLogged("silent_station", kind)
  PROVE  EpisodesInv' /\ StatusInv' /\ BacklogInv' /\ Len(truth') = n /\ truth'[n] = kind
<1>1. FaultTyped /\ EpisodesInv /\ StatusInv /\ BacklogInv
  BY DEF FaultInv
<1>2. PICK m \in Nat, a \in Nat, b \in Nat :
        m = Len(truth) /\ a = Len(log_entries) /\ b = Len(log_entries')
  BY <1>1, LenProperties DEF FaultTyped
<1>3. n = m + 1 /\ Len(truth') = n /\ truth'[n] = kind /\ \A k \in 1..m : truth'[k] = truth[k]
  BY <1>1, <1>2, AppendProperties DEF FaultTyped
<1>4. /\ \A f, s : EpisodeLogged(f, s) => EpisodeLogged(f, s)'
      /\ \A s : \A k \in 1..m : StatusOf(s, k) => StatusOf(s, k)'
  BY <1>1, <1>2, RecordStands
<1>5. a <= b /\ \A i \in 1..a : i \in 1..b /\ log_entries'[i] = log_entries[i]
  BY <1>2 DEF RecordGrows
<1>6. EpisodesInv'
  <2>1. ASSUME NEW e \in episodes
        PROVE  /\ e \in [id : 1..b, fault : EpisodeFaults, station : Stations \cup {None},
                         ends_in : 0..MaxDuration]
               /\ log_entries'[e.id].fault = e.fault /\ log_entries'[e.id].station = e.station
               /\ e.fault = "stream_stall" <=> e.station = None
               /\ phase \in {"episodes", "events"} => e.ends_in > 0
    <3>1. e \in [id : 1..a, fault : EpisodeFaults, station : Stations \cup {None},
                 ends_in : 0..MaxDuration]
      BY <1>1, <1>2 DEF EpisodesInv
    <3>2. e.id \in 1..b /\ log_entries'[e.id] = log_entries[e.id]
      BY <1>5, <3>1
    <3> QED
      BY <1>1, <3>1, <3>2 DEF EpisodesInv
  <2>2. \A e, d \in episodes : e.fault = "stream_stall" /\ d.fault = "stream_stall" => e = d
    BY <1>1 DEF EpisodesInv
  <2> QED
    BY <1>2, <2>1, <2>2 DEF EpisodesInv
<1>7. ASSUME NEW s \in Stations
      PROVE  /\ last_status'[s] # 0 => StatusOf(s, last_status[s])'
             /\ frozen_payload'[s] # 0 =>
                  StatusOf(s, frozen_payload[s])' /\ EpisodeLogged("frozen_station", s)'
  <2>0. PICK l \in Nat, p \in Nat : l = last_status[s] /\ p = frozen_payload[s]
    BY <1>1, FaultLayerAssumption DEF FaultTyped
  <2>1. l # 0 => l \in 1..m /\ StatusOf(s, l)'
    <3>1. l # 0 => l \in 1..m /\ StatusOf(s, l)
      BY <1>1, <1>2, <2>0 DEF StatusInv, StatusOf
    <3> QED
      BY <1>4, <3>1
  <2>2. p # 0 => StatusOf(s, p)' /\ EpisodeLogged("frozen_station", s)'
    <3>1. p # 0 => p \in 1..m /\ StatusOf(s, p) /\ EpisodeLogged("frozen_station", s)
      BY <1>1, <1>2, <2>0 DEF StatusInv, StatusOf
    <3> QED
      BY <1>4, <3>1
  <2>3. CASE last_status'[s] = l
    BY <2>0, <2>1, <2>2, <2>3 DEF StatusOf
  <2>4. CASE s = kind /\ last_status'[s] = n
    BY <1>3, <2>0, <2>2, <2>4 DEF StatusOf
  <2> QED
    <3>1. last_status'[s] = l \/ (s = kind /\ last_status'[s] = n)
      BY <1>1, <2>0 DEF FaultTyped
    <3> QED
      BY <2>3, <2>4, <3>1
<1>8. \A e \in episodes' : e.fault = "frozen_station" => frozen_payload'[e.station] # 0
  BY <1>1 DEF StatusInv
<1>9. ASSUME NEW k \in suppressed' PROVE EpisodeLogged("silent_station", truth[k])'
  <2>1. CASE k \in suppressed
    <3>1. PICK t : t = truth[k]
      OBVIOUS
    <3>2. EpisodeLogged("silent_station", t)' /\ k \in 1..m
      BY <1>1, <1>2, <1>4, <2>1, <3>1 DEF StatusInv, FaultTyped
    <3>3. truth'[k] = t
      BY <1>3, <3>1, <3>2
    <3> QED
      BY <3>2, <3>3 DEF EpisodeLogged
  <2>2. CASE k = n /\ EpisodeLogged("silent_station", kind)
    <3>1. EpisodeLogged("silent_station", kind)'
      BY <1>4, <2>2
    <3> QED
      BY <1>3, <2>2, <3>1 DEF EpisodeLogged
  <2> QED
    BY <2>1, <2>2
<1>10. StatusInv'
  BY <1>3, <1>7, <1>8, <1>9 DEF StatusInv
<1>11. BacklogInv'
  BY <1>1 DEF BacklogInv, StallActive, Active
<1> QED
  BY <1>3, <1>6, <1>10, <1>11

LEMMA SuppressStatusStep ==
  ASSUME FaultInv, NEW kind \in Kinds, phase = "events", Len(truth) < MaxEvents,
         SuppressStatus(kind)
  PROVE  FaultInv'
<1>1. /\ FaultTyped /\ CopiesTyped /\ EpisodesInv /\ StatusInv /\ CopiesInv
      /\ OrderInv /\ BacklogInv /\ Conserved
  BY DEF FaultInv
<1>2. PICK m \in Nat, a \in Nat : m = Len(truth) /\ a = Len(log_entries)
  BY <1>1, LenProperties DEF FaultTyped
<1>3. PICK n \in Nat : n = m + 1
  OBVIOUS
<1>4. /\ truth' = Append(truth, kind) /\ truth' \in Seq(Kinds) /\ Len(truth') = n
      /\ \A k \in 1..m : truth'[k] = truth[k]
      /\ suppressed' = suppressed \cup {n}
      /\ UNCHANGED <<phase, forced, episodes, tried, delayed, stall_buffer, last_status,
                     frozen_payload, flushed, out, emitted, log_entries, faults>>
  BY <1>1, <1>2, <1>3, AppendProperties DEF SuppressStatus, FaultTyped
<1>5. RecordGrows
  <2>1. \A i \in 1..a : ~(i > a)
    OBVIOUS
  <2> QED
    BY <1>2, <1>3, <1>4, <2>1 DEF RecordGrows
<1>6. FaultTyped'
  <2>1. suppressed' \subseteq 1..n
    <3>1. suppressed \subseteq 1..m /\ 1..m \subseteq 1..n /\ n \in 1..n
      BY <1>1, <1>2, <1>3 DEF FaultTyped
    <3> QED
      BY <1>4, <3>1
  <2>2. n <= MaxEvents
    BY <1>2, <1>3, FaultLayerAssumption
  <2> QED
    BY <1>1, <1>4, <2>1, <2>2 DEF FaultTyped
<1>7. EpisodeLogged("silent_station", kind)
  <2>1. PICK e \in episodes : e.fault = "silent_station" /\ e.station = kind
    BY DEF SuppressStatus, Silenced, Active
  <2> QED
    BY <1>1, <2>1 DEF EpisodesInv, EpisodeLogged
<1>8. \A i \in 1..Len(log_entries) : log_entries[i].event <= n
  <2>1. \A i \in 1..a : log_entries[i] \in LogEntries
    BY <1>1, <1>2, ElementOfSeq DEF FaultTyped
  <2>2. \A i \in 1..a : log_entries[i].event \in Nat /\ log_entries[i].event <= m
    BY <1>1, <1>2, <2>1 DEF LogEntries, StatusInv
  <2>3. \A k \in Nat : k <= m => k <= n
    BY <1>3
  <2> QED
    BY <1>2, <2>2, <2>3
<1>9. EpisodesInv' /\ StatusInv' /\ BacklogInv'
  BY <1>2, <1>3, <1>4, <1>5, <1>6, <1>7, <1>8, EventHappens
<1>10. CopiesTyped' /\ CopiesInv' /\ OrderInv' /\ \A k : Around(k)' = Around(k)
  BY <1>1, <1>4, <1>5, <1>6, RestStands
<1>11. Conserved'
  <2>1. ASSUME NEW k \in 1..m PROVE Around(k)' = Expected(k)'
    <3>1. k \in suppressed' <=> k \in suppressed
      BY <1>3, <1>4
    <3>2. Expected(k)' = Expected(k)
      <4>1. \A i \in 1..Len(truth) : i \in suppressed' <=> i \in suppressed
        BY <1>2, <1>3, <1>4
      <4> QED
        BY <1>1, <1>2, <1>5, <1>6, <4>1, ExpectedStands
    <3>3. Around(k) = Expected(k)
      BY <1>1, <1>2 DEF Conserved
    <3> QED
      BY <1>10, <3>2, <3>3
  <2>2. Around(n)' = Expected(n)'
    <3>1. Around(n)' = 0
      BY <1>1, <1>2, <1>3, <1>10, NotYet
    <3>2. Expected(n)' = 0
      BY <1>4 DEF Expected
    <3> QED
      BY <3>1, <3>2
  <2>3. \A k \in 1..n : k \in 1..m \/ k = n
    BY <1>3
  <2> QED
    BY <1>4, <2>1, <2>2, <2>3 DEF Conserved
<1> QED
  BY <1>6, <1>9, <1>10, <1>11 DEF FaultInv

LEMMA DropTripStep ==
  ASSUME FaultInv, NEW kind \in Kinds, phase = "events", Len(truth) < MaxEvents, DropTrip(kind)
  PROVE  FaultInv'
<1>1. /\ FaultTyped /\ CopiesTyped /\ EpisodesInv /\ StatusInv /\ CopiesInv
      /\ OrderInv /\ BacklogInv /\ Conserved
  BY DEF FaultInv
<1>2. PICK m \in Nat, n \in Nat : m = Len(truth) /\ n = m + 1
  BY <1>1, LenProperties DEF FaultTyped
<1>3. /\ truth' = Append(truth, kind) /\ truth' \in Seq(Kinds) /\ Len(truth') = n
      /\ UNCHANGED <<phase, episodes, tried, delayed, stall_buffer, last_status, frozen_payload,
                     flushed, out, emitted, suppressed>>
  BY <1>1, <1>2, AppendProperties DEF DropTrip, FaultTyped
<1>4. /\ RecordGrows /\ log_entries' \in Seq(LogEntries)
      /\ faults' \in 0..MaxFaults
      /\ forced' \in [Faults -> {{}} \cup {{s} : s \in Stations \cup {None}}]
      /\ \A f : Logged(f, n)' <=> f \in {"orphan_trip"}
      /\ \A i \in 1..Len(log_entries') : log_entries'[i].event <= n
  <2>1. {"orphan_trip"} \in SUBSET Eligible(kind) /\ Inject({"orphan_trip"}, n)
    BY <1>2 DEF DropTrip
  <2> QED
    BY <1>1, <1>2, <1>3, <2>1, InjectRecords
<1>5. FaultTyped'
  <2>1. suppressed' \subseteq 1..n
    <3>1. suppressed' \subseteq 1..m /\ 1..m \subseteq 1..n
      BY <1>1, <1>2, <1>3 DEF FaultTyped
    <3> QED
      BY <3>1
  <2>2. n <= MaxEvents
    BY <1>2, FaultLayerAssumption
  <2> QED
    BY <1>1, <1>3, <1>4, <2>1, <2>2 DEF FaultTyped
<1>6. EpisodesInv' /\ StatusInv' /\ BacklogInv'
  BY <1>2, <1>3, <1>4, <1>5, EventHappens
<1>7. CopiesTyped' /\ CopiesInv' /\ OrderInv' /\ \A k : Around(k)' = Around(k)
  BY <1>1, <1>3, <1>4, <1>5, RestStands
<1>8. Conserved'
  <2>1. ASSUME NEW k \in 1..m PROVE Around(k)' = Expected(k)'
    <3>1. Expected(k)' = Expected(k)
      BY <1>1, <1>2, <1>3, <1>4, <1>5, ExpectedStands
    <3>2. Around(k) = Expected(k)
      BY <1>1, <1>2 DEF Conserved
    <3> QED
      BY <1>7, <3>1, <3>2
  <2>2. Around(n)' = Expected(n)'
    <3>1. Around(n)' = 0
      BY <1>1, <1>2, <1>7, NotYet
    <3>2. Logged("orphan_trip", n)'
      BY <1>4
    <3>3. Expected(n)' = 0
      BY <3>2 DEF Expected
    <3> QED
      BY <3>1, <3>3
  <2>3. \A k \in 1..n : k \in 1..m \/ k = n
    BY <1>2
  <2> QED
    BY <1>3, <2>1, <2>2, <2>3 DEF Conserved
<1> QED
  BY <1>5, <1>6, <1>7, <1>8 DEF FaultInv

(* The copy of an event that is passed on carries what the log says of it. *)
LEMMA PassedCopy ==
  ASSUME FaultTyped, FaultTyped', EpisodesInv, StatusInv, RecordGrows, NEW kind \in Kinds,
         NEW n, n = Len(truth) + 1, truth' = Append(truth, kind), Len(truth) < MaxEvents,
         NEW h, \A f : Logged(f, n)' <=> f \in h,
         NEW c, c = Copy(n, Shows(kind, n), h \cap MarkFaults)
  PROVE  c \in Copies /\ c.event = n /\ AsLogged(c)'
<1>1. PICK m \in Nat : m = Len(truth) /\ n = m + 1 /\ n \in 1..MaxEvents
  BY LenProperties, FaultLayerAssumption DEF FaultTyped
<1>2. Len(truth') = n /\ truth'[n] = kind /\ \A k \in 1..m : truth'[k] = truth[k]
  BY <1>1, AppendProperties DEF FaultTyped
<1>3. PICK p : p = Shows(kind, n)
  OBVIOUS
<1>4. ASSUME p # n
      PROVE  /\ p \in 1..MaxEvents /\ p < n /\ truth'[p] = kind
             /\ EpisodeLogged("frozen_station", kind)'
  <2>1. Frozen(kind) /\ p = frozen_payload[kind] /\ kind \in Stations
    BY <1>3, <1>4 DEF Shows, Frozen
  <2>2. PICK e \in episodes : e.fault = "frozen_station" /\ e.station = kind
    BY <2>1 DEF Frozen, Active
  <2>3. p # 0 /\ p \in 0..MaxEvents
    BY <2>1, <2>2 DEF StatusInv, FaultTyped
  <2>4. p <= m /\ truth[p] = kind /\ EpisodeLogged("frozen_station", kind)
    BY <1>1, <2>1, <2>3 DEF StatusInv, StatusOf
  <2>5. p \in 1..m /\ p < n /\ p \in 1..MaxEvents
    BY <1>1, <2>3, <2>4, FaultLayerAssumption
  <2>6. EpisodeLogged("frozen_station", kind)'
    BY <2>4, RecordStands
  <2> QED
    BY <1>2, <2>4, <2>5, <2>6
<1>5. /\ c.event = n /\ c.shows = p /\ c.marks = h \cap MarkFaults
      /\ c = [event |-> n, shows |-> p, marks |-> h \cap MarkFaults]
  BY <1>3 DEF Copy
<1>6. c \in Copies
  BY <1>1, <1>4, <1>5 DEF Copies
<1>7. c.marks = {f \in MarkFaults : Logged(f, n)'}
  BY <1>5
<1>8. AsLogged(c)'
  <2>1. c.event <= Len(truth')
    BY <1>1, <1>2, <1>5
  <2>2. c.marks = {f \in MarkFaults : Logged(f, c.event)}'
    BY <1>5, <1>7
  <2>3. c.shows # c.event =>
          /\ c.shows < c.event /\ truth'[c.shows] = truth'[c.event]
          /\ EpisodeLogged("frozen_station", truth[c.event])'
    BY <1>2, <1>4, <1>5 DEF EpisodeLogged
  <2> QED
    BY <2>1, <2>2, <2>3 DEF AsLogged
<1> QED
  BY <1>5, <1>6, <1>8

(* The new event's copy comes after everything there is of the old ones. *)
LEMMA PassOrder ==
  ASSUME FaultTyped, FaultTyped', CopiesTyped, CopiesInv, OrderInv, RecordGrows,
         NEW c \in Copies, c.event = Len(truth) + 1, AsLogged(c)',
         out' = out \/ out' = Append(out, c),
         UNCHANGED <<flushed, stall_buffer, emitted>>
  PROVE  /\ OrderInv' /\ out' \in Seq(Copies)
         /\ AllAsLogged(emitted)' /\ AllAsLogged(flushed)'
         /\ AllAsLogged(out)' /\ AllAsLogged(stall_buffer)'
<1>1. PICK m \in Nat, n \in Nat : m = Len(truth) /\ n = m + 1 /\ c.event = n
  BY LenProperties DEF FaultTyped
<1>2. /\ emitted \in Seq(Copies) /\ flushed \in Seq(Copies)
      /\ out \in Seq(Copies) /\ stall_buffer \in Seq(Copies)
  BY DEF CopiesTyped
<1>3. out' \in Seq(Copies)
  BY <1>2, CountAppend
<1>4. PICK r \in Seq(Copies), b \in Nat, l \in Nat : r = out' /\ b = Len(out) /\ l = Len(r)
  BY <1>2, <1>3, LenProperties
<1>5. /\ l = b \/ l = b + 1
      /\ \A i \in 1..l : (i \in 1..b /\ r[i] = out[i]) \/ (i = l /\ l = b + 1 /\ r[i] = c)
  <2>1. CASE out' = out
    BY <1>4, <2>1
  <2>2. CASE out' = Append(out, c)
    <3>1. l = b + 1 /\ r[b + 1] = c /\ \A i \in 1..b : r[i] = out[i]
      BY <1>2, <1>4, <2>2, AppendProperties
    <3>2. \A i \in 1..l : i \in 1..b \/ i = b + 1
      BY <3>1
    <3> QED
      BY <3>1, <3>2
  <2> QED
    BY <2>1, <2>2
<1>6. ASSUME NEW q \in Seq(Copies), AllAsLogged(q), NEW i \in 1..Len(q)
      PROVE  /\ q[i].event \in Nat /\ q[i].event < n
             /\ AsLogged(q[i])' /\ (Punctual(q[i].event)' <=> Punctual(q[i].event))
  <2>1. q[i] \in Copies /\ AsLogged(q[i])
    BY <1>6, ElementOfSeq DEF AllAsLogged
  <2>2. q[i].event \in Nat /\ q[i].event <= m
    BY <1>1, <2>1 DEF AsLogged, Copies
  <2>3. q[i].event < n
    BY <1>1, <2>2
  <2> QED
    BY <1>6, <2>2, <2>3, CopiesStand
<1>7. /\ AllAsLogged(emitted) /\ AllAsLogged(flushed) /\ AllAsLogged(out) /\ AllAsLogged(stall_buffer)
  BY DEF CopiesInv
<1>8. /\ AllAsLogged(emitted)' /\ AllAsLogged(flushed)' /\ AllAsLogged(stall_buffer)'
  BY <1>2, <1>6, <1>7 DEF AllAsLogged
<1>9. AllAsLogged(out)'
  <2>1. \A i \in 1..l : AsLogged(r[i])'
    BY <1>2, <1>4, <1>5, <1>6, <1>7
  <2> QED
    BY <1>4, <2>1 DEF AllAsLogged
<1>10. InOrder(emitted)' /\ InOrder(flushed)' /\ InOrder(stall_buffer)'
  BY <1>2, <1>7, OrderStands DEF OrderInv, InOrder
<1>11. Before(emitted, flushed)' /\ Before(emitted, stall_buffer)'
  BY <1>2, <1>7, OrderStands DEF OrderInv, Before
<1>12. InOrder(out)'
  <2>1. ASSUME NEW i \in 1..l, NEW j \in 1..l, i < j, Punctual(r[i].event)', Punctual(r[j].event)'
        PROVE  r[i].event < r[j].event
    <3>1. i \in 1..b /\ r[i] = out[i]
      BY <1>5, <2>1
    <3>2. ASSUME NEW k \in 1..b, r[k] = out[k]
          PROVE  /\ out[k].event \in Nat /\ out[k].event < n
                 /\ Punctual(r[k].event)' <=> Punctual(out[k].event)
      <4>1. PICK q : q = out
        OBVIOUS
      <4>2. /\ q[k].event \in Nat /\ q[k].event < n
            /\ Punctual(q[k].event)' <=> Punctual(q[k].event)
        BY <1>2, <1>4, <1>6, <1>7, <4>1 DEF AllAsLogged
      <4> QED
        BY <3>2, <4>1, <4>2
    <3>3. CASE r[j] = c
      BY <1>1, <3>1, <3>2, <3>3
    <3>4. CASE j \in 1..b /\ r[j] = out[j]
      <4>1. Punctual(out[i].event) /\ Punctual(out[j].event)
        BY <2>1, <3>1, <3>2, <3>4
      <4> QED
        BY <1>4, <2>1, <3>1, <3>4, <4>1 DEF OrderInv, InOrder
    <3> QED
      BY <1>5, <3>3, <3>4
  <2> QED
    BY <1>4, <2>1 DEF InOrder
<1>13. ASSUME NEW q \in Seq(Copies), AllAsLogged(q), Before(q, out)
       PROVE  \A i \in 1..Len(q), j \in 1..l :
                Punctual(q[i].event)' /\ Punctual(r[j].event)' => q[i].event < r[j].event
  <2> SUFFICES ASSUME NEW i \in 1..Len(q), NEW j \in 1..l,
                      Punctual(q[i].event)', Punctual(r[j].event)'
               PROVE  q[i].event < r[j].event
    OBVIOUS
  <2>1. q[i].event < n /\ Punctual(q[i].event)
    BY <1>6, <1>13
  <2>2. CASE r[j] = c
    BY <1>1, <2>1, <2>2
  <2>3. CASE j \in 1..b /\ r[j] = out[j]
    <3>1. Punctual(out[j].event)
      BY <1>2, <1>4, <1>6, <1>7, <2>3
    <3> QED
      BY <1>4, <1>13, <2>1, <2>3, <3>1 DEF Before
  <2> QED
    BY <1>5, <2>2, <2>3
<1>14. Before(emitted, out)' /\ Before(flushed, out)' /\ Before(stall_buffer, out)'
  <2>1. Before(emitted, out) /\ Before(flushed, out) /\ Before(stall_buffer, out)
    BY DEF OrderInv
  <2>2. Before(emitted, out)'
    BY <1>2, <1>4, <1>7, <1>13, <2>1 DEF Before
  <2>3. Before(flushed, out)'
    BY <1>2, <1>4, <1>7, <1>13, <2>1 DEF Before
  <2>4. Before(stall_buffer, out)'
    BY <1>2, <1>4, <1>7, <1>13, <2>1 DEF Before
  <2> QED
    BY <2>2, <2>3, <2>4
<1> QED
  BY <1>3, <1>8, <1>9, <1>10, <1>11, <1>12, <1>14 DEF OrderInv

(* What of an event is held back, and the held copies of an event. *)
HeldOver(held, c, n, h, dup_steps, late_steps) ==
  held \cup (IF "duplicate" \in h THEN {Held(c, 2 * n, dup_steps)} ELSE {})
       \cup (IF "late_event" \in h THEN {Held(c, 2 * n + 1, late_steps)} ELSE {})
HeldOf(held, k) == {x \in held : x.copy.event = k}

(* What is held back of it: one copy for a duplicate, one for a late event. *)
LEMMA PassHeld ==
  ASSUME NEW held \in SUBSET [copy : Copies, counter : Nat, release_in : 0..(MaxDelay + 1)],
         IsFiniteSet(held), NEW c \in Copies, NEW n \in Nat, c.event = n, NEW h,
         NEW dup_steps \in 0..MaxDelay, NEW late_steps \in 0..MaxDelay,
         HeldOf(held, n) = {}
  PROVE  LET grown == HeldOver(held, c, n, h, dup_steps, late_steps)
         IN  /\ grown \subseteq [copy : Copies, counter : Nat, release_in : 0..(MaxDelay + 1)]
             /\ IsFiniteSet(grown)
             /\ \A x \in grown :
                  x \in held \/ (x.copy = c /\ ("duplicate" \in h \/ "late_event" \in h))
             /\ Cardinality(HeldOf(grown, n)) =
                  (IF "duplicate" \in h THEN 1 ELSE 0) + (IF "late_event" \in h THEN 1 ELSE 0)
             /\ \A k : k # n => HeldOf(grown, k) = HeldOf(held, k)
<1>0. PICK grown : grown = HeldOver(held, c, n, h, dup_steps, late_steps)
  OBVIOUS
<1>1. PICK u, v : u = Held(c, 2 * n, dup_steps) /\ v = Held(c, 2 * n + 1, late_steps)
  OBVIOUS
<1>2. /\ u = [copy |-> c, counter |-> 2 * n, release_in |-> dup_steps + 1]
      /\ v = [copy |-> c, counter |-> 2 * n + 1, release_in |-> late_steps + 1]
  BY <1>1 DEF Held
<1>3. u # v /\ u.copy = c /\ v.copy = c
  <2>1. u.counter # v.counter
    BY <1>2
  <2> QED
    BY <1>2, <2>1
<1>4. u \in [copy : Copies, counter : Nat, release_in : 0..(MaxDelay + 1)]
  BY <1>2, FaultLayerAssumption
<1>5. v \in [copy : Copies, counter : Nat, release_in : 0..(MaxDelay + 1)]
  BY <1>2, FaultLayerAssumption
<1> DEFINE U == IF "duplicate" \in h THEN {u} ELSE {}
           V == IF "late_event" \in h THEN {v} ELSE {}
<1>6. grown = held \cup (U \cup V)
  BY <1>0, <1>1 DEF HeldOver
<1>7. IsFiniteSet(U) /\ IsFiniteSet(V) /\ IsFiniteSet(U \cup V)
  <2>1. IsFiniteSet(U) /\ IsFiniteSet(V)
    BY FS_EmptySet, FS_Singleton
  <2> QED
    BY <2>1, FS_Union
<1>8. Cardinality(U \cup V) =
        (IF "duplicate" \in h THEN 1 ELSE 0) + (IF "late_event" \in h THEN 1 ELSE 0)
  <2>1. U \cap V = {}
    BY <1>3
  <2>2. /\ Cardinality(U) = IF "duplicate" \in h THEN 1 ELSE 0
        /\ Cardinality(V) = IF "late_event" \in h THEN 1 ELSE 0
    BY FS_EmptySet, FS_Singleton
  <2>3. Cardinality(U \cap V) = 0
    BY <2>1, FS_EmptySet
  <2> HIDE DEF U, V
  <2>4. Cardinality(U \cup V) = Cardinality(U) + Cardinality(V) - Cardinality(U \cap V)
    BY <1>7, FS_Union
  <2> QED
    BY <2>2, <2>3, <2>4
<1>9. \A x \in U \cup V :
        x.copy = c /\ x.copy.event = n /\ ("duplicate" \in h \/ "late_event" \in h)
  BY <1>3
<1>10. HeldOf(grown, n) = U \cup V
  <2> HIDE DEF U, V
  <2> QED
    BY <1>6, <1>9 DEF HeldOf
<1>11. \A k : k # n => HeldOf(grown, k) = HeldOf(held, k)
  <2> HIDE DEF U, V
  <2> QED
    BY <1>6, <1>9 DEF HeldOf
<1>12. IsFiniteSet(grown)
  <2> HIDE DEF U, V
  <2>1. IsFiniteSet(held) /\ IsFiniteSet(U \cup V)
    BY <1>7
  <2>2. IsFiniteSet(held \cup (U \cup V))
    BY <2>1, FS_Union
  <2> QED
    BY <1>6, <2>2
<1>13. grown \subseteq [copy : Copies, counter : Nat, release_in : 0..(MaxDelay + 1)]
  BY <1>4, <1>5, <1>6
<1>14. \A x \in grown :
         x \in held \/ (x.copy = c /\ ("duplicate" \in h \/ "late_event" \in h))
  <2> HIDE DEF U, V
  <2> QED
    BY <1>6, <1>9
<1> QED
  BY <1>0, <1>8, <1>10, <1>11, <1>12, <1>13, <1>14

LEMMA PassEventStep ==
  ASSUME FaultInv, NEW kind \in Kinds, phase = "events", Len(truth) < MaxEvents,
         NEW h \in Hits(kind),
         NEW dup_steps \in 0..MaxDelay, NEW late_steps \in 0..MaxDelay,
         PassEvent(kind, h, dup_steps, late_steps)
  PROVE  FaultInv'
<1>1. /\ FaultTyped /\ CopiesTyped /\ EpisodesInv /\ StatusInv /\ CopiesInv
      /\ OrderInv /\ BacklogInv /\ Conserved
  BY DEF FaultInv
<1>2. PICK m \in Nat, n \in Nat : m = Len(truth) /\ n = m + 1
  BY <1>1, LenProperties DEF FaultTyped
<1>3. PICK c : c = Copy(n, Shows(kind, n), h \cap MarkFaults)
  OBVIOUS
<1>4. /\ truth' = Append(truth, kind) /\ truth' \in Seq(Kinds) /\ Len(truth') = n
      /\ UNCHANGED <<phase, episodes, tried, stall_buffer, frozen_payload, flushed, emitted,
                     suppressed>>
      /\ last_status' = LatestStatus(kind, n) /\ Inject(h, n) /\ "orphan_trip" \notin h
      /\ out' = IF "late_event" \in h THEN out ELSE Append(out, c)
      /\ delayed' = delayed \cup (IF "duplicate" \in h THEN {Held(c, 2 * n, dup_steps)} ELSE {})
                      \cup (IF "late_event" \in h THEN {Held(c, 2 * n + 1, late_steps)} ELSE {})
  BY <1>1, <1>2, <1>3, AppendProperties DEF PassEvent, FaultTyped
<1>5. /\ RecordGrows /\ log_entries' \in Seq(LogEntries)
      /\ faults' \in 0..MaxFaults
      /\ forced' \in [Faults -> {{}} \cup {{s} : s \in Stations \cup {None}}]
      /\ \A f : Logged(f, n)' <=> f \in h
      /\ \A i \in 1..Len(log_entries') : log_entries'[i].event <= n
  <2>1. h \in SUBSET Eligible(kind)
    BY DEF Hits
  <2> QED
    BY <1>1, <1>2, <1>4, <2>1, InjectRecords
<1>6. /\ \/ last_status' = last_status
         \/ kind \in Stations /\ last_status' = [last_status EXCEPT ![kind] = n]
      /\ n \in 1..MaxEvents
  BY <1>2, <1>4, FaultLayerAssumption DEF LatestStatus
<1>7. FaultTyped'
  <2>1. suppressed' \subseteq 1..n
    <3>1. suppressed' \subseteq 1..m /\ 1..m \subseteq 1..n
      BY <1>1, <1>2, <1>4 DEF FaultTyped
    <3> QED
      BY <3>1
  <2>2. last_status' \in [Stations -> 0..MaxEvents]
    <3>1. last_status \in [Stations -> 0..MaxEvents] /\ n \in 0..MaxEvents
      BY <1>1, <1>6 DEF FaultTyped
    <3>2. ASSUME kind \in Stations, last_status' = [last_status EXCEPT ![kind] = n]
          PROVE  last_status' \in [Stations -> 0..MaxEvents]
      BY <3>1, <3>2
    <3> QED
      BY <1>6, <3>1, <3>2
  <2>3. n <= MaxEvents
    BY <1>6
  <2>4. /\ phase' \in {"idle", "episodes", "events", "dead"} /\ tried' \subseteq EpisodeFaults
        /\ truth' \in Seq(Kinds) /\ Len(truth') = n
        /\ frozen_payload' \in [Stations -> 0..MaxEvents]
    BY <1>1, <1>4 DEF FaultTyped
  <2> QED
    BY <1>5, <2>1, <2>2, <2>3, <2>4 DEF FaultTyped
<1>8. EpisodesInv' /\ StatusInv' /\ BacklogInv'
  BY <1>2, <1>4, <1>5, <1>6, <1>7, EventHappens
<1>9. c \in Copies /\ c.event = n /\ AsLogged(c)'
  <2>1. truth' = Append(truth, kind) /\ RecordGrows /\ n = Len(truth) + 1
    BY <1>2, <1>4, <1>5
  <2>2. \A f : Logged(f, n)' <=> f \in h
    BY <1>5
  <2> QED
    BY <1>1, <1>3, <1>7, <2>1, <2>2, PassedCopy
<1>10. /\ OrderInv' /\ out' \in Seq(Copies)
       /\ AllAsLogged(emitted)' /\ AllAsLogged(flushed)'
       /\ AllAsLogged(out)' /\ AllAsLogged(stall_buffer)'
  BY <1>1, <1>2, <1>4, <1>5, <1>7, <1>9, PassOrder
<1>11. /\ {x \in delayed : x.copy.event = n} = {}
       /\ Count(emitted, n) = 0 /\ Count(flushed, n) = 0
       /\ Count(out, n) = 0 /\ Count(stall_buffer, n) = 0
  BY <1>1, <1>2, NotYet
<1>12. /\ delayed' \subseteq [copy : Copies, counter : Nat, release_in : 0..(MaxDelay + 1)]
       /\ IsFiniteSet(delayed')
       /\ \A x \in delayed' :
            x \in delayed \/ (x.copy = c /\ ("duplicate" \in h \/ "late_event" \in h))
       /\ Cardinality(HeldOf(delayed', n)) =
            (IF "duplicate" \in h THEN 1 ELSE 0) + (IF "late_event" \in h THEN 1 ELSE 0)
       /\ \A k : k # n => HeldOf(delayed', k) = HeldOf(delayed, k)
  <2>1. HeldOf(delayed, n) = {}
    BY <1>11 DEF HeldOf
  <2>2. delayed' = HeldOver(delayed, c, n, h, dup_steps, late_steps)
    BY <1>4 DEF HeldOver
  <2>3. /\ c \in Copies /\ c.event = n /\ IsFiniteSet(delayed)
        /\ delayed \in SUBSET [copy : Copies, counter : Nat, release_in : 0..(MaxDelay + 1)]
    BY <1>1, <1>9 DEF CopiesTyped
  <2>4. PICK grown : grown = HeldOver(delayed, c, n, h, dup_steps, late_steps)
    OBVIOUS
  <2>5. /\ grown \subseteq [copy : Copies, counter : Nat, release_in : 0..(MaxDelay + 1)]
        /\ IsFiniteSet(grown)
        /\ \A x \in grown :
             x \in delayed \/ (x.copy = c /\ ("duplicate" \in h \/ "late_event" \in h))
        /\ Cardinality(HeldOf(grown, n)) =
             (IF "duplicate" \in h THEN 1 ELSE 0) + (IF "late_event" \in h THEN 1 ELSE 0)
        /\ \A k : k # n => HeldOf(grown, k) = HeldOf(delayed, k)
    BY <2>1, <2>3, <2>4, PassHeld
  <2> QED
    BY <2>2, <2>4, <2>5
<1>13. CopiesTyped'
  BY <1>1, <1>4, <1>10, <1>12 DEF CopiesTyped
<1>14. CopiesInv'
  <2>1. ASSUME NEW x \in delayed' PROVE AsLogged(x.copy)' /\ ~Punctual(x.copy.event)'
    <3>1. CASE x \in delayed
      <4>1. x.copy \in Copies /\ AsLogged(x.copy) /\ ~Punctual(x.copy.event)
        BY <1>1, <3>1 DEF CopiesTyped, CopiesInv
      <4>2. x.copy.event \in 1..Len(truth)
        BY <1>2, <4>1 DEF AsLogged, Copies
      <4> QED
        BY <1>1, <1>5, <1>7, <4>1, <4>2, RecordStands
    <3>2. CASE x.copy = c /\ ("duplicate" \in h \/ "late_event" \in h)
      <4>1. ~Punctual(n)'
        BY <1>5, <3>2 DEF Punctual
      <4> QED
        BY <1>9, <3>2, <4>1
    <3> QED
      BY <1>12, <3>1, <3>2
  <2> QED
    BY <1>10, <2>1 DEF CopiesInv
<1>15. ASSUME NEW k
       PROVE  Count(out', k) = Count(out, k) + (IF "late_event" \notin h /\ k = n THEN 1 ELSE 0)
  <2>1. Count(Append(out, c), k) = Count(out, k) + IF k = n THEN 1 ELSE 0
    BY <1>1, <1>9, CountAppend DEF CopiesTyped
  <2>2. Count(out, k) \in Nat
    BY <1>1, CountType DEF CopiesTyped
  <2> QED
    BY <1>4, <2>1, <2>2
<1>16. Conserved'
  <2>1. ASSUME NEW k \in 1..m PROVE Around(k)' = Expected(k)'
    <3>1. Expected(k)' = Expected(k)
      BY <1>1, <1>2, <1>4, <1>5, <1>7, ExpectedStands
    <3>2. Around(k) = Expected(k)
      BY <1>1, <1>2 DEF Conserved
    <3>3. k # n
      BY <1>2
    <3>4. Count(out', k) = Count(out, k)
      <4>1. Count(out, k) \in Nat
        BY <1>1, CountType DEF CopiesTyped
      <4> QED
        BY <1>15, <3>3, <4>1
    <3>5. {x \in delayed' : x.copy.event = k} = {x \in delayed : x.copy.event = k}
      BY <1>12, <3>3 DEF HeldOf
    <3>6. Around(k)' = Around(k)
      BY <1>4, <3>4, <3>5 DEF Around, Count
    <3> QED
      BY <3>1, <3>2, <3>6
  <2>2. Around(n)' = Expected(n)'
    <3>1. Count(out', n) = IF "late_event" \notin h THEN 1 ELSE 0
      BY <1>11, <1>15
    <3>2. /\ Count(emitted', n) = 0 /\ Count(flushed', n) = 0 /\ Count(stall_buffer', n) = 0
      BY <1>4, <1>11
    <3>3. Around(n)' = 0 + 0 + (IF "late_event" \notin h THEN 1 ELSE 0) + 0
            + ((IF "duplicate" \in h THEN 1 ELSE 0) + (IF "late_event" \in h THEN 1 ELSE 0))
      BY <1>12, <3>1, <3>2 DEF Around, Count, HeldOf
    <3>4. n \notin suppressed'
      BY <1>1, <1>2, <1>4 DEF FaultTyped
    <3>5. Expected(n)' = IF "duplicate" \in h THEN 2 ELSE 1
      BY <1>4, <1>5, <3>4 DEF Expected
    <3> QED
      BY <3>3, <3>5
  <2>3. \A k \in 1..n : k \in 1..m \/ k = n
    BY <1>2
  <2> QED
    BY <1>4, <2>1, <2>2, <2>3 DEF Conserved
<1> QED
  BY <1>7, <1>8, <1>10, <1>13, <1>14, <1>16 DEF FaultInv

LEMMA TakeStep ==
  ASSUME FaultInv, NEW kind \in Kinds, Step(kind)
  PROVE  FaultInv'
<1>1. phase = "events" /\ Len(truth) < MaxEvents
  BY DEF Step
<1>2. CASE SuppressStatus(kind)
  BY <1>1, <1>2, SuppressStatusStep
<1>3. CASE DropTrip(kind)
  BY <1>1, <1>3, DropTripStep
<1>4. ASSUME NEW h \in Hits(kind),
             NEW dup_steps \in IF "duplicate" \in h THEN 0..(MaxDelay - 1) ELSE {0},
             NEW late_steps \in IF "late_event" \in h THEN 1..MaxDelay ELSE {0},
             PassEvent(kind, h, dup_steps, late_steps)
      PROVE  FaultInv'
  <2>1. dup_steps \in 0..MaxDelay /\ late_steps \in 0..MaxDelay
    BY FaultLayerAssumption
  <2> QED
    BY <1>1, <1>4, <2>1, PassEventStep
<1> QED
  BY <1>2, <1>3, <1>4 DEF Step

-----------------------------------------------------------------------------
(* The end of the step.                                                    *)

LEMMA HeldOfType ==
  ASSUME NEW held, IsFiniteSet(held), NEW k
  PROVE  IsFiniteSet(HeldOf(held, k)) /\ Cardinality(HeldOf(held, k)) \in Nat
<1>1. HeldOf(held, k) \subseteq held
  BY DEF HeldOf
<1> QED
  BY <1>1, FS_Subset, FS_CardinalityType

(* The copies that are not due are held on, a step less. *)
LEMMA HeldOn ==
  ASSUME CopiesTyped, delayed' = {[x EXCEPT !.release_in = @ - 1] : x \in delayed \ Due}
  PROVE  /\ delayed' \subseteq [copy : Copies, counter : Nat, release_in : 0..(MaxDelay + 1)]
         /\ IsFiniteSet(delayed')
         /\ \A x \in delayed' : \E y \in delayed : x.copy = y.copy
         /\ \A k : Cardinality(HeldOf(delayed, k))
                     = Cardinality(HeldOf(Due, k)) + Cardinality(HeldOf(delayed', k))
<1> DEFINE rest == delayed \ Due
           f == [x \in rest |-> [copy |-> x.copy, counter |-> x.counter,
                                 release_in |-> x.release_in - 1]]
<1>1. /\ delayed \subseteq [copy : Copies, counter : Nat, release_in : 0..(MaxDelay + 1)]
      /\ IsFiniteSet(delayed)
  BY DEF CopiesTyped
<1>2. IsFiniteSet(rest) /\ IsFiniteSet(Due)
  BY <1>1, FS_Subset DEF Due
<1>3. ASSUME NEW x \in rest
      PROVE  /\ x = [copy |-> x.copy, counter |-> x.counter, release_in |-> x.release_in]
             /\ x.copy \in Copies /\ x.counter \in Nat /\ x.release_in \in 1..(MaxDelay + 1)
  <2>1. /\ x = [copy |-> x.copy, counter |-> x.counter, release_in |-> x.release_in]
        /\ x.copy \in Copies /\ x.counter \in Nat /\ x.release_in \in 0..(MaxDelay + 1)
    BY <1>1
  <2>2. x.release_in # 0
    BY DEF Due
  <2>3. x.release_in \in 1..(MaxDelay + 1)
    BY <2>1, <2>2, FaultLayerAssumption
  <2> QED
    BY <2>1, <2>3
<1>4. \A x \in rest : f[x] = [x EXCEPT !.release_in = @ - 1]
  <2> SUFFICES ASSUME NEW x \in rest PROVE f[x] = [x EXCEPT !.release_in = @ - 1]
    OBVIOUS
  <2>1. PICK a, b, c : x = [copy |-> a, counter |-> b, release_in |-> c]
    BY <1>3
  <2>2. f[x] = [copy |-> a, counter |-> b, release_in |-> c - 1]
    BY <2>1
  <2>3. [x EXCEPT !.release_in = @ - 1] = [copy |-> a, counter |-> b, release_in |-> c - 1]
    BY <2>1
  <2> QED
    BY <2>2, <2>3
<1>5. delayed' = {f[x] : x \in rest}
  <2> HIDE DEF f
  <2> QED
    BY <1>4
<1>6. \A x \in rest : /\ f[x].copy = x.copy /\ f[x].counter = x.counter
                      /\ f[x].release_in = x.release_in - 1
  OBVIOUS
<1>7. ASSUME NEW x \in rest
      PROVE  f[x] \in [copy : Copies, counter : Nat, release_in : 0..(MaxDelay + 1)]
  <2>1. x.release_in - 1 \in 0..(MaxDelay + 1)
    BY <1>3, FaultLayerAssumption
  <2> QED
    BY <1>3, <2>1
<1>8. ASSUME NEW x \in rest, NEW y \in rest, f[x] = f[y] PROVE x = y
  <2>1. x.copy = y.copy /\ x.counter = y.counter /\ x.release_in - 1 = y.release_in - 1
    BY <1>6, <1>8
  <2>2. x.release_in = y.release_in
    BY <1>3, <2>1
  <2>3. PICK a, b, c : a = x.copy /\ b = x.counter /\ c = x.release_in
    OBVIOUS
  <2>4. /\ x = [copy |-> a, counter |-> b, release_in |-> c]
        /\ y = [copy |-> a, counter |-> b, release_in |-> c]
    BY <1>3, <2>1, <2>2, <2>3
  <2> QED
    BY <2>4
<1> HIDE DEF f
<1>9. ASSUME NEW k
      PROVE  /\ IsFiniteSet(HeldOf(delayed', k))
             /\ Cardinality(HeldOf(delayed', k)) = Cardinality(HeldOf(rest, k))
  <2> DEFINE g == [x \in HeldOf(rest, k) |-> f[x]]
  <2>1. g \in [HeldOf(rest, k) -> HeldOf(delayed', k)] /\ \A x \in HeldOf(rest, k) : g[x] = f[x]
    BY <1>5, <1>6 DEF HeldOf
  <2>2. \A x, y \in HeldOf(rest, k) : g[x] = g[y] => x = y
    BY <1>8, <2>1 DEF HeldOf
  <2>3. ASSUME NEW z \in HeldOf(delayed', k) PROVE \E x \in HeldOf(rest, k) : g[x] = z
    <3>1. PICK x \in rest : z = f[x]
      BY <1>5 DEF HeldOf
    <3>2. x \in HeldOf(rest, k)
      BY <1>6, <3>1 DEF HeldOf
    <3> QED
      BY <2>1, <3>1, <3>2
  <2> HIDE DEF g, rest
  <2>4. g \in Bijection(HeldOf(rest, k), HeldOf(delayed', k))
    BY <2>1, <2>2, <2>3 DEF Bijection, Injection, Surjection, IsInjective
  <2> QED
    BY <1>2, <2>4, HeldOfType, FS_Bijection DEF ExistsBijection
<1>10. IsFiniteSet(delayed')
  <2> DEFINE D == delayed'
  <2>1. f \in Surjection(rest, D)
    <3>1. f \in [rest -> D]
      BY <1>5 DEF f
    <3> QED
      BY <1>5, <3>1 DEF Surjection
  <2> QED
    BY <1>2, <2>1, FS_Surjection
<1>11. ASSUME NEW k
       PROVE  Cardinality(HeldOf(delayed, k))
                = Cardinality(HeldOf(Due, k)) + Cardinality(HeldOf(delayed', k))
  <2>1. HeldOf(delayed, k) = HeldOf(Due, k) \cup HeldOf(rest, k)
    BY DEF HeldOf, Due
  <2>2. HeldOf(Due, k) \cap HeldOf(rest, k) = {}
    BY DEF HeldOf
  <2>3. /\ IsFiniteSet(HeldOf(Due, k)) /\ IsFiniteSet(HeldOf(rest, k))
        /\ Cardinality(HeldOf(Due, k)) \in Nat /\ Cardinality(HeldOf(rest, k)) \in Nat
    BY <1>2, HeldOfType
  <2>4. Cardinality(HeldOf(Due, k) \cap HeldOf(rest, k)) = 0
    BY <2>2, FS_EmptySet
  <2> HIDE DEF rest
  <2>5. Cardinality(HeldOf(delayed, k)) =
          Cardinality(HeldOf(Due, k)) + Cardinality(HeldOf(rest, k))
            - Cardinality(HeldOf(Due, k) \cap HeldOf(rest, k))
    BY <2>1, <2>3, FS_Union
  <2> QED
    BY <1>9, <2>3, <2>4, <2>5
<1>12. delayed' \subseteq [copy : Copies, counter : Nat, release_in : 0..(MaxDelay + 1)]
  BY <1>5, <1>7
<1>13. ASSUME NEW z \in delayed' PROVE \E y \in delayed : z.copy = y.copy
  <2>1. PICK x \in rest : z = f[x]
    BY <1>5
  <2> QED
    BY <1>6, <2>1
<1> HIDE DEF rest
<1> QED
  BY <1>10, <1>11, <1>12, <1>13

(* Sequences of copies, end to end. *)
LEMMA ConcatOrder ==
  ASSUME NEW q \in Seq(Copies), NEW r \in Seq(Copies)
  PROVE  /\ AllAsLogged(q) /\ AllAsLogged(r) => AllAsLogged(q \o r)
         /\ InOrder(q) /\ InOrder(r) /\ Before(q, r) => InOrder(q \o r)
         /\ \A s : Before(q, s) /\ Before(r, s) => Before(q \o r, s)
         /\ \A s : Before(s, q) /\ Before(s, r) => Before(s, q \o r)
<1>1. PICK a \in Nat, b \in Nat : a = Len(q) /\ b = Len(r)
  BY LenProperties
<1>2. PICK w : w = q \o r
  OBVIOUS
<1>3. /\ Len(w) = a + b
      /\ \A i \in 1..(a + b) : w[i] = IF i <= a THEN q[i] ELSE r[i - a]
  BY <1>1, <1>2, ConcatProperties
<1>4. ASSUME NEW i \in 1..(a + b)
      PROVE  (i \in 1..a /\ w[i] = q[i]) \/ (i - a \in 1..b /\ w[i] = r[i - a] /\ ~(i <= a))
  BY <1>3
<1>5. ASSUME AllAsLogged(q), AllAsLogged(r) PROVE AllAsLogged(w)
  <2>1. \A i \in 1..(a + b) : AsLogged(w[i])
    BY <1>1, <1>4, <1>5 DEF AllAsLogged
  <2> QED
    BY <1>3, <2>1 DEF AllAsLogged
<1>6. ASSUME InOrder(q), InOrder(r), Before(q, r) PROVE InOrder(w)
  <2>1. ASSUME NEW i \in 1..(a + b), NEW j \in 1..(a + b), i < j,
               Punctual(w[i].event), Punctual(w[j].event)
        PROVE  w[i].event < w[j].event
    <3>1. CASE i \in 1..a /\ w[i] = q[i] /\ j \in 1..a /\ w[j] = q[j]
      BY <1>1, <1>6, <2>1, <3>1 DEF InOrder
    <3>2. CASE i \in 1..a /\ w[i] = q[i] /\ j - a \in 1..b /\ w[j] = r[j - a]
      BY <1>1, <1>6, <2>1, <3>2 DEF Before
    <3>3. CASE i - a \in 1..b /\ w[i] = r[i - a] /\ j - a \in 1..b /\ w[j] = r[j - a]
      <4>1. i - a < j - a
        BY <2>1
      <4> QED
        BY <1>1, <1>6, <2>1, <3>3, <4>1 DEF InOrder
    <3>4. ~(~(i <= a) /\ j \in 1..a)
      BY <2>1
    <3> QED
      BY <1>4, <3>1, <3>2, <3>3, <3>4
  <2> QED
    BY <1>3, <2>1 DEF InOrder
<1>7. ASSUME NEW s, Before(q, s), Before(r, s) PROVE Before(w, s)
  <2>1. ASSUME NEW i \in 1..(a + b), NEW j \in 1..Len(s),
               Punctual(w[i].event), Punctual(s[j].event)
        PROVE  w[i].event < s[j].event
    BY <1>1, <1>4, <1>7, <2>1 DEF Before
  <2> QED
    BY <1>3, <2>1 DEF Before
<1>8. ASSUME NEW s, Before(s, q), Before(s, r) PROVE Before(s, w)
  <2>1. ASSUME NEW i \in 1..Len(s), NEW j \in 1..(a + b),
               Punctual(s[i].event), Punctual(w[j].event)
        PROVE  s[i].event < w[j].event
    BY <1>1, <1>4, <1>8, <2>1 DEF Before
  <2> QED
    BY <1>3, <2>1 DEF Before
<1> QED
  BY <1>2, <1>5, <1>6, <1>7, <1>8

(* What leaves in a step: three sequences in order, and what was late. *)
(* What leaves at the end of a step, in that order. *)
Joined(q, r, s, t) == ((q \o r) \o s) \o t

Joinable(q, r, s, t) ==
  /\ q \in Seq(Copies) /\ r \in Seq(Copies) /\ s \in Seq(Copies) /\ t \in Seq(Copies)
  /\ AllAsLogged(q) /\ AllAsLogged(r) /\ AllAsLogged(s) /\ AllAsLogged(t)
  /\ InOrder(q) /\ InOrder(r) /\ InOrder(s) /\ Before(q, r) /\ Before(q, s) /\ Before(r, s)
  /\ \A i \in 1..Len(t) : ~Punctual(t[i].event)

LEMMA LeaveInOrder ==
  ASSUME NEW q, NEW r, NEW s, NEW t, Joinable(q, r, s, t)
  PROVE  /\ Joined(q, r, s, t) \in Seq(Copies)
         /\ AllAsLogged(Joined(q, r, s, t)) /\ InOrder(Joined(q, r, s, t))
         /\ \A e : Before(e, q) /\ Before(e, r) /\ Before(e, s) => Before(e, Joined(q, r, s, t))
         /\ \A n : Count(Joined(q, r, s, t), n)
                     = Count(q, n) + Count(r, n) + Count(s, n) + Count(t, n)
<1> USE DEF Joinable
<1>1. PICK u : u = q \o r
  OBVIOUS
<1>2. /\ u \in Seq(Copies) /\ AllAsLogged(u) /\ InOrder(u) /\ Before(u, s)
      /\ \A e : Before(e, q) /\ Before(e, r) => Before(e, u)
      /\ \A n : Count(u, n) = Count(q, n) + Count(r, n)
  BY <1>1, ConcatOrder, CountConcat
<1>3. PICK v : v = u \o s
  OBVIOUS
<1>4. /\ v \in Seq(Copies) /\ AllAsLogged(v) /\ InOrder(v)
      /\ \A e : Before(e, u) /\ Before(e, s) => Before(e, v)
      /\ \A n : Count(v, n) = Count(u, n) + Count(s, n)
  BY <1>2, <1>3, ConcatOrder, CountConcat
<1>5. InOrder(t) /\ \A e : Before(e, t)
  BY DEF InOrder, Before
<1>6. /\ v \o t \in Seq(Copies) /\ AllAsLogged(v \o t) /\ InOrder(v \o t)
      /\ \A e : Before(e, v) => Before(e, v \o t)
      /\ \A n : Count(v \o t, n) = Count(v, n) + Count(t, n)
  BY <1>4, <1>5, ConcatOrder, CountConcat
<1> QED
  BY <1>1, <1>2, <1>3, <1>4, <1>6 DEF Joined

LEMMA EndStepStep == FaultInv /\ EndStep => FaultInv'
<1> SUFFICES ASSUME FaultInv, EndStep PROVE FaultInv'
  OBVIOUS
<1>1. /\ FaultTyped /\ CopiesTyped /\ EpisodesInv /\ StatusInv /\ CopiesInv
      /\ OrderInv /\ BacklogInv /\ Conserved
  BY DEF FaultInv
<1>2. PICK released \in Released : Leave(released)
  BY DEF EndStep
<1>3. /\ phase = "events" /\ phase' = "idle" /\ flushed' = <<>> /\ out' = <<>>
      /\ delayed' = {[x EXCEPT !.release_in = @ - 1] : x \in delayed \ Due}
      /\ episodes' = {[e EXCEPT !.ends_in = @ - 1] : e \in episodes}
      /\ UNCHANGED <<truth, forced, tried, last_status, frozen_payload, log_entries,
                     suppressed, faults>>
  BY DEF EndStep
<1>4. /\ released \in Seq(Copies)
      /\ \A i \in 1..Len(released) : \E x \in Due : released[i] = x.copy
      /\ \A k : Count(released, k) = Cardinality(HeldOf(Due, k))
  BY <1>1, ReleasedIsDue DEF HeldOf
<1>5. AllAsLogged(released) /\ \A i \in 1..Len(released) : ~Punctual(released[i].event)
  BY <1>1, <1>4 DEF AllAsLogged, CopiesInv, Due
<1>6. /\ delayed' \subseteq [copy : Copies, counter : Nat, release_in : 0..(MaxDelay + 1)]
      /\ IsFiniteSet(delayed')
      /\ \A x \in delayed' : \E y \in delayed : x.copy = y.copy
      /\ \A k : Cardinality(HeldOf(delayed, k))
                  = Cardinality(HeldOf(Due, k)) + Cardinality(HeldOf(delayed', k))
  BY <1>1, <1>3, HeldOn
<1>7. <<>> \in Seq(Copies) /\ Len(<<>>) = 0 /\ \A i \in 1..Len(<<>>) : FALSE
  BY EmptySeq
<1>8. FaultTyped'
  BY <1>1, <1>3 DEF FaultTyped
<1>9. (\A c : AsLogged(c) => AsLogged(c)') /\ (\A n : Punctual(n)' <=> Punctual(n))
  BY <1>3 DEF AsLogged, Logged, EpisodeLogged, Punctual
<1>10. /\ \A q : AllAsLogged(q) => AllAsLogged(q)'
       /\ \A q : InOrder(q) => InOrder(q)'
       /\ \A q, r : Before(q, r) => Before(q, r)'
  BY <1>9, Zenon DEF AllAsLogged, InOrder, Before
<1>11. /\ AllAsLogged(<<>>) /\ InOrder(<<>>)
       /\ \A q : Before(q, <<>>) /\ Before(<<>>, q)
  BY <1>7 DEF AllAsLogged, InOrder, Before
(* The episodes, a step nearer to their ends. *)
<1>12. ASSUME NEW e \in episodes
       PROVE  /\ [e EXCEPT !.ends_in = @ - 1]
                   \in [id : 1..Len(log_entries), fault : EpisodeFaults,
                        station : Stations \cup {None}, ends_in : 0..MaxDuration]
              /\ [e EXCEPT !.ends_in = @ - 1].id = e.id
              /\ [e EXCEPT !.ends_in = @ - 1].fault = e.fault
              /\ [e EXCEPT !.ends_in = @ - 1].station = e.station
  <2>1. /\ e \in [id : 1..Len(log_entries), fault : EpisodeFaults,
                  station : Stations \cup {None}, ends_in : 0..MaxDuration]
        /\ e.ends_in > 0
    BY <1>1, <1>3 DEF EpisodesInv
  <2>2. PICK a \in 1..Len(log_entries), b \in EpisodeFaults, c \in Stations \cup {None},
             d \in 0..MaxDuration :
          e = [id |-> a, fault |-> b, station |-> c, ends_in |-> d]
    BY <2>1
  <2>3. d - 1 \in 0..MaxDuration
    <3>1. d > 0
      BY <2>1, <2>2
    <3> QED
      BY <3>1, FaultLayerAssumption
  <2>4. PICK g : g = [e EXCEPT !.ends_in = @ - 1]
    OBVIOUS
  <2>5. g = [id |-> a, fault |-> b, station |-> c, ends_in |-> d - 1]
    BY <2>2, <2>4
  <2>6. /\ g \in [id : 1..Len(log_entries), fault : EpisodeFaults,
                  station : Stations \cup {None}, ends_in : 0..MaxDuration]
        /\ g.id = e.id /\ g.fault = e.fault /\ g.station = e.station
    BY <2>2, <2>3, <2>5
  <2> QED
    BY <2>4, <2>6
<1>13. ASSUME NEW g \in episodes'
       PROVE  /\ g \in [id : 1..Len(log_entries), fault : EpisodeFaults,
                        station : Stations \cup {None}, ends_in : 0..MaxDuration]
              /\ \E e \in episodes : /\ g = [e EXCEPT !.ends_in = @ - 1]
                                     /\ g.id = e.id /\ g.fault = e.fault /\ g.station = e.station
  <2>1. PICK e \in episodes : g = [e EXCEPT !.ends_in = @ - 1]
    BY <1>3
  <2> QED
    BY <1>12, <2>1
<1>14. EpisodesInv'
  <2>1. episodes' \subseteq [id : 1..Len(log_entries), fault : EpisodeFaults,
                             station : Stations \cup {None}, ends_in : 0..MaxDuration]
    BY <1>13
  <2>2. ASSUME NEW g \in episodes'
        PROVE  /\ log_entries[g.id].fault = g.fault /\ log_entries[g.id].station = g.station
               /\ g.fault = "stream_stall" <=> g.station = None
    <3>1. PICK e \in episodes : g.id = e.id /\ g.fault = e.fault /\ g.station = e.station
      BY <1>13
    <3> QED
      BY <1>1, <3>1 DEF EpisodesInv
  <2>3. ASSUME NEW g \in episodes', NEW h \in episodes',
               g.fault = "stream_stall", h.fault = "stream_stall"
        PROVE  g = h
    <3>1. PICK e \in episodes : g = [e EXCEPT !.ends_in = @ - 1] /\ g.fault = e.fault
      BY <1>13
    <3>2. PICK d \in episodes : h = [d EXCEPT !.ends_in = @ - 1] /\ h.fault = d.fault
      BY <1>13
    <3>3. e = d
      BY <1>1, <2>3, <3>1, <3>2 DEF EpisodesInv
    <3> QED
      BY <3>1, <3>2, <3>3
  <2> QED
    BY <1>3, <2>1, <2>2, <2>3 DEF EpisodesInv
<1>15. StatusInv'
  <2>1. ASSUME NEW g \in episodes', g.fault = "frozen_station"
        PROVE  frozen_payload[g.station] # 0
    <3>1. PICK e \in episodes : g.fault = e.fault /\ g.station = e.station
      BY <1>13
    <3> QED
      BY <1>1, <2>1, <3>1 DEF StatusInv
  <2> QED
    BY <1>1, <1>3, <2>1 DEF StatusInv, StatusOf, EpisodeLogged
(* The copies: either all that left is kept back, or it is emitted. *)
<1>16. /\ emitted \in Seq(Copies) /\ flushed \in Seq(Copies)
       /\ out \in Seq(Copies) /\ stall_buffer \in Seq(Copies)
       /\ AllAsLogged(emitted) /\ AllAsLogged(flushed)
       /\ AllAsLogged(out) /\ AllAsLogged(stall_buffer)
       /\ InOrder(emitted) /\ InOrder(flushed) /\ InOrder(out) /\ InOrder(stall_buffer)
       /\ Before(emitted, flushed) /\ Before(emitted, stall_buffer) /\ Before(emitted, out)
       /\ Before(flushed, out) /\ Before(stall_buffer, out)
  BY <1>1 DEF CopiesTyped, CopiesInv, OrderInv
<1>17. PICK kept, gone :
         /\ kept = Joined(stall_buffer, flushed, out, released)
         /\ gone = Joined(emitted, flushed, out, released)
  OBVIOUS
<1>18. Before(stall_buffer, flushed)
  <2>1. stall_buffer = <<>> \/ flushed = <<>>
    BY <1>1 DEF BacklogInv
  <2> QED
    BY <1>11, <2>1
<1>19. /\ kept \in Seq(Copies) /\ AllAsLogged(kept) /\ InOrder(kept) /\ Before(emitted, kept)
       /\ \A n : Count(kept, n) = Count(stall_buffer, n) + Count(flushed, n) + Count(out, n)
                                    + Count(released, n)
  <2>1. Joinable(stall_buffer, flushed, out, released)
    BY <1>4, <1>5, <1>16, <1>18 DEF Joinable
  <2> QED
    BY <1>16, <1>17, <2>1, LeaveInOrder
<1>20. /\ gone \in Seq(Copies) /\ AllAsLogged(gone) /\ InOrder(gone)
       /\ \A n : Count(gone, n) = Count(emitted, n) + Count(flushed, n) + Count(out, n)
                                    + Count(released, n)
  <2>1. Joinable(emitted, flushed, out, released)
    BY <1>4, <1>5, <1>16 DEF Joinable
  <2> QED
    BY <1>17, <2>1, LeaveInOrder
<1>21. \/ StallActive /\ stall_buffer' = kept /\ emitted' = emitted
       \/ ~StallActive /\ emitted' = gone /\ stall_buffer' = stall_buffer /\ stall_buffer = <<>>
  BY <1>1, <1>2, <1>17 DEF Leave, Joined, BacklogInv
<1>22. CopiesTyped'
  BY <1>3, <1>6, <1>7, <1>16, <1>19, <1>20, <1>21 DEF CopiesTyped
<1>23. ASSUME NEW x \in delayed' PROVE AsLogged(x.copy)' /\ ~Punctual(x.copy.event)'
  <2>1. PICK y \in delayed : x.copy = y.copy
    BY <1>6
  <2>2. PICK c : c = x.copy /\ AsLogged(c) /\ ~Punctual(c.event)
    BY <1>1, <2>1 DEF CopiesInv
  <2> QED
    BY <1>9, <2>2
<1>24. CopiesInv' /\ OrderInv'
  <2>1. PICK e, b : e = emitted' /\ b = stall_buffer'
    OBVIOUS
  <2>2. /\ AllAsLogged(e) /\ AllAsLogged(b) /\ InOrder(e) /\ InOrder(b) /\ Before(e, b)
    BY <1>11, <1>16, <1>19, <1>20, <1>21, <2>1
  <2>3. /\ AllAsLogged(e)' /\ AllAsLogged(b)' /\ InOrder(e)' /\ InOrder(b)' /\ Before(e, b)'
        /\ AllAsLogged(<<>>)' /\ InOrder(<<>>)'
        /\ Before(e, <<>>)' /\ Before(<<>>, <<>>)' /\ Before(b, <<>>)'
    BY <1>10, <1>11, <2>2
  <2>4. /\ AllAsLogged(emitted)' /\ AllAsLogged(flushed)'
        /\ AllAsLogged(out)' /\ AllAsLogged(stall_buffer)'
    BY <1>3, <2>1, <2>3 DEF AllAsLogged
  <2>5. /\ InOrder(emitted)' /\ InOrder(flushed)' /\ InOrder(out)' /\ InOrder(stall_buffer)'
    BY <1>3, <2>1, <2>3 DEF InOrder
  <2>6. /\ Before(emitted, flushed)' /\ Before(emitted, stall_buffer)' /\ Before(emitted, out)'
        /\ Before(flushed, out)' /\ Before(stall_buffer, out)'
    BY <1>3, <2>1, <2>3 DEF Before
  <2> QED
    BY <1>23, <2>4, <2>5, <2>6 DEF CopiesInv, OrderInv
<1>25. BacklogInv'
  <2>1. ASSUME stall_buffer' # <<>> PROVE StallActive'
    <3>1. PICK e \in episodes : e.fault = "stream_stall" /\ e.station = None
      BY <1>21, <2>1 DEF StallActive, Active
    <3>2. PICK g : g = [e EXCEPT !.ends_in = @ - 1]
      OBVIOUS
    <3>3. g \in episodes' /\ g.fault = "stream_stall" /\ g.station = None
      BY <1>3, <1>12, <3>1, <3>2
    <3> QED
      BY <3>3 DEF StallActive, Active
  <2> QED
    BY <1>3, <2>1 DEF BacklogInv
<1>26. ASSUME NEW n PROVE Around(n)' = Around(n)
  <2>1. PICK a \in Nat, b \in Nat, c \in Nat, d \in Nat :
          /\ a = Count(emitted, n) /\ b = Count(flushed, n)
          /\ c = Count(out, n) /\ d = Count(stall_buffer, n)
    BY <1>16, CountType
  <2>2. PICK due \in Nat, on \in Nat :
          due = Cardinality(HeldOf(Due, n)) /\ on = Cardinality(HeldOf(delayed', n))
    <3>1. IsFiniteSet(Due)
      BY <1>1, FS_Subset DEF Due, CopiesTyped
    <3> QED
      BY <1>6, <3>1, HeldOfType
  <2>3. Around(n) = a + b + c + d + (due + on)
    <3>1. Cardinality(HeldOf(delayed, n)) = due + on
      BY <1>6, <2>2
    <3> QED
      BY <2>1, <3>1 DEF Around, HeldOf
  <2>4. Count(flushed', n) = 0 /\ Count(out', n) = 0
    BY <1>3, CountEmpty
  <2>5. CASE stall_buffer' = kept /\ emitted' = emitted
    <3>1. Count(stall_buffer', n) = d + b + c + due /\ Count(emitted', n) = a
      BY <1>4, <1>19, <2>1, <2>2, <2>5
    <3>2. Around(n)' = a + 0 + 0 + (d + b + c + due) + on
      BY <2>2, <2>4, <3>1 DEF Around, Count, HeldOf
    <3> QED
      BY <2>3, <3>2
  <2>6. CASE emitted' = gone /\ stall_buffer' = stall_buffer
    <3>1. Count(emitted', n) = a + b + c + due /\ Count(stall_buffer', n) = d
      BY <1>4, <1>20, <2>1, <2>2, <2>6
    <3>2. Around(n)' = (a + b + c + due) + 0 + 0 + d + on
      BY <2>2, <2>4, <3>1 DEF Around, Count, HeldOf
    <3> QED
      BY <2>3, <3>2
  <2> QED
    BY <1>21, <2>5, <2>6
<1>27. Conserved'
  <2>1. \A n : Expected(n)' = Expected(n)
    BY <1>3 DEF Expected, Logged
  <2> QED
    BY <1>1, <1>3, <1>26, <2>1 DEF Conserved
<1> QED
  BY <1>8, <1>14, <1>15, <1>22, <1>24, <1>25, <1>27 DEF FaultInv

-----------------------------------------------------------------------------
LEMMA FaultStep == FaultInv /\ [FaultNext]_faultVars => FaultInv'
<1> SUFFICES ASSUME FaultInv, FaultNext \/ UNCHANGED faultVars PROVE FaultInv'
  OBVIOUS
<1>1. CASE Admin
  BY <1>1, TriggerStep DEF Admin
<1>2. CASE EndEpisodes
  BY <1>2, EndEpisodesStep
<1>3. CASE EpisodeTurn
  BY <1>3, StartStep, IgnoreStep DEF EpisodeTurn
<1>4. CASE EpisodesUpdated
  BY <1>4, EpisodesUpdatedStep
<1>5. CASE \E kind \in Kinds : Step(kind)
  BY <1>5, TakeStep
<1>6. CASE EndStep
  BY <1>6, EndStepStep
<1>7. CASE UNCHANGED faultVars
  BY <1>7, FaultStutters
<1> QED
  BY <1>1, <1>2, <1>3, <1>4, <1>5, <1>6, <1>7 DEF FaultNext, Process

LEMMA FaultInvariance == FaultSpec => []FaultInv
BY FaultStarts, FaultStep, PTL DEF FaultSpec

(* FaultLayer.FaultTypeOK, for any number of events and faults: in          *)
(* particular at most one stall at a time.                                 *)
THEOREM FaultTypeCorrect == FaultSpec => []FaultTypeOK
<1>1. FaultInv => FaultTypeOK
  <2> SUFFICES ASSUME FaultInv PROVE FaultTypeOK
    OBVIOUS
  <2>1. FaultTyped /\ CopiesTyped /\ EpisodesInv
    BY DEF FaultInv
  <2>2. Cardinality({e \in episodes : e.fault = "stream_stall"}) <= 1
    <3> DEFINE S == {e \in episodes : e.fault = "stream_stall"}
    <3>1. CASE S = {}
      <4>1. Cardinality(S) = 0
        BY <3>1, FS_EmptySet
      <4> QED
        BY <4>1
    <3>2. CASE S # {}
      <4>1. PICK e : e \in S
        BY <3>2
      <4>2. S = {e}
        BY <2>1, <4>1 DEF EpisodesInv
      <4>3. Cardinality(S) = 1
        BY <4>2, FS_Singleton
      <4> QED
        BY <4>3
    <3> QED
      BY <3>1, <3>2
  <2>3. suppressed \subseteq 1..MaxEvents
    <3>1. PICK m \in Nat : m = Len(truth)
      BY <2>1, LenProperties DEF FaultTyped
    <3>2. 1..m \subseteq 1..MaxEvents
      BY <2>1, <3>1, FaultLayerAssumption DEF FaultTyped
    <3> QED
      BY <2>1, <3>1, <3>2 DEF FaultTyped
  <2>4. episodes \subseteq [id : 1..Len(log_entries), fault : EpisodeFaults,
                            station : Stations \cup {None}, ends_in : 0..MaxDuration]
    BY <2>1 DEF EpisodesInv
  <2>5. \A x \in delayed : x.copy \in Copies /\ x.release_in \in 0..(MaxDelay + 1)
    BY <2>1 DEF CopiesTyped
  <2>6. {stall_buffer, flushed, out, emitted} \subseteq Seq(Copies)
    BY <2>1 DEF CopiesTyped
  <2> QED
    BY <2>1, <2>2, <2>3, <2>4, <2>5, <2>6 DEF FaultTyped, FaultTypeOK
<1> QED
  BY <1>1, FaultInvariance, PTL

(* FaultLayer.EmittedAsLogged (faults.py:1-18): nothing is emitted, kept    *)
(* back or missing but what the truthful stream and the fault log say,      *)
(* whatever is injected, in whatever order, through any stalls.             *)
THEOREM EmittedIsLogged == FaultSpec => []EmittedAsLogged
<1>1. FaultInv => EmittedAsLogged
  <2> SUFFICES ASSUME FaultInv PROVE GroundTruth
    BY DEF FaultInv, EmittedAsLogged
  <2>1. AllAsLogged(emitted) /\ InOrder(emitted) /\ StatusInv
    BY DEF FaultInv, CopiesInv, OrderInv
  <2> QED
    BY <2>1 DEF GroundTruth, AllAsLogged, AsLogged, InOrder, StatusInv
<1> QED
  BY <1>1, FaultInvariance, PTL
=============================================================================
