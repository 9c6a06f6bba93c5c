----------------------------- MODULE FaultLayer -----------------------------
(***************************************************************************)
(* The fault layer of the source (src/source/bikeshare_sim/faults.py): it  *)
(* turns the truthful events of each engine step into what the vendor      *)
(* emits, and writes down what it did.  Admin calls arm one-shot triggers  *)
(* between steps.                                                          *)
(*                                                                         *)
(* process() is one synchronous call; here it is taken in stages:          *)
(*   "idle"      between two calls                                         *)
(*   "episodes"  in _update_episodes()                                     *)
(*   "events"    passing the step's events through the injectors           *)
(*   "dead"      an exception has ended the simulation task                *)
(*                                                                         *)
(* Times are counted in steps from the step being taken.  A truthful event *)
(* is its number; truth[n] is what it is: a trip's start or end, or the    *)
(* station whose status it reports.  A status carries the values `shows`   *)
(* of the truthful status of that number.                                  *)
(***************************************************************************)
EXTENDS Naturals, Sequences, SequencesExt, FiniteSets

CONSTANTS
  Stations,
  None,          \* a trigger that names no station; no station
  MaxEvents,     \* bound of the model: truthful events
  MaxFaults,     \* bound of the model: injections and triggers
  MaxDelay,      \* bound of the model: steps a late event is held
  MaxDuration    \* bound of the model: steps an episode lasts

ASSUME FaultLayerAssumption ==
  /\ None \notin Stations
  /\ Stations \cap {"trip_started", "trip_ended"} = {}
  /\ MaxEvents \in Nat /\ MaxFaults \in Nat /\ MaxDelay \in Nat /\ MaxDuration \in Nat

StationFaults == {"frozen_station", "silent_station"}
EpisodeFaults == StationFaults \cup {"stream_stall"}
MarkFaults == {"teleport", "impossible_status", "schema_drift"}
Faults == EpisodeFaults \cup MarkFaults \cup {"orphan_trip", "duplicate", "late_event"}

VARIABLES
  phase,
  truth,         \* the truthful events so far, by number
  forced,        \* _forced: per armed trigger, the set with its station (or None)
  episodes,      \* _episodes
  tried,         \* episode faults whose turn has passed in this step
  delayed,       \* _delayed: events held back, with the steps left
  stall_buffer,
  last_status,   \* number of the latest truthful status, 0 at first
  frozen_payload,\* number of the status a frozen station repeats
  flushed,       \* the backlog a stall has just released
  out,           \* the events leaving this step
  emitted,       \* what consumers see, in order
  log_entries,   \* FaultLog.entries
  suppressed,    \* events a silent station did not publish
  faults         \* unforced injections and triggers so far

faultVars ==
  <<phase, truth, forced, episodes, tried, delayed, stall_buffer, last_status,
    frozen_payload, flushed, out, emitted, log_entries, suppressed, faults>>

Kinds == {"trip_started", "trip_ended"} \cup Stations
Copy(n, shows, marks) == [event |-> n, shows |-> shows, marks |-> marks]
Entry(f, n, s) == [fault |-> f, event |-> n, station |-> s]

FaultInit ==
  /\ phase = "idle" /\ truth = <<>>
  /\ forced = [f \in Faults |-> {}]
  /\ episodes = {} /\ tried = {}
  /\ delayed = {} /\ stall_buffer = <<>>
  /\ last_status = [s \in Stations |-> 0]
  /\ frozen_payload = [s \in Stations |-> 0]
  /\ flushed = <<>> /\ out = <<>> /\ emitted = <<>> /\ log_entries = <<>>
  /\ suppressed = {} /\ faults = 0

Armed(f) == forced[f] # {}
Active(f, s) == \E e \in episodes : e.fault = f /\ e.station = s
StallActive == Active("stream_stall", None)

(* trigger(): a second trigger of the same fault replaces the first. *)
Trigger(f, s) ==
  /\ phase = "idle" /\ faults < MaxFaults
  /\ forced' = [forced EXCEPT ![f] = {s}]
  /\ faults' = faults + 1
  /\ UNCHANGED <<phase, truth, episodes, tried, delayed, stall_buffer, last_status,
                 frozen_payload, flushed, out, emitted, log_entries, suppressed>>

-----------------------------------------------------------------------------
(* _update_episodes().                                                     *)

MutEndForgetsBacklog ==
  /\ phase = "idle" /\ phase' = "episodes"
  /\ episodes' = {e \in episodes : e.ends_in > 0}
  /\ tried' = {}
  /\ UNCHANGED <<truth, forced, delayed, stall_buffer, last_status, frozen_payload, flushed,
                 out, emitted, log_entries, suppressed, faults>>

(* Expired episodes end; a stall that ends hands over its backlog. *)
EndEpisodes ==
  LET ended == {e \in episodes : e.ends_in = 0}
      stall_ended == \E e \in ended : e.fault = "stream_stall"
  IN  /\ phase = "idle" /\ phase' = "episodes"
      /\ episodes' = episodes \ ended
      /\ tried' = {}
      /\ flushed' = IF stall_ended THEN stall_buffer ELSE <<>>
      /\ stall_buffer' = IF stall_ended THEN <<>> ELSE stall_buffer
      /\ UNCHANGED <<truth, forced, delayed, last_status, frozen_payload, out,
                     emitted, log_entries, suppressed, faults>>

(* An episode's turn: its trigger is taken, or its rate hits. *)
Turn(f) ==
  /\ phase = "episodes" /\ f \notin tried
  /\ tried' = tried \cup {f}
  /\ forced' = [forced EXCEPT ![f] = {}]
  /\ IF Armed(f) THEN UNCHANGED faults ELSE faults < MaxFaults /\ faults' = faults + 1

Begins(f, s) ==
  /\ log_entries' = Append(log_entries, Entry(f, 0, s))
  /\ \E d \in 1..MaxDuration :
       episodes' = episodes \cup {[id |-> Len(log_entries) + 1, fault |-> f,
                                   station |-> s, ends_in |-> d]}

MutStallOverStall ==
  /\ Turn("stream_stall")
  /\ Begins("stream_stall", None)
  /\ UNCHANGED <<phase, truth, delayed, stall_buffer, last_status, frozen_payload,
                 flushed, out, emitted, suppressed>>

StartStall ==
  /\ Turn("stream_stall")
  /\ ~StallActive /\ Begins("stream_stall", None)
  /\ UNCHANGED <<phase, truth, delayed, stall_buffer, last_status, frozen_payload,
                 flushed, out, emitted, suppressed>>

(* A stall while one is active does nothing. *)
IgnoreStall ==
  /\ Turn("stream_stall")
  /\ StallActive
  /\ UNCHANGED <<phase, truth, episodes, delayed, stall_buffer, last_status, frozen_payload,
                 flushed, out, emitted, log_entries, suppressed>>

(* The station the trigger names, or any that has no such episode. *)
Candidates(f) ==
  IF forced[f] \subseteq {None} THEN {s \in Stations : ~Active(f, s)} ELSE forced[f]

StartStationEpisode(f, s) ==
  /\ Turn(f) /\ s \in Candidates(f)
  /\ f = "frozen_station" => last_status[s] # 0
  /\ Begins(f, s)
  /\ frozen_payload' = IF f = "frozen_station"
                       THEN [frozen_payload EXCEPT ![s] = last_status[s]] ELSE frozen_payload
  /\ UNCHANGED <<phase, truth, delayed, stall_buffer, last_status, flushed, out, emitted,
                 suppressed>>

(* A station with no status yet cannot freeze. *)
IgnoreFreeze(s) ==
  /\ Turn("frozen_station") /\ s \in Candidates("frozen_station")
  /\ last_status[s] = 0
  /\ UNCHANGED <<phase, truth, episodes, delayed, stall_buffer, last_status, frozen_payload,
                 flushed, out, emitted, log_entries, suppressed>>

(* rng.choice() of no station raises, and nothing catches it: the task ends, *)
(* and with it what process() had in hand.                                   *)
NoFreeStation(f) ==
  /\ Turn(f) /\ Candidates(f) = {}
  /\ phase' = "dead" /\ flushed' = <<>>
  /\ UNCHANGED <<truth, episodes, delayed, stall_buffer, last_status, frozen_payload,
                 out, emitted, log_entries, suppressed>>

EpisodesUpdated ==
  /\ phase = "episodes"
  /\ \A f \in EpisodeFaults : ~Armed(f)
  /\ phase' = "events"
  /\ UNCHANGED <<truth, forced, episodes, tried, delayed, stall_buffer, last_status,
                 frozen_payload, flushed, out, emitted, log_entries, suppressed, faults>>

-----------------------------------------------------------------------------
(* _corrupt() of one event.                                                *)

(* The per-event injectors that may hit an event of this kind; none of     *)
(* those after orphan_trip sees an event it has dropped.                   *)
Eligible(kind) ==
  {"schema_drift", "duplicate", "late_event"}
    \cup (IF kind \in Stations THEN {"impossible_status"} ELSE {"orphan_trip"})
    \cup (IF kind = "trip_ended" THEN {"teleport"} ELSE {})

(* Some events are not eligible for teleport: no station is far enough. *)
MustHit(kind) == {f \in Eligible(kind) \ {"teleport"} : Armed(f)}

Hits(kind) ==
  {h \in SUBSET Eligible(kind) :
     \/ "orphan_trip" \notin h /\ MustHit(kind) \subseteq h
     \/ h = {"orphan_trip"}}

LogOrder == [orphan_trip |-> 1, teleport |-> 2, impossible_status |-> 3, schema_drift |-> 4,
             duplicate |-> 5, late_event |-> 6]

(* _hit() and _record(), for the injectors that hit event n. *)
Inject(h, n) ==
  LET unforced == Cardinality({f \in h : ~Armed(f)})
  IN  /\ faults + unforced <= MaxFaults
      /\ faults' = faults + unforced
      /\ forced' = [f \in Faults |-> IF f \in h THEN {} ELSE forced[f]]
      /\ \E hit \in SetToSeqs(h) :
           /\ \A i, j \in DOMAIN hit : i < j => LogOrder[hit[i]] < LogOrder[hit[j]]
           /\ log_entries' = log_entries \o [i \in DOMAIN hit |-> Entry(hit[i], n, None)]

Silenced(kind) == kind \in Stations /\ Active("silent_station", kind)

SuppressStatus(kind) ==
  /\ Silenced(kind)
  /\ truth' = Append(truth, kind)
  /\ suppressed' = suppressed \cup {Len(truth) + 1}
  /\ UNCHANGED <<phase, forced, episodes, tried, delayed, stall_buffer, last_status,
                 frozen_payload, flushed, out, emitted, log_entries, faults>>

DropTrip(kind) ==
  /\ "orphan_trip" \in Eligible(kind)
  /\ truth' = Append(truth, kind)
  /\ Inject({"orphan_trip"}, Len(truth) + 1)
  /\ UNCHANGED <<phase, episodes, tried, delayed, stall_buffer, last_status, frozen_payload,
                 flushed, out, emitted, suppressed>>

(* A frozen station's status shows the values it froze with; any other     *)
(* status becomes the latest, whatever is injected into it afterwards.     *)
Frozen(kind) == kind \in Stations /\ Active("frozen_station", kind)
Shows(kind, n) == IF Frozen(kind) THEN frozen_payload[kind] ELSE n
LatestStatus(kind, n) ==
  IF kind \in Stations /\ ~Frozen(kind) THEN [last_status EXCEPT ![kind] = n] ELSE last_status

(* _hold(): the counter tells an event from its own copy. *)
Held(c, counter, steps) == [copy |-> c, counter |-> counter, release_in |-> steps + 1]

MutDuplicateBeforeDrift(kind, h, dup_steps, late_steps) ==
  LET n == Len(truth) + 1
      c == Copy(n, Shows(kind, n), h \cap MarkFaults)
      before == Copy(n, Shows(kind, n), (h \cap MarkFaults) \ {"schema_drift"})
  IN  /\ ~Silenced(kind) /\ "orphan_trip" \notin h
      /\ truth' = Append(truth, kind)
      /\ Inject(h, n)
      /\ last_status' = LatestStatus(kind, n)
      /\ out' = IF "late_event" \in h THEN out ELSE Append(out, c)
      /\ delayed' = delayed
                      \cup (IF "duplicate" \in h THEN {Held(before, 2 * n, dup_steps)} ELSE {})
                      \cup (IF "late_event" \in h THEN {Held(c, 2 * n + 1, late_steps)} ELSE {})
      /\ UNCHANGED <<phase, episodes, tried, stall_buffer, frozen_payload, flushed, emitted,
                     suppressed>>

(* The event goes on, with the marks of the injectors that changed it; a    *)
(* copy is held back for a duplicate, the event itself when it is late.     *)
PassEvent(kind, h, dup_steps, late_steps) ==
  LET n == Len(truth) + 1
      c == Copy(n, Shows(kind, n), h \cap MarkFaults)
  IN  /\ ~Silenced(kind) /\ "orphan_trip" \notin h
      /\ truth' = Append(truth, kind)
      /\ Inject(h, n)
      /\ last_status' = LatestStatus(kind, n)
      /\ out' = IF "late_event" \in h THEN out ELSE Append(out, c)
      /\ delayed' = delayed \cup (IF "duplicate" \in h THEN {Held(c, 2 * n, dup_steps)} ELSE {})
                      \cup (IF "late_event" \in h THEN {Held(c, 2 * n + 1, late_steps)} ELSE {})
      /\ UNCHANGED <<phase, episodes, tried, stall_buffer, frozen_payload, flushed, emitted,
                     suppressed>>

Step(kind) ==
  /\ phase = "events" /\ Len(truth) < MaxEvents
  /\ \/ SuppressStatus(kind)
     \/ ~Silenced(kind) /\ DropTrip(kind)
     \/ \E h \in Hits(kind) :
          \E dup_steps \in IF "duplicate" \in h THEN 0..(MaxDelay - 1) ELSE {0},
             late_steps \in IF "late_event" \in h THEN 1..MaxDelay ELSE {0} :
            PassEvent(kind, h, dup_steps, late_steps)

-----------------------------------------------------------------------------
(* The end of process().                                                   *)

Due == {x \in delayed : x.release_in = 0}

(* _release_delayed(): in whatever order the release times fall in the step. *)
Released == {[i \in 1..Len(q) |-> q[i].copy] : q \in SetToSeqs(Due)}

MutStallDropsFlushed(released) ==
  IF StallActive
  THEN stall_buffer' = (stall_buffer \o out) \o released /\ UNCHANGED emitted
  ELSE emitted' = ((emitted \o flushed) \o out) \o released /\ UNCHANGED stall_buffer

(* Nothing leaves during a stall; a backlog that a stall has just released  *)
(* goes back in when another one begins in the same step.                  *)
Leave(released) ==
  IF StallActive
  THEN stall_buffer' = ((stall_buffer \o flushed) \o out) \o released /\ UNCHANGED emitted
  ELSE emitted' = ((emitted \o flushed) \o out) \o released /\ UNCHANGED stall_buffer

(* Time moves on by a step. *)
EndStep ==
  /\ phase = "events" /\ phase' = "idle"
  /\ \E released \in Released : Leave(released)
  /\ flushed' = <<>> /\ out' = <<>>
  /\ delayed' = {[x EXCEPT !.release_in = @ - 1] : x \in delayed \ Due}
  /\ episodes' = {[e EXCEPT !.ends_in = @ - 1] : e \in episodes}
  /\ UNCHANGED <<truth, forced, tried, last_status, frozen_payload, log_entries,
                 suppressed, faults>>

-----------------------------------------------------------------------------
Admin == \E f \in Faults : \E s \in Stations \cup {None} : Trigger(f, s)

EpisodeTurn ==
  \/ StartStall \/ IgnoreStall
  \/ \E f \in StationFaults : NoFreeStation(f) \/ (\E s \in Stations : StartStationEpisode(f, s))
  \/ \E s \in Stations : IgnoreFreeze(s)

Process ==
  \/ EndEpisodes \/ EpisodeTurn \/ EpisodesUpdated
  \/ \E kind \in Kinds : Step(kind)
  \/ EndStep

FaultNext == Admin \/ Process

(* The simulation's task takes step after step, and each of them ends; what *)
(* a step brings is open.                                                  *)
FaultFairness == WF_faultVars(Process)

FaultSpec == FaultInit /\ [][FaultNext]_faultVars /\ FaultFairness

-----------------------------------------------------------------------------
Copies == [event : 1..MaxEvents, shows : 1..MaxEvents, marks : SUBSET MarkFaults]

FaultTypeOK ==
  /\ phase \in {"idle", "episodes", "events", "dead"}
  /\ truth \in Seq(Kinds) /\ Len(truth) <= MaxEvents
  /\ \A f \in Faults : forced[f] \in {{}} \cup {{s} : s \in Stations \cup {None}}
  /\ episodes \subseteq [id : 1..Len(log_entries), fault : EpisodeFaults,
                         station : Stations \cup {None}, ends_in : 0..MaxDuration]
  /\ Cardinality({e \in episodes : e.fault = "stream_stall"}) <= 1
  /\ tried \subseteq EpisodeFaults
  /\ \A x \in delayed : x.copy \in Copies /\ x.release_in \in 0..(MaxDelay + 1)
  /\ {stall_buffer, flushed, out, emitted} \subseteq Seq(Copies)
  /\ {last_status, frozen_payload} \subseteq [Stations -> 0..MaxEvents]
  /\ suppressed \subseteq 1..MaxEvents /\ faults \in 0..MaxFaults

Logged(f, n) ==
  \E i \in 1..Len(log_entries) : log_entries[i].fault = f /\ log_entries[i].event = n
EpisodeLogged(f, s) ==
  \E i \in 1..Len(log_entries) : log_entries[i].fault = f /\ log_entries[i].station = s

Count(q, n) == Cardinality({i \in 1..Len(q) : q[i].event = n})

(* How many copies of event n there are, wherever they are, and how many   *)
(* there should be.                                                        *)
Around(n) ==
  Count(emitted, n) + Count(flushed, n) + Count(out, n) + Count(stall_buffer, n)
    + Cardinality({x \in delayed : x.copy.event = n})
Expected(n) ==
  IF n \in suppressed \/ Logged("orphan_trip", n) THEN 0
  ELSE IF Logged("duplicate", n) THEN 2 ELSE 1

(* faults.py:1-18, 149-154.  Every truthful event is somewhere exactly once *)
(* (emitted, held back, buffered by a stall, or on its way), and once more  *)
(* per duplicate on record; only a recorded orphan or a silent station      *)
(* removes it.                                                             *)
Conserved == phase # "dead" => \A n \in 1..Len(truth) : Around(n) = Expected(n)

Punctual(n) == ~Logged("late_event", n) /\ ~Logged("duplicate", n)

(* faults.py:16-17, 43, 57-58.  The fault log is the ground truth of what   *)
(* is emitted: a copy is marked by exactly the faults on record for its     *)
(* event; stale values come from an earlier status of the same station, and *)
(* a frozen episode there is on record; so is a silent one for every status *)
(* not published; and events are emitted in the order in which they         *)
(* happened, through any stalls, unless delayed or duplicated on record.    *)
GroundTruth ==
  /\ \A i \in 1..Len(emitted) :
       LET c == emitted[i]
       IN  /\ c.marks = {f \in MarkFaults : Logged(f, c.event)}
           /\ c.shows # c.event =>
                /\ c.shows < c.event /\ truth[c.shows] = truth[c.event]
                /\ EpisodeLogged("frozen_station", truth[c.event])
  /\ \A n \in suppressed : EpisodeLogged("silent_station", truth[n])
  /\ \A i, j \in 1..Len(emitted) :
       i < j /\ Punctual(emitted[i].event) /\ Punctual(emitted[j].event)
         => emitted[i].event < emitted[j].event

(* faults.py:1-18.  Nothing is emitted, kept back or missing but what the   *)
(* truthful stream and the fault log together say.                         *)
EmittedAsLogged == Conserved /\ GroundTruth

(* faults.py:43, 327-335.  Stalls and delays end: every event that is not   *)
(* dropped is emitted, unless the simulation's task dies.                  *)
EventuallyEmitted ==
  \A n \in 1..MaxEvents :
    Len(truth) >= n ~>
      \/ Count(emitted, n) > 0
      \/ n \in suppressed \/ Logged("orphan_trip", n)
      \/ phase = "dead"
=============================================================================
