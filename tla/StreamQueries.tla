---------------------------- MODULE StreamQueries ----------------------------
(***************************************************************************)
(* The queries of the Spark job (src/streaming/analyzer/main.py and        *)
(* rules.py): the stateless reference_rules (ReferenceRules) and two       *)
(* stateful ones on trip events, trip_pairing, a full outer join of starts *)
(* and ends that reports orphans, and station_metrics, deduplicated counts *)
(* per window that go to the lake once a watermark closes the window.      *)
(* Queries share no state, so one is followed, chosen at the start.        *)
(*                                                                         *)
(* Spark's engine is external: a micro-batch is planned in the offset log  *)
(* (its rows and its watermarks), run, written to the sink and committed   *)
(* with its state.  After a crash before the commit the same plan is run   *)
(* again from the state before it; a query commits nothing else.           *)
(***************************************************************************)
EXTENDS ReferenceRules, FiniteSets, FiniteSetsExt

CONSTANTS
  Trips,
  StartedAt, EndedAt,  \* [Trips -> Nat]: event times
  Watermark,           \* how late an event may be and still count
  MaxDuration,         \* max_trip_duration
  WindowLen,           \* station_window_min
  MaxReads,            \* bound of the model: events read, copies included
  MaxCrashes           \* bound of the model: crashes between output and commit

Halves == {"trip_started", "trip_ended"}
Event == [trip : Trips, half : Halves]

ASSUME StreamAssumption ==
  /\ None \notin Nat /\ None \notin [rows : SUBSET Event, late : Int, mark : Int]
  /\ Watermark \in Nat /\ MaxDuration \in Nat /\ WindowLen \in Nat \ {0}
  /\ MaxReads \in Nat /\ MaxCrashes \in Nat /\ IsFiniteSet(Trips)
  /\ \A t \in Trips : /\ StartedAt[t] \in Nat \ {0}
                      /\ EndedAt[t] \in StartedAt[t]..(StartedAt[t] + MaxDuration)

Time(e) == IF e.half = "trip_started" THEN StartedAt[e.trip] ELSE EndedAt[e.trip]

VARIABLES
  query,      \* "reference_rules", "trip_pairing" or "station_metrics"
  phase,      \* of the micro-batch: "idle", "planned" or "written"
  plan,       \* its rows, the watermark below which rows are late and the one
              \* below which state is dropped
  mark,       \* the latter of the last committed batch
  latest,     \* per watermark column, the latest event time read
  joined,     \* state of the join: [event, matched]
  seen,       \* state of the deduplication
  counts,     \* state of the aggregation: per open window
  alerts,     \* orphan alerts in Kafka, by id: the half they name
  lake,       \* per window, the trip events its rows in the lake add up to
  filed,      \* the file sink's log has this batch
  arrived, accepted,  \* ghosts: events read, and those not dropped as late
  reads, crashes

state == <<mark, latest, joined, seen, counts>>
sinks == <<alerts, lake, filed>>
vars == <<query, phase, plan, mark, latest, joined, seen, counts,
          alerts, lake, filed, arrived, accepted, reads, crashes, reference>>

Columns == IF query = "trip_pairing" THEN Halves ELSE {"event_time"}
Column(e) == IF query = "trip_pairing" THEN e.half ELSE "event_time"

Window(e) == Time(e) \div WindowLen
WindowEnd(w) == (w + 1) * WindowLen
Windows == {Window(e) : e \in Event}

Init ==
  /\ query \in {"reference_rules", "trip_pairing", "station_metrics"}
  /\ phase = "idle" /\ plan = None
  /\ mark = 0 /\ latest = [c \in Columns |-> 0]
  /\ joined = {} /\ seen = {} /\ counts = [w \in Windows |-> 0]
  /\ alerts = {} /\ lake = [w \in Windows |-> None] /\ filed = FALSE
  /\ arrived = {} /\ accepted = {} /\ reads = 0 /\ crashes = 0
  /\ ReferenceInit

-----------------------------------------------------------------------------
(* The engine plans the next batch: rows that came to Kafka, in any order   *)
(* and number of copies, or none when the watermark alone has moved.        *)

(* The slowest column decides. *)
NextMark == Max({mark, Min({latest[c] : c \in Columns}) - Watermark})

Plan ==
  /\ query # "reference_rules" /\ phase = "idle" /\ phase' = "planned"
  /\ \E rows \in SUBSET Event :
       /\ rows # {} \/ NextMark > mark
       /\ reads + Cardinality(rows) <= MaxReads /\ reads' = reads + Cardinality(rows)
       /\ plan' = [rows |-> rows, late |-> mark, mark |-> NextMark]
  /\ filed' = FALSE
  /\ UNCHANGED <<query, state, alerts, lake, arrived, accepted, crashes, reference>>

OnTime == {e \in plan.rows : Time(e) > plan.late}

-----------------------------------------------------------------------------
(* trip_pairs() and orphan_alerts().                                        *)

MutShorter(s, e) ==
  /\ s.trip = e.trip /\ s.half = "trip_started" /\ e.half = "trip_ended"
  /\ Time(e) >= Time(s) /\ Time(e) < Time(s) + MaxDuration

(* The join condition. *)
Matches(s, e) ==
  /\ s.trip = e.trip /\ s.half = "trip_started" /\ e.half = "trip_ended"
  /\ Time(e) >= Time(s) /\ Time(e) <= Time(s) + MaxDuration

(* The state with the batch's rows, and who has met a partner. *)
Joined ==
  LET rows == {j.event : j \in joined} \cup OnTime
  IN  {[event |-> e, matched |-> \/ \E j \in joined : j.event = e /\ j.matched
                                 \/ \E x \in rows : Matches(e, x) \/ Matches(x, e)] : e \in rows}

MutUnbounded(e, watermark) ==
  e.half = "trip_ended" /\ Time(e) <= watermark

(* Spark derives from the join condition when a row can no longer match.    *)
Expired(e, watermark) ==
  IF e.half = "trip_started" THEN Time(e) + MaxDuration <= watermark ELSE Time(e) <= watermark

Orphans == {j.event : j \in {x \in Joined : ~x.matched /\ Expired(x.event, plan.mark)}}

-----------------------------------------------------------------------------
(* deduplicated() and station_windows().                                    *)

MutNoDedup == OnTime

Fresh == OnTime \ seen

Counts == [w \in Windows |-> counts[w] + Cardinality({e \in Fresh : Window(e) = w})]

Closed == {w \in Windows : Counts[w] > 0 /\ WindowEnd(w) <= plan.mark}

-----------------------------------------------------------------------------
(* The sinks: alerts go to Kafka again when a batch is run again, with the  *)
(* ids they had; the file sink skips a batch that is in its log.            *)
Write ==
  /\ phase = "planned" /\ phase' = "written"
  /\ \/ /\ query = "trip_pairing"
        /\ alerts' = alerts \cup Orphans
        /\ UNCHANGED <<lake, filed>>
     \/ /\ query = "station_metrics" /\ ~filed /\ filed' = TRUE
        /\ lake' = [w \in Windows |->
                      IF w \in Closed THEN Counts[w] + (IF lake[w] = None THEN 0 ELSE lake[w])
                                      ELSE lake[w]]
        /\ UNCHANGED alerts
     \/ /\ query = "station_metrics" /\ filed
        /\ UNCHANGED sinks
  /\ UNCHANGED <<query, plan, state, arrived, accepted, reads, crashes, reference>>

(* The new state and the end of the batch. *)
Commit ==
  /\ phase = "written" /\ phase' = "idle" /\ plan' = None
  /\ mark' = plan.mark
  /\ latest' = [c \in Columns |->
                  Max({latest[c]} \cup {Time(e) : e \in {x \in plan.rows : Column(x) = c}})]
  /\ \/ /\ query = "trip_pairing"
        /\ joined' = {j \in Joined : ~Expired(j.event, plan.mark)}
        /\ UNCHANGED <<seen, counts>>
     \/ /\ query = "station_metrics"
        /\ seen' = {e \in seen \cup OnTime : Time(e) + Watermark > plan.mark}
        /\ counts' = [w \in Windows |-> IF w \in Closed THEN 0 ELSE Counts[w]]
        /\ UNCHANGED joined
  /\ arrived' = arrived \cup plan.rows /\ accepted' = accepted \cup OnTime
  /\ UNCHANGED <<query, sinks, reads, crashes, reference>>

(* The job dies after the output, before the commit, and is started again. *)
Crash ==
  /\ phase = "written" /\ phase' = "planned"
  /\ crashes < MaxCrashes /\ crashes' = crashes + 1
  /\ UNCHANGED <<query, plan, state, sinks, arrived, accepted, reads, reference>>

JudgeReports ==
  /\ query = "reference_rules" /\ ReferenceNext
  /\ UNCHANGED <<query, phase, plan, state, sinks, arrived, accepted, reads, crashes>>

Next == Plan \/ Write \/ Commit \/ Crash \/ JudgeReports

Fairness == WF_vars(Plan) /\ WF_vars(Write) /\ WF_vars(Commit)

Spec == Init /\ [][Next]_vars /\ Fairness

-----------------------------------------------------------------------------
TypeOK ==
  /\ phase \in {"idle", "planned", "written"} /\ (plan = None <=> phase = "idle")
  /\ plan # None => plan.rows \subseteq Event /\ plan.late = mark /\ plan.mark >= mark
  /\ \A c \in Columns : latest[c] \in {0} \cup {Time(e) : e \in Event}
  /\ joined \subseteq [event : Event, matched : BOOLEAN] /\ seen \subseteq Event
  /\ \A w \in Windows :
       /\ counts[w] \in 0..Cardinality({e \in Event : Window(e) = w})
       /\ lake[w] \in Nat \cup {None}
  /\ alerts \subseteq Event /\ filed \in BOOLEAN
  /\ accepted \subseteq arrived /\ arrived \subseteq Event
  /\ reads \in 0..MaxReads /\ crashes \in 0..MaxCrashes
  /\ ReferenceTypeOK

(* main.py:173, rules.py:288-291.  A trip both halves of which came in time *)
(* is never reported as an orphan: not when a half came again, out of order *)
(* or much later than the other, not when the trip lasts as long as it may, *)
(* and not when a batch is run again after a crash.                        *)
NoFalseOrphan ==
  \A t \in Trips :
    {[trip |-> t, half |-> h] : h \in Halves} \subseteq accepted => \A e \in alerts : e.trip # t

(* mart_stream_vs_batch's compared_until, when what Spark has read has also *)
(* landed.                                                                 *)
ComparedUntil ==
  LET written == {WindowEnd(w) : w \in {x \in Windows : lake[x] # None}}
  IN  IF written = {} THEN 0
      ELSE Min({Max(written), Max({Window(e) : e \in arrived}) * WindowLen})

(* mart_stream_vs_batch.sql:1-9, main.py:19-21.  In the windows that are    *)
(* compared, the batch side counts more than the lake by exactly the events *)
(* that Spark dropped as late: copies are counted once, also a copy that    *)
(* comes when its window is closed, and no window is written twice.         *)
MissingExplained ==
  phase = "idle" =>
    \A w \in {x \in Windows : WindowEnd(x) <= ComparedUntil} :
      LET landed == Cardinality({e \in arrived : Window(e) = w})
          stream == IF lake[w] = None THEN 0 ELSE lake[w]
      IN  landed - stream = Cardinality({e \in arrived \ accepted : Window(e) = w})

Partner(e) == [e EXCEPT !.half = CHOOSE h \in Halves : h # e.half]

(* rules.py:288-291.  When both watermarks have passed the longest time a   *)
(* trip may take, a half without its partner is reported, with no event     *)
(* after that needed.                                                      *)
OrphanReported ==
  []<>(query = "trip_pairing" =>
         \A e \in accepted : Time(e) + MaxDuration <= NextMark =>
                               e \in alerts \/ Partner(e) \in accepted)
=============================================================================
