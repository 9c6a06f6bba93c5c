--------------------------- MODULE ReferenceRules ---------------------------
(***************************************************************************)
(* The stateless query of the Spark job, reference_rules (main.py,         *)
(* reference.py): status reports are judged with a copy of the station     *)
(* reference that the driver fetches from the source's API and keeps for   *)
(* Ttl.  One station: the rule looks at no two together.                   *)
(*                                                                         *)
(* A report carries the docks its station had when it was made, and since  *)
(* when; Spark does not see these two.                                     *)
(***************************************************************************)
EXTENDS Integers

CONSTANTS
  None,
  Ttl,           \* ttl_s
  MaxTime,       \* bound of the model: ticks
  MaxCapacity    \* bound of the model: docks

ASSUME ReferenceAssumption ==
  Ttl \in Nat /\ MaxTime \in Nat /\ MaxCapacity \in Nat \ {0}

VARIABLES
  now,
  station,    \* in the source: its docks, and since when
  unread,     \* reports in Kafka that no micro-batch has
  batch,      \* the reports of the planned micro-batch, or None
  held,       \* StationReference: the docks it knows and _fetched_at, or None
  judged      \* the attempt at the batch: [raised, at, failed], or None

reference == <<now, station, unread, batch, held, judged>>

ReferenceInit ==
  /\ now = 0 /\ station = [docks |-> 1, since |-> 0]
  /\ unread = {} /\ batch = None /\ held = None /\ judged = None

Tick ==
  /\ now < MaxTime /\ now' = now + 1
  /\ UNCHANGED <<station, unread, batch, held, judged>>

ExpandStation ==
  /\ station.docks < MaxCapacity
  /\ station' = [docks |-> station.docks + 1, since |-> now]
  /\ UNCHANGED <<now, unread, batch, held, judged>>

(* The station is full, or the report is impossible. *)
ReportStatus ==
  /\ \E more \in {0, 1} :
       unread' = unread \cup {[bikes |-> station.docks + more, docks |-> station.docks,
                               since |-> station.since]}
  /\ UNCHANGED <<now, station, batch, held, judged>>

PlanReports ==
  /\ batch = None /\ unread # {}
  /\ batch' = unread /\ unread' = {}
  /\ UNCHANGED <<now, station, held, judged>>

MutLoadedOnce == held = None

(* dataframe(): none yet, or older than Ttl. *)
RefreshDue == held = None \/ now - held.fetched_at > Ttl

(* dataframe() returns this copy: a refresh that fails leaves it as it is.   *)
DataFrame(up) ==
  IF RefreshDue /\ up THEN [docks |-> station.docks, fetched_at |-> now] ELSE held

(* over_capacity() *)
OverCapacity(reports, docks) == {r \in reports : r.bikes > docks}

(* write_batch().  Without any copy it raises, and the job is restarted     *)
(* with the batch still planned.                                           *)
Judge ==
  /\ batch # None
  /\ \E up \in BOOLEAN :
       /\ held' = DataFrame(up) /\ held' # None
       /\ judged' = [raised |-> OverCapacity(batch, held'.docks), at |-> now,
                     failed |-> RefreshDue /\ ~up]
  /\ UNCHANGED <<now, station, unread, batch>>

CommitReports ==
  /\ judged # None
  /\ batch' = None /\ judged' = None
  /\ UNCHANGED <<now, station, unread, held>>

(* A query fails: a new driver, which has no copy, runs the batch again.    *)
RestartJob ==
  /\ held' = None /\ judged' = None
  /\ UNCHANGED <<now, station, unread, batch>>

ReferenceNext ==
  \/ Tick \/ ExpandStation \/ ReportStatus
  \/ PlanReports \/ Judge \/ CommitReports \/ RestartJob

-----------------------------------------------------------------------------
Reports == [bikes : 1..(MaxCapacity + 1), docks : 1..MaxCapacity, since : 0..now]

ReferenceTypeOK ==
  /\ now \in 0..MaxTime /\ station \in [docks : 1..MaxCapacity, since : 0..now]
  /\ unread \subseteq Reports /\ (batch = None \/ batch \subseteq Reports)
  /\ held # None => held.docks <= station.docks /\ held.fetched_at <= now
  /\ judged # None => batch # None /\ held # None /\ judged.raised \subseteq batch

(* reference.py:3-7, rules.py:121-125.  After an expansion a full station   *)
(* raises over_capacity alerts for no longer than Ttl, unless the source    *)
(* did not answer, however long the batch waited and whatever the restarts; *)
(* an impossible report is missed only if the station has been expanded     *)
(* since it was made.                                                      *)
OverCapacityJudged ==
  judged # None =>
    \A r \in batch :
      IF r \in judged.raised THEN r.bikes > r.docks \/ judged.failed \/ judged.at - r.since <= Ttl
                             ELSE r.bikes <= r.docks \/ station.docks > r.docks
=============================================================================
