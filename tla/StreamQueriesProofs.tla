------------------------ MODULE StreamQueriesProofs ------------------------
(***************************************************************************)
(* Proofs about the Spark job, for any trips, watermark and time to live:  *)
(* reference_rules judges a report with a copy that is recent enough,      *)
(* trip_pairing never reports a trip both halves of which came in time,    *)
(* and the lake of station_metrics lacks only what was dropped as late.    *)
(***************************************************************************)
EXTENDS StreamQueries, FiniteSetTheorems, WellFoundedInduction, TLAPS

-----------------------------------------------------------------------------
(* reference_rules: the inductive invariant.                               *)

(* A report was made of the station as it is, or as it was before. *)
Made(r) ==
  /\ r.bikes \in Nat /\ r.docks \in Nat /\ r.since \in Nat
  /\ r.docks <= station.docks

(* The copy is behind the station, or behind what a report was made of,    *)
(* only if it was fetched before the expansion.                            *)
CopyBehind(r) == held.docks < r.docks => held.fetched_at <= r.since

SourceOK ==
  /\ now \in Nat
  /\ station.docks \in Nat /\ station.since \in Nat /\ station.since <= now

ReportsMade ==
  /\ \A r \in unread : Made(r)
  /\ batch # None => \A r \in batch : Made(r)

CopySound ==
  held # None =>
    /\ held.docks \in Nat /\ held.fetched_at \in Nat
    /\ held.docks <= station.docks /\ held.fetched_at <= now
    /\ CopyBehind(station)
    /\ \A r \in unread : CopyBehind(r)
    /\ batch # None => \A r \in batch : CopyBehind(r)

JudgedAttempt == judged # None => batch # None

RInv == SourceOK /\ ReportsMade /\ CopySound /\ JudgedAttempt /\ OverCapacityJudged

LEMMA ReferenceStarts == Init => RInv
  BY DEF Init, ReferenceInit, RInv, SourceOK, ReportsMade, CopySound, JudgedAttempt,
         OverCapacityJudged

LEMMA ReferenceStep == RInv /\ [Next]_vars => RInv'
<1> SUFFICES ASSUME RInv, [Next]_vars PROVE RInv'
  OBVIOUS
<1> USE ReferenceAssumption DEF RInv, SourceOK, ReportsMade, JudgedAttempt
<1>1. CASE Tick
  BY <1>1 DEF Tick, Made, CopySound, CopyBehind, OverCapacityJudged
<1>2. CASE ExpandStation
  <2>1. SourceOK' /\ station'.docks = station.docks + 1 /\ station'.since = now
    BY <1>2 DEF ExpandStation
  <2>2. ReportsMade' /\ JudgedAttempt'
    BY <1>2, <2>1 DEF ExpandStation, Made
  <2>3. CopySound'
    BY <1>2, <2>1 DEF ExpandStation, CopySound, CopyBehind
  <2>4. OverCapacityJudged'
    BY <1>2, <2>1 DEF ExpandStation, OverCapacityJudged, Made
  <2> QED
    BY <2>1, <2>2, <2>3, <2>4
<1>3. CASE ReportStatus
  <2>1. PICK more \in {0, 1} :
          unread' = unread \cup {[bikes |-> station.docks + more, docks |-> station.docks,
                                  since |-> station.since]}
    BY <1>3 DEF ReportStatus
  <2>2. \A r \in unread' : r \in unread \/ /\ r.bikes = station.docks + more
                                           /\ r.docks = station.docks
                                           /\ r.since = station.since
    BY <2>1
  <2>3. UNCHANGED <<now, station, batch, held, judged>>
    BY <1>3 DEF ReportStatus
  <2>4. SourceOK' /\ ReportsMade' /\ JudgedAttempt' /\ OverCapacityJudged'
    BY <2>2, <2>3 DEF Made, OverCapacityJudged
  <2>5. CopySound'
    BY <2>2, <2>3 DEF CopySound, CopyBehind
  <2> QED
    BY <2>4, <2>5
<1>4. CASE PlanReports
  BY <1>4 DEF PlanReports, Made, CopySound, CopyBehind, OverCapacityJudged
<1>5. CASE Judge
  <2>1. PICK up \in BOOLEAN :
          /\ held' = DataFrame(up) /\ held' # None
          /\ judged' = [raised |-> OverCapacity(batch, held'.docks), at |-> now,
                        failed |-> RefreshDue /\ ~up]
    BY <1>5 DEF Judge
  <2>2. UNCHANGED <<now, station, unread, batch>> /\ batch # None
    BY <1>5 DEF Judge
  <2>3. SourceOK' /\ ReportsMade' /\ JudgedAttempt'
    BY <2>2 DEF Made
  <2>4. CASE RefreshDue /\ up
    <3>1. held'.docks = station.docks /\ held'.fetched_at = now
      BY <2>1, <2>4 DEF DataFrame
    <3>2. CopySound'
      BY <2>1, <2>2, <3>1 DEF CopySound, CopyBehind, Made
    <3>3. OverCapacityJudged'
      BY <2>1, <2>2, <3>1 DEF OverCapacityJudged, OverCapacity, Made
    <3> QED
      BY <2>3, <3>2, <3>3
  <2>5. CASE ~(RefreshDue /\ up)
    <3>1. held' = held /\ held # None
      BY <2>1, <2>5 DEF DataFrame
    <3>2. CopySound'
      BY <2>2, <3>1 DEF CopySound, CopyBehind
    <3>3. judged'.failed \/ now - held.fetched_at <= Ttl
      <4>1. CASE RefreshDue
        BY <2>1, <2>5, <4>1, Zenon
      <4>2. CASE ~RefreshDue
        BY <3>1, <4>2 DEF RefreshDue, CopySound
      <4> QED
        BY <4>1, <4>2
    <3>4. judged'.raised = {r \in batch : r.bikes > held.docks} /\ judged'.at = now
      BY <2>1, <3>1 DEF OverCapacity
    <3>5. ASSUME NEW r \in batch, r \in judged'.raised
          PROVE  r.bikes > r.docks \/ judged'.failed \/ now - r.since <= Ttl
      BY <2>2, <3>1, <3>3, <3>4, <3>5 DEF CopySound, CopyBehind, Made
    <3>6. ASSUME NEW r \in batch, r \notin judged'.raised
          PROVE  r.bikes <= r.docks \/ station.docks > r.docks
      BY <2>2, <3>1, <3>4, <3>6 DEF CopySound, Made
    <3>7. OverCapacityJudged'
      BY <2>2, <3>4, <3>5, <3>6 DEF OverCapacityJudged
    <3> QED
      BY <2>3, <3>2, <3>7
  <2> QED
    BY <2>4, <2>5
<1>6. CASE CommitReports
  BY <1>6 DEF CommitReports, Made, CopySound, CopyBehind, OverCapacityJudged
<1>7. CASE RestartJob
  BY <1>7 DEF RestartJob, Made, CopySound, OverCapacityJudged
<1>8. CASE UNCHANGED reference
  BY <1>8 DEF reference, Made, CopySound, CopyBehind, OverCapacityJudged
<1>9. ReferenceNext \/ UNCHANGED reference
  BY DEF Next, Plan, Write, Commit, Crash, JudgeReports, vars
<1> QED
  BY <1>1, <1>2, <1>3, <1>4, <1>5, <1>6, <1>7, <1>8, <1>9 DEF ReferenceNext

(* reference.py:3-7, rules.py:121-125: after an expansion, false alerts     *)
(* last no longer than the copy's time to live, and no impossible report is *)
(* missed but for a later expansion, whatever the delays and restarts.      *)
THEOREM StaleNoLongerThanTtl == Spec => []OverCapacityJudged
<1>1. RInv => OverCapacityJudged
  BY DEF RInv
<1> QED
  BY <1>1, ReferenceStarts, ReferenceStep, PTL DEF Spec

-----------------------------------------------------------------------------
(* Bounded sets of times have a latest and an earliest member.             *)

NatLess == OpToRel(<, Nat)

LEMMA LeastNat ==
  ASSUME NEW S, S \subseteq Nat, S # {}
  PROVE  \E x \in S : \A y \in S : x <= y
<1>1. IsWellFoundedOn(NatLess, Nat)
  BY NatLessThanWellFounded DEF NatLess
<1>2. PICK x \in S : \A y \in S : <<y, x>> \notin NatLess
  BY <1>1, WFMin
<1>3. ASSUME NEW y \in S PROVE x <= y
  <2>1. <<y, x>> \in Nat \X Nat /\ <<y, x>> \notin NatLess
    BY <1>2
  <2>2. ~(y < x)
    BY <2>1 DEF NatLess, OpToRel
  <2> QED
    BY <2>2
<1> QED
  BY <1>3

LEMMA MinOfNats ==
  ASSUME NEW S, S \subseteq Nat, S # {}
  PROVE  Min(S) \in S
  BY LeastNat DEF Min

LEMMA MaxOfBounded ==
  ASSUME NEW S, S \subseteq Nat, S # {}, NEW b \in Nat, \A y \in S : y <= b
  PROVE  Max(S) \in S /\ \A y \in S : y <= Max(S)
<1> DEFINE B == {n \in Nat : \A y \in S : y <= n}
<1>1. B # {} /\ B \subseteq Nat
  OBVIOUS
<1>2. PICK m \in B : \A n \in B : m <= n
  BY <1>1, LeastNat
<1>3. m \in S
  <2> SUFFICES ASSUME m \notin S PROVE FALSE
    OBVIOUS
  <2>1. PICK y \in S : TRUE
    OBVIOUS
  <2>2. m - 1 \in Nat /\ \A z \in S : z <= m - 1
    BY <2>1
  <2> QED
    BY <1>2, <2>2
<1>4. \E x \in S : \A y \in S : x >= y
  BY <1>3
<1> QED
  BY <1>4 DEF Max

LEMMA MaxOfTwo ==
  ASSUME NEW i \in Int, NEW j \in Int
  PROVE  Max({i, j}) \in Int /\ i <= Max({i, j})
<1>1. \E x \in {i, j} : \A y \in {i, j} : x >= y
  OBVIOUS
<1> QED
  BY <1>1 DEF Max

(* A function from a finite set to the naturals has a bound: the set of the *)
(* sizes of those subsets on which it has none has no least member.        *)
LEMMA FiniteBound ==
  ASSUME NEW S, IsFiniteSet(S), NEW f \in [S -> Nat]
  PROVE  \E b \in Nat : \A s \in S : f[s] <= b
<1> DEFINE Bounded(T) == \E b \in Nat : \A s \in T : f[s] <= b
           Sizes == {n \in Nat : \E T \in SUBSET S : Cardinality(T) = n /\ ~Bounded(T)}
<1> SUFFICES ASSUME ~Bounded(S) PROVE FALSE
  OBVIOUS
<1>1. Cardinality(S) \in Sizes /\ Sizes \subseteq Nat
  BY FS_CardinalityType
<1>2. PICK n \in Sizes : \A k \in Sizes : n <= k
  BY <1>1, LeastNat
<1>3. PICK T \in SUBSET S : Cardinality(T) = n /\ ~Bounded(T)
  BY <1>2
<1>4. PICK x \in T : TRUE
  <2>1. T = {} => Bounded(T)
    OBVIOUS
  <2> QED
    BY <1>3, <2>1
<1>5. IsFiniteSet(T)
  BY FS_Subset
<1>6. Cardinality(T \ {x}) = n - 1 /\ n - 1 \in Nat
  <2>1. IsFiniteSet(T \ {x}) /\ Cardinality(T \ {x}) = n - 1
    BY <1>3, <1>4, <1>5, FS_RemoveElement
  <2> QED
    BY <2>1, FS_CardinalityType
<1>7. n - 1 \notin Sizes
  BY <1>2, <1>6
<1>8. Bounded(T \ {x})
  BY <1>6, <1>7
<1>9. PICK b \in Nat : \A s \in T \ {x} : f[s] <= b
  BY <1>8
<1>10. b + f[x] \in Nat /\ \A s \in T : f[s] <= b + f[x]
  BY <1>4, <1>9
<1> QED
  BY <1>3, <1>10

LEMMA TimeType == \A e \in Event : Time(e) \in Nat
  BY StreamAssumption DEF Event, Halves, Time

LEMMA TimesBounded == \E b \in Nat : \A e \in Event : Time(e) <= b
<1> DEFINE f == [t \in Trips |-> EndedAt[t]]
<1>1. f \in [Trips -> Nat]
  BY StreamAssumption
<1>2. PICK b \in Nat : \A t \in Trips : f[t] <= b
  BY <1>1, FiniteBound, StreamAssumption
<1>3. \A e \in Event : Time(e) <= b
  BY <1>2, StreamAssumption DEF Event, Halves, Time
<1> QED
  BY <1>3

-----------------------------------------------------------------------------
(* trip_pairing: the inductive invariant.                                  *)

Partners(x, y) == x.trip = y.trip /\ x.half # y.half

MarksOK ==
  /\ mark \in Int
  /\ latest \in [Columns -> Nat]
  /\ phase # "idle" =>
       /\ plan.rows \subseteq Event
       /\ plan.late = mark /\ plan.mark \in Int /\ mark <= plan.mark

JoinedOK == joined \subseteq [event : accepted, matched : BOOLEAN] /\ accepted \subseteq Event

(* A half that counted is in the state of the join, or nothing that can    *)
(* match it will count.                                                    *)
KeptOrExpired ==
  \A e \in accepted : (\E j \in joined : j.event = e) \/ Expired(e, mark)

(* No half in the state waits for a partner that has counted. *)
NoneWaits == \A j \in joined : \A x \in accepted : Partners(j.event, x) => j.matched

(* A committed alert names a half without partner, and none will count. *)
Settled(a) ==
  /\ a \in accepted /\ Expired(a, mark)
  /\ \A x \in accepted : ~Partners(a, x)

AlertsJust ==
  \A a \in alerts :
    query = "trip_pairing" /\ (Settled(a) \/ (phase # "idle" /\ a \in Orphans))

(* The part that only this query keeps. *)
JoinInv == query = "trip_pairing" => KeptOrExpired /\ NoneWaits

PInv == MarksOK /\ JoinedOK /\ JoinInv /\ AlertsJust

-----------------------------------------------------------------------------
(* The join.                                                               *)

(* Once a half has expired, the time of its partner is not above the       *)
(* watermark.                                                              *)
LEMMA PartnerTooLate ==
  ASSUME NEW x \in Event, NEW e \in Event, NEW m \in Int, Partners(e, x), Expired(x, m)
  PROVE  Time(e) <= m
  BY StreamAssumption DEF Event, Halves, Partners, Expired, Time

LEMMA ExpiredStays ==
  ASSUME NEW x \in Event, NEW m \in Int, NEW n \in Int, m <= n, Expired(x, m)
  PROVE  Expired(x, n)
  BY StreamAssumption, TimeType DEF Expired

LEMMA PartnersMatch ==
  ASSUME NEW x \in Event, NEW y \in Event, Partners(x, y)
  PROVE  Matches(x, y) \/ Matches(y, x)
  BY StreamAssumption DEF Event, Halves, Partners, Matches, Time

LEMMA JoinedFacts ==
  LET rows == {j.event : j \in joined} \cup OnTime
  IN  /\ \A j \in Joined : j.event \in rows /\ j.matched \in BOOLEAN
      /\ \A e \in rows : \E j \in Joined : j.event = e
      /\ \A j \in Joined :
           (\E i \in joined : i.event = j.event /\ i.matched) => j.matched
      /\ \A j \in Joined :
           (\E x \in rows : Matches(j.event, x) \/ Matches(x, j.event)) => j.matched
<1> DEFINE rows == {j.event : j \in joined} \cup OnTime
           met(e) == \/ \E j \in joined : j.event = e /\ j.matched
                     \/ \E x \in rows : Matches(e, x) \/ Matches(x, e)
           row(e) == [event |-> e, matched |-> met(e)]
<1>1. Joined = {row(e) : e \in rows}
  BY DEF Joined
<1>2. \A e : row(e).event = e /\ row(e).matched = met(e)
  OBVIOUS
<1>3. \A e : met(e) \in BOOLEAN
  OBVIOUS
<1> HIDE DEF rows, met, row
<1>4. ASSUME NEW j \in Joined
      PROVE  j.event \in rows /\ j.matched = met(j.event) /\ j.matched \in BOOLEAN
  <2>1. PICK e \in rows : j = row(e)
    BY <1>1
  <2>2. j.event = e /\ j.matched = met(e)
    BY <1>2, <2>1, Zenon
  <2> QED
    BY <1>3, <2>2, Zenon
<1>5. \A e \in rows : row(e) \in Joined /\ row(e).event = e
  BY <1>1, <1>2, Zenon
<1> QED
  BY <1>4, <1>5, Zenon DEF rows, met

(* A row of the state and the batch that no row matches has no partner     *)
(* that has counted or does now.                                           *)
LEMMA UnmatchedAlone ==
  ASSUME PInv, query = "trip_pairing", phase # "idle",
         NEW j \in Joined, ~j.matched, NEW x \in accepted \cup OnTime
  PROVE  ~Partners(j.event, x)
<1> DEFINE rows == {i.event : i \in joined} \cup OnTime
<1> SUFFICES ASSUME Partners(j.event, x) PROVE FALSE
  OBVIOUS
<1>1. OnTime \subseteq Event /\ accepted \subseteq Event /\ rows \subseteq Event
  BY DEF PInv, MarksOK, JoinedOK, OnTime
<1>2. j.event \in rows
  BY JoinedFacts
<1>3. x \notin rows
  <2> SUFFICES ASSUME x \in rows PROVE FALSE
    OBVIOUS
  <2>1. Matches(j.event, x) \/ Matches(x, j.event)
    BY <1>1, <1>2, PartnersMatch
  <2> QED
    BY <2>1, JoinedFacts
<1>4. x \in accepted /\ Expired(x, mark)
  BY <1>3 DEF PInv, JoinInv, KeptOrExpired
<1>5. Time(j.event) <= mark
  BY <1>1, <1>2, <1>4, PartnerTooLate DEF PInv, MarksOK
<1>6. j.event \notin OnTime
  <2>1. \A e \in OnTime : Time(e) > mark
    BY DEF OnTime, PInv, MarksOK
  <2> QED
    BY <1>1, <1>5, <2>1, TimeType DEF PInv, MarksOK
<1>7. PICK i \in joined : i.event = j.event
  BY <1>2, <1>6
<1>8. i.matched
  BY <1>4, <1>7 DEF PInv, JoinInv, NoneWaits
<1> QED
  BY <1>7, <1>8, JoinedFacts

-----------------------------------------------------------------------------
(* The steps.                                                              *)

LEMMA PairingStarts == Init => PInv
  BY DEF Init, PInv, MarksOK, JoinedOK, JoinInv, KeptOrExpired, NoneWaits, AlertsJust

LEMMA NextMarkRises == MarksOK => NextMark \in Int /\ mark <= NextMark
<1> SUFFICES ASSUME MarksOK PROVE NextMark \in Int /\ mark <= NextMark
  OBVIOUS
<1> DEFINE L == {latest[c] : c \in Columns}
<1>1. L \subseteq Nat /\ L # {}
  BY DEF MarksOK, Columns, Halves
<1>2. Min(L) \in Nat
  BY <1>1, MinOfNats
<1>3. Min(L) - Watermark \in Int
  BY <1>2, StreamAssumption
<1> QED
  BY <1>3, MaxOfTwo DEF NextMark, MarksOK

LEMMA LatestType ==
  ASSUME MarksOK, Commit
  PROVE  latest' \in [Columns -> Nat]
<1> SUFFICES ASSUME NEW c \in Columns
             PROVE  Max({latest[c]} \cup {Time(e) : e \in {x \in plan.rows : Column(x) = c}}) \in Nat
  BY DEF Commit
<1> DEFINE S == {latest[c]} \cup {Time(e) : e \in {x \in plan.rows : Column(x) = c}}
<1>1. plan.rows \subseteq Event /\ latest[c] \in Nat
  BY DEF MarksOK, Commit
<1>2. S \subseteq Nat /\ S # {}
  BY <1>1, TimeType
<1>3. PICK b \in Nat : \A e \in Event : Time(e) <= b
  BY TimesBounded
<1>4. b + latest[c] \in Nat /\ \A y \in S : y <= b + latest[c]
  BY <1>1, <1>3, TimeType
<1>5. Max(S) \in S
  BY <1>2, <1>4, MaxOfBounded
<1> QED
  BY <1>2, <1>5

(* What the alerts say holds on while the state of the join is the same.   *)
LEMMA PairingUnchanged ==
  ASSUME PInv, UNCHANGED <<query, phase, plan, mark, latest, joined, accepted, alerts>>
  PROVE  PInv'
<1>1. MarksOK' /\ JoinedOK' /\ JoinInv'
  BY DEF PInv, MarksOK, JoinedOK, JoinInv, KeptOrExpired, NoneWaits, Columns
<1>2. Orphans' = Orphans
  BY DEF Orphans, Joined, OnTime
<1>3. AlertsJust'
  BY <1>2 DEF PInv, AlertsJust, Settled
<1> QED
  BY <1>1, <1>3 DEF PInv

LEMMA PlanKeeps == PInv /\ Plan => PInv'
<1> SUFFICES ASSUME PInv, Plan PROVE PInv'
  OBVIOUS
<1>1. PICK rows \in SUBSET Event : plan' = [rows |-> rows, late |-> mark, mark |-> NextMark]
  BY DEF Plan
<1>2. UNCHANGED <<query, mark, latest, joined, accepted, alerts>> /\ phase = "idle"
  BY DEF Plan, state
<1>3. MarksOK'
  BY <1>1, <1>2, NextMarkRises DEF PInv, MarksOK, Columns
<1>4. JoinedOK' /\ JoinInv'
  BY <1>2 DEF PInv, JoinedOK, JoinInv, KeptOrExpired, NoneWaits
<1>5. AlertsJust'
  BY <1>2 DEF PInv, AlertsJust, Settled
<1> QED
  BY <1>3, <1>4, <1>5 DEF PInv

(* The alerts that a batch writes are those of its orphans, also the second *)
(* time.                                                                   *)
LEMMA WriteKeeps == PInv /\ Write => PInv'
<1> SUFFICES ASSUME PInv, Write PROVE PInv'
  OBVIOUS
<1>1. UNCHANGED <<query, plan, mark, latest, joined, accepted>>
  BY DEF Write, state
<1>2. phase = "planned" /\ phase' = "written"
  BY DEF Write
<1>3. MarksOK' /\ JoinedOK' /\ JoinInv'
  BY <1>1, <1>2 DEF PInv, MarksOK, JoinedOK, JoinInv, KeptOrExpired, NoneWaits, Columns
<1>4. Orphans' = Orphans
  BY <1>1 DEF Orphans, Joined, OnTime
<1>5. \A a \in alerts' : a \in alerts \/ (query = "trip_pairing" /\ a \in Orphans)
  BY DEF Write, sinks
<1>6. AlertsJust'
  BY <1>1, <1>2, <1>4, <1>5 DEF PInv, AlertsJust, Settled
<1> QED
  BY <1>3, <1>6 DEF PInv

LEMMA CrashKeeps == PInv /\ Crash => PInv'
<1> SUFFICES ASSUME PInv, Crash PROVE PInv'
  OBVIOUS
<1>1. UNCHANGED <<query, plan, mark, latest, joined, accepted, alerts>>
  BY DEF Crash, state, sinks
<1>2. phase = "written" /\ phase' = "planned"
  BY DEF Crash
<1>3. MarksOK' /\ JoinedOK' /\ JoinInv'
  BY <1>1, <1>2 DEF PInv, MarksOK, JoinedOK, JoinInv, KeptOrExpired, NoneWaits, Columns
<1>4. Orphans' = Orphans
  BY <1>1 DEF Orphans, Joined, OnTime
<1>5. AlertsJust'
  BY <1>1, <1>2, <1>4 DEF PInv, AlertsJust, Settled
<1> QED
  BY <1>3, <1>5 DEF PInv

LEMMA CommitKeeps == PInv /\ Commit => PInv'
<1> SUFFICES ASSUME PInv, Commit PROVE PInv'
  OBVIOUS
<1> DEFINE rows == {i.event : i \in joined} \cup OnTime
<1>1. /\ phase # "idle" /\ phase' = "idle" /\ mark' = plan.mark
      /\ accepted' = accepted \cup OnTime
      /\ UNCHANGED <<query, alerts>>
  BY DEF Commit, sinks
<1>2. /\ mark \in Int /\ plan.mark \in Int /\ mark <= plan.mark /\ plan.late = mark
      /\ OnTime \subseteq Event /\ accepted \subseteq Event /\ rows \subseteq accepted'
  BY <1>1 DEF PInv, MarksOK, JoinedOK, OnTime
<1>3. \A e \in OnTime : Time(e) > mark
  BY <1>2 DEF OnTime
<1>4. MarksOK'
  <2>1. latest' \in [Columns' -> Nat]
    BY <1>1, LatestType DEF PInv, Columns
  <2> QED
    BY <1>1, <1>2, <2>1 DEF MarksOK
<1>5. \A x \in accepted, m \in Int : Expired(x, mark) /\ mark <= m => Expired(x, m)
  BY <1>2, ExpiredStays
<1>6. CASE query = "trip_pairing"
  <2>1. joined' = {j \in Joined : ~Expired(j.event, plan.mark)}
    BY <1>6 DEF Commit
  <2>2. JoinedOK'
    <3>1. \A j \in Joined : j \in [event : accepted', matched : BOOLEAN]
      BY <1>2, JoinedFacts DEF Joined
    <3> QED
      BY <1>1, <1>2, <2>1, <3>1 DEF JoinedOK
  <2>3. KeptOrExpired'
    <3> SUFFICES ASSUME NEW e \in accepted'
                 PROVE  (\E j \in joined' : j.event = e) \/ Expired(e, plan.mark)
      BY <1>1 DEF KeptOrExpired, Expired, Time
    <3>1. CASE e \in rows
      BY <2>1, <3>1, JoinedFacts
    <3>2. CASE e \notin rows
      <4>1. e \in accepted /\ Expired(e, mark)
        BY <1>1, <1>6, <3>2 DEF PInv, JoinInv, KeptOrExpired
      <4> QED
        BY <1>2, <1>5, <4>1
    <3> QED
      BY <3>1, <3>2
  <2>4. NoneWaits'
    <3> SUFFICES ASSUME NEW j \in joined', NEW x \in accepted', Partners(j.event, x)
                 PROVE  j.matched
      BY DEF NoneWaits, Partners
    <3>1. j \in Joined /\ x \in accepted \cup OnTime
      BY <1>1, <2>1
    <3> QED
      BY <1>1, <1>6, <3>1, UnmatchedAlone
  <2>5. AlertsJust'
    <3> SUFFICES ASSUME NEW a \in alerts PROVE Settled(a)'
      BY <1>1, <1>6 DEF AlertsJust
    <3>1. CASE Settled(a)
      <4>1. a \in accepted /\ Expired(a, mark) /\ \A x \in accepted : ~Partners(a, x)
        BY <3>1 DEF Settled
      <4>2. ASSUME NEW x \in OnTime, Partners(a, x) PROVE FALSE
        <5>1. Partners(x, a) /\ Time(x) > mark
          BY <1>3, <4>2 DEF Partners
        <5>2. Time(x) <= mark
          BY <1>2, <4>1, <5>1, PartnerTooLate
        <5> QED
          BY <1>2, <5>1, <5>2, TimeType
      <4>3. Expired(a, plan.mark)
        BY <1>2, <1>5, <4>1
      <4> QED
        BY <1>1, <4>1, <4>2, <4>3 DEF Settled, Expired, Partners, Time
    <3>2. CASE a \in Orphans
      <4>1. PICK j \in Joined : j.event = a /\ ~j.matched /\ Expired(a, plan.mark)
        BY <3>2 DEF Orphans
      <4>2. \A x \in accepted' : ~Partners(a, x)
        BY <1>1, <1>6, <4>1, UnmatchedAlone
      <4>3. a \in accepted'
        BY <1>2, <4>1, JoinedFacts
      <4> QED
        BY <1>1, <4>1, <4>2, <4>3 DEF Settled, Expired, Partners, Time
    <3> QED
      BY <3>1, <3>2 DEF PInv, AlertsJust
  <2> QED
    BY <1>1, <1>4, <2>2, <2>3, <2>4, <2>5 DEF PInv, JoinInv
<1>7. CASE query # "trip_pairing"
  <2>1. joined' = joined /\ alerts = {}
    BY <1>7 DEF Commit, PInv, AlertsJust
  <2>2. JoinedOK' /\ AlertsJust' /\ JoinInv'
    BY <1>1, <1>2, <1>7, <2>1 DEF PInv, JoinedOK, AlertsJust, JoinInv
  <2> QED
    BY <1>4, <2>2 DEF PInv
<1> QED
  BY <1>6, <1>7

LEMMA PairingStep == PInv /\ [Next]_vars => PInv'
<1> SUFFICES ASSUME PInv, [Next]_vars PROVE PInv'
  OBVIOUS
<1>1. CASE JudgeReports
  BY <1>1, PairingUnchanged DEF JudgeReports, state, sinks
<1>2. CASE UNCHANGED vars
  BY <1>2, PairingUnchanged DEF vars
<1> QED
  BY <1>1, <1>2, PlanKeeps, WriteKeeps, CommitKeeps, CrashKeeps DEF Next

(* main.py:173, rules.py:288-291: no trip whose halves both counted is      *)
(* reported as an orphan, for any trips, delays, copies and crashes.        *)
THEOREM OrphansAreTrue == Spec => []NoFalseOrphan
<1>1. PInv => NoFalseOrphan
  <2> SUFFICES ASSUME PInv, NEW t \in Trips,
                      {[trip |-> t, half |-> h] : h \in Halves} \subseteq accepted,
                      NEW e \in alerts, e.trip = t
               PROVE  FALSE
    BY DEF NoFalseOrphan
  <2>1. \A h \in Halves : [trip |-> t, half |-> h] \in accepted
    OBVIOUS
  <2>2. query = "trip_pairing"
    BY DEF PInv, AlertsJust
  <2>3. e \in Event /\ \A x \in accepted : ~Partners(e, x)
    <3>1. CASE Settled(e)
      BY <3>1 DEF Settled, PInv, JoinedOK
    <3>2. CASE phase # "idle" /\ e \in Orphans
      <4>1. PICK j \in Joined : j.event = e /\ ~j.matched
        BY <3>2 DEF Orphans
      <4>2. e \in Event
        BY <3>2, <4>1, JoinedFacts DEF PInv, JoinedOK, MarksOK, OnTime
      <4> QED
        BY <2>2, <3>2, <4>1, <4>2, UnmatchedAlone
    <3> QED
      BY <3>1, <3>2 DEF PInv, AlertsJust
  <2>4. PICK h \in Halves : h # e.half
    BY DEF Halves
  <2>5. Partners(e, [trip |-> t, half |-> h])
    BY <2>4 DEF Partners
  <2> QED
    BY <2>1, <2>3, <2>4, <2>5
<1> QED
  BY <1>1, PairingStarts, PairingStep, PTL DEF Spec
-----------------------------------------------------------------------------
(* station_metrics: the inductive invariant.                               *)

In(S, w) == {e \in S : Window(e) = w}

SeenIs == seen = {e \in accepted : Time(e) + Watermark > mark}

CountsAre ==
  \A w \in Windows :
    counts[w] = IF WindowEnd(w) <= mark THEN 0 ELSE Cardinality(In(accepted, w))

(* Window w, when no batch has written it since the last commit: the lake   *)
(* has all that counted in it if it is closed, and nothing otherwise.       *)
Balanced(w) ==
  IF WindowEnd(w) <= mark
  THEN Cardinality(In(accepted, w)) = IF lake[w] = None THEN 0 ELSE lake[w]
  ELSE lake[w] = None

Filed == phase # "idle" /\ filed

Accounts ==
  \A w \in Windows : IF Filed /\ w \in Closed THEN lake[w] = Counts[w] ELSE Balanced(w)

MetricsTyped ==
  /\ counts \in [Windows -> Nat] /\ lake \in [Windows -> (Nat \ {0}) \cup {None}]
  /\ filed \in BOOLEAN /\ accepted \subseteq arrived /\ arrived \subseteq Event

OneQuery ==
  IF query = "station_metrics" THEN phase = "written" => filed
  ELSE seen = {} /\ \A w \in Windows : counts[w] = 0 /\ lake[w] = None

MInv ==
  /\ MetricsTyped /\ OneQuery
  /\ query = "station_metrics" => SeenIs /\ CountsAre /\ Accounts

-----------------------------------------------------------------------------
(* Counting the events of a window.                                        *)

LEMMA EventFinite == IsFiniteSet(Event)
<1> DEFINE Half(h) == {[trip |-> t, half |-> h] : t \in Trips}
<1>1. ASSUME NEW h PROVE IsFiniteSet(Half(h))
  <2> DEFINE f == [t \in Trips |-> [trip |-> t, half |-> h]]
  <2>1. f \in Surjection(Trips, Half(h))
    BY DEF Surjection
  <2> QED
    BY <2>1, FS_Surjection, StreamAssumption
<1>2. Event = Half("trip_started") \cup Half("trip_ended")
  <2>1. ASSUME NEW e \in Event PROVE e \in Half("trip_started") \cup Half("trip_ended")
    <3>1. e = [trip |-> e.trip, half |-> e.half] /\ e.trip \in Trips
          /\ (e.half = "trip_started" \/ e.half = "trip_ended")
      BY DEF Event, Halves
    <3> QED
      BY <3>1
  <2>2. Half("trip_started") \subseteq Event /\ Half("trip_ended") \subseteq Event
    BY DEF Event, Halves
  <2> QED
    BY <2>1, <2>2
<1> QED
  BY <1>1, <1>2, FS_Union

LEMMA WindowOf ==
  ASSUME NEW t \in Nat, NEW l \in Nat \ {0}
  PROVE  t \div l \in Nat /\ t < ((t \div l) + 1) * l
  OBVIOUS

LEMMA WindowBelow ==
  ASSUME NEW t \in Nat, NEW b \in Nat, t <= b, NEW l \in Nat \ {0}
  PROVE  t \div l <= b
  OBVIOUS

LEMMA EndOf ==
  ASSUME NEW n \in Nat, NEW l \in Nat \ {0}
  PROVE  (n + 1) * l \in Nat /\ (n + 1) * l > 0
  OBVIOUS

LEMMA WindowFacts ==
  /\ \A e \in Event : Window(e) \in Windows /\ Time(e) < WindowEnd(Window(e))
  /\ \A w \in Windows : w \in Nat /\ WindowEnd(w) \in Nat /\ WindowEnd(w) > 0
<1>1. ASSUME NEW e \in Event
      PROVE  Window(e) \in Nat /\ Window(e) \in Windows /\ Time(e) < WindowEnd(Window(e))
  BY TimeType, StreamAssumption, WindowOf DEF Window, WindowEnd, Windows
<1>2. ASSUME NEW w \in Windows
      PROVE  w \in Nat /\ WindowEnd(w) \in Nat /\ WindowEnd(w) > 0
  BY <1>1, EndOf, StreamAssumption DEF Windows, WindowEnd
<1> QED
  BY <1>1, <1>2

LEMMA CountIn ==
  ASSUME NEW S, S \subseteq Event, NEW w
  PROVE  /\ IsFiniteSet(In(S, w)) /\ Cardinality(In(S, w)) \in Nat
         /\ Cardinality(In(S, w)) = 0 <=> In(S, w) = {}
<1>1. In(S, w) \in SUBSET Event
  BY DEF In
<1>2. IsFiniteSet(In(S, w))
  BY <1>1, EventFinite, FS_Subset
<1> QED
  BY <1>2, FS_CardinalityType, FS_EmptySet

LEMMA CountAdds ==
  ASSUME NEW S, S \subseteq Event, NEW T, T \subseteq Event, S \cap T = {}, NEW w
  PROVE  Cardinality(In(S \cup T, w)) = Cardinality(In(S, w)) + Cardinality(In(T, w))
<1>1. IsFiniteSet(In(S, w)) /\ IsFiniteSet(In(T, w))
  BY CountIn
<1>2. /\ Cardinality(In(S, w)) \in Nat /\ Cardinality(In(T, w)) \in Nat
      /\ Cardinality(In(S, w) \cap In(T, w)) = 0
  <2>1. In(S, w) \cap In(T, w) = {}
    BY DEF In
  <2> QED
    BY <2>1, CountIn, FS_EmptySet
<1>3. In(S \cup T, w) = In(S, w) \cup In(T, w)
  BY DEF In
<1>4. Cardinality(In(S, w) \cup In(T, w))
        = Cardinality(In(S, w)) + Cardinality(In(T, w)) - Cardinality(In(S, w) \cap In(T, w))
  BY <1>1, FS_Union
<1>5. ASSUME NEW a \in Nat, NEW b \in Nat PROVE a + b - 0 = a + b
  OBVIOUS
<1>6. Cardinality(In(S \cup T, w)) = Cardinality(In(S, w)) + Cardinality(In(T, w)) - 0
  BY <1>2, <1>3, <1>4
<1> QED
  BY <1>2, <1>5, <1>6, Zenon

LEMMA CountSubset ==
  ASSUME NEW S, S \subseteq Event, NEW T, T \subseteq S, NEW w
  PROVE  Cardinality(In(T, w)) <= Cardinality(In(S, w))
<1>1. In(T, w) \in SUBSET In(S, w)
  BY DEF In
<1> QED
  BY <1>1, CountIn, FS_Subset

-----------------------------------------------------------------------------
(* The steps of station_metrics.                                           *)

(* What a batch adds to the counts: of a window that is closed, nothing.   *)
LEMMA BatchCounts ==
  ASSUME MarksOK, MInv, query = "station_metrics", phase # "idle"
  PROVE  /\ OnTime \subseteq Event /\ accepted \subseteq Event
         /\ accepted \cup OnTime = accepted \cup Fresh /\ Fresh \subseteq Event
         /\ Counts \in [Windows -> Nat]
         /\ \A w \in Windows :
              /\ WindowEnd(w) <= mark =>
                   /\ Counts[w] = 0
                   /\ In(accepted \cup OnTime, w) = In(accepted, w)
              /\ WindowEnd(w) > mark =>
                   Counts[w] = Cardinality(In(accepted \cup OnTime, w))
<1>1. /\ OnTime \subseteq Event /\ accepted \subseteq Event /\ Fresh \subseteq Event
      /\ mark \in Int /\ \A e \in OnTime : Time(e) > mark
  BY DEF MarksOK, MInv, MetricsTyped, OnTime, Fresh
<1>2. OnTime \cap accepted \subseteq seen /\ seen \subseteq accepted
  <2>1. ASSUME NEW e \in OnTime, e \in accepted PROVE Time(e) + Watermark > mark
    BY <1>1, TimeType, StreamAssumption
  <2> QED
    BY <2>1 DEF MInv, SeenIs
<1>3. accepted \cup OnTime = accepted \cup Fresh /\ accepted \cap Fresh = {}
  BY <1>2 DEF Fresh
<1>4. ASSUME NEW w \in Windows
      PROVE  /\ Counts[w] = counts[w] + Cardinality(In(Fresh, w))
             /\ Cardinality(In(Fresh, w)) \in Nat /\ counts[w] \in Nat
  BY <1>1, CountIn DEF Counts, In, MInv, MetricsTyped
<1>5. Counts \in [Windows -> Nat]
  <2>1. \A w \in Windows : Counts[w] \in Nat
    BY <1>4
  <2> QED
    BY <2>1 DEF Counts
<1>6. ASSUME NEW w \in Windows, WindowEnd(w) <= mark
      PROVE  Counts[w] = 0 /\ In(accepted \cup OnTime, w) = In(accepted, w)
  <2>1. ASSUME NEW e \in OnTime, Window(e) = w PROVE FALSE
    <3>1. Time(e) > mark /\ Time(e) < WindowEnd(w) /\ WindowEnd(w) \in Nat /\ Time(e) \in Nat
      BY <1>1, <2>1, WindowFacts, TimeType
    <3> QED
      BY <1>1, <1>6, <3>1
  <2>2. In(Fresh, w) = {} /\ In(OnTime, w) = {}
    BY <2>1 DEF In, Fresh
  <2>3. Cardinality(In(Fresh, w)) = 0
    BY <2>2, FS_EmptySet
  <2>4. counts[w] = 0
    BY <1>6 DEF MInv, CountsAre
  <2>5. In(accepted \cup OnTime, w) = In(accepted, w)
    BY <2>2 DEF In
  <2> QED
    BY <1>4, <2>3, <2>4, <2>5
<1>7. ASSUME NEW w \in Windows, WindowEnd(w) > mark
      PROVE  Counts[w] = Cardinality(In(accepted \cup OnTime, w))
  <2>1. ~(WindowEnd(w) <= mark)
    BY <1>1, <1>7, WindowFacts
  <2>2. counts[w] = Cardinality(In(accepted, w))
    BY <2>1 DEF MInv, CountsAre
  <2>3. Cardinality(In(accepted \cup Fresh, w))
          = Cardinality(In(accepted, w)) + Cardinality(In(Fresh, w))
    BY <1>1, <1>3, CountAdds
  <2> QED
    BY <1>3, <1>4, <2>2, <2>3
<1> QED
  BY <1>1, <1>3, <1>5, <1>6, <1>7

(* What is counted, seen and written holds on while none of it changes. *)
LEMMA MetricsUnchanged ==
  ASSUME MInv, UNCHANGED <<query, mark, seen, counts, lake, accepted, arrived>>
  PROVE  /\ UNCHANGED <<phase, plan, filed>> => MInv'
         /\ SeenIs = SeenIs' /\ CountsAre = CountsAre'
         /\ \A w \in Windows : Balanced(w) = Balanced(w)'
<1>1. /\ query = "station_metrics" => SeenIs /\ CountsAre
      /\ MetricsTyped /\ OneQuery
  BY DEF MInv
<1>2. SeenIs = SeenIs' /\ CountsAre = CountsAre'
  BY DEF SeenIs, CountsAre, In
<1>3. \A w \in Windows : Balanced(w) = Balanced(w)'
  BY DEF Balanced, In
<1>4. ASSUME UNCHANGED <<phase, plan, filed>> PROVE MInv'
  <2>1. Closed' = Closed /\ Counts' = Counts
    BY <1>4 DEF Closed, Counts, Fresh, OnTime
  <2>2. MetricsTyped' /\ OneQuery'
    BY <1>1, <1>4 DEF MetricsTyped, OneQuery
  <2>3. query = "station_metrics" => Accounts'
    <3> SUFFICES ASSUME query = "station_metrics", NEW w \in Windows
                 PROVE  IF Filed /\ w \in Closed THEN lake[w] = Counts[w] ELSE Balanced(w)'
      BY <1>4, <2>1 DEF Accounts, Filed
    <3> QED
      BY <1>3 DEF MInv, Accounts
  <2> QED
    BY <1>1, <1>2, <2>2, <2>3 DEF MInv
<1> QED
  BY <1>2, <1>3, <1>4

LEMMA MetricsStarts == Init => MInv
<1> SUFFICES ASSUME Init PROVE MInv
  OBVIOUS
<1> USE DEF Init
<1>1. \A w \in Windows : WindowEnd(w) \in Nat /\ WindowEnd(w) > 0
  BY WindowFacts
<1>2. MetricsTyped /\ OneQuery
  BY DEF MetricsTyped, OneQuery
<1>3. SeenIs
  BY DEF SeenIs
<1>4. ASSUME NEW w \in Windows
      PROVE  /\ Cardinality(In(accepted, w)) = 0 /\ ~(WindowEnd(w) <= mark)
             /\ counts[w] = 0 /\ lake[w] = None
  <2>1. In(accepted, w) = {}
    BY DEF In
  <2>2. ~(WindowEnd(w) <= 0)
    BY <1>1
  <2> QED
    BY <2>1, <2>2, FS_EmptySet
<1>5. CountsAre
  BY <1>4 DEF CountsAre
<1>6. Accounts
  BY <1>4 DEF Accounts, Filed, Balanced
<1> QED
  BY <1>2, <1>3, <1>5, <1>6 DEF MInv

LEMMA MetricsPlan == MInv /\ Plan => MInv'
<1> SUFFICES ASSUME MInv, Plan PROVE MInv'
  OBVIOUS
<1>1. /\ UNCHANGED <<query, mark, seen, counts, lake, accepted, arrived>>
      /\ phase = "idle" /\ phase' = "planned" /\ filed' = FALSE
  BY DEF Plan, state
<1>2. SeenIs = SeenIs' /\ CountsAre = CountsAre' /\ \A w \in Windows : Balanced(w) = Balanced(w)'
  BY <1>1, MetricsUnchanged
<1>3. MetricsTyped' /\ OneQuery'
  BY <1>1 DEF MInv, MetricsTyped, OneQuery
<1>4. query = "station_metrics" => Accounts'
  <2> SUFFICES ASSUME query = "station_metrics", NEW w \in Windows PROVE Balanced(w)'
    BY <1>1 DEF Accounts, Filed
  <2>1. Balanced(w)
    BY <1>1 DEF MInv, Accounts, Filed
  <2> QED
    BY <1>2, <2>1
<1> QED
  BY <1>1, <1>2, <1>3, <1>4 DEF MInv

LEMMA MetricsCrash == MInv /\ Crash => MInv'
<1> SUFFICES ASSUME MInv, Crash PROVE MInv'
  OBVIOUS
<1>1. /\ UNCHANGED <<query, mark, seen, counts, lake, accepted, arrived, plan, filed>>
      /\ phase = "written" /\ phase' = "planned"
  BY DEF Crash, state, sinks
<1>2. SeenIs = SeenIs' /\ CountsAre = CountsAre' /\ \A w \in Windows : Balanced(w) = Balanced(w)'
  BY <1>1, MetricsUnchanged
<1>3. MetricsTyped' /\ OneQuery'
  BY <1>1 DEF MInv, MetricsTyped, OneQuery
<1>4. Closed' = Closed /\ Counts' = Counts /\ Filed' = Filed
  BY <1>1 DEF Closed, Counts, Fresh, OnTime, Filed
<1>5. query = "station_metrics" => Accounts'
  <2> SUFFICES ASSUME query = "station_metrics", NEW w \in Windows
               PROVE  IF Filed /\ w \in Closed THEN lake[w] = Counts[w] ELSE Balanced(w)'
    BY <1>1, <1>4 DEF Accounts
  <2> QED
    BY <1>2 DEF MInv, Accounts
<1> QED
  BY <1>1, <1>2, <1>3, <1>5 DEF MInv

(* The lake gets the windows that close, once: they were open before. *)
LEMMA MetricsWrite == MarksOK /\ MInv /\ Write => MInv'
<1> SUFFICES ASSUME MarksOK, MInv, Write PROVE MInv'
  OBVIOUS
<1>1. /\ UNCHANGED <<query, plan, mark, seen, counts, accepted, arrived>>
      /\ phase = "planned" /\ phase' = "written"
  BY DEF Write, state
<1>2. SeenIs = SeenIs' /\ CountsAre = CountsAre'
  BY <1>1 DEF SeenIs, CountsAre, In
<1>3. Closed' = Closed /\ Counts' = Counts
  BY <1>1 DEF Closed, Counts, Fresh, OnTime
<1>4. CASE query = "station_metrics" /\ ~filed
  <2>1. /\ filed' = TRUE
        /\ lake' = [w \in Windows |->
                      IF w \in Closed THEN Counts[w] + (IF lake[w] = None THEN 0 ELSE lake[w])
                                      ELSE lake[w]]
    BY <1>4 DEF Write
  <2>2. ASSUME NEW w \in Windows, w \in Closed
        PROVE  lake'[w] = Counts[w] /\ Counts[w] \in Nat \ {0}
    <3>1. Counts[w] > 0 /\ Counts[w] \in Nat
      BY <1>1, <1>4, <2>2, BatchCounts DEF Closed
    <3>2. ~(WindowEnd(w) <= mark)
      <4>1. WindowEnd(w) <= mark => Counts[w] = 0
        BY <1>1, <1>4, BatchCounts
      <4> QED
        BY <3>1, <4>1
    <3>3. lake[w] = None
      BY <1>4, <3>2 DEF MInv, Accounts, Filed, Balanced
    <3>4. lake'[w] = Counts[w] + 0
      BY <2>1, <2>2, <3>3
    <3> QED
      BY <3>1, <3>4
  <2>3. ASSUME NEW w \in Windows, w \notin Closed
        PROVE  lake'[w] = lake[w] /\ Balanced(w)'
    <3>1. lake'[w] = lake[w]
      BY <2>1, <2>3
    <3>2. Balanced(w)
      BY <1>4 DEF MInv, Accounts, Filed
    <3> QED
      BY <1>1, <3>1, <3>2 DEF Balanced, In
  <2>4. lake' \in [Windows -> (Nat \ {0}) \cup {None}]
    <3>1. \A w \in Windows : lake'[w] \in (Nat \ {0}) \cup {None}
      BY <2>2, <2>3 DEF MInv, MetricsTyped
    <3> QED
      BY <2>1, <3>1
  <2>5. MetricsTyped' /\ OneQuery'
    BY <1>1, <1>4, <2>1, <2>4 DEF MInv, MetricsTyped, OneQuery
  <2>6. Accounts'
    BY <1>1, <1>3, <2>1, <2>2, <2>3 DEF Accounts, Filed
  <2> QED
    BY <1>1, <1>2, <1>4, <2>5, <2>6 DEF MInv
<1>5. CASE query = "station_metrics" /\ filed
  <2>1. UNCHANGED <<lake, filed>>
    BY <1>5 DEF Write, sinks
  <2>2. \A w \in Windows : Balanced(w) = Balanced(w)'
    BY <1>1, <2>1, MetricsUnchanged
  <2>3. MetricsTyped' /\ OneQuery'
    BY <1>1, <1>5, <2>1 DEF MInv, MetricsTyped, OneQuery
  <2>4. Filed /\ Filed'
    BY <1>1, <1>5, <2>1 DEF Filed
  <2>5. Accounts'
    <3> SUFFICES ASSUME NEW w \in Windows
                 PROVE  IF w \in Closed THEN lake[w] = Counts[w] ELSE Balanced(w)'
      BY <1>3, <2>1, <2>4 DEF Accounts
    <3> QED
      BY <1>5, <2>2, <2>4 DEF MInv, Accounts
  <2> QED
    BY <1>1, <1>2, <1>5, <2>3, <2>5 DEF MInv
<1>6. CASE query # "station_metrics"
  <2>1. UNCHANGED <<lake, filed>>
    BY <1>6 DEF Write
  <2> QED
    BY <1>1, <1>6, <2>1 DEF MInv, MetricsTyped, OneQuery
<1> QED
  BY <1>4, <1>5, <1>6

(* What the batch counted is in the state or, its window closed, in the lake. *)
LEMMA MetricsCommit == MarksOK /\ MInv /\ Commit => MInv'
<1> SUFFICES ASSUME MarksOK, MInv, Commit PROVE MInv'
  OBVIOUS
<1>1. /\ phase = "written" /\ phase' = "idle" /\ mark' = plan.mark
      /\ accepted' = accepted \cup OnTime /\ arrived' = arrived \cup plan.rows
      /\ UNCHANGED <<query, lake, filed>>
  BY DEF Commit, sinks
<1>2. /\ mark \in Int /\ plan.mark \in Int /\ mark <= plan.mark /\ plan.late = mark
      /\ plan.rows \subseteq Event /\ OnTime \subseteq plan.rows
  BY <1>1 DEF MarksOK, OnTime
<1>3. accepted' \subseteq arrived' /\ arrived' \subseteq Event
  BY <1>1, <1>2 DEF MInv, MetricsTyped
<1>4. CASE query = "station_metrics"
  <2>1. /\ seen' = {e \in seen \cup OnTime : Time(e) + Watermark > plan.mark}
        /\ counts' = [w \in Windows |-> IF w \in Closed THEN 0 ELSE Counts[w]]
        /\ SeenIs /\ CountsAre /\ Accounts /\ Filed
    BY <1>1, <1>4 DEF Commit, MInv, OneQuery, Filed
  <2>2. /\ accepted \subseteq Event /\ Counts \in [Windows -> Nat]
        /\ \A w \in Windows :
             /\ WindowEnd(w) <= mark =>
                  Counts[w] = 0 /\ In(accepted', w) = In(accepted, w)
             /\ WindowEnd(w) > mark => Counts[w] = Cardinality(In(accepted', w))
    BY <1>1, <1>4, BatchCounts
  <2>3. SeenIs'
    <3>1. ASSUME NEW e \in accepted, Time(e) + Watermark > plan.mark PROVE e \in seen
      <4>1. Time(e) + Watermark > mark
        BY <1>2, <2>2, <3>1, TimeType, StreamAssumption
      <4> QED
        BY <2>1, <4>1 DEF SeenIs
    <3>2. seen \subseteq accepted
      BY <2>1 DEF SeenIs
    <3>3. seen' = {e \in accepted' : Time(e) + Watermark > plan.mark}
      BY <1>1, <2>1, <3>1, <3>2
    <3> QED
      BY <1>1, <3>3 DEF SeenIs, Time
  <2>4. ASSUME NEW w \in Windows
        PROVE  /\ WindowEnd(w) \in Nat /\ Counts[w] \in Nat
               /\ w \in Closed <=> Counts[w] > 0 /\ WindowEnd(w) <= plan.mark
               /\ counts'[w] = IF w \in Closed THEN 0 ELSE Counts[w]
               /\ IF w \in Closed THEN lake[w] = Counts[w] ELSE Balanced(w)
    <3>1. WindowEnd(w) \in Nat /\ Counts[w] \in Nat
      BY <2>2, WindowFacts
    <3>2. IF w \in Closed THEN lake[w] = Counts[w] ELSE Balanced(w)
      BY <2>1 DEF Accounts
    <3> QED
      BY <2>1, <3>1, <3>2 DEF Closed
  <2>5. ASSUME NEW w \in Windows
        PROVE  /\ counts'[w] = IF WindowEnd(w) <= plan.mark THEN 0
                               ELSE Cardinality(In(accepted', w))
               /\ IF WindowEnd(w) <= plan.mark
                  THEN Cardinality(In(accepted', w)) = IF lake[w] = None THEN 0 ELSE lake[w]
                  ELSE lake[w] = None
    <3> DEFINE end == WindowEnd(w)
               n == Counts[w]
               size == Cardinality(In(accepted', w))
    <3>1. /\ end \in Nat /\ n \in Nat /\ None \notin Nat
          /\ end <= mark => n = 0 /\ size = Cardinality(In(accepted, w))
          /\ end > mark => n = size
          /\ w \in Closed <=> n > 0 /\ end <= plan.mark
          /\ counts'[w] = IF w \in Closed THEN 0 ELSE n
          /\ IF w \in Closed THEN lake[w] = n ELSE Balanced(w)
      BY <2>2, <2>4, StreamAssumption
    <3>2. Balanced(w) <=> IF end <= mark
                          THEN Cardinality(In(accepted, w)) = IF lake[w] = None THEN 0 ELSE lake[w]
                          ELSE lake[w] = None
      BY DEF Balanced
    <3> HIDE DEF end, n, size
    <3>3. CASE w \in Closed
      <4>1. n > 0 /\ end <= plan.mark /\ end > mark /\ n = size
        BY <1>2, <3>1, <3>3
      <4> QED
        BY <3>1, <3>3, <4>1 DEF end, size
    <3>4. CASE w \notin Closed /\ end <= mark
      <4>1. end <= plan.mark /\ n = 0
        BY <1>2, <3>1, <3>4
      <4> QED
        BY <3>1, <3>2, <3>4, <4>1 DEF end, size
    <3>5. CASE w \notin Closed /\ end > mark
      <4>1. lake[w] = None /\ n = size /\ counts'[w] = n
        <5>1. ~(end <= mark)
          BY <1>2, <3>1, <3>5
        <5> QED
          BY <3>1, <3>2, <3>5, <5>1
      <4>2. end <= plan.mark => n = 0
        BY <3>1, <3>5
      <4> QED
        BY <4>1, <4>2 DEF end, size
    <3>6. end <= mark \/ end > mark
      BY <1>2, <3>1
    <3> QED
      BY <3>3, <3>4, <3>5, <3>6
  <2>6. CountsAre'
    BY <1>1, <2>5 DEF CountsAre, WindowEnd, Windows, In, Window, Time
  <2>7. Accounts'
    <3>1. \A w \in Windows : Balanced(w)'
      BY <1>1, <2>5 DEF Balanced, WindowEnd, In, Window, Time
    <3> QED
      BY <1>1, <3>1 DEF Accounts, Filed
  <2>8. counts' \in [Windows -> Nat]
    <3>1. \A w \in Windows : counts'[w] \in Nat
      BY <2>4
    <3> QED
      BY <2>1, <3>1
  <2>9. MetricsTyped' /\ OneQuery'
    BY <1>1, <1>3, <1>4, <2>8 DEF MInv, MetricsTyped, OneQuery
  <2> QED
    BY <1>1, <1>4, <2>3, <2>6, <2>7, <2>9 DEF MInv
<1>5. CASE query # "station_metrics"
  <2>1. UNCHANGED <<seen, counts>>
    BY <1>5 DEF Commit
  <2>2. MetricsTyped' /\ OneQuery'
    BY <1>1, <1>3, <1>5, <2>1 DEF MInv, MetricsTyped, OneQuery
  <2> QED
    BY <1>1, <1>5, <2>2 DEF MInv
<1> QED
  BY <1>4, <1>5

LEMMA MetricsStep == PInv /\ MInv /\ [Next]_vars => MInv'
<1> SUFFICES ASSUME PInv, MInv, [Next]_vars PROVE MInv'
  OBVIOUS
<1>1. MarksOK
  BY DEF PInv
<1>2. CASE JudgeReports
  BY <1>2, MetricsUnchanged DEF JudgeReports, state, sinks
<1>3. CASE UNCHANGED vars
  BY <1>3, MetricsUnchanged DEF vars
<1> QED
  BY <1>1, <1>2, <1>3, MetricsPlan, MetricsWrite, MetricsCommit, MetricsCrash DEF Next

(* A window is compared once the watermark has closed it. *)
LEMMA ComparedClosed ==
  ASSUME MarksOK, MInv, query = "station_metrics", phase = "idle",
         NEW x \in Windows, WindowEnd(x) <= ComparedUntil
  PROVE  WindowEnd(x) <= mark
<1> DEFINE written == {WindowEnd(w) : w \in {y \in Windows : lake[y] # None}}
           read == {Window(e) : e \in arrived}
<1>1. mark \in Int /\ \A w \in Windows : WindowEnd(w) \in Nat /\ WindowEnd(w) > 0
  BY WindowFacts DEF MarksOK
<1>2. ASSUME NEW w \in Windows, lake[w] # None
      PROVE  WindowEnd(w) <= mark /\ In(accepted, w) # {}
  <2>1. Balanced(w) /\ lake[w] \in Nat \ {0}
    BY <1>2 DEF MInv, Accounts, Filed, MetricsTyped
  <2>2. WindowEnd(w) <= mark /\ Cardinality(In(accepted, w)) # 0
    BY <1>2, <2>1 DEF Balanced
  <2> QED
    BY <2>2, FS_EmptySet
<1>3. written # {}
  <2> SUFFICES ASSUME written = {} PROVE FALSE
    OBVIOUS
  <2>1. ComparedUntil = 0
    BY DEF ComparedUntil
  <2> QED
    BY <1>1, <2>1
<1>4. written \subseteq Nat /\ \A n \in written : n <= mark /\ mark \in Nat
  BY <1>1, <1>2
<1>5. Max(written) \in Nat /\ Max(written) <= mark
  <2>1. Max(written) \in written
    BY <1>3, <1>4, MaxOfBounded
  <2> QED
    BY <1>4, <2>1
<1>6. Max(read) \in Nat
  <2>1. read # {} /\ read \subseteq Nat
    <3>1. PICK w \in Windows : lake[w] # None
      BY <1>3
    <3>2. arrived # {}
      BY <1>2, <3>1 DEF In, MInv, MetricsTyped
    <3>3. \A e \in arrived : Window(e) \in Nat
      BY WindowFacts DEF MInv, MetricsTyped
    <3> QED
      BY <3>2, <3>3
  <2>2. PICK b \in Nat : \A e \in Event : Time(e) <= b
    BY TimesBounded
  <2>3. ASSUME NEW e \in arrived PROVE Window(e) <= b
    <3>1. Time(e) \in Nat /\ Time(e) <= b
      BY <2>2, TimeType DEF MInv, MetricsTyped
    <3> QED
      BY <2>2, <3>1, WindowBelow, StreamAssumption DEF Window
  <2>4. \A n \in read : n <= b
    BY <2>3
  <2> QED
    BY <2>1, <2>2, <2>4, MaxOfBounded
<1>7. PICK a \in Nat : a = Max(written)
  BY <1>5
<1>8. PICK c \in Nat : c = Max(read) * WindowLen
  <2>1. ASSUME NEW m \in Nat, NEW l \in Nat PROVE m * l \in Nat
    OBVIOUS
  <2> QED
    BY <1>6, <2>1, StreamAssumption
<1>9. ComparedUntil = Min({a, c})
  <2> HIDE DEF written
  <2>1. ComparedUntil = IF written = {} THEN 0 ELSE Min({Max(written), Max(read) * WindowLen})
    BY DEF ComparedUntil, written
  <2> QED
    BY <1>3, <1>7, <1>8, <2>1
<1>10. Min({a, c}) \in Nat /\ Min({a, c}) <= a
  <2>1. \E y \in {a, c} : \A z \in {a, c} : y <= z
    OBVIOUS
  <2> QED
    BY <2>1 DEF Min
<1> HIDE DEF written, read
<1> QED
  BY <1>1, <1>5, <1>7, <1>9, <1>10

LEMMA Explained == MarksOK /\ MInv => MissingExplained
<1> SUFFICES ASSUME MarksOK, MInv, phase = "idle",
                    NEW w \in Windows, WindowEnd(w) <= ComparedUntil
             PROVE  LET landed == Cardinality(In(arrived, w))
                        stream == IF lake[w] = None THEN 0 ELSE lake[w]
                    IN  landed - stream = Cardinality(In(arrived \ accepted, w))
  BY DEF MissingExplained, In
<1>1. query = "station_metrics"
  <2> SUFFICES ASSUME query # "station_metrics" PROVE FALSE
    OBVIOUS
  <2>1. \A x \in Windows : lake[x] = None
    BY DEF MInv, OneQuery
  <2>2. {WindowEnd(x) : x \in {y \in Windows : lake[y] # None}} = {}
    BY <2>1
  <2>3. ComparedUntil = 0
    BY <2>2 DEF ComparedUntil
  <2> QED
    BY <2>3, WindowFacts
<1>2. Balanced(w) /\ WindowEnd(w) <= mark
  BY <1>1, ComparedClosed DEF MInv, Accounts, Filed
<1>3. accepted \subseteq arrived /\ arrived \subseteq Event
  BY DEF MInv, MetricsTyped
<1>4. PICK n \in Nat : n = Cardinality(In(accepted, w))
  BY <1>3, CountIn
<1>5. PICK k \in Nat : k = Cardinality(In(arrived \ accepted, w))
  BY <1>3, CountIn
<1>6. Cardinality(In(arrived, w)) = n + k
  <2>1. accepted \cup (arrived \ accepted) = arrived /\ accepted \cap (arrived \ accepted) = {}
    BY <1>3
  <2> QED
    BY <1>3, <1>4, <1>5, <2>1, CountAdds
<1>7. (IF lake[w] = None THEN 0 ELSE lake[w]) = n
  BY <1>2, <1>4 DEF Balanced
<1> QED
  BY <1>5, <1>6, <1>7

LEMMA StreamInvariance == Spec => [](PInv /\ MInv)
<1>1. Init => PInv /\ MInv
  BY PairingStarts, MetricsStarts
<1>2. PInv /\ MInv /\ [Next]_vars => PInv' /\ MInv'
  BY PairingStep, MetricsStep
<1> QED
  BY <1>1, <1>2, PTL DEF Spec

(* mart_stream_vs_batch.sql:1-9, main.py:19-21: in the windows that are     *)
(* compared the lake lacks exactly the events that were dropped as late,    *)
(* for any trips, window length, watermark, copies and crashes.             *)
THEOREM LakeCountsOnce == Spec => []MissingExplained
<1>1. PInv /\ MInv => MissingExplained
  BY Explained DEF PInv
<1> QED
  BY StreamInvariance, <1>1, PTL

-----------------------------------------------------------------------------
(* Types.                                                                  *)

PhaseTyped ==
  /\ phase \in {"idle", "planned", "written"}
  /\ IF phase = "idle" THEN plan = None
     ELSE plan \in [rows : SUBSET Event, late : Int, mark : Int]

LatestTyped == \A c \in Columns : latest[c] \in {0} \cup {Time(e) : e \in Event}

CountersTyped == reads \in 0..MaxReads /\ crashes \in 0..MaxCrashes

TInv == PhaseTyped /\ LatestTyped /\ CountersTyped /\ ReferenceTypeOK

LEMMA ReferenceTyped ==
  ASSUME RInv, ReferenceTypeOK, [Next]_vars
  PROVE  ReferenceTypeOK'
<1> USE ReferenceAssumption
<1>1. /\ now \in 0..MaxTime /\ station \in [docks : 1..MaxCapacity, since : 0..now]
      /\ unread \subseteq Reports /\ (batch = None \/ batch \subseteq Reports)
      /\ held # None => held.docks <= station.docks /\ held.fetched_at <= now
      /\ judged # None => batch # None /\ held # None /\ judged.raised \subseteq batch
  BY DEF ReferenceTypeOK
<1>2. CASE UNCHANGED reference
  BY <1>2 DEF reference, ReferenceTypeOK, Reports
<1>3. CASE Tick
  <2>1. now' \in 0..MaxTime /\ 0..now \subseteq 0..now' /\ now <= now'
    BY <1>1, <1>3 DEF Tick
  <2>2. Reports \subseteq Reports' /\ [docks : 1..MaxCapacity, since : 0..now]
                                        \subseteq [docks : 1..MaxCapacity, since : 0..now']
    BY <2>1 DEF Reports
  <2>3. held # None => held.fetched_at <= now'
    BY <1>1, <1>3 DEF Tick, RInv, CopySound, SourceOK
  <2> QED
    BY <1>1, <1>3, <2>1, <2>2, <2>3 DEF Tick, ReferenceTypeOK
<1>4. CASE ExpandStation
  <2>1. /\ station'.docks = station.docks + 1 /\ now \in 0..now
        /\ station' \in [docks : 1..MaxCapacity, since : 0..now]
    BY <1>1, <1>4 DEF ExpandStation
  <2>2. held # None => held.docks <= station'.docks
    BY <1>1, <2>1 DEF RInv, CopySound, SourceOK
  <2> QED
    BY <1>1, <1>4, <2>1, <2>2 DEF ExpandStation, ReferenceTypeOK, Reports
<1>5. CASE ReportStatus
  <2>1. PICK more \in {0, 1} :
          unread' = unread \cup {[bikes |-> station.docks + more, docks |-> station.docks,
                                  since |-> station.since]}
    BY <1>5 DEF ReportStatus
  <2>2. [bikes |-> station.docks + more, docks |-> station.docks, since |-> station.since]
          \in Reports
    BY <1>1 DEF Reports
  <2> QED
    BY <1>1, <1>5, <2>1, <2>2 DEF ReportStatus, ReferenceTypeOK, Reports
<1>6. CASE PlanReports
  BY <1>1, <1>6 DEF PlanReports, ReferenceTypeOK, Reports
<1>7. CASE Judge
  <2>1. PICK up \in BOOLEAN :
          /\ held' = DataFrame(up) /\ held' # None
          /\ judged' = [raised |-> OverCapacity(batch, held'.docks), at |-> now,
                        failed |-> RefreshDue /\ ~up]
    BY <1>7 DEF Judge
  <2>2. UNCHANGED <<now, station, unread, batch>> /\ batch # None
    BY <1>7 DEF Judge
  <2>3. held'.docks <= station.docks /\ held'.fetched_at <= now
    <3>1. CASE RefreshDue /\ up
      BY <1>1, <2>1, <3>1 DEF DataFrame
    <3>2. CASE ~(RefreshDue /\ up)
      BY <1>1, <2>1, <3>2 DEF DataFrame
    <3> QED
      BY <3>1, <3>2
  <2>4. judged'.raised \subseteq batch
    BY <2>1 DEF OverCapacity
  <2> QED
    BY <1>1, <2>1, <2>2, <2>3, <2>4 DEF ReferenceTypeOK, Reports
<1>8. CASE CommitReports
  BY <1>1, <1>8 DEF CommitReports, ReferenceTypeOK, Reports
<1>9. CASE RestartJob
  BY <1>1, <1>9 DEF RestartJob, ReferenceTypeOK, Reports
<1>10. ReferenceNext \/ UNCHANGED reference
  BY DEF Next, Plan, Write, Commit, Crash, JudgeReports, vars
<1> QED
  BY <1>2, <1>3, <1>4, <1>5, <1>6, <1>7, <1>8, <1>9, <1>10 DEF ReferenceNext

LEMMA LatestRead ==
  ASSUME MarksOK, LatestTyped, Commit
  PROVE  LatestTyped'
<1> SUFFICES ASSUME NEW c \in Columns
             PROVE  Max({latest[c]} \cup {Time(e) : e \in {x \in plan.rows : Column(x) = c}})
                      \in {0} \cup {Time(e) : e \in Event}
  BY DEF Commit, LatestTyped, Columns, Time
<1> DEFINE S == {latest[c]} \cup {Time(e) : e \in {x \in plan.rows : Column(x) = c}}
<1>1. plan.rows \subseteq Event /\ latest[c] \in Nat
  BY DEF MarksOK, Commit
<1>2. S \subseteq Nat /\ S # {} /\ S \subseteq {0} \cup {Time(e) : e \in Event}
  BY <1>1, TimeType DEF LatestTyped
<1>3. PICK b \in Nat : \A e \in Event : Time(e) <= b
  BY TimesBounded
<1>4. b + latest[c] \in Nat /\ \A y \in S : y <= b + latest[c]
  BY <1>1, <1>3, TimeType
<1>5. Max(S) \in S
  BY <1>2, <1>4, MaxOfBounded
<1> QED
  BY <1>2, <1>5

LEMMA TypesStart == Init => TInv
<1> SUFFICES ASSUME Init PROVE TInv
  OBVIOUS
<1> USE ReferenceAssumption, StreamAssumption DEF Init, ReferenceInit
<1>1. ReferenceTypeOK
  BY DEF ReferenceTypeOK
<1>2. PhaseTyped /\ LatestTyped /\ CountersTyped
  BY DEF PhaseTyped, LatestTyped, CountersTyped
<1> QED
  BY <1>1, <1>2 DEF TInv

LEMMA TypesStep == RInv /\ PInv /\ TInv /\ [Next]_vars => TInv'
<1> SUFFICES ASSUME RInv, PInv, TInv, [Next]_vars PROVE TInv'
  OBVIOUS
<1> USE StreamAssumption
<1>1. ReferenceTypeOK' /\ MarksOK
  BY ReferenceTyped DEF TInv, PInv
<1>2. PhaseTyped /\ LatestTyped /\ CountersTyped
  BY DEF TInv
<1>3. CASE Plan
  <2>1. PICK rows \in SUBSET Event :
          /\ reads + Cardinality(rows) <= MaxReads /\ reads' = reads + Cardinality(rows)
          /\ plan' = [rows |-> rows, late |-> mark, mark |-> NextMark]
    BY <1>3 DEF Plan
  <2>2. Cardinality(rows) \in Nat
    BY EventFinite, FS_Subset, FS_CardinalityType
  <2>3. reads' \in 0..MaxReads
    BY <1>2, <2>1, <2>2 DEF CountersTyped
  <2>4. mark \in Int /\ NextMark \in Int
    BY <1>1, NextMarkRises DEF MarksOK
  <2>5. PhaseTyped'
    BY <1>3, <2>1, <2>4 DEF Plan, PhaseTyped
  <2>6. LatestTyped' /\ CountersTyped'
    BY <1>2, <1>3, <2>3 DEF Plan, state, LatestTyped, CountersTyped, Columns, Time
  <2> QED
    BY <1>1, <2>5, <2>6 DEF TInv
<1>4. CASE Write
  BY <1>1, <1>2, <1>4 DEF Write, state, TInv, PhaseTyped, LatestTyped, CountersTyped, Columns
<1>5. CASE Commit
  <2>1. LatestTyped'
    BY <1>1, <1>2, <1>5, LatestRead
  <2>2. PhaseTyped' /\ CountersTyped'
    BY <1>2, <1>5 DEF Commit, PhaseTyped, CountersTyped
  <2> QED
    BY <1>1, <2>1, <2>2 DEF TInv
<1>6. CASE Crash
  <2>1. crashes' \in 0..MaxCrashes
    BY <1>2, <1>6 DEF Crash, CountersTyped
  <2> QED
    BY <1>1, <1>2, <1>6, <2>1
       DEF Crash, state, TInv, PhaseTyped, LatestTyped, CountersTyped, Columns
<1>7. CASE JudgeReports \/ UNCHANGED vars
  BY <1>1, <1>2, <1>7
     DEF JudgeReports, vars, state, TInv, PhaseTyped, LatestTyped, CountersTyped, Columns
<1> QED
  BY <1>3, <1>4, <1>5, <1>6, <1>7 DEF Next

LEMMA TypedIsTypeOK == PInv /\ MInv /\ TInv => TypeOK
<1> SUFFICES ASSUME PInv, MInv, TInv PROVE TypeOK
  OBVIOUS
<1>1. /\ phase \in {"idle", "planned", "written"} /\ (plan = None <=> phase = "idle")
      /\ plan # None => plan.rows \subseteq Event /\ plan.late = mark /\ plan.mark >= mark
  BY StreamAssumption DEF TInv, PhaseTyped, PInv, MarksOK
<1>2. accepted \subseteq Event /\ seen \subseteq Event
  BY DEF MInv, MetricsTyped, OneQuery, SeenIs
<1>3. joined \subseteq [event : Event, matched : BOOLEAN]
  BY <1>2 DEF PInv, JoinedOK
<1>4. ASSUME NEW w \in Windows
      PROVE  /\ counts[w] \in 0..Cardinality({e \in Event : Window(e) = w})
             /\ lake[w] \in Nat \cup {None}
  <2>1. /\ Cardinality(In(Event, w)) \in Nat /\ Cardinality(In(accepted, w)) \in Nat
        /\ Cardinality(In(accepted, w)) <= Cardinality(In(Event, w))
    BY <1>2, CountIn, CountSubset
  <2>2. counts[w] = 0 \/ counts[w] = Cardinality(In(accepted, w))
    BY DEF MInv, OneQuery, CountsAre
  <2>3. counts[w] \in 0..Cardinality(In(Event, w))
    BY <2>1, <2>2
  <2> QED
    BY <2>3 DEF In, MInv, MetricsTyped
<1>5. alerts \subseteq Event
  <2> SUFFICES ASSUME NEW a \in alerts PROVE a \in Event
    OBVIOUS
  <2>1. CASE Settled(a)
    BY <1>2, <2>1 DEF Settled
  <2>2. CASE phase # "idle" /\ a \in Orphans
    <3>1. PICK j \in Joined : j.event = a
      BY <2>2 DEF Orphans
    <3> QED
      BY <2>2, <3>1, JoinedFacts DEF PInv, JoinedOK, MarksOK, OnTime
  <2> QED
    BY <2>1, <2>2 DEF PInv, AlertsJust
<1> QED
  BY <1>1, <1>2, <1>3, <1>4, <1>5
     DEF TypeOK, TInv, LatestTyped, CountersTyped, MInv, MetricsTyped

(* Every state of the job, of its sinks and of the reference it caches is   *)
(* of its type, whichever query runs.                                      *)
THEOREM TypeCorrect == Spec => []TypeOK
<1>1. Init => RInv /\ PInv /\ TInv
  BY ReferenceStarts, PairingStarts, TypesStart
<1>2. RInv /\ PInv /\ TInv /\ [Next]_vars => RInv' /\ PInv' /\ TInv'
  BY ReferenceStep, PairingStep, TypesStep
<1> QED
  BY <1>1, <1>2, StreamInvariance, TypedIsTypeOK, PTL DEF Spec
=============================================================================
