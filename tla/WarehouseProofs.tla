--------------------------- MODULE WarehouseProofs ---------------------------
(***************************************************************************)
(* Proofs about the warehouse.  The batch layer, for any trips, landings,  *)
(* capacity changes and order of tasks: types, that the incremental trip   *)
(* table is what a full refresh would build, that the history of a station *)
(* judges every report with one capacity it had by then, and that the      *)
(* serving copy holds the tables of one successful build.  The detections, *)
(* for any trips, reports, times and faults: that the scorecard holds      *)
(* against the checks nothing but what they missed and what was judged     *)
(* with a capacity out of date, and that they miss nothing but what a      *)
(* rejected, unlanded or dropped event or an unknown capacity hides.       *)
(***************************************************************************)
EXTENDS BatchLayer, Detections, FiniteSetTheorems, SequenceTheorems, WellFoundedInduction, TLAPS

-----------------------------------------------------------------------------
(* The inductive invariant, part by part.                                  *)

Marts ==
  {m \in [Tables -> DimTable \cup FctTable \cup {None}] :
     m["dim_stations"] \in DimTable \cup {None} /\ m["fct_trips"] \in FctTable \cup {None}}

SourceTyped ==
  /\ changes \in 0..MaxSource /\ stations \in 0..changes \cup {None}
  /\ raw \in Seq(Landings) /\ Len(raw) <= MaxBatches

RunTyped ==
  /\ queued \in BOOLEAN /\ made \subseteq Tables
  /\ run \in {"idle", "build", "report", "publish", "copying"}

ServingTyped ==
  /\ marts \in Marts /\ tmp \in Marts \cup {None} /\ served \in Marts \cup {None}
  /\ page \in [step : {"idle", "stat"}, shows : (SUBSET Trips) \cup {None},
               mtime : {"old", "current"}]
  /\ served = None => page.step = "idle" /\ page.shows = None

(* The tables of one successful build. *)
Whole(m) ==
  /\ \A t \in Tables : m[t] # None
  /\ m["fct_trips"].asof = m["dim_stations"].asof
  /\ m["fct_trips"].rows # {} => m["dim_stations"].rows # {}

(* What a run of dbt_transform has built, and from what. *)
BuiltAsOf ==
  /\ made # {} => run = "build"
  /\ \A t \in made : marts[t] # None /\ marts[t].asof = AsOf
  /\ run \in {"report", "publish", "copying"} => Whole(marts)
  /\ run = "copying" => tmp = marts
  /\ served # None => Whole(served)

(* The versions of the station: one from each value a build has taken,     *)
(* each up to the next, without an overlap and without a hole.             *)
Chained ==
  /\ snapped = {v.from : v \in history}
  /\ \A v \in history : /\ v.capacity = v.from /\ v.from < v.to
                        /\ v.to = Forever \/ v.to \in snapped
  /\ \A v, w \in history : /\ v.from = w.from => v = w
                           /\ v.from < w.from => v.to <= w.from

NoHole ==
  \A t \in 0..MaxSource : (\E s \in snapped : s <= t) =>
                             \E v \in history : v.from <= t /\ t < v.to

HistoryInv ==
  /\ history \subseteq Versions /\ snapped \subseteq 0..changes
  /\ IF stations = None THEN snapped = {} ELSE \A s \in snapped : s <= stations
  /\ Chained /\ NoHole

(* The trips table was built from a landing that is there. *)
TripsInv ==
  /\ marts["fct_trips"] # None => marts["fct_trips"].asof.batches <= Len(raw)
  /\ FctTripsComplete

IInv == SourceTyped /\ RunTyped /\ ServingTyped /\ BuiltAsOf /\ HistoryInv /\ TripsInv

-----------------------------------------------------------------------------
(* The trip models.                                                        *)

StartOf(t) == [trip |-> t, half |-> "trip_started"]
EndOf(t) == [trip |-> t, half |-> "trip_ended"]

First(log, e) == Min(Copies(log, e))

BothLanded(log, t) == Copies(log, StartOf(t)) # {} /\ Copies(log, EndOf(t)) # {}

(* When the later of a trip's halves landed. *)
Latest(log, t) ==
  IF First(log, StartOf(t)) >= First(log, EndOf(t)) THEN First(log, StartOf(t))
                                                    ELSE First(log, EndOf(t))

TripRow(log, t) == [trip |-> t, complete |-> TRUE, loaded_at |-> Latest(log, t)]

NatLess == OpToRel(<, Nat)

LEMMA LeastNat ==
  ASSUME NEW S, S \subseteq Nat, S # {}
  PROVE  \E x \in S : \A y \in S : x <= y
<1>1. IsWellFoundedOn(NatLess, Nat)
  BY NatLessThanWellFounded DEF NatLess
<1>2. PICK x \in S : \A y \in S : <<y, x>> \notin NatLess
  BY <1>1, WFMin
<1>3. ASSUME NEW y \in S PROVE x <= y
  <2>1. <<y, x>> \in Nat \X Nat /\ <<y, x>> \notin NatLess
    BY <1>2
  <2>2. ~(y < x)
    BY <2>1 DEF NatLess, OpToRel
  <2> QED
    BY <2>2
<1> QED
  BY <1>3

(* An event that has landed has a first copy. *)
LEMMA FirstCopy ==
  ASSUME NEW S, NEW log \in Seq(S), NEW e, Copies(log, e) # {}
  PROVE  /\ First(log, e) \in Copies(log, e) /\ First(log, e) \in 1..Len(log)
         /\ \A b \in Copies(log, e) : First(log, e) <= b
<1>1. DOMAIN log = 1..Len(log) /\ Len(log) \in Nat
  BY LenProperties
<1>2. Copies(log, e) \subseteq 1..Len(log)
  BY <1>1 DEF Copies
<1>3. \E x \in Copies(log, e) : \A y \in Copies(log, e) : x <= y
  BY <1>1, <1>2, LeastNat
<1>4. /\ First(log, e) \in Copies(log, e)
      /\ \A b \in Copies(log, e) : First(log, e) <= b
  BY <1>3 DEF First, Min
<1> QED
  BY <1>2, <1>4

(* What stg_trip_events holds of one trip. *)
HalvesOf(log, t) == {h \in StgTripEvents(log) : h.event.trip = t}

HalfRow(log, e) == [event |-> e, loaded_at |-> First(log, e)]

LEMMA HalvesOfTrip ==
  ASSUME NEW log, NEW t \in Trips
  PROVE  HalvesOf(log, t) =
           {HalfRow(log, e) : e \in {x \in {StartOf(t), EndOf(t)} : Copies(log, x) # {}}}
<1>1. \A e \in Event : e.trip = t <=> e \in {StartOf(t), EndOf(t)}
  BY DEF Event, StartOf, EndOf
<1>2. StartOf(t) \in Event /\ EndOf(t) \in Event
  BY DEF Event, StartOf, EndOf
<1>3. StgTripEvents(log) = {HalfRow(log, e) : e \in {x \in Event : Copies(log, x) # {}}}
  BY DEF StgTripEvents, HalfRow, First
<1>4. \A e : HalfRow(log, e).event = e
  BY DEF HalfRow
<1> QED
  BY <1>1, <1>2, <1>3, <1>4 DEF HalvesOf

(* A trip is complete when both halves have landed, and then counts as     *)
(* landed with the later of them.                                          *)
LEMMA CompleteIsBoth ==
  ASSUME NEW S, NEW log \in Seq(S), NEW t \in Trips
  PROVE  /\ Cardinality(HalvesOf(log, t)) = 2 <=> BothLanded(log, t)
         /\ BothLanded(log, t) => LatestHalf(HalvesOf(log, t)) = Latest(log, t)
<1> DEFINE s == HalfRow(log, StartOf(t))
           e == HalfRow(log, EndOf(t))
<1>1. s # e
  BY DEF HalfRow, StartOf, EndOf
<1>2. \A x : Cardinality({x}) = 1 /\ IsFiniteSet({x})
  BY FS_Singleton
<1>3. Cardinality({}) = 0
  BY FS_EmptySet
<1>4. Cardinality({s, e}) = 2
  <2> HIDE DEF s, e
  <2>1. {s, e} = {s} \cup {e} /\ e \notin {s}
    BY <1>1
  <2>2. Cardinality({s} \cup {e}) = 1 + 1
    <3>1. IsFiniteSet({s}) /\ Cardinality({s}) = 1
      BY <1>2
    <3>2. Cardinality({s} \cup {e}) = Cardinality({s}) + 1
      BY <2>1, <3>1, FS_AddElement, Zenon
    <3> QED
      BY <3>1, <3>2
  <2>3. Cardinality({s, e}) = 1 + 1
    BY <2>1, <2>2, Zenon
  <2> QED
    BY <2>3
<1>5. CASE BothLanded(log, t)
  <2>1. HalvesOf(log, t) = {s, e}
    BY <1>5, HalvesOfTrip DEF BothLanded
  <2>2. /\ First(log, StartOf(t)) \in Nat /\ First(log, EndOf(t)) \in Nat
    BY <1>5, FirstCopy DEF BothLanded
  <2>3. {h.loaded_at : h \in {s, e}} = {First(log, StartOf(t)), First(log, EndOf(t))}
    BY DEF HalfRow
  <2>4. PICK i \in Nat, j \in Nat : i = First(log, StartOf(t)) /\ j = First(log, EndOf(t))
    BY <2>2
  <2>5. Max({i, j}) = IF i >= j THEN i ELSE j
    <3>1. \E x \in {i, j} : \A y \in {i, j} : x >= y
      OBVIOUS
    <3>2. Max({i, j}) \in {i, j} /\ \A y \in {i, j} : Max({i, j}) >= y
      BY <3>1 DEF Max
    <3> QED
      BY <3>2
  <2>6. LatestHalf(HalvesOf(log, t)) = Latest(log, t)
    BY <2>1, <2>3, <2>4, <2>5 DEF LatestHalf, Latest
  <2> QED
    BY <1>4, <1>5, <2>1, <2>6
<1>6. CASE ~BothLanded(log, t)
  <2>1. HalvesOf(log, t) \in {{}, {s}, {e}}
    BY <1>6, HalvesOfTrip DEF BothLanded
  <2>2. Cardinality(HalvesOf(log, t)) \in {0, 1}
    <3> HIDE DEF s, e
    <3> QED
      BY <1>2, <1>3, <2>1
  <2> QED
    BY <1>6, <2>2
<1> QED
  BY <1>5, <1>6

LEMMA CompleteTripsAre ==
  ASSUME NEW S, NEW log \in Seq(S)
  PROVE  CompleteTrips(log) = {TripRow(log, t) : t \in {x \in Trips : BothLanded(log, x)}}
<1> DEFINE Row(t) == [trip |-> t, complete |-> Cardinality(HalvesOf(log, t)) = 2,
                      loaded_at |-> LatestHalf(HalvesOf(log, t))]
<1>1. IntTrips(log) = {Row(t) : t \in {x \in Trips : HalvesOf(log, x) # {}}}
  BY DEF IntTrips, HalvesOf
<1>2. ASSUME NEW t \in Trips, BothLanded(log, t)
      PROVE  Row(t) = TripRow(log, t) /\ Row(t).complete /\ HalvesOf(log, t) # {}
  <2>1. /\ Cardinality(HalvesOf(log, t)) = 2
        /\ LatestHalf(HalvesOf(log, t)) = Latest(log, t)
    BY <1>2, CompleteIsBoth
  <2>2. HalvesOf(log, t) # {}
    <3>1. Cardinality({}) = 0 /\ 2 # 0
      BY FS_EmptySet
    <3> QED
      BY <2>1, <3>1, Zenon
  <2>3. (Cardinality(HalvesOf(log, t)) = 2) = TRUE
    BY <2>1, Zenon
  <2>4. Row(t) = TripRow(log, t)
    BY <2>1, <2>3, Zenon DEF TripRow
  <2> QED
    BY <2>1, <2>2, <2>4
<1>3. ASSUME NEW t \in Trips, ~BothLanded(log, t) PROVE ~Row(t).complete
  <2>1. ~(Cardinality(HalvesOf(log, t)) = 2)
    BY <1>3, CompleteIsBoth
  <2> QED
    BY <2>1
<1> HIDE DEF Row
<1> QED
  BY <1>1, <1>2, <1>3 DEF CompleteTrips

LEMMA PrefixIs ==
  ASSUME NEW S, NEW log \in Seq(S), NEW n \in 0..Len(log)
  PROVE  /\ SubSeq(log, 1, n) \in Seq(S) /\ Len(SubSeq(log, 1, n)) = n
         /\ \A i \in 1..n : SubSeq(log, 1, n)[i] = log[i]
<1>1. Len(log) \in Nat /\ n \in Nat
  BY LenProperties
<1>2. \A i \in 1..n : log[i] \in S
  BY <1>1, ElementOfSeq
<1>3. 1 \in Int /\ n \in Int /\ n - 1 + 1 = n /\ (1 <= n \/ n = 0)
      /\ \A i \in Int : 1 + i - 1 = i
  BY <1>1
<1>4. /\ SubSeq(log, 1, n) \in Seq(S)
      /\ Len(SubSeq(log, 1, n)) = IF 1 <= n THEN n - 1 + 1 ELSE 0
      /\ \A i \in 1..(n - 1 + 1) : SubSeq(log, 1, n)[i] = log[1 + i - 1]
  BY <1>2, <1>3, SubSeqProperties
<1> QED
  BY <1>1, <1>3, <1>4

(* What has landed with the first n batches has landed with all of them,   *)
(* at the same place; the rest came later.                                 *)
LEMMA PrefixCopies ==
  ASSUME NEW S, NEW log \in Seq(S), NEW n \in 0..Len(log), NEW e
  PROVE  /\ SubSeq(log, 1, n) \in Seq(S)
         /\ Copies(SubSeq(log, 1, n), e) = {b \in Copies(log, e) : b <= n}
<1>1. Len(log) \in Nat /\ DOMAIN log = 1..Len(log) /\ n \in Nat
  BY LenProperties
<1>2. /\ SubSeq(log, 1, n) \in Seq(S) /\ Len(SubSeq(log, 1, n)) = n
      /\ \A i \in 1..n : SubSeq(log, 1, n)[i] = log[i]
  BY PrefixIs
<1>3. DOMAIN SubSeq(log, 1, n) = 1..n
  BY <1>2, LenProperties
<1> QED
  BY <1>1, <1>2, <1>3 DEF Copies

(* A landing leaves what landed before it where it was. *)
LEMMA PrefixStays ==
  ASSUME NEW S, NEW log \in Seq(S), NEW rows \in S, NEW n \in 0..Len(log)
  PROVE  SubSeq(Append(log, rows), 1, n) = SubSeq(log, 1, n)
<1>1. /\ Append(log, rows) \in Seq(S) /\ Len(Append(log, rows)) = Len(log) + 1
      /\ \A i \in 1..Len(log) : Append(log, rows)[i] = log[i]
  BY AppendProperties
<1>2. Len(log) \in Nat /\ n \in 0..(Len(log) + 1) /\ \A i \in 1..n : i \in 1..Len(log)
  BY LenProperties
<1>3. /\ SubSeq(log, 1, n) \in Seq(S) /\ Len(SubSeq(log, 1, n)) = n
      /\ \A i \in 1..n : SubSeq(log, 1, n)[i] = log[i]
  BY PrefixIs
<1> DEFINE longer == Append(log, rows)
<1>4. longer \in Seq(S) /\ n \in 0..Len(longer)
  BY <1>1, <1>2
<1> HIDE DEF longer
<1>5. /\ SubSeq(longer, 1, n) \in Seq(S) /\ Len(SubSeq(longer, 1, n)) = n
      /\ \A i \in 1..n : SubSeq(longer, 1, n)[i] = longer[i]
  BY <1>4, PrefixIs
<1>6. \A i \in 1..n : SubSeq(longer, 1, n)[i] = SubSeq(log, 1, n)[i]
  BY <1>1, <1>2, <1>3, <1>5 DEF longer
<1>7. SubSeq(longer, 1, n) = SubSeq(log, 1, n)
  BY <1>3, <1>5, <1>6, SeqEqual
<1> QED
  BY <1>7 DEF longer

LEMMA PrefixFirst ==
  ASSUME NEW S, NEW log \in Seq(S), NEW n \in 0..Len(log), NEW e
  PROVE  LET pre == SubSeq(log, 1, n) IN
         /\ Copies(pre, e) # {} =>
              Copies(log, e) # {} /\ First(pre, e) = First(log, e) /\ First(log, e) <= n
         /\ Copies(log, e) # {} /\ First(log, e) <= n => Copies(pre, e) # {}
<1> DEFINE pre == SubSeq(log, 1, n)
<1>1. pre \in Seq(S) /\ Copies(pre, e) = {b \in Copies(log, e) : b <= n}
  BY PrefixCopies
<1> HIDE DEF pre
<1>2. ASSUME Copies(pre, e) # {}
      PROVE  Copies(log, e) # {} /\ First(pre, e) = First(log, e) /\ First(log, e) <= n
  <2>1. Copies(log, e) # {}
    BY <1>1, <1>2
  <2>2. /\ First(pre, e) \in Copies(pre, e) /\ First(pre, e) \in Nat
        /\ \A b \in Copies(pre, e) : First(pre, e) <= b
    BY <1>1, <1>2, FirstCopy
  <2>3. /\ First(log, e) \in Copies(log, e) /\ First(log, e) \in Nat
        /\ \A b \in Copies(log, e) : First(log, e) <= b
    BY <2>1, FirstCopy
  <2>4. PICK i \in Nat, j \in Nat : i = First(pre, e) /\ j = First(log, e)
    BY <2>2, <2>3
  <2>5. n \in Int /\ i <= n /\ j <= i
    BY <1>1, <2>2, <2>3, <2>4, LenProperties
  <2>6. i <= j
    BY <1>1, <2>2, <2>3, <2>4, <2>5
  <2> QED
    BY <2>1, <2>4, <2>5, <2>6
<1>3. ASSUME Copies(log, e) # {}, First(log, e) <= n PROVE Copies(pre, e) # {}
  BY <1>1, <1>3, FirstCopy
<1> QED
  BY <1>2, <1>3 DEF pre

(* fct_trips.sql:10-14.  A build that adds the trips completed since the   *)
(* last one makes the table a full refresh would, if the table it adds to  *)
(* was one and had a row.                                                  *)
LEMMA IncrementalIsFull ==
  ASSUME NEW S, NEW log \in Seq(S), NEW n \in 0..Len(log),
         CompleteTrips(SubSeq(log, 1, n)) # {}
  PROVE  FctTrips(CompleteTrips(SubSeq(log, 1, n)), log) = CompleteTrips(log)
<1> DEFINE pre == SubSeq(log, 1, n)
           this == CompleteTrips(pre)
           all == CompleteTrips(log)
           new == SinceLastBuild(this, log)
<1>1. pre \in Seq(S) /\ Len(log) \in Nat /\ n \in Nat
  BY PrefixCopies, LenProperties
<1> HIDE DEF pre
<1>2. /\ this = {TripRow(pre, t) : t \in {x \in Trips : BothLanded(pre, x)}}
      /\ all = {TripRow(log, t) : t \in {x \in Trips : BothLanded(log, x)}}
  BY <1>1, CompleteTripsAre
<1>3. ASSUME NEW t \in Trips, BothLanded(log, t)
      PROVE  /\ Latest(log, t) \in Nat
             /\ Latest(log, t) <= n => /\ First(log, StartOf(t)) <= n
                                       /\ First(log, EndOf(t)) <= n
             /\ First(log, StartOf(t)) <= n /\ First(log, EndOf(t)) <= n => Latest(log, t) <= n
  <2>1. First(log, StartOf(t)) \in 1..Len(log) /\ First(log, EndOf(t)) \in 1..Len(log)
    BY <1>3, FirstCopy DEF BothLanded
  <2>2. PICK i \in Nat, j \in Nat : i = First(log, StartOf(t)) /\ j = First(log, EndOf(t))
    BY <2>1
  <2>3. Latest(log, t) = IF i >= j THEN i ELSE j
    BY <2>2 DEF Latest
  <2> QED
    BY <1>1, <2>2, <2>3
<1>4. ASSUME NEW t \in Trips, BothLanded(pre, t)
      PROVE  BothLanded(log, t) /\ Latest(log, t) <= n /\ TripRow(pre, t) = TripRow(log, t)
  <2>1. /\ BothLanded(log, t) /\ First(log, StartOf(t)) <= n /\ First(log, EndOf(t)) <= n
        /\ Latest(pre, t) = Latest(log, t)
    BY <1>4, PrefixFirst DEF pre, BothLanded, Latest
  <2> QED
    BY <1>3, <2>1 DEF TripRow
<1>5. ASSUME NEW t \in Trips, BothLanded(log, t), Latest(log, t) <= n PROVE BothLanded(pre, t)
  BY <1>3, <1>5, PrefixFirst DEF pre, BothLanded
<1>6. \A t : TripRow(log, t).trip = t /\ TripRow(log, t).loaded_at = Latest(log, t)
  BY DEF TripRow
<1>7. this \subseteq all /\ \A row \in this : row.loaded_at <= n
  BY <1>2, <1>4, <1>6
<1>8. new \subseteq all
  BY DEF SinceLastBuild
<1>9. ASSUME NEW row \in all PROVE row \in this \/ row \in new
  <2>1. PICK t \in Trips : BothLanded(log, t) /\ row = TripRow(log, t)
    BY <1>2
  <2>2. CASE Latest(log, t) <= n
    <3>1. BothLanded(pre, t)
      BY <1>5, <2>1, <2>2
    <3> QED
      BY <1>2, <1>4, <2>1, <3>1
  <2>3. CASE ~(Latest(log, t) <= n)
    <3>1. \A old \in this : old.loaded_at \in Nat /\ old.loaded_at <= n
      BY <1>2, <1>3, <1>4, <1>6
    <3>2. row.loaded_at = Latest(log, t) /\ Latest(log, t) \in Nat
      BY <1>3, <1>6, <2>1
    <3>3. \A old \in this : row.loaded_at > old.loaded_at
      BY <1>1, <2>3, <3>1, <3>2
    <3> QED
      BY <3>3 DEF SinceLastBuild, pre
  <2> QED
    BY <2>2, <2>3
<1>10. ASSUME NEW old \in this, NEW row \in new, row.trip = old.trip PROVE row = old
  <2> HIDE DEF this, all, new
  <2>1. PICK t : old = TripRow(log, t)
    BY <1>2, <1>7
  <2>2. PICK u : row = TripRow(log, u)
    BY <1>2, <1>8
  <2>3. t = u
    BY <1>6, <1>10, <2>1, <2>2
  <2> QED
    BY <2>1, <2>2, <2>3
<1>11. FctTrips(this, log) = IF this = None THEN all
                             ELSE {row \in this : \A t \in new : t.trip # row.trip} \cup new
  BY DEF FctTrips
<1> HIDE DEF this, all, new
<1>12. {row \in this : \A t \in new : t.trip # row.trip} \cup new = all
  BY <1>7, <1>8, <1>9, <1>10
<1> QED
  BY <1>11, <1>12 DEF this, all, pre

(* The rows of the trip models. *)
LEMMA TripRowsTyped ==
  ASSUME SourceTyped
  PROVE  /\ CompleteTrips(raw) \subseteq TripRows
         /\ \A this : this = None \/ this \subseteq TripRows =>
                        FctTrips(this, raw) \subseteq TripRows
<1>1. raw \in Seq(Landings) /\ Len(raw) \in Nat /\ Len(raw) <= MaxBatches
  BY LenProperties DEF SourceTyped
<1>2. CompleteTrips(raw) = {TripRow(raw, t) : t \in {x \in Trips : BothLanded(raw, x)}}
  BY <1>1, CompleteTripsAre
<1>3. ASSUME NEW t \in Trips, BothLanded(raw, t) PROVE TripRow(raw, t) \in TripRows
  <2>1. First(raw, StartOf(t)) \in 1..Len(raw) /\ First(raw, EndOf(t)) \in 1..Len(raw)
    BY <1>1, <1>3, FirstCopy DEF BothLanded
  <2>2. Latest(raw, t) \in 1..MaxBatches
    BY <1>1, <2>1, BatchAssumption DEF Latest
  <2> QED
    BY <2>2 DEF TripRow, TripRows
<1>4. CompleteTrips(raw) \subseteq TripRows
  BY <1>2, <1>3
<1> QED
  BY <1>4 DEF FctTrips, SinceLastBuild

-----------------------------------------------------------------------------
(* The history of a station.                                               *)

LEMMA SnapshotKeeps ==
  ASSUME SourceTyped, HistoryInv, BuildStations
  PROVE  HistoryInv'
<1> USE BatchAssumption DEF HistoryInv
<1>1. /\ changes \in Nat /\ changes <= MaxSource /\ UNCHANGED <<changes, stations>>
      /\ snapped' = snapped \cup ({stations} \ {None})
      /\ history' = IF stations = None THEN history ELSE Snapshot(history, stations)
  BY DEF SourceTyped, BuildStations, source
<1>2. CASE stations = None
  <2>1. UNCHANGED <<history, snapped, changes, stations>>
    BY <1>1, <1>2
  <2> QED
    BY <2>1 DEF Chained, NoHole
<1>3. CASE stations # None
  <2>1. PICK s \in Nat : s = stations
    BY <1>1, <1>3 DEF SourceTyped
  <2>2. /\ s <= changes /\ s <= MaxSource /\ s < Forever
        /\ snapped' = snapped \cup {s} /\ history' = Snapshot(history, s)
        /\ \A x \in snapped : x \in Nat /\ x <= s
    BY <1>1, <1>3, <2>1 DEF SourceTyped
  <2>3. \A v \in history : /\ v.from \in snapped /\ v.from \in Nat /\ v.from <= s
                           /\ v.to \in Nat /\ v.capacity = v.from /\ v.from < v.to
                           /\ v.to # Forever => v.to \in snapped /\ v.to <= s
    BY <2>2 DEF Chained, Versions
  <2>4. CASE \A v \in Current(history) : v.from < s
    <3> DEFINE new == [from |-> s, to |-> Forever, capacity |-> s]
               Closed(v) == IF v.to = Forever THEN [v EXCEPT !.to = s] ELSE v
    <3>1. history' = {Closed(v) : v \in history} \cup {new}
      BY <2>2, <2>4 DEF Snapshot
    <3>2. \A v \in history : v.from < s
      BY <2>2, <2>3, <2>4 DEF Current
    <3>3. ASSUME NEW v \in history
          PROVE  /\ Closed(v).from = v.from /\ Closed(v).capacity = v.from
                 /\ Closed(v).to = IF v.to = Forever THEN s ELSE v.to
                 /\ Closed(v) \in Versions
      BY <2>2, <2>3 DEF Versions
    <3>4. new \in Versions /\ new.from = s /\ new.to = Forever /\ new.capacity = s
      BY <1>1, <2>2 DEF Versions
    <3>5. \A v \in history : /\ Closed(v).to \in Nat /\ Closed(v).to <= s
                             /\ v.from < Closed(v).to /\ Closed(v).to \in snapped \cup {s}
      BY <2>3, <3>2, <3>3
    <3> HIDE DEF new, Closed
    <3>6. Chained'
      <4>1. snapped' = {v.from : v \in history'}
        BY <2>2, <3>1, <3>3, <3>4 DEF Chained
      <4>2. \A v \in history' : /\ v.capacity = v.from /\ v.from < v.to
                                /\ v.to = Forever \/ v.to \in snapped'
        BY <2>2, <3>1, <3>3, <3>4, <3>5
      <4>3. ASSUME NEW v \in history, NEW w \in history
            PROVE  /\ Closed(v).from = Closed(w).from => Closed(v) = Closed(w)
                   /\ Closed(v).from < Closed(w).from => Closed(v).to <= Closed(w).from
        <5>1. v.from < w.from => v.to # Forever
          BY <2>2, <2>3 DEF Chained
        <5> QED
          BY <3>3, <5>1 DEF Chained
      <4>4. ASSUME NEW v \in history'
            PROVE  v = new \/ \E o \in history : v = Closed(o) /\ v.from < s /\ v.to <= s
        BY <3>1, <3>2, <3>3, <3>5
      <4>5. ASSUME NEW v \in history', NEW w \in history'
            PROVE  v.from = w.from => v = w
        BY <2>2, <3>4, <4>3, <4>4
      <4>6. ASSUME NEW v \in history', NEW w \in history', v.from < w.from
            PROVE  v.to <= w.from
        <5>1. CASE v = new
          <6>1. w.from <= s /\ w.from \in Nat
            BY <2>3, <3>3, <3>4, <4>4
          <6> QED
            BY <3>4, <4>6, <5>1, <6>1
        <5>2. CASE v # new
          BY <3>4, <4>3, <4>4, <4>6, <5>2
        <5> QED
          BY <5>1, <5>2
      <4> QED
        BY <4>1, <4>2, <4>5, <4>6 DEF Chained
    <3>7. NoHole'
      <4> SUFFICES ASSUME NEW t \in 0..MaxSource, \E x \in snapped' : x <= t
                   PROVE  \E v \in history' : v.from <= t /\ t < v.to
        BY DEF NoHole
      <4>1. CASE s <= t
        BY <2>2, <3>1, <3>4, <4>1
      <4>2. CASE t < s
        <5>1. PICK x \in snapped : x <= t
          <6>1. PICK x \in snapped' : x <= t
            OBVIOUS
          <6>2. x # s
            BY <4>2, <6>1
          <6>3. x \in snapped
            BY <2>2, <6>1, <6>2
          <6> QED
            BY <6>1, <6>3
        <5>2. PICK v \in history : v.from <= t /\ t < v.to
          BY <5>1 DEF NoHole
        <5>3. Closed(v).from <= t /\ t < Closed(v).to
          BY <3>3, <4>2, <5>2
        <5> QED
          BY <3>1, <5>3
      <4> QED
        BY <2>2, <4>1, <4>2
    <3>8. history' \subseteq Versions
      BY <3>1, <3>3, <3>4
    <3>9. snapped' \subseteq 0..changes /\ \A x \in snapped' : x <= s
      <4>1. s \in 0..changes /\ s <= s /\ snapped \subseteq 0..changes
        BY <1>1, <2>2
      <4>2. \A x \in snapped' : x \in snapped \/ x = s
        BY <2>2
      <4> QED
        BY <2>2, <4>1, <4>2
    <3> QED
      BY <1>1, <1>3, <2>1, <3>6, <3>7, <3>8, <3>9
  <2>5. CASE ~(\A v \in Current(history) : v.from < s)
    <3>1. history' = history
      BY <2>2, <2>5 DEF Snapshot
    <3>2. s \in snapped
      BY <2>2, <2>3, <2>5 DEF Current
    <3>3. UNCHANGED <<history, snapped, changes, stations>>
      BY <1>1, <2>2, <3>1, <3>2
    <3> QED
      BY <3>3 DEF Chained, NoHole
  <2> QED
    BY <2>4, <2>5
<1> QED
  BY <1>2, <1>3

(* A report is judged with the one version that was current when it was    *)
(* made.                                                                   *)
LEMMA JudgedOnce == SourceTyped /\ HistoryInv => HistoryTrue
<1> SUFFICES ASSUME SourceTyped, HistoryInv, NEW t \in 0..changes
             PROVE  /\ Cardinality(JudgedWith(history, t)) =
                         IF \E v \in snapped : v <= t THEN 1 ELSE 0
                    /\ \A v \in JudgedWith(history, t) :
                         v.capacity <= t /\ (t \in snapped => v.capacity = t)
  BY DEF HistoryTrue
<1> USE BatchAssumption
<1>1. t \in 0..MaxSource /\ t \in Nat
  BY DEF SourceTyped
<1>2. \A v \in history : /\ v.from \in snapped /\ v.from \in Nat /\ v.to \in Nat
                         /\ v.capacity = v.from /\ v.from < v.to
  BY DEF HistoryInv, Chained, Versions
<1>3. ASSUME NEW v \in JudgedWith(history, t), NEW w \in JudgedWith(history, t) PROVE v = w
  <2>1. /\ v \in history /\ w \in history /\ v.from <= t /\ t < v.to /\ w.from <= t /\ t < w.to
    BY DEF JudgedWith
  <2>2. /\ v.from < w.from => v.to <= w.from
        /\ w.from < v.from => w.to <= v.from
        /\ v.from = w.from => v = w
    BY <2>1 DEF HistoryInv, Chained
  <2> QED
    BY <1>1, <1>2, <2>1, <2>2
<1>4. CASE \E s \in snapped : s <= t
  <2>1. PICK v \in history : v.from <= t /\ t < v.to
    BY <1>1, <1>4 DEF HistoryInv, NoHole
  <2>2. v \in JudgedWith(history, t)
    BY <2>1 DEF JudgedWith
  <2>3. JudgedWith(history, t) = {v}
    BY <1>3, <2>2
  <2>4. Cardinality({v}) = 1
    BY FS_Singleton
  <2>5. t \in snapped => v.capacity = t
    <3> SUFFICES ASSUME t \in snapped PROVE v.from = t
      BY <1>2, <2>1
    <3>1. PICK w \in history : w.from = t
      BY DEF HistoryInv, Chained
    <3>2. w \in JudgedWith(history, t)
      BY <1>1, <1>2, <3>1 DEF JudgedWith
    <3> QED
      BY <2>3, <3>1, <3>2
  <2> QED
    BY <1>2, <1>4, <2>1, <2>3, <2>4, <2>5
<1>5. CASE ~(\E s \in snapped : s <= t)
  <2>1. JudgedWith(history, t) = {}
    BY <1>2, <1>5 DEF JudgedWith
  <2>2. Cardinality({}) = 0
    BY FS_EmptySet
  <2> QED
    BY <1>5, <2>1, <2>2
<1> QED
  BY <1>4, <1>5

-----------------------------------------------------------------------------
(* The tables, and what is shown of them.                                  *)

LEMMA MartsTyped ==
  /\ NoMarts \in Marts
  /\ \A m \in Marts :
       /\ m["dim_stations"] \in DimTable \cup {None} /\ m["fct_trips"] \in FctTable \cup {None}
       /\ \A r \in FctTable : [m EXCEPT !["fct_trips"] = r] \in Marts
       /\ \A r \in DimTable : [m EXCEPT !["dim_stations"] = r] \in Marts
       /\ Whole(m) => m # None /\ m["fct_trips"] \in FctTable /\ TripsOf(m) \subseteq Trips
<1>1. Tables = {"dim_stations", "fct_trips"}
  BY DEF Tables
<1>2. NoMarts \in Marts
  BY <1>1 DEF NoMarts, Marts
<1>3. ASSUME NEW m \in Marts
      PROVE  /\ m["dim_stations"] \in DimTable \cup {None}
             /\ m["fct_trips"] \in FctTable \cup {None}
             /\ m \in [Tables -> DimTable \cup FctTable \cup {None}]
  BY DEF Marts
<1>4. ASSUME NEW m \in Marts, NEW r \in FctTable
      PROVE  [m EXCEPT !["fct_trips"] = r] \in Marts
  BY <1>1, <1>3 DEF Marts
<1>5. ASSUME NEW m \in Marts, NEW r \in DimTable
      PROVE  [m EXCEPT !["dim_stations"] = r] \in Marts
  BY <1>1, <1>3 DEF Marts
<1>6. ASSUME NEW m \in Marts, Whole(m)
      PROVE  m # None /\ m["fct_trips"] \in FctTable /\ TripsOf(m) \subseteq Trips
  <2>1. m["dim_stations"] \in DimTable /\ m["fct_trips"] \in FctTable
    BY <1>1, <1>3, <1>6 DEF Whole
  <2>2. m \in [Tables -> DimTable \cup FctTable]
    BY <1>1, <1>3, <2>1
  <2>3. m["fct_trips"].rows \subseteq TripRows
    BY <2>1 DEF FctTable
  <2>4. TripsOf(m) \subseteq Trips
    BY <2>3 DEF TripsOf, TripRows
  <2> QED
    BY <2>1, <2>2, <2>4, BatchAssumption
<1> QED
  BY <1>2, <1>3, <1>4, <1>5, <1>6

LEMMA AsOfTyped == SourceTyped => AsOf \in Asof /\ AsOf.batches = Len(raw)
<1> SUFFICES ASSUME SourceTyped PROVE AsOf \in Asof /\ AsOf.batches = Len(raw)
  OBVIOUS
<1>1. Len(raw) \in Nat /\ raw \in Seq(Landings)
  BY LenProperties DEF SourceTyped
<1>2. Len(raw) \in 0..MaxBatches /\ stations \in 0..MaxSource \cup {None}
  BY <1>1, BatchAssumption DEF SourceTyped
<1> QED
  BY <1>2 DEF AsOf, Asof

LEMMA TypedIsTypeOK == IInv => TypeOK
<1> SUFFICES ASSUME IInv PROVE TypeOK
  OBVIOUS
<1>1. marts \in Marts
  BY DEF IInv, ServingTyped
<1>2. /\ marts["dim_stations"] \in DimTable \cup {None}
      /\ marts["fct_trips"] \in FctTable \cup {None}
  BY <1>1, MartsTyped
<1>3. marts["dim_stations"] # None =>
        marts["dim_stations"].rows \subseteq Versions /\ marts["dim_stations"].asof \in Asof
  BY <1>2 DEF DimTable
<1>4. marts["fct_trips"] # None =>
        marts["fct_trips"].rows \subseteq TripRows /\ marts["fct_trips"].asof \in Asof
  BY <1>2 DEF FctTable
<1>5. /\ page.step \in {"idle", "stat"} /\ page.mtime \in {"old", "current"}
      /\ page.shows # None => page.shows \subseteq Trips /\ served # None
  BY DEF IInv, ServingTyped
<1> QED
  BY <1>3, <1>4, <1>5 DEF IInv, SourceTyped, RunTyped, HistoryInv, TypeOK

LEMMA InvInit == Init => IInv
<1> SUFFICES ASSUME Init PROVE IInv
  OBVIOUS
<1> USE BatchAssumption DEF Init
<1>1. <<>> \in Seq(Landings) /\ Len(<<>>) = 0
  BY EmptySeq
<1>2. NoMarts \in Marts /\ \A t \in Tables : NoMarts[t] = None
  BY MartsTyped DEF NoMarts
<1>3. SourceTyped /\ RunTyped
  <2>1. 0 \in 0..MaxSource /\ 0 <= MaxBatches
    OBVIOUS
  <2>2. SourceTyped
    BY <1>1, <2>1 DEF SourceTyped
  <2>3. RunTyped
    BY DEF RunTyped
  <2> QED
    BY <2>2, <2>3
<1>4. ServingTyped
  BY <1>2 DEF ServingTyped
<1>5. BuiltAsOf
  BY DEF BuiltAsOf
<1>6. HistoryInv
  BY DEF HistoryInv, Chained, NoHole
<1>7. TripsInv
  BY <1>2 DEF TripsInv, FctTripsComplete, Tables
<1> QED
  BY <1>3, <1>4, <1>5, <1>6, <1>7 DEF IInv

(* A step that leaves the raw data, or the tables, or the copy alone.      *)
LEMMA PartsRest ==
  ASSUME IInv
  PROVE  /\ UNCHANGED <<changes, raw, stations>> => SourceTyped'
         /\ UNCHANGED <<queued, made, run>> => RunTyped'
         /\ UNCHANGED <<marts, tmp, served, page>> => ServingTyped'
         /\ UNCHANGED <<raw, stations, made, run, marts, tmp, served>> => BuiltAsOf'
         /\ UNCHANGED <<changes, stations, snapped, history>> => HistoryInv'
         /\ UNCHANGED <<raw, marts>> => TripsInv'
<1>1. UNCHANGED <<raw, stations, made, run, marts, tmp, served>> => BuiltAsOf'
  BY DEF IInv, BuiltAsOf, AsOf
<1>2. UNCHANGED <<changes, stations, snapped, history>> => HistoryInv'
  BY DEF IInv, HistoryInv, Chained, NoHole
<1>3. UNCHANGED <<raw, marts>> => TripsInv'
  BY DEF IInv, TripsInv, FctTripsComplete
<1> QED
  BY <1>1, <1>2, <1>3 DEF IInv, SourceTyped, RunTyped, ServingTyped

-----------------------------------------------------------------------------
(* The steps.                                                              *)

(* While the marts are being built, the slot keeps the raw data as they are. *)
LEMMA SourceKeeps == IInv /\ (Expand \/ StreamLanding \/ ApiExtract) => IInv'
<1> SUFFICES ASSUME IInv, Expand \/ StreamLanding \/ ApiExtract PROVE IInv'
  OBVIOUS
<1> USE BatchAssumption
<1>1. /\ SourceTyped /\ RunTyped /\ BuiltAsOf /\ HistoryInv /\ TripsInv
      /\ changes \in Nat /\ changes <= MaxSource
  BY DEF IInv, SourceTyped
<1>2. UNCHANGED <<made, run, marts, tmp, served, page, snapped, history>>
  BY DEF Expand, StreamLanding, ApiExtract, transform, serving
<1>3. ServingTyped'
  BY <1>2, PartsRest
<1>4. CASE Expand
  <2>1. /\ changes' = changes + 1 /\ changes < MaxSource /\ UNCHANGED <<raw, stations, queued>>
    <3>1. Len(raw) \in Nat
      BY <1>1, LenProperties DEF SourceTyped
    <3> QED
      BY <1>1, <1>4, <3>1 DEF Expand
  <2>2. changes + 1 \in 0..MaxSource /\ 0..changes \subseteq 0..(changes + 1)
    BY <1>1, <2>1
  <2>3. SourceTyped'
    BY <1>1, <2>1, <2>2 DEF SourceTyped
  <2>4. HistoryInv'
    BY <1>1, <1>2, <2>1, <2>2 DEF HistoryInv, Chained, NoHole
  <2> QED
    BY <1>2, <1>3, <2>1, <2>3, <2>4, PartsRest DEF IInv
<1>5. CASE StreamLanding
  <2>1. /\ PoolFree /\ UNCHANGED <<changes, stations>> /\ queued' \in {queued, TRUE}
        /\ \/ raw' = raw
           \/ \E rows \in Landings : Len(raw) < MaxBatches /\ raw' = Append(raw, rows)
    BY <1>5 DEF StreamLanding
  <2>2. RunTyped' /\ HistoryInv'
    BY <1>1, <1>2, <2>1, PartsRest DEF RunTyped
  <2>3. CASE raw' = raw
    BY <1>2, <1>3, <2>1, <2>2, <2>3, PartsRest DEF IInv
  <2>4. ASSUME NEW rows \in Landings, Len(raw) < MaxBatches, raw' = Append(raw, rows)
        PROVE  IInv'
    <3>1. raw \in Seq(Landings) /\ Len(raw) \in Nat
      BY <1>1, LenProperties DEF SourceTyped
    <3>2. /\ raw' \in Seq(Landings) /\ Len(raw') = Len(raw) + 1
          /\ \A n \in 0..Len(raw) : SubSeq(raw', 1, n) = SubSeq(raw, 1, n)
      BY <2>4, <3>1, AppendProperties, PrefixStays
    <3>3. SourceTyped'
      BY <1>1, <2>1, <2>4, <3>1, <3>2 DEF SourceTyped
    <3>4. BuiltAsOf'
      <4>1. made = {} /\ run # "copying"
        BY <1>1, <2>1 DEF PoolFree, BuiltAsOf
      <4> QED
        BY <1>1, <1>2, <4>1 DEF BuiltAsOf
    <3>5. TripsInv'
      <4> SUFFICES ASSUME marts["fct_trips"] # None PROVE TripsInv'
        BY <1>2 DEF TripsInv, FctTripsComplete
      <4> DEFINE n == marts["fct_trips"].asof.batches
      <4>1. n \in Nat
        BY MartsTyped DEF IInv, ServingTyped, FctTable, Asof
      <4>2. n <= Len(raw) /\ n <= Len(raw) + 1 /\ n \in 0..Len(raw)
        BY <1>1, <3>1, <4>1 DEF TripsInv
      <4> QED
        BY <1>1, <1>2, <3>2, <4>2 DEF TripsInv, FctTripsComplete
    <3> QED
      BY <1>3, <2>2, <3>3, <3>4, <3>5 DEF IInv
  <2> QED
    BY <2>1, <2>3, <2>4
<1>6. CASE ApiExtract
  <2>1. /\ PoolFree /\ stations' = changes /\ UNCHANGED <<changes, raw>> /\ queued' \in {queued, TRUE}
    BY <1>6 DEF ApiExtract, ExtractStations
  <2>2. RunTyped' /\ TripsInv'
    BY <1>1, <1>2, <2>1, PartsRest DEF RunTyped
  <2>3. SourceTyped'
    BY <1>1, <2>1 DEF SourceTyped
  <2>4. BuiltAsOf'
    <3>1. made = {} /\ run # "copying"
      BY <1>1, <2>1 DEF PoolFree, BuiltAsOf
    <3> QED
      BY <1>1, <1>2, <3>1 DEF BuiltAsOf
  <2>5. HistoryInv'
    <3>1. /\ history \subseteq Versions /\ snapped \subseteq 0..changes /\ Chained /\ NoHole
      BY <1>1 DEF HistoryInv
    <3>2. ASSUME NEW s \in snapped PROVE s <= changes
      <4>1. s \in 0..changes
        BY <3>1
      <4> QED
        BY <1>1, <4>1
    <3>3. Chained' /\ NoHole'
      BY <1>2, <3>1 DEF Chained, NoHole
    <3>4. changes # None
      BY <1>1
    <3> QED
      BY <1>2, <2>1, <3>1, <3>2, <3>3, <3>4 DEF HistoryInv
  <2> QED
    BY <1>3, <2>2, <2>3, <2>4, <2>5 DEF IInv
<1> QED
  BY <1>4, <1>5, <1>6

(* fct_trips is built: from nothing, or by what has completed since.       *)
LEMMA BuildTripsKeeps == IInv /\ BuildTrips => IInv'
<1> SUFFICES ASSUME IInv, BuildTrips PROVE IInv'
  OBVIOUS
<1> DEFINE old == marts["fct_trips"]
           this == IF old = None THEN None ELSE old.rows
           table == [rows |-> FctTrips(this, raw), asof |-> AsOf]
<1>1. /\ SourceTyped /\ RunTyped /\ ServingTyped /\ BuiltAsOf /\ TripsInv /\ marts \in Marts
      /\ raw \in Seq(Landings) /\ Len(raw) \in Nat
  BY LenProperties DEF IInv, ServingTyped, SourceTyped
<1>2. /\ run = "build" /\ made' = made \cup {"fct_trips"}
      /\ marts' = [marts EXCEPT !["fct_trips"] = table]
      /\ UNCHANGED <<changes, raw, stations, queued, run, snapped, history, tmp, served, page>>
  BY DEF BuildTrips, source, serving
<1>3. old \in FctTable \cup {None}
  BY <1>1, MartsTyped
<1>4. table \in FctTable /\ table.asof.batches = Len(raw) /\ table.rows = FctTrips(this, raw)
  <2>1. this = None \/ this \subseteq TripRows
    BY <1>3 DEF FctTable
  <2>2. FctTrips(this, raw) \subseteq TripRows
    BY <1>1, <2>1, TripRowsTyped
  <2>3. AsOf \in Asof /\ AsOf.batches = Len(raw)
    BY <1>1, AsOfTyped
  <2> QED
    BY <2>2, <2>3 DEF FctTable
<1>5. /\ marts' \in Marts /\ marts'["fct_trips"] = table
      /\ marts'["dim_stations"] = marts["dim_stations"]
  <2>1. marts \in [Tables -> DimTable \cup FctTable \cup {None}]
    BY <1>1 DEF Marts
  <2> HIDE DEF table
  <2> QED
    BY <1>1, <1>2, <1>4, <2>1, MartsTyped DEF Tables
<1>6. SourceTyped' /\ HistoryInv'
  BY <1>2, PartsRest
<1>7. RunTyped'
  BY <1>1, <1>2 DEF RunTyped, Tables
<1>8. ServingTyped'
  BY <1>1, <1>2, <1>5 DEF ServingTyped
<1>9. BuiltAsOf'
  <2>1. AsOf' = AsOf
    BY <1>2 DEF AsOf
  <2>2. table # None /\ table.asof = AsOf
    BY <1>4, BatchAssumption
  <2>3. made \subseteq {"dim_stations", "fct_trips"}
    BY <1>1 DEF RunTyped, Tables
  <2> HIDE DEF table
  <2> QED
    BY <1>1, <1>2, <1>5, <2>1, <2>2, <2>3 DEF BuiltAsOf
<1>10. TripsInv'
  <2>1. SubSeq(raw, 1, Len(raw)) = raw /\ Len(raw) <= Len(raw)
    BY <1>1, SubSeqFull
  <2>2. table.rows # {} => table.rows = CompleteTrips(raw)
    <3>1. CASE this = None
      BY <1>4, <3>1 DEF FctTrips
    <3>2. CASE this = {} /\ this # None
      BY <1>4, <3>2 DEF FctTrips, SinceLastBuild
    <3>3. CASE this # {} /\ this # None
      <4> DEFINE n == old.asof.batches
      <4>1. old \in FctTable /\ this = old.rows
        BY <1>3, <3>3
      <4>2. n \in 0..Len(raw)
        <5>1. n \in Nat
          BY <4>1 DEF FctTable, Asof
        <5>2. old # None
          BY <3>3
        <5> QED
          BY <1>1, <5>1, <5>2 DEF TripsInv
      <4>3. this = CompleteTrips(SubSeq(raw, 1, n))
        BY <1>1, <3>3, <4>1 DEF TripsInv, FctTripsComplete
      <4> HIDE DEF n, this
      <4>4. FctTrips(this, raw) = CompleteTrips(raw)
        BY <1>1, <3>3, <4>2, <4>3, IncrementalIsFull
      <4> QED
        BY <1>4, <4>4
    <3> QED
      BY <3>1, <3>2, <3>3
  <2> HIDE DEF table
  <2> QED
    BY <1>2, <1>4, <1>5, <2>1, <2>2 DEF TripsInv, FctTripsComplete
<1> QED
  BY <1>6, <1>7, <1>8, <1>9, <1>10 DEF IInv

(* snap_stations and dim_stations are built. *)
LEMMA BuildStationsKeeps == IInv /\ BuildStations => IInv'
<1> SUFFICES ASSUME IInv, BuildStations PROVE IInv'
  OBVIOUS
<1> DEFINE table == [rows |-> Current(history'), asof |-> AsOf]
<1>1. /\ SourceTyped /\ RunTyped /\ ServingTyped /\ BuiltAsOf /\ TripsInv /\ marts \in Marts
      /\ HistoryInv
  BY DEF IInv, ServingTyped
<1>2. /\ run = "build" /\ made' = made \cup {"dim_stations"}
      /\ marts' = [marts EXCEPT !["dim_stations"] = table]
      /\ UNCHANGED <<changes, raw, stations, queued, run, tmp, served, page>>
  BY DEF BuildStations, source, serving
<1>3. HistoryInv'
  BY <1>1, SnapshotKeeps
<1>4. table \in DimTable
  <2>1. Current(history') \subseteq Versions
    BY <1>3 DEF HistoryInv, Current
  <2>2. AsOf \in Asof
    BY <1>1, AsOfTyped
  <2> QED
    BY <2>1, <2>2 DEF DimTable
<1>5. /\ marts' \in Marts /\ marts'["dim_stations"] = table
      /\ marts'["fct_trips"] = marts["fct_trips"]
  <2>1. marts \in [Tables -> DimTable \cup FctTable \cup {None}]
    BY <1>1 DEF Marts
  <2> HIDE DEF table
  <2> QED
    BY <1>1, <1>2, <1>4, <2>1, MartsTyped DEF Tables
<1>6. SourceTyped'
  BY <1>2, PartsRest
<1>7. RunTyped'
  BY <1>1, <1>2 DEF RunTyped, Tables
<1>8. ServingTyped'
  BY <1>1, <1>2, <1>5 DEF ServingTyped
<1>9. BuiltAsOf'
  <2>1. AsOf' = AsOf
    BY <1>2 DEF AsOf
  <2>2. table # None /\ table.asof = AsOf
    BY <1>4, BatchAssumption
  <2>3. made \subseteq {"dim_stations", "fct_trips"}
    BY <1>1 DEF RunTyped, Tables
  <2> HIDE DEF table
  <2> QED
    BY <1>1, <1>2, <1>5, <2>1, <2>2, <2>3 DEF BuiltAsOf
<1>10. TripsInv'
  BY <1>1, <1>2, <1>5 DEF TripsInv, FctTripsComplete
<1> QED
  BY <1>3, <1>6, <1>7, <1>8, <1>9, <1>10 DEF IInv

(* The other steps of a run: it goes on with what it has built, or ends.   *)
LEMMA RunKeeps ==
  ASSUME IInv, StartRun \/ BuildSucceeds \/ BuildFails \/ Report
  PROVE  IInv'
<1>1. /\ RunTyped /\ BuiltAsOf
      /\ UNCHANGED <<changes, raw, stations, snapped, history, marts, tmp, served, page>>
  BY DEF IInv, StartRun, BuildSucceeds, BuildFails, Report, source, serving
<1>2. SourceTyped' /\ ServingTyped' /\ HistoryInv' /\ TripsInv'
  BY <1>1, PartsRest
<1>3. RunTyped'
  BY <1>1 DEF RunTyped, StartRun, BuildSucceeds, BuildFails, Report, GiveUp
<1>4. AsOf' = AsOf
  BY <1>1 DEF AsOf
<1>5. BuiltAsOf'
  <2>1. CASE StartRun
    BY <1>1, <1>4, <2>1 DEF BuiltAsOf, StartRun
  <2>2. CASE BuildSucceeds
    <3>1. Whole(marts)
      <4>1. \A t \in Tables : marts[t] # None /\ marts[t].asof = AsOf
        BY <1>1, <2>2 DEF BuiltAsOf, BuildSucceeds
      <4>2. marts["fct_trips"].asof = marts["dim_stations"].asof
        BY <4>1 DEF Tables
      <4> QED
        BY <2>2, <4>1, <4>2 DEF Whole, BuildSucceeds, TestsPass
    <3> QED
      BY <1>1, <2>2, <3>1 DEF BuiltAsOf, BuildSucceeds
  <2>3. CASE BuildFails
    BY <1>1, <2>3 DEF BuiltAsOf, BuildFails, GiveUp
  <2>4. CASE Report
    BY <1>1, <1>4, <2>4 DEF BuiltAsOf, Report, GiveUp
  <2> QED
    BY <2>1, <2>2, <2>3, <2>4
<1> QED
  BY <1>2, <1>3, <1>5 DEF IInv

(* publish(): what is copied are the tables of the run that succeeded, and  *)
(* they stay as they are until the swap.                                    *)
LEMMA PublishKeeps ==
  ASSUME IInv, CopyTables \/ Replace \/ PublishFails
  PROVE  IInv'
<1>1. /\ RunTyped /\ ServingTyped /\ BuiltAsOf /\ made = {}
      /\ UNCHANGED <<changes, raw, stations, queued, made, snapped, history, marts>>
  BY DEF IInv, CopyTables, Replace, PublishFails, source, BuiltAsOf
<1>2. SourceTyped' /\ HistoryInv' /\ TripsInv'
  BY <1>1, PartsRest
<1>3. RunTyped'
  BY <1>1 DEF RunTyped, CopyTables, Replace, PublishFails
<1>4. CASE CopyTables
  <2>1. ServingTyped'
    BY <1>1, <1>4 DEF ServingTyped, CopyTables
  <2>2. BuiltAsOf'
    BY <1>1, <1>4 DEF BuiltAsOf, CopyTables
  <2> QED
    BY <1>2, <1>3, <2>1, <2>2 DEF IInv
<1>5. CASE Replace
  <2>1. served' = marts /\ tmp' = None /\ run' = "idle" /\ Whole(marts) /\ marts \in Marts
    BY <1>1, <1>5 DEF BuiltAsOf, ServingTyped, Replace
  <2>2. served' # None
    BY <2>1, MartsTyped
  <2>3. ServingTyped'
    BY <1>1, <1>5, <2>1, <2>2 DEF ServingTyped, Replace
  <2>4. BuiltAsOf'
    BY <1>1, <2>1 DEF BuiltAsOf
  <2> QED
    BY <1>2, <1>3, <2>3, <2>4 DEF IInv
<1>6. CASE PublishFails
  <2>1. ServingTyped'
    BY <1>1, <1>6, MartsTyped DEF ServingTyped, PublishFails
  <2>2. BuiltAsOf'
    BY <1>1, <1>6 DEF BuiltAsOf, PublishFails
  <2> QED
    BY <1>2, <1>3, <2>1, <2>2 DEF IInv
<1> QED
  BY <1>4, <1>5, <1>6

(* The page reads the copy, and nothing else. *)
LEMMA PageKeeps ==
  ASSUME IInv, Stat \/ Show
  PROVE  IInv'
<1>1. /\ ServingTyped /\ BuiltAsOf
      /\ UNCHANGED <<changes, raw, stations, queued, run, made, snapped, history, marts, tmp, served>>
  BY DEF IInv, Stat, Show, source, transform
<1>2. SourceTyped' /\ RunTyped' /\ BuiltAsOf' /\ HistoryInv' /\ TripsInv'
  BY <1>1, PartsRest
<1>3. ServingTyped'
  <2>1. CASE Stat
    BY <1>1, <2>1 DEF ServingTyped, Stat
  <2>2. CASE Show
    <3>1. served \in Marts /\ Whole(served)
      BY <1>1, <2>2 DEF ServingTyped, BuiltAsOf, Show
    <3>2. TripsOf(served) \in SUBSET Trips /\ served # None
      BY <3>1, MartsTyped
    <3> QED
      BY <1>1, <2>2, <3>2 DEF ServingTyped, Show
  <2> QED
    BY <2>1, <2>2
<1> QED
  BY <1>2, <1>3 DEF IInv

LEMMA InvStep == IInv /\ [Next]_vars => IInv'
<1> SUFFICES ASSUME IInv, [Next]_vars PROVE IInv'
  OBVIOUS
<1>1. CASE UNCHANGED vars
  BY <1>1, PartsRest DEF vars, IInv
<1>2. CASE Expand \/ StreamLanding \/ ApiExtract
  BY <1>2, SourceKeeps
<1>3. CASE StartRun \/ BuildSucceeds \/ BuildFails \/ Report
  BY <1>3, RunKeeps
<1>4. CASE BuildTrips
  BY <1>4, BuildTripsKeeps
<1>5. CASE BuildStations
  BY <1>5, BuildStationsKeeps
<1>6. CASE CopyTables \/ Replace \/ PublishFails
  BY <1>6, PublishKeeps
<1>7. CASE Stat \/ Show
  BY <1>7, PageKeeps
<1> QED
  BY <1>1, <1>2, <1>3, <1>4, <1>5, <1>6, <1>7 DEF Next

-----------------------------------------------------------------------------
LEMMA Invariance == Spec => []IInv
<1> QED
  BY InvInit, InvStep, PTL DEF Spec

(* Every state of the source, the warehouse, the marts, the serving copy   *)
(* and the page is of its type, whatever lands and whichever task fails.   *)
THEOREM TypeCorrect == Spec => []TypeOK
<1> QED
  BY Invariance, TypedIsTypeOK, PTL

(* fct_trips.sql:10-14.  The trips table built run by run, from what has    *)
(* completed since the last, is the one a full refresh builds from the same *)
(* raw data: for any landings, duplicates, late halves, failures, retries.  *)
THEOREM IncrementalEqualsFull == Spec => []FctTripsComplete
<1>1. IInv => FctTripsComplete
  BY DEF IInv, TripsInv
<1> QED
  BY Invariance, <1>1, PTL

(* snap_stations.yml:7-11.  For any changes of capacity, extracts and       *)
(* builds, a report is judged with one capacity from the first version on,  *)
(* never a later one, and its own if a build saw it.                        *)
THEOREM ReportsJudgedOnce == Spec => []HistoryTrue
<1>1. IInv => HistoryTrue
  BY JudgedOnce DEF IInv
<1> QED
  BY Invariance, <1>1, PTL

(* publish.py:12-15, dbt_transform.py:101.  The serving copy holds the      *)
(* tables of one build that passed its tests, from one state of the raw     *)
(* data, however many builds and publishes failed before it.                *)
THEOREM ServesOneBuild == Spec => []ServingWhole
<1>1. IInv => ServingWhole
  BY DEF IInv, BuiltAsOf, Whole, ServingWhole
<1> QED
  BY Invariance, <1>1, PTL

-----------------------------------------------------------------------------
(* The detections: the inductive invariant, part by part.                  *)

FaultNames ==
  {"orphan_trip", "teleport", "schema_drift", "impossible_status", "duplicate", "late_event"}

(* The log is of what has happened, and it is extracted up to some step.   *)
LogSound ==
  /\ now \in Nat /\ extracted \subseteq fault_log
  /\ \A f \in fault_log :
       /\ f.fault \in FaultNames /\ f.event \in VendorEvents
       /\ f.injected_at = Time(f.event) + 1 /\ f.injected_at <= now
  /\ \A f \in fault_log, g \in extracted : f.injected_at <= g.injected_at => f \in extracted

Made == held \cup emitted

(* Where the copies are, and which came first. *)
WhereSound ==
  /\ Made \subseteq CopySet /\ held \cap emitted = {} /\ landed \subseteq emitted
  /\ DOMAIN first = {c.event : c \in landed}
  /\ \A e \in DOMAIN first : first[e] \in landed /\ first[e].event = e

InLog(f, e) == \E g \in fault_log : g.fault = f /\ g.event = e

(* A copy is what the log says of its event, and there is one original and *)
(* one duplicate of an event at most.                                      *)
MarkedAsLogged(c) ==
  /\ Time(c.event) < now
  /\ "schema_drift" \in c.marks <=> InLog("schema_drift", c.event)
  /\ "teleport" \in c.marks <=> InLog("teleport", c.event)
  /\ (\E i \in Impossible : i \in c.marks) <=> InLog("impossible_status", c.event)
  /\ (\E i \in Impossible : i \in c.marks) => c.event.kind = "station_status"
  /\ c.late <=> ~c.again /\ InLog("late_event", c.event)
  /\ c.again => InLog("duplicate", c.event)
  /\ ~InLog("orphan_trip", c.event)

CopiesSound ==
  /\ \A c \in Made : MarkedAsLogged(c)
  /\ \A c, d \in Made : c.event = d.event => c.marks = d.marks

(* Every event of the steps taken was dropped, and that is all the log says *)
(* of it, or there is its original, and a duplicate if one is logged.      *)
EventsSound ==
  \A e \in VendorEvents : Time(e) < now =>
    \/ /\ InLog("orphan_trip", e) /\ e.kind \in TripKinds
       /\ \A f \in FaultNames : InLog(f, e) => f = "orphan_trip"
    \/ /\ \E c \in Made : c.event = e /\ ~c.again
       /\ InLog("duplicate", e) => \E c \in Made : c.event = e /\ c.again

(* The versions chain, without a hole from the first one on. *)
VersionsSound ==
  /\ \A v \in snap_stations :
       /\ v.from \in DOMAIN Docks /\ v.from <= now /\ v.capacity = v.from /\ v.from < v.to
       /\ \/ v.to = Forever
          \/ v.to \in DOMAIN Docks /\ v.to <= now
  /\ \A v, w \in snap_stations :
       /\ v.from = w.from => v = w
       /\ v.from < w.from => v.to <= w.from
  /\ \A t \in 0..(Forever - 1) :
       (\E v \in snap_stations : v.from <= t) => JudgedWith(snap_stations, t) # {}

DetectionsInv == LogSound /\ WhereSound /\ CopiesSound /\ EventsSound /\ VersionsSound

-----------------------------------------------------------------------------
(* Events and their times.                                                 *)

LEMMA TimeType ==
  ASSUME NEW e \in VendorEvents
  PROVE  Time(e) \in Nat
<1>1. CASE e \in [kind : TripKinds, of : TripIds]
  <2>1. e.of \in TripIds /\ e.kind \in TripKinds
    BY <1>1
  <2>2. StartedAt[e.of] \in Nat /\ EndedAt[e.of] \in StartedAt[e.of]..(StartedAt[e.of] + MaxTrip)
    BY <2>1, DetectionsAssumption
  <2>3. EndedAt[e.of] \in Nat
    BY <2>2, DetectionsAssumption
  <2>4. CASE e.kind = "trip_started"
    BY <2>2, <2>4 DEF Time
  <2>5. CASE e.kind = "trip_ended"
    BY <2>3, <2>5 DEF Time
  <2> QED
    BY <2>1, <2>4, <2>5 DEF TripKinds
<1>2. CASE e \in [kind : {"station_status"}, of : Reports]
  BY <1>2, DetectionsAssumption DEF Time
<1> QED
  BY <1>1, <1>2 DEF VendorEvents

(* The other half of a trip, and how far apart they are. *)
LEMMA OtherHalf ==
  ASSUME NEW e \in VendorEvents, e.kind \in TripKinds
  PROVE  /\ Other(e) \in VendorEvents /\ Other(e).of = e.of /\ Other(e).kind \in TripKinds
         /\ e.kind = "trip_ended" => Other(e).kind = "trip_started" /\ Time(Other(e)) <= Time(e)
         /\ e.kind = "trip_started" =>
              /\ Other(e).kind = "trip_ended"
              /\ Time(e) <= Time(Other(e)) /\ Time(Other(e)) <= Time(e) + MaxTrip
         /\ Other(Other(e)) = e
<1>1. PICK k \in TripKinds, t \in TripIds : e = [kind |-> k, of |-> t]
  BY DEF VendorEvents, TripKinds
<1>2. PICK j : j = CHOOSE i \in TripKinds : i # k
  OBVIOUS
<1>3. /\ k = "trip_started" => j = "trip_ended"
      /\ k = "trip_ended" => j = "trip_started"
  BY <1>2 DEF TripKinds
<1>4. Other(e) = [kind |-> j, of |-> t]
  <2>1. PICK o : o = [e EXCEPT !.kind = j]
    OBVIOUS
  <2>2. o = [kind |-> j, of |-> t]
    BY <1>1, <2>1
  <2>3. Other(e) = o
    BY <1>1, <1>2, <2>1 DEF Other
  <2> QED
    BY <2>2, <2>3
<1>5. PICK a \in Nat, b \in Nat : a = StartedAt[t] /\ b = EndedAt[t] /\ a <= b /\ b <= a + MaxTrip
  BY DetectionsAssumption
<1>6. PICK i : i = CHOOSE x \in TripKinds : x # j
  OBVIOUS
<1>7. i = k
  BY <1>3, <1>6 DEF TripKinds
<1>8. Other(Other(e)) = e
  <2>1. PICK o : o = [[kind |-> j, of |-> t] EXCEPT !.kind = i]
    OBVIOUS
  <2>2. o = [kind |-> i, of |-> t]
    BY <2>1
  <2>3. PICK x : x = [kind |-> j, of |-> t]
    OBVIOUS
  <2>4. x.kind = j /\ Other(x) = [x EXCEPT !.kind = i]
    BY <1>6, <2>3 DEF Other
  <2>5. Other(Other(e)) = o
    BY <1>4, <2>1, <2>3, <2>4
  <2> QED
    BY <1>1, <1>7, <2>2, <2>5
<1>9. CASE k = "trip_started"
  <2>1. Time(e) = a /\ Time([kind |-> j, of |-> t]) = b
    BY <1>1, <1>3, <1>5, <1>9 DEF Time
  <2> QED
    BY <1>1, <1>3, <1>4, <1>5, <1>8, <1>9, <2>1 DEF VendorEvents, TripKinds
<1>10. CASE k = "trip_ended"
  <2>1. Time(e) = b /\ Time([kind |-> j, of |-> t]) = a
    BY <1>1, <1>3, <1>5, <1>10 DEF Time
  <2> QED
    BY <1>1, <1>3, <1>4, <1>5, <1>8, <1>10, <2>1 DEF VendorEvents, TripKinds
<1> QED
  BY <1>9, <1>10 DEF TripKinds

-----------------------------------------------------------------------------
(* The contract.                                                           *)

LEMMA DriftIsInvalid ==
  ASSUME NEW c \in CopySet, "schema_drift" \in c.marks,
         "negative" \in c.marks => c.event.kind = "station_status"
  PROVE  ~Valid(c)
<1>1. PICK k : k = c.event.kind
  OBVIOUS
<1>2. k \in {"trip_started", "trip_ended", "station_status"}
  BY <1>1 DEF CopySet, VendorEvents, TripKinds
<1>3. CASE k = "trip_started"
  <2>1. Payload(c) = [Contract["trip_started"] EXCEPT !.bike_id = "null"]
    BY <1>1, <1>3 DEF Payload, Drifted, Counted
  <2>2. "bike_id" \in DOMAIN Payload(c) /\ Payload(c)["bike_id"] = "null"
    BY <2>1 DEF Contract
  <2>3. Contract[k]["bike_id"] = "str"
    BY <1>3 DEF Contract
  <2> QED
    BY <1>1, <2>2, <2>3 DEF Valid
<1>4. CASE k = "trip_ended"
  <2>1. Payload(c) = [Contract["trip_ended"] EXCEPT !.duration_s = "str"]
    BY <1>1, <1>4 DEF Payload, Drifted, Counted
  <2>2. "duration_s" \in DOMAIN Payload(c) /\ Payload(c)["duration_s"] = "str"
    BY <2>1 DEF Contract
  <2>3. Contract[k]["duration_s"] = "nat"
    BY <1>4 DEF Contract
  <2> QED
    BY <1>1, <2>2, <2>3 DEF Valid
<1>5. CASE k = "station_status"
  <2>1. PICK p : p = Counted(Contract[k], c.marks)
    OBVIOUS
  <2>2. Payload(c) = [f \in (DOMAIN p \ {"bikes_available"}) \cup {"num_bikes_available"} |->
                        IF f = "num_bikes_available" THEN p.bikes_available ELSE p[f]]
    BY <1>1, <1>5, <2>1 DEF Payload, Drifted
  <2>3. "bikes_available" \notin DOMAIN Payload(c)
    BY <2>2
  <2>4. "bikes_available" \in DOMAIN Contract[k]
    BY <1>5 DEF Contract
  <2> QED
    BY <1>1, <2>3, <2>4 DEF Valid
<1> QED
  BY <1>2, <1>3, <1>4, <1>5

LEMMA NegativeIsInvalid ==
  ASSUME NEW c \in CopySet, "schema_drift" \notin c.marks, "negative" \in c.marks,
         c.event.kind = "station_status"
  PROVE  ~Valid(c)
<1>1. Payload(c) = [Contract["station_status"] EXCEPT !.bikes_available = "negative"]
  BY DEF Payload, Counted
<1>2. "bikes_available" \in DOMAIN Payload(c) /\ Payload(c)["bikes_available"] = "negative"
  BY <1>1 DEF Contract
<1>3. Contract["station_status"]["bikes_available"] = "nat"
  BY DEF Contract
<1> QED
  BY <1>2, <1>3 DEF Valid

LEMMA CleanIsValid ==
  ASSUME NEW c, "schema_drift" \notin c.marks, "negative" \notin c.marks
  PROVE  Valid(c)
BY DEF Valid, Payload, Counted

-----------------------------------------------------------------------------
(* Bounded sets of numbers.                                                *)

LEMMA MaxBelow ==
  ASSUME NEW S, S \subseteq Nat, S # {}, NEW b \in Nat, \A y \in S : y < b
  PROVE  Max(S) \in S /\ \A y \in S : y <= Max(S)
<1> DEFINE B == {n \in Nat : \A y \in S : y <= n}
<1>1. b \in B
  OBVIOUS
<1>2. PICK m \in B : \A n \in B : m <= n
  BY <1>1, LeastNat
<1>3. m \in S
  <2> SUFFICES ASSUME m \notin S PROVE FALSE
    OBVIOUS
  <2>1. PICK y \in S : TRUE
    OBVIOUS
  <2>2. m - 1 \in Nat /\ \A z \in S : z <= m - 1
    BY <2>1
  <2> QED
    BY <1>2, <2>2
<1>4. \E x \in S : \A y \in S : x >= y
  BY <1>3
<1>5. Max(S) \in S /\ \A y \in S : Max(S) >= y
  BY <1>4 DEF Max
<1> QED
  BY <1>5

LEMMA BelowMinOfTwo ==
  ASSUME NEW a \in Int, NEW b \in Int, NEW t \in Int, t < Min({a, b})
  PROVE  t < a /\ t < b
<1>1. \E x \in {a, b} : \A y \in {a, b} : x =< y
  <2>1. CASE a <= b
    BY <2>1
  <2>2. CASE b <= a
    BY <2>2
  <2> QED
    BY <2>1, <2>2
<1>2. Min({a, b}) \in {a, b} /\ \A y \in {a, b} : Min({a, b}) =< y
  BY <1>1 DEF Min
<1> QED
  BY <1>2

-----------------------------------------------------------------------------
(* The station's capacities and its versions.                              *)

LEMMA CapacityThen ==
  ASSUME NEW t \in Nat
  PROVE  /\ UpdatedAt(t) \in DOMAIN Docks /\ UpdatedAt(t) \in Nat /\ UpdatedAt(t) <= t
         /\ Docks[UpdatedAt(t)] \in Nat
         /\ \A x \in DOMAIN Docks : x <= t =>
              x \in Nat /\ x <= UpdatedAt(t) /\ Docks[x] \in Nat /\ Docks[x] <= Docks[UpdatedAt(t)]
<1> DEFINE S == {x \in DOMAIN Docks : x <= t}
<1>1. DOMAIN Docks \subseteq Nat /\ 0 \in DOMAIN Docks
  BY DetectionsAssumption
<1>2. S \subseteq Nat /\ S # {} /\ t + 1 \in Nat /\ \A y \in S : y < t + 1
  BY <1>1
<1>3. PICK u : u = UpdatedAt(t) /\ u = Max(S)
  BY DEF UpdatedAt
<1>4. u \in S /\ \A y \in S : y <= u
  <2> HIDE DEF S
  <2> QED
    BY <1>2, <1>3, MaxBelow
<1>5. u \in DOMAIN Docks /\ u \in Nat /\ u <= t /\ Docks[u] \in Nat
  BY <1>1, <1>4, DetectionsAssumption
<1>6. ASSUME NEW x \in DOMAIN Docks, x <= t
      PROVE  x \in Nat /\ x <= u /\ Docks[x] \in Nat /\ Docks[x] <= Docks[u]
  <2>1. x \in Nat /\ x <= u /\ Docks[x] \in Nat
    BY <1>1, <1>4, <1>6, DetectionsAssumption
  <2>2. x < u => Docks[x] < Docks[u]
    BY <1>5, DetectionsAssumption
  <2>3. x = u \/ x < u
    BY <1>5, <2>1
  <2> QED
    BY <1>5, <2>1, <2>2, <2>3
<1> QED
  BY <1>3, <1>5, <1>6

LEMMA ReportTime ==
  ASSUME NEW e \in VendorEvents, e.kind = "station_status"
  PROVE  /\ e.of \in Reports /\ Stamp(e) \in 0..(Forever - 1) /\ Stamp(e) \in Nat
         /\ Bikes[e.of] \in Nat /\ Bikes[e.of] <= Docks[UpdatedAt(Stamp(e))]
<1>1. e.of \in Reports
  BY DEF VendorEvents, TripKinds
<1>2. PICK n \in Nat : n = ReportedAt[e.of] /\ Forever > n + 1 /\ Forever \in Nat
  BY <1>1, DetectionsAssumption
<1>3. Stamp(e) = n + 1
  BY <1>2 DEF Stamp, Time
<1>4. PICK x \in DOMAIN Docks : x <= n /\ Bikes[e.of] \in 0..Docks[x]
  BY <1>1, <1>2, DetectionsAssumption
<1>5. x \in Nat /\ x <= n + 1
  BY <1>2, <1>4, DetectionsAssumption
<1>6. PICK m \in Nat : m = n + 1
  OBVIOUS
<1>7. /\ Docks[UpdatedAt(m)] \in Nat /\ Docks[x] \in Nat /\ Docks[x] <= Docks[UpdatedAt(m)]
  BY <1>5, <1>6, CapacityThen
<1>8. PICK a, b, c \in Nat : a = Bikes[e.of] /\ b = Docks[x] /\ c = Docks[UpdatedAt(m)]
  BY <1>4, <1>7
<1>9. a <= c
  BY <1>4, <1>7, <1>8
<1> QED
  BY <1>1, <1>2, <1>3, <1>6, <1>8, <1>9

(* The versions a report is judged with have a capacity it had by then;     *)
(* and its own if that is among them.                                      *)
LEMMA JudgedThen ==
  ASSUME VersionsSound, NEW t \in 0..(Forever - 1), NEW v \in JudgedWith(snap_stations, t)
  PROVE  /\ v.capacity \in DOMAIN Docks /\ v.capacity <= t
         /\ \A w \in snap_stations : w.from = UpdatedAt(t) => v.capacity = UpdatedAt(t)
<1>1. /\ v \in snap_stations /\ v.from <= t /\ t < v.to
      /\ v.from \in DOMAIN Docks /\ v.capacity = v.from
  BY DEF JudgedWith, VersionsSound
<1>2. t \in Nat /\ Forever \in Nat /\ t < Forever /\ DOMAIN Docks \subseteq Nat
  BY DetectionsAssumption
<1>3. ASSUME NEW w \in snap_stations, w.from = UpdatedAt(t) PROVE v.from = w.from
  <2>1. /\ w.from \in Nat /\ w.from <= t /\ v.from <= w.from /\ v.from \in Nat
        /\ \A x \in DOMAIN Docks : x <= t => x <= w.from
    BY <1>1, <1>2, <1>3, CapacityThen
  <2>2. v.from < w.from => v.to <= w.from
    BY <1>1 DEF VersionsSound
  <2>3. v.to \in Nat
    BY <1>1, <1>2 DEF VersionsSound
  <2> QED
    BY <1>1, <1>2, <2>1, <2>2, <2>3
<1> QED
  BY <1>1, <1>3

-----------------------------------------------------------------------------
(* What the invariant says of the tables.                                  *)

LEMMA CopyKnown ==
  ASSUME DetectionsInv, NEW c \in Made
  PROVE  /\ c \in CopySet /\ c.event \in VendorEvents /\ MarkedAsLogged(c)
         /\ Time(c.event) \in Nat /\ now \in Nat
         /\ c.again \in BOOLEAN /\ c.late \in BOOLEAN
<1>1. c \in CopySet /\ MarkedAsLogged(c) /\ now \in Nat
  BY DEF DetectionsInv, WhereSound, CopiesSound, LogSound
<1>2. c.event \in VendorEvents /\ c.again \in BOOLEAN /\ c.late \in BOOLEAN
  BY <1>1 DEF CopySet
<1> QED
  BY <1>1, <1>2, TimeType

LEMMA LandedIsMade == DetectionsInv => landed \subseteq Made /\ landed \subseteq emitted
BY DEF DetectionsInv, WhereSound, Made

LEMMA OneOfEach ==
  ASSUME DetectionsInv, NEW c \in Made, NEW d \in Made, c.event = d.event, c.again = d.again
  PROVE  c = d
<1>1. c \in CopySet /\ d \in CopySet /\ c.marks = d.marks
  BY DEF DetectionsInv, WhereSound, CopiesSound
<1>2. c.late = d.late
  <2>1. /\ c.late <=> ~c.again /\ InLog("late_event", c.event)
        /\ d.late <=> ~d.again /\ InLog("late_event", d.event)
    BY DEF DetectionsInv, CopiesSound, MarkedAsLogged
  <2>2. c.late \in BOOLEAN /\ d.late \in BOOLEAN
    BY <1>1 DEF CopySet
  <2>3. c.late <=> d.late
    BY <2>1
  <2> QED
    BY <2>2, <2>3
<1>3. /\ c = [event |-> c.event, marks |-> c.marks, late |-> c.late, again |-> c.again]
      /\ d = [event |-> d.event, marks |-> d.marks, late |-> d.late, again |-> d.again]
  BY <1>1 DEF CopySet
<1> QED
  BY <1>1, <1>2, <1>3

LEMMA StagedKnown ==
  ASSUME DetectionsInv, NEW e \in Staged
  PROVE  /\ e \in VendorEvents /\ Time(e) \in Nat /\ Time(e) < now
         /\ first[e] \in landed /\ first[e] \in Made /\ first[e].event = e
<1>1. PICK c \in landed : Valid(c) /\ c.event = e
  BY DEF Staged
<1>2. c \in Made
  BY <1>1, LandedIsMade
<1>3. e \in VendorEvents /\ Time(e) \in Nat /\ Time(e) < now
  BY <1>1, <1>2, CopyKnown DEF MarkedAsLogged
<1>4. e \in DOMAIN first
  BY <1>1 DEF DetectionsInv, WhereSound
<1>5. first[e] \in landed /\ first[e].event = e
  BY <1>4 DEF DetectionsInv, WhereSound
<1> QED
  BY <1>3, <1>5, LandedIsMade

(* What an impossible status shows is more than its version allows; what a  *)
(* truthful report shows is not, if a build saw its capacity.              *)
LEMMA ShownAgainst ==
  ASSUME DetectionsInv, NEW e \in Staged, e.kind = "station_status"
  PROVE  /\ "over_capacity" \in first[e].marks /\ ~Unversioned(e) => OverCapacity(e)
         /\ "over_capacity" \notin first[e].marks /\ ~Unseen(e) => ~OverCapacity(e)
<1>1. VersionsSound /\ e \in VendorEvents /\ first[e].event = e
  BY StagedKnown DEF DetectionsInv
<1>2. PICK t \in Nat : /\ t = Stamp(e) /\ t \in 0..(Forever - 1)
                       /\ Bikes[e.of] \in Nat /\ Bikes[e.of] <= Docks[UpdatedAt(t)]
  BY <1>1, ReportTime
<1>3. PICK c \in Nat : c = Docks[UpdatedAt(t)]
  BY <1>2, CapacityThen
<1>4. ASSUME NEW v \in JudgedWith(snap_stations, t)
      PROVE  /\ Docks[v.capacity] \in Nat /\ Docks[v.capacity] <= c
             /\ ~Unseen(e) => Docks[v.capacity] = c
  <2>1. Docks[v.capacity] \in Nat /\ Docks[v.capacity] <= c
    BY <1>1, <1>2, <1>3, JudgedThen, CapacityThen
  <2>2. ~Unseen(e) => v.capacity = UpdatedAt(t)
    BY <1>1, <1>2, JudgedThen DEF Unseen
  <2> QED
    BY <1>3, <2>1, <2>2
<1>5. ASSUME "over_capacity" \in first[e].marks, ~Unversioned(e) PROVE OverCapacity(e)
  <2>1. PICK w \in snap_stations : ~(t < w.from)
    BY <1>2, <1>5 DEF Unversioned
  <2>2. w.from <= t
    BY <1>1, <1>2, <2>1, DetectionsAssumption DEF VersionsSound
  <2>3. PICK v \in JudgedWith(snap_stations, t) : TRUE
    BY <1>1, <1>2, <2>2 DEF VersionsSound
  <2>4. Shown(first[e]) = c + 1
    BY <1>1, <1>2, <1>3, <1>5 DEF Shown
  <2>5. Shown(first[e]) > Docks[v.capacity]
    BY <1>3, <1>4, <2>3, <2>4
  <2> QED
    BY <1>2, <2>3, <2>5 DEF OverCapacity
<1>6. ASSUME "over_capacity" \notin first[e].marks, ~Unseen(e) PROVE ~OverCapacity(e)
  <2> SUFFICES ASSUME NEW v \in JudgedWith(snap_stations, t),
                      Shown(first[e]) > Docks[v.capacity]
               PROVE  FALSE
    BY <1>2 DEF OverCapacity
  <2>1. Shown(first[e]) = Bikes[e.of]
    BY <1>1, <1>6 DEF Shown
  <2> QED
    BY <1>2, <1>3, <1>4, <1>6, <2>1
<1> QED
  BY <1>5, <1>6

LEMMA LatestKnown ==
  ASSUME DetectionsInv, StagedTrips # {}
  PROVE  /\ LatestEvent \in Nat /\ LatestEvent < now
         /\ \A e \in StagedTrips : Time(e) <= LatestEvent
<1>1. \A e \in StagedTrips : e \in Staged /\ Time(e) \in Nat /\ Time(e) < now
  BY StagedKnown DEF StagedTrips
<1> DEFINE S == {Time(e) : e \in StagedTrips}
<1>2. S \subseteq Nat /\ S # {} /\ \A y \in S : y < now
  BY <1>1
<1>3. now \in Nat
  BY DEF DetectionsInv, LogSound
<1>4. LatestEvent = Max(S)
  BY DEF LatestEvent
<1> HIDE DEF S
<1>5. Max(S) \in S /\ \A y \in S : y <= Max(S)
  BY <1>2, <1>3, MaxBelow
<1>6. LatestEvent \in Nat /\ LatestEvent < now
  BY <1>2, <1>4, <1>5
<1>7. \A e \in StagedTrips : Time(e) \in S
  BY DEF S
<1> QED
  BY <1>4, <1>5, <1>6, <1>7

(* What is judged lies behind both the events and the log extracted. *)
LEMMA JudgedIsPast ==
  ASSUME DetectionsInv, BothSides, NEW t \in Nat, Judged(t)
  PROVE  /\ LatestEvent \in Nat /\ LatestEvent < now /\ t + JudgeAfter < LatestEvent
         /\ \E g \in extracted : t < g.injected_at
<1>1. LatestEvent \in Nat /\ LatestEvent < now
  BY LatestKnown DEF BothSides
<1> DEFINE S == {f.injected_at : f \in extracted}
<1>2. /\ \A f \in extracted : f.injected_at \in Nat /\ f.injected_at <= now
      /\ now \in Nat
  <2>1. \A f \in extracted : /\ f.event \in VendorEvents /\ f.injected_at = Time(f.event) + 1
                             /\ f.injected_at <= now
    BY DEF DetectionsInv, LogSound
  <2>2. \A f \in extracted : Time(f.event) \in Nat
    BY <2>1, TimeType
  <2> QED
    BY <2>1, <2>2 DEF DetectionsInv, LogSound
<1>3. S \subseteq Nat /\ S # {} /\ \A y \in S : y < now + 1
  BY <1>2 DEF BothSides
<1>4. Max(S) \in S /\ Max(S) \in Nat
  <2> HIDE DEF S
  <2>1. PICK b \in Nat : b = now + 1
    BY <1>2
  <2>2. S \subseteq Nat /\ S # {} /\ \A y \in S : y < b
    BY <1>3, <2>1
  <2>3. Max(S) \in S
    BY <2>2, MaxBelow
  <2> QED
    BY <2>2, <2>3
<1>5. PICK a, b : a = LatestEvent - JudgeAfter /\ b = Max(S)
  OBVIOUS
<1>6. a \in Int /\ b \in Int
  BY <1>1, <1>4, <1>5, DetectionsAssumption
<1>7. Horizons = {a, b}
  BY <1>5 DEF Horizons, BothSides
<1>8. t < Min({a, b})
  BY <1>7 DEF Judged
<1>9. t < a /\ t < b
  BY <1>6, <1>8, BelowMinOfTwo
<1>10. t + JudgeAfter < LatestEvent
  BY <1>1, <1>5, <1>9, DetectionsAssumption
<1>11. \E g \in extracted : t < g.injected_at
  BY <1>4, <1>5, <1>9
<1> QED
  BY <1>1, <1>10, <1>11

(* The fault of an event that is judged has been extracted. *)
LEMMA KnownWhenJudged ==
  ASSUME DetectionsInv, BothSides, NEW e \in VendorEvents, Judged(Stamp(e)),
         NEW f, InLog(f, e)
  PROVE  \E g \in extracted : g.fault = f /\ g.event = e
<1>1. PICK g \in fault_log : g.fault = f /\ g.event = e
  BY DEF InLog
<1>2. PICK t \in Nat : t = Time(e)
  BY TimeType
<1>3. PICK x \in extracted : Stamp(e) < x.injected_at
  <2>1. Stamp(e) \in Nat
    BY <1>2 DEF Stamp
  <2> QED
    BY <2>1, JudgedIsPast
<1>4. g.injected_at = t + 1
  BY <1>1, <1>2 DEF DetectionsInv, LogSound
<1>5. x.injected_at \in Nat
  <2>1. x.event \in VendorEvents /\ x.injected_at = Time(x.event) + 1
    BY DEF DetectionsInv, LogSound
  <2> QED
    BY <2>1, TimeType
<1>6. g.injected_at <= x.injected_at
  <2>1. Stamp(e) = t \/ Stamp(e) = t + 1
    BY <1>2 DEF Stamp
  <2> QED
    BY <1>3, <1>4, <1>5, <2>1
<1>7. g \in extracted
  BY <1>6 DEF DetectionsInv, LogSound
<1> QED
  BY <1>1, <1>7

LEMMA FindingsAre ==
  /\ \A d \in Findings :
       \/ d.check = "contract_violation" /\ d.event \in Rejected
       \/ d.check = "duplicate_event" /\ d.event \in Staged /\ SourceCopies(d.event) > 1
       \/ d.check = "late_event" /\ d.event \in Staged /\ first[d.event].late
       \/ d.check = "over_capacity" /\ d.event \in Staged /\ OverCapacity(d.event)
       \/ d.check = "teleport" /\ d.event \in Staged /\ TooFast(d.event)
       \/ d.check = "orphan_trip" /\ d.event \in Staged /\ Orphan(d.event)
  /\ \A e \in Rejected : [check |-> "contract_violation", event |-> e] \in Findings
  /\ \A e \in Staged :
       /\ SourceCopies(e) > 1 => [check |-> "duplicate_event", event |-> e] \in Findings
       /\ first[e].late => [check |-> "late_event", event |-> e] \in Findings
       /\ OverCapacity(e) => [check |-> "over_capacity", event |-> e] \in Findings
       /\ TooFast(e) => [check |-> "teleport", event |-> e] \in Findings
       /\ Orphan(e) => [check |-> "orphan_trip", event |-> e] \in Findings
<1>1. \A d \in Findings :
       \/ d.check = "contract_violation" /\ d.event \in Rejected
       \/ d.check = "duplicate_event" /\ d.event \in Staged /\ SourceCopies(d.event) > 1
       \/ d.check = "late_event" /\ d.event \in Staged /\ first[d.event].late
       \/ d.check = "over_capacity" /\ d.event \in Staged /\ OverCapacity(d.event)
       \/ d.check = "teleport" /\ d.event \in Staged /\ TooFast(d.event)
       \/ d.check = "orphan_trip" /\ d.event \in Staged /\ Orphan(d.event)
  BY DEF Findings, Found
<1>2. \A e \in Rejected : [check |-> "contract_violation", event |-> e] \in Findings
  BY DEF Findings, Found
<1>3. ASSUME NEW e \in Staged
      PROVE
       /\ SourceCopies(e) > 1 => [check |-> "duplicate_event", event |-> e] \in Findings
       /\ first[e].late => [check |-> "late_event", event |-> e] \in Findings
       /\ OverCapacity(e) => [check |-> "over_capacity", event |-> e] \in Findings
       /\ TooFast(e) => [check |-> "teleport", event |-> e] \in Findings
       /\ Orphan(e) => [check |-> "orphan_trip", event |-> e] \in Findings
  BY DEF Findings, Found
<1> QED
  BY <1>1, <1>2, <1>3

-----------------------------------------------------------------------------
(* The scorecard.                                                          *)

(* What a finding about an event points at is on record. *)
LEMMA FindingOnRecord ==
  ASSUME DetectionsInv, NEW d \in Findings, d.check # "orphan_trip",
         ~(d.check = "over_capacity" /\ Unseen(d.event))
  PROVE  d.event \in VendorEvents /\ \E f \in Targets[d.check] : InLog(f, d.event)
<1> DEFINE Known == d.event \in VendorEvents /\ \E f \in Targets[d.check] : InLog(f, d.event)
<1>1. CASE d.check = "contract_violation" /\ d.event \in Rejected
  <2>1. PICK c \in landed : ~Valid(c) /\ c.event = d.event
    BY <1>1 DEF Rejected
  <2>2. c \in Made
    BY <2>1, LandedIsMade
  <2>3. "schema_drift" \in c.marks \/ "negative" \in c.marks
    BY <2>1, CleanIsValid
  <2>4. InLog("schema_drift", c.event) \/ InLog("impossible_status", c.event)
    BY <2>2, <2>3, CopyKnown DEF MarkedAsLogged, Impossible
  <2>5. Targets[d.check] = {"schema_drift", "impossible_status"}
    BY <1>1 DEF Targets
  <2> QED
    BY <2>1, <2>2, <2>4, <2>5, CopyKnown
<1>2. CASE d.check = "duplicate_event" /\ d.event \in Staged /\ SourceCopies(d.event) > 1
  <2>1. \E c \in landed : c.event = d.event /\ c.again
    <3> SUFFICES ASSUME \A c \in landed : c.event = d.event => ~c.again PROVE FALSE
      OBVIOUS
    <3> DEFINE S == {c \in landed : c.event = d.event}
    <3>1. PICK x \in S : TRUE
      BY <1>2 DEF Staged
    <3>2. ASSUME NEW y \in S PROVE y = x
      <4>1. x \in Made /\ y \in Made /\ x.again = FALSE /\ y.again = FALSE /\ x.event = y.event
        BY LandedIsMade, CopyKnown
      <4> QED
        BY <4>1, OneOfEach
    <3>3. S = {x}
      BY <3>2
    <3>4. Cardinality(S) = 1
      BY <3>3, FS_Singleton
    <3> QED
      BY <1>2, <3>4 DEF SourceCopies
  <2>2. InLog("duplicate", d.event)
    BY <2>1, LandedIsMade, CopyKnown DEF MarkedAsLogged
  <2>3. Targets[d.check] = {"duplicate"}
    BY <1>2 DEF Targets
  <2> QED
    BY <1>2, <2>2, <2>3, StagedKnown
<1>3. CASE d.check = "late_event" /\ d.event \in Staged /\ first[d.event].late
  <2>1. InLog("late_event", d.event)
    BY <1>3, StagedKnown, CopyKnown DEF MarkedAsLogged
  <2>2. Targets[d.check] = {"late_event"}
    BY <1>3 DEF Targets
  <2> QED
    BY <1>3, <2>1, <2>2, StagedKnown
<1>4. CASE d.check = "over_capacity" /\ d.event \in Staged /\ OverCapacity(d.event)
  <2>1. "over_capacity" \in first[d.event].marks
    BY <1>4, ShownAgainst DEF OverCapacity
  <2>2. InLog("impossible_status", d.event)
    BY <1>4, <2>1, StagedKnown, CopyKnown DEF MarkedAsLogged, Impossible
  <2>3. Targets[d.check] = {"impossible_status"}
    BY <1>4 DEF Targets
  <2> QED
    BY <1>4, <2>2, <2>3, StagedKnown
<1>5. CASE d.check = "teleport" /\ d.event \in Staged /\ TooFast(d.event)
  <2>1. InLog("teleport", d.event)
    BY <1>5, StagedKnown, CopyKnown DEF MarkedAsLogged, TooFast
  <2>2. Targets[d.check] = {"teleport"}
    BY <1>5 DEF Targets
  <2> QED
    BY <1>5, <2>1, <2>2, StagedKnown
<1> QED
  BY <1>1, <1>2, <1>3, <1>4, <1>5, FindingsAre

(* A half of a trip that happened and was not dropped has landed, rightly   *)
(* or not, or is on its way.                                               *)
LEMMA HalfIsSomewhere ==
  ASSUME DetectionsInv, NEW e \in VendorEvents, Time(e) < now
  PROVE  Dropped(e) \/ e \in Staged \/ e \in Rejected \/ Underway(e)
<1>1. CASE InLog("orphan_trip", e)
  BY <1>1 DEF InLog, Dropped
<1>2. CASE \E c \in Made : c.event = e
  <2>1. PICK c \in Made : c.event = e
    BY <1>2
  <2>2. CASE c \in landed
    BY <2>1, <2>2 DEF Staged, Rejected
  <2>3. CASE c \notin landed
    BY <2>1, <2>3 DEF Made, Underway
  <2> QED
    BY <2>2, <2>3
<1> QED
  BY <1>1, <1>2 DEF DetectionsInv, EventsSound

LEMMA PreciseHolds == DetectionsInv => Precise
<1> SUFFICES ASSUME DetectionsInv, BothSides, NEW d \in Findings,
                    Judged(Stamp(d.event)), ~Matched(d),
                    ~(d.check = "over_capacity" /\ Unseen(d.event))
             PROVE  /\ d.check = "orphan_trip"
                    /\ \/ Explained(d) \/ Underway(Other(d.event))
                       \/ \E f \in fault_log \ extracted : Points(d, f)
  BY DEF Precise
<1>1. d.check = "orphan_trip"
  <2> SUFFICES ASSUME d.check # "orphan_trip" PROVE FALSE
    OBVIOUS
  <2>1. PICK f \in Targets[d.check] : InLog(f, d.event)
    BY FindingOnRecord
  <2>2. PICK g \in extracted : g.fault = f /\ g.event = d.event
    BY <2>1, FindingOnRecord, KnownWhenJudged
  <2>3. Points(d, g)
    BY <2>2 DEF Points
  <2> QED
    BY <2>3 DEF Matched
<1>2. PICK e : e = d.event /\ e \in Staged /\ Orphan(e)
  BY <1>1, FindingsAre
<1>3. /\ e \in VendorEvents /\ e.kind \in TripKinds /\ Time(e) \in Nat /\ Time(e) < now
      /\ Other(e) \notin Staged
  BY <1>2, StagedKnown DEF Orphan
<1>4. PICK o : o = Other(e)
  OBVIOUS
<1>5. o \in VendorEvents /\ o.of = e.of /\ Time(o) \in Nat
  BY <1>3, <1>4, OtherHalf, TimeType
<1>6. Time(o) < now
  <2>1. now \in Nat
    BY DEF DetectionsInv, LogSound
  <2>2. CASE e.kind = "trip_ended"
    <3>1. Time(o) <= Time(e)
      BY <1>3, <1>4, <2>2, OtherHalf
    <3> QED
      BY <1>3, <1>5, <2>1, <3>1
  <2>3. CASE e.kind = "trip_started"
    <3>1. e \in StagedTrips
      BY <1>2, <1>3 DEF StagedTrips
    <3>2. LatestEvent \in Nat /\ LatestEvent < now
      BY <3>1, LatestKnown
    <3>3. Time(e) + MaxTrip <= LatestEvent
      BY <1>2, <2>3 DEF Orphan
    <3>4. Time(o) <= Time(e) + MaxTrip
      BY <1>3, <1>4, <2>3, OtherHalf
    <3>5. MaxTrip \in Nat
      BY DetectionsAssumption
    <3> QED
      BY <1>3, <1>5, <2>1, <3>2, <3>3, <3>4, <3>5
  <2> QED
    BY <1>3, <2>2, <2>3 DEF TripKinds
<1>7. Dropped(o) \/ o \in Rejected \/ Underway(o)
  BY <1>3, <1>4, <1>5, <1>6, HalfIsSomewhere
<1>8. CASE Dropped(o)
  <2>1. PICK f \in fault_log : f.fault = "orphan_trip" /\ f.event = o
    BY <1>8 DEF Dropped
  <2>2. Points(d, f)
    BY <1>1, <1>2, <1>5, <2>1 DEF Points, Targets
  <2>3. f \notin extracted
    BY <2>2 DEF Matched
  <2> QED
    BY <1>1, <2>2, <2>3
<1>9. CASE o \in Rejected
  BY <1>1, <1>2, <1>5, <1>9 DEF Explained
<1>10. CASE Underway(o)
  BY <1>1, <1>2, <1>4, <1>10
<1> QED
  BY <1>7, <1>8, <1>9, <1>10

(* All copies of an event that is not on its way have landed. *)
LEMMA AllLanded ==
  ASSUME DetectionsInv, NEW c \in Made, ~Underway(c.event)
  PROVE  c \in landed /\ (c.event \in Staged \/ c.event \in Rejected)
BY DEF Made, Underway, Staged, Rejected

(* Nothing hides a fault of an event that has landed, but for what else     *)
(* was wrong with it.                                                      *)
LEMMA FaultFound ==
  ASSUME DetectionsInv, NEW f \in fault_log, f.fault # "orphan_trip", ~Underway(f.event)
  PROVE  \/ \E d \in Findings : Points(d, f)
         \/ f.fault \in {"duplicate", "late_event", "teleport"} /\ f.event \in Rejected
         \/ f.fault = "late_event" /\ first[f.event].again
         \/ f.fault = "impossible_status" /\ Unversioned(f.event)
         \/ f.fault = "teleport" /\ snap_stations = {}
<1>1. PICK e : e = f.event /\ e \in VendorEvents /\ InLog(f.fault, e) /\ f.fault \in FaultNames
  BY DEF DetectionsInv, LogSound, InLog
<1>2. Time(e) < now
  <2>1. f.injected_at = Time(e) + 1 /\ f.injected_at <= now /\ now \in Nat
    BY <1>1 DEF DetectionsInv, LogSound
  <2> QED
    BY <1>1, <2>1, TimeType
<1>3. /\ \E c \in Made : c.event = e /\ ~c.again
      /\ InLog("duplicate", e) => \E c \in Made : c.event = e /\ c.again
  BY <1>1, <1>2 DEF DetectionsInv, EventsSound
<1>4. PICK c \in Made : c.event = e /\ ~c.again
  BY <1>3
<1>5. /\ c \in landed /\ (e \in Staged \/ e \in Rejected)
      /\ c \in CopySet /\ MarkedAsLogged(c)
  BY <1>1, <1>4, AllLanded, CopyKnown
<1>6. e \in Staged => first[e] \in Made /\ first[e].event = e /\ first[e].marks = c.marks
  BY <1>4, StagedKnown DEF DetectionsInv, CopiesSound
<1>7. ASSUME e \in Rejected, f.fault \in {"schema_drift", "impossible_status"}
      PROVE  \E d \in Findings : Points(d, f)
  <2>1. [check |-> "contract_violation", event |-> e] \in Findings
    BY <1>7, FindingsAre
  <2>2. Points([check |-> "contract_violation", event |-> e], f)
    BY <1>1, <1>7 DEF Points, Targets
  <2> QED
    BY <2>1, <2>2
<1>8. CASE f.fault = "schema_drift"
  <2>1. "schema_drift" \in c.marks /\ ("negative" \in c.marks => c.event.kind = "station_status")
    BY <1>1, <1>4, <1>5, <1>8 DEF MarkedAsLogged, Impossible
  <2>2. ~Valid(c)
    BY <1>5, <2>1, DriftIsInvalid
  <2>3. e \in Rejected
    BY <1>4, <1>5, <2>2 DEF Rejected
  <2> QED
    BY <1>7, <1>8, <2>3
<1>9. CASE f.fault = "impossible_status" /\ ~Unversioned(e)
  <2>1. /\ "over_capacity" \in c.marks \/ "negative" \in c.marks
        /\ c.event.kind = "station_status"
    BY <1>1, <1>4, <1>5, <1>9 DEF MarkedAsLogged, Impossible
  <2>2. CASE e \in Rejected
    BY <1>7, <1>9, <2>2
  <2>3. CASE e \notin Rejected
    <3>1. Valid(c)
      BY <1>4, <1>5, <2>3 DEF Rejected
    <3>2. "schema_drift" \notin c.marks
      BY <1>5, <2>1, <3>1, DriftIsInvalid
    <3>3. "negative" \notin c.marks
      BY <1>5, <2>1, <3>1, <3>2, NegativeIsInvalid
    <3>4. e \in Staged /\ "over_capacity" \in first[e].marks
      BY <1>5, <1>6, <2>1, <2>3, <3>3
    <3>5. OverCapacity(e)
      BY <1>4, <1>9, <2>1, <3>4, ShownAgainst
    <3>6. [check |-> "over_capacity", event |-> e] \in Findings
      BY <3>4, <3>5, FindingsAre
    <3>7. Points([check |-> "over_capacity", event |-> e], f)
      BY <1>1, <1>9 DEF Points, Targets
    <3> QED
      BY <3>6, <3>7
  <2> QED
    BY <2>2, <2>3
<1>10. CASE f.fault = "duplicate" /\ e \notin Rejected
  <2>1. PICK d \in Made : d.event = e /\ d.again
    BY <1>1, <1>3, <1>10
  <2>2. d \in landed /\ c # d
    BY <1>1, <1>4, <2>1, AllLanded
  <2>3. {x \in landed : x.event = e} = {c, d}
    <3>1. ASSUME NEW x \in landed, x.event = e PROVE x = c \/ x = d
      <4>1. x \in Made /\ c.again \in BOOLEAN /\ d.again \in BOOLEAN /\ x.again \in BOOLEAN
        BY LandedIsMade, CopyKnown
      <4>2. x.again = c.again \/ x.again = d.again
        BY <1>4, <2>1, <4>1
      <4> QED
        BY <1>4, <2>1, <3>1, <4>1, <4>2, OneOfEach
    <3> QED
      BY <1>4, <1>5, <2>1, <2>2, <3>1
  <2>4. Cardinality({c, d}) = 2
    <3>1. IsFiniteSet({c}) /\ Cardinality({c}) = 1
      BY FS_Singleton
    <3>2. Cardinality({c} \cup {d}) = Cardinality({c}) + 1
      BY <2>2, <3>1, FS_AddElement
    <3>3. {c} \cup {d} = {c, d}
      OBVIOUS
    <3> QED
      BY <3>1, <3>2, <3>3
  <2>5. SourceCopies(e) > 1
    <3>1. SourceCopies(e) = 2
      BY <2>3, <2>4, Zenon DEF SourceCopies
    <3> QED
      BY <3>1
  <2>6. [check |-> "duplicate_event", event |-> e] \in Findings
    BY <1>5, <1>10, <2>5, FindingsAre
  <2>7. Points([check |-> "duplicate_event", event |-> e], f)
    BY <1>1, <1>10 DEF Points, Targets
  <2> QED
    BY <2>6, <2>7
<1>11. CASE f.fault = "late_event" /\ e \notin Rejected /\ ~first[e].again
  <2>1. first[e].late
    BY <1>1, <1>5, <1>6, <1>11, CopyKnown DEF MarkedAsLogged
  <2>2. [check |-> "late_event", event |-> e] \in Findings
    BY <1>5, <1>11, <2>1, FindingsAre
  <2>3. Points([check |-> "late_event", event |-> e], f)
    BY <1>1, <1>11 DEF Points, Targets
  <2> QED
    BY <2>2, <2>3
<1>12. CASE f.fault = "teleport" /\ e \notin Rejected /\ snap_stations # {}
  <2>1. TooFast(e)
    BY <1>1, <1>4, <1>5, <1>6, <1>12 DEF MarkedAsLogged, TooFast
  <2>2. [check |-> "teleport", event |-> e] \in Findings
    BY <1>5, <1>12, <2>1, FindingsAre
  <2>3. Points([check |-> "teleport", event |-> e], f)
    BY <1>1, <1>12 DEF Points, Targets
  <2> QED
    BY <2>2, <2>3
<1> QED
  BY <1>1, <1>8, <1>9, <1>10, <1>11, <1>12 DEF FaultNames

(* A half that was dropped leaves an orphan, if the other half landed. *)
LEMMA OrphanFound ==
  ASSUME DetectionsInv, BothSides, NEW f \in extracted, f.fault = "orphan_trip",
         Judged(f.injected_at)
  PROVE  \/ \E d \in Findings : Points(d, f)
         \/ Dropped(Other(f.event)) \/ Other(f.event) \in Rejected \/ Underway(Other(f.event))
<1>1. PICK e : /\ e = f.event /\ e \in VendorEvents /\ InLog("orphan_trip", e)
               /\ f.injected_at = Time(e) + 1 /\ f.injected_at <= now /\ now \in Nat
  BY DEF DetectionsInv, LogSound, InLog
<1>2. PICK t \in Nat : t = Time(e) /\ t < now
  BY <1>1, TimeType
<1>3. e \notin Staged
  <2> SUFFICES ASSUME e \in Staged PROVE FALSE
    OBVIOUS
  <2> QED
    BY <1>1, StagedKnown, CopyKnown DEF MarkedAsLogged
<1>4. e.kind \in TripKinds
  <2>1. \A c \in Made : c.event # e
    BY <1>1, CopyKnown DEF MarkedAsLogged
  <2> QED
    BY <1>1, <1>2, <2>1 DEF DetectionsInv, EventsSound
<1>5. PICK o : /\ o = Other(e) /\ o \in VendorEvents /\ o.of = e.of /\ o.kind \in TripKinds
               /\ Other(o) = e
  BY <1>1, <1>4, OtherHalf
<1>6. PICK u \in Nat : u = Time(o)
  BY <1>5, TimeType
<1>7. LatestEvent \in Nat /\ LatestEvent < now /\ t + 1 + JudgeAfter < LatestEvent
  <2>1. PICK s \in Nat : s = f.injected_at /\ s = t + 1
    BY <1>1, <1>2
  <2> QED
    BY <2>1, JudgedIsPast
<1>8. /\ o.kind = "trip_started" => u <= t
      /\ o.kind = "trip_ended" => u <= t + MaxTrip
  <2>1. /\ e.kind = "trip_ended" => o.kind = "trip_started" /\ u <= t
        /\ e.kind = "trip_started" => o.kind = "trip_ended" /\ u <= t + MaxTrip
    BY <1>1, <1>2, <1>4, <1>5, <1>6, OtherHalf
  <2> QED
    BY <1>4, <2>1 DEF TripKinds
<1>9. MaxTrip \in Nat /\ JudgeAfter \in Nat /\ MaxTrip <= JudgeAfter
  BY DetectionsAssumption
<1>10. u < now /\ (o.kind = "trip_started" => u + MaxTrip <= LatestEvent)
  <2>1. u <= t \/ u <= t + MaxTrip
    BY <1>5, <1>8 DEF TripKinds
  <2>2. u < now
    BY <1>1, <1>7, <1>9, <2>1
  <2>3. o.kind = "trip_started" => u + MaxTrip <= LatestEvent
    BY <1>7, <1>8, <1>9
  <2> QED
    BY <2>2, <2>3
<1>11. Dropped(o) \/ o \in Staged \/ o \in Rejected \/ Underway(o)
  BY <1>5, <1>6, <1>10, HalfIsSomewhere
<1>12. CASE o \in Staged
  <2>1. Orphan(o)
    BY <1>3, <1>5, <1>6, <1>10 DEF Orphan
  <2>2. [check |-> "orphan_trip", event |-> o] \in Findings
    BY <1>12, <2>1, FindingsAre
  <2>3. Points([check |-> "orphan_trip", event |-> o], f)
    BY <1>1, <1>5 DEF Points, Targets
  <2> QED
    BY <2>2, <2>3
<1> QED
  BY <1>1, <1>5, <1>11, <1>12

LEMMA NoneOverlookedHolds == DetectionsInv => NoneOverlooked
<1> SUFFICES ASSUME DetectionsInv, BothSides, NEW f \in extracted, Judged(f.injected_at)
             PROVE  \/ \E d \in Findings : Points(d, f)
                    \/ Underway(f.event)
                    \/ f.fault \in {"duplicate", "late_event", "teleport"} /\ f.event \in Rejected
                    \/ f.fault = "late_event" /\ first[f.event].again
                    \/ f.fault = "impossible_status" /\ Unversioned(f.event)
                    \/ f.fault = "teleport" /\ snap_stations = {}
                    \/ /\ f.fault = "orphan_trip"
                       /\ \/ Dropped(Other(f.event)) \/ Other(f.event) \in Rejected
                          \/ Underway(Other(f.event))
  BY DEF NoneOverlooked
<1>1. f \in fault_log
  BY DEF DetectionsInv, LogSound
<1>2. CASE f.fault = "orphan_trip"
  BY <1>2, OrphanFound
<1>3. CASE f.fault # "orphan_trip"
  BY <1>1, <1>3, FaultFound
<1> QED
  BY <1>2, <1>3

-----------------------------------------------------------------------------
(* The steps.                                                              *)

LEMMA DetectionsStart == DetectionsInit => DetectionsInv
<1> SUFFICES ASSUME DetectionsInit PROVE DetectionsInv
  OBVIOUS
<1>1. LogSound /\ CopiesSound
  BY DEF DetectionsInit, LogSound, CopiesSound, Made
<1>2. WhereSound
  BY DEF DetectionsInit, WhereSound, Made
<1>3. EventsSound
  <2>1. ASSUME NEW e \in VendorEvents PROVE ~(Time(e) < 0)
    BY TimeType
  <2> QED
    BY <2>1 DEF DetectionsInit, EventsSound
<1>4. VersionsSound
  BY DEF DetectionsInit, VersionsSound
<1> QED
  BY <1>1, <1>2, <1>3, <1>4 DEF DetectionsInv

(* Copies move, and the log is as it was. *)
LEMMA CopiesMove ==
  ASSUME DetectionsInv, WhereSound', Made' = Made, UNCHANGED <<now, fault_log>>,
         LogSound', VersionsSound'
  PROVE  DetectionsInv'
<1>1. \A f, e : InLog(f, e)' <=> InLog(f, e)
  BY DEF InLog
<1>2. \A c : MarkedAsLogged(c)' <=> MarkedAsLogged(c)
  BY <1>1 DEF MarkedAsLogged
<1>3. CopiesSound'
  BY <1>2 DEF DetectionsInv, CopiesSound
<1>4. EventsSound'
  BY <1>1 DEF DetectionsInv, EventsSound
<1> QED
  BY <1>3, <1>4 DEF DetectionsInv

LEMMA ReleaseStep ==
  ASSUME DetectionsInv, NEW c \in held, Release(c)
  PROVE  DetectionsInv'
<1>1. Made' = Made
  BY DEF Release, Made
<1>2. WhereSound'
  BY <1>1 DEF DetectionsInv, WhereSound, Release
<1>3. LogSound'
  BY DEF DetectionsInv, LogSound, Release
<1>4. VersionsSound'
  BY DEF DetectionsInv, VersionsSound, Release
<1> QED
  BY <1>1, <1>2, <1>3, <1>4, CopiesMove DEF Release

LEMMA LandStep ==
  ASSUME DetectionsInv, NEW c \in emitted \ landed, Land(c)
  PROVE  DetectionsInv'
<1>1. Made' = Made
  BY DEF Land, Made
<1>2. WhereSound'
  <2>1. /\ landed' = landed \cup {c}
        /\ first' = IF c.event \in DOMAIN first THEN first
                    ELSE [e \in DOMAIN first \cup {c.event} |-> IF e = c.event THEN c ELSE first[e]]
    BY DEF Land
  <2>2. /\ DOMAIN first = {x.event : x \in landed}
        /\ \A e \in DOMAIN first : first[e] \in landed /\ first[e].event = e
    BY DEF DetectionsInv, WhereSound
  <2>3. /\ DOMAIN first' = {x.event : x \in landed'}
        /\ \A e \in DOMAIN first' : first'[e] \in landed' /\ first'[e].event = e
    <3>1. CASE c.event \in DOMAIN first
      BY <2>1, <2>2, <3>1
    <3>2. CASE c.event \notin DOMAIN first
      BY <2>1, <2>2, <3>2
    <3> QED
      BY <3>1, <3>2
  <2> QED
    BY <1>1, <2>1, <2>3 DEF DetectionsInv, WhereSound, Land
<1>3. LogSound'
  BY DEF DetectionsInv, LogSound, Land
<1>4. VersionsSound'
  BY DEF DetectionsInv, VersionsSound, Land
<1> QED
  BY <1>1, <1>2, <1>3, <1>4, CopiesMove DEF Land

LEMMA ExtractStep == DetectionsInv /\ ExtractFaultLog => DetectionsInv'
<1> SUFFICES ASSUME DetectionsInv, ExtractFaultLog PROVE DetectionsInv'
  OBVIOUS
<1>1. Made' = Made
  BY DEF ExtractFaultLog, Made
<1>2. WhereSound'
  BY <1>1 DEF DetectionsInv, WhereSound, ExtractFaultLog
<1>3. LogSound'
  BY DEF DetectionsInv, LogSound, ExtractFaultLog
<1>4. VersionsSound'
  BY DEF DetectionsInv, VersionsSound, ExtractFaultLog
<1> QED
  BY <1>1, <1>2, <1>3, <1>4, CopiesMove DEF ExtractFaultLog

LEMMA SnapshotStep == DetectionsInv /\ SnapshotStations => DetectionsInv'
<1> SUFFICES ASSUME DetectionsInv, SnapshotStations PROVE DetectionsInv'
  OBVIOUS
<1>1. PICK t \in Nat, s \in Nat : /\ t = now /\ s = UpdatedAt(now) /\ s \in DOMAIN Docks /\ s <= t
                               /\ \A x \in DOMAIN Docks : x <= t => x \in Nat /\ x <= s
  BY CapacityThen DEF DetectionsInv, LogSound
<1>2. /\ snap_stations' = Snapshot(snap_stations, s)
      /\ UNCHANGED <<now, fault_log, held, emitted, landed, first, extracted>>
  BY <1>1 DEF SnapshotStations
<1>3. Forever \in Nat /\ s < Forever
  BY <1>1, DetectionsAssumption
<1>4. \A v \in snap_stations :
        /\ v.from \in DOMAIN Docks /\ v.from \in Nat /\ v.from <= s /\ v.to \in Nat
        /\ v.capacity = v.from /\ v.from < v.to
        /\ v.to # Forever => v.to \in DOMAIN Docks /\ v.to <= s
  BY <1>1, <1>3 DEF DetectionsInv, VersionsSound
<1>5. VersionsSound'
  <2>1. CASE \A v \in Current(snap_stations) : v.from < s
    <3> DEFINE new == [from |-> s, to |-> Forever, capacity |-> s]
               Closed(v) == IF v.to = Forever THEN [v EXCEPT !.to = s] ELSE v
    <3>1. snap_stations' = {Closed(v) : v \in snap_stations} \cup {new}
      BY <1>2, <2>1 DEF Snapshot
    <3>2. \A v \in snap_stations : v.from < s
      BY <1>1, <1>4, <2>1 DEF Current
    <3>3. ASSUME NEW v \in snap_stations
          PROVE  /\ Closed(v).from = v.from /\ Closed(v).capacity = v.from
                 /\ Closed(v).to = IF v.to = Forever THEN s ELSE v.to
      BY <1>4
    <3>4. new.from = s /\ new.to = Forever /\ new.capacity = s
      OBVIOUS
    <3>5. \A v \in snap_stations :
            /\ Closed(v).to \in DOMAIN Docks /\ Closed(v).to \in Nat
            /\ Closed(v).to <= s /\ v.from < Closed(v).to
      BY <1>1, <1>4, <3>2, <3>3
    <3> HIDE DEF new, Closed
    <3>6. ASSUME NEW v \in snap_stations'
          PROVE  v = new \/ \E o \in snap_stations : v = Closed(o) /\ v.from = o.from /\ v.to <= s
      BY <3>1, <3>3, <3>5
    <3>7. ASSUME NEW v \in snap_stations'
          PROVE  /\ v.from \in DOMAIN Docks /\ v.from <= now' /\ v.capacity = v.from
                 /\ v.from < v.to
                 /\ \/ v.to = Forever
                    \/ v.to \in DOMAIN Docks /\ v.to <= now'
      <4>1. CASE v = new
        BY <1>1, <1>2, <1>3, <3>4, <4>1
      <4>2. ASSUME NEW o \in snap_stations, v = Closed(o)
            PROVE  /\ v.from \in DOMAIN Docks /\ v.from <= t /\ v.capacity = v.from
                   /\ v.from < v.to /\ v.to \in DOMAIN Docks /\ v.to <= t
        BY <1>1, <1>4, <3>3, <3>5, <4>2
      <4> QED
        BY <1>1, <1>2, <3>6, <4>1, <4>2
    <3>8. ASSUME NEW v \in snap_stations, NEW w \in snap_stations
          PROVE  /\ Closed(v).from = Closed(w).from => Closed(v) = Closed(w)
                 /\ Closed(v).from < Closed(w).from => Closed(v).to <= Closed(w).from
      <4>1. /\ v.from = w.from => v = w
            /\ v.from < w.from => v.to <= w.from /\ v.to # Forever
        BY <1>3, <1>4 DEF DetectionsInv, VersionsSound
      <4> QED
        BY <3>3, <4>1
    <3>9. ASSUME NEW v \in snap_stations', NEW w \in snap_stations'
          PROVE  /\ v.from = w.from => v = w
                 /\ v.from < w.from => v.to <= w.from
      <4>1. CASE v = new
        <5>1. w = new \/ (w.from < s /\ w.from \in Nat)
          BY <1>4, <3>2, <3>6
        <5> QED
          BY <1>1, <3>4, <4>1, <5>1
      <4>2. CASE w = new /\ v # new
        <5>1. v.from < s /\ v.to <= s
          BY <3>2, <3>6, <4>2
        <5> QED
          BY <1>1, <3>4, <4>2, <5>1
      <4>3. CASE w # new /\ v # new
        <5>1. PICK a \in snap_stations : v = Closed(a)
          BY <3>6, <4>3
        <5>2. PICK b \in snap_stations : w = Closed(b)
          BY <3>6, <4>3
        <5> QED
          BY <3>8, <5>1, <5>2
      <4> QED
        BY <4>1, <4>2, <4>3
    <3>10. ASSUME NEW u \in 0..(Forever - 1), NEW w \in snap_stations', w.from <= u
           PROVE  \E v \in snap_stations' : v.from <= u /\ u < v.to
      <4>1. u \in Nat /\ u < Forever
        BY <1>3
      <4>2. CASE s <= u
        BY <3>1, <3>4, <4>1, <4>2
      <4>3. CASE u < s
        <5>1. w # new
          BY <1>1, <3>4, <3>10, <4>1, <4>3
        <5>2. PICK o \in snap_stations : o.from <= u
          BY <3>6, <3>10, <5>1
        <5>3. PICK v \in snap_stations : v.from <= u /\ u < v.to
          BY <5>2 DEF DetectionsInv, VersionsSound, JudgedWith
        <5>4. Closed(v).from <= u /\ u < Closed(v).to
          BY <3>3, <4>3, <5>3
        <5> QED
          BY <3>1, <5>4
      <4> QED
        BY <1>1, <4>1, <4>2, <4>3
    <3> QED
      BY <3>7, <3>9, <3>10 DEF VersionsSound, JudgedWith
  <2>2. CASE ~(\A v \in Current(snap_stations) : v.from < s)
    <3>1. snap_stations' = snap_stations
      BY <1>2, <2>2 DEF Snapshot
    <3> QED
      BY <1>2, <3>1 DEF DetectionsInv, VersionsSound
  <2> QED
    BY <2>1, <2>2
<1>6. Made' = Made
  BY <1>2 DEF Made
<1>7. WhereSound'
  BY <1>2, <1>6 DEF DetectionsInv, WhereSound
<1>8. LogSound'
  BY <1>2 DEF DetectionsInv, LogSound
<1> QED
  BY <1>2, <1>5, <1>6, <1>7, <1>8, CopiesMove

LEMMA DetectionsStutter == DetectionsInv /\ UNCHANGED detectionsVars => DetectionsInv'
<1> SUFFICES ASSUME DetectionsInv, UNCHANGED detectionsVars PROVE DetectionsInv'
  OBVIOUS
<1>1. Made' = Made
  BY DEF detectionsVars, Made
<1>2. WhereSound'
  BY <1>1 DEF DetectionsInv, WhereSound, detectionsVars
<1>3. LogSound'
  BY DEF DetectionsInv, LogSound, detectionsVars
<1>4. VersionsSound'
  BY DEF DetectionsInv, VersionsSound, detectionsVars
<1> QED
  BY <1>1, <1>2, <1>3, <1>4, CopiesMove DEF detectionsVars

-----------------------------------------------------------------------------
(* A step of the source.                                                   *)

Injected == {"schema_drift", "duplicate", "late_event", "teleport", "orphan_trip"} \cup Impossible

LEMMA HitsAre ==
  ASSUME NEW e \in VendorEvents, NEW h \in Hits(e.kind)
  PROVE  /\ h \subseteq Injected
         /\ "orphan_trip" \in h => h = {"orphan_trip"} /\ e.kind \in TripKinds
         /\ (\E i \in Impossible : i \in h) => e.kind = "station_status"
<1>1. CASE e.kind = "trip_started"
  <2>1. h \subseteq {"schema_drift", "duplicate", "late_event"} \/ h = {"orphan_trip"}
    BY <1>1 DEF Hits
  <2> QED
    BY <1>1, <2>1 DEF Injected, Impossible, TripKinds
<1>2. CASE e.kind = "trip_ended"
  <2>1. h \subseteq {"schema_drift", "duplicate", "late_event", "teleport"} \/ h = {"orphan_trip"}
    BY <1>2 DEF Hits
  <2> QED
    BY <1>2, <2>1 DEF Injected, Impossible, TripKinds
<1>3. CASE e.kind = "station_status"
  <2>1. h \subseteq {"schema_drift", "duplicate", "late_event"} \cup Impossible
    BY <1>3 DEF Hits
  <2> QED
    BY <1>3, <2>1 DEF Injected, Impossible
<1> QED
  BY <1>1, <1>2, <1>3 DEF VendorEvents, TripKinds

LEMMA FaultOfHit ==
  ASSUME NEW h \in SUBSET Injected
  PROVE  /\ \A f \in {"schema_drift", "duplicate", "late_event", "teleport", "orphan_trip"} :
              (\E i \in h : Fault(i) = f) <=> f \in h
         /\ (\E i \in h : Fault(i) = "impossible_status") <=> (\E i \in Impossible : i \in h)
         /\ \A i \in h : Fault(i) \in FaultNames
BY DEF Injected, Impossible, Fault, FaultNames

(* What a copy of event e is, when it has just been made. *)
Fresh(c, e, h) ==
  /\ c.event = e /\ c.marks = h \cap ({"schema_drift", "teleport"} \cup Impossible)
  /\ c.again \in BOOLEAN /\ c.late \in BOOLEAN
  /\ c.late <=> ~c.again /\ "late_event" \in h
  /\ c.again => "duplicate" \in h

LEMMA FreshCopies ==
  ASSUME NEW e \in VendorEvents, NEW h
  PROVE  /\ Original(e, h) \in CopySet /\ Fresh(Original(e, h), e, h) /\ ~Original(e, h).again
         /\ \A c \in Duplicates(e, h) : c \in CopySet /\ Fresh(c, e, h) /\ c.again
         /\ "duplicate" \in h => Duplicates(e, h) # {}
<1> DEFINE marks == h \cap ({"schema_drift", "teleport"} \cup Impossible)
<1>1. ASSUME "late_event" \in h
      PROVE  Original(e, h) \in CopySet /\ Fresh(Original(e, h), e, h) /\ ~Original(e, h).again
  <2>1. ("late_event" \in h) = TRUE
    BY <1>1
  <2>2. Original(e, h) = [event |-> e, marks |-> marks, late |-> TRUE, again |-> FALSE]
    BY <2>1, Zenon DEF Original, Copy
  <2>3. PICK o : o = [event |-> e, marks |-> marks, late |-> TRUE, again |-> FALSE]
    OBVIOUS
  <2>4. o \in CopySet
    BY <2>3 DEF CopySet
  <2>5. /\ o.event = e /\ o.marks = marks /\ o.late = TRUE /\ o.again = FALSE
    BY <2>3
  <2>6. Fresh(o, e, h) /\ ~o.again
    BY <1>1, <2>5 DEF Fresh
  <2>7. Original(e, h) = o
    BY <2>2, <2>3
  <2> QED
    BY <2>4, <2>6, <2>7
<1>2. ASSUME "late_event" \notin h
      PROVE  Original(e, h) \in CopySet /\ Fresh(Original(e, h), e, h) /\ ~Original(e, h).again
  <2>1. ("late_event" \in h) = FALSE
    BY <1>2
  <2>2. Original(e, h) = [event |-> e, marks |-> marks, late |-> FALSE, again |-> FALSE]
    BY <2>1, Zenon DEF Original, Copy
  <2>3. PICK o : o = [event |-> e, marks |-> marks, late |-> FALSE, again |-> FALSE]
    OBVIOUS
  <2>4. o \in CopySet
    BY <2>3 DEF CopySet
  <2>5. /\ o.event = e /\ o.marks = marks /\ o.late = FALSE /\ o.again = FALSE
    BY <2>3
  <2>6. Fresh(o, e, h) /\ ~o.again
    BY <1>2, <2>5 DEF Fresh
  <2>7. Original(e, h) = o
    BY <2>2, <2>3
  <2> QED
    BY <2>4, <2>6, <2>7
<1>3. ASSUME NEW c \in Duplicates(e, h)
      PROVE  c \in CopySet /\ Fresh(c, e, h) /\ c.again
  <2>1. /\ c = [event |-> e, marks |-> h \cap ({"schema_drift", "teleport"} \cup Impossible),
                late |-> FALSE, again |-> TRUE]
        /\ "duplicate" \in h
    BY DEF Duplicates, Copy
  <2> QED
    BY <2>1 DEF CopySet, Fresh
<1>4. "duplicate" \in h => Duplicates(e, h) # {}
  BY DEF Duplicates
<1> QED
  BY <1>1, <1>2, <1>3, <1>4

(* What a step logs of its events, and what hit them. *)
Logs(E, h) ==
  /\ E = {e \in VendorEvents : Time(e) = now} /\ \A e \in E : h[e] \in Hits(e.kind)
  /\ fault_log' = fault_log \cup
       UNION {{[fault |-> Fault(i), event |-> e, injected_at |-> now + 1] : i \in h[e]} : e \in E}

(* What the log says of the step's events is what hit them, and of those    *)
(* before them what it said.                                               *)
LEMMA LogAfterStep ==
  ASSUME DetectionsInv, now' = now + 1, extracted' = extracted,
         NEW E, NEW h, Logs(E, h)
  PROVE  /\ LogSound'
         /\ \A f : \A e \in VendorEvents : Time(e) < now => (InLog(f, e)' <=> InLog(f, e))
         /\ \A f : \A e \in E : InLog(f, e)' <=> \E i \in h[e] : Fault(i) = f
<1>1. LogSound
  BY DEF DetectionsInv
<1>2. PICK t \in Nat : t = now
  BY <1>1 DEF LogSound
<1>3. ASSUME NEW g
      PROVE  g \in fault_log' <=>
               g \in fault_log \/ \E e \in E : \E i \in h[e] :
                 g = [fault |-> Fault(i), event |-> e, injected_at |-> t + 1]
  BY <1>2 DEF Logs
<1>4. \A e \in E : e \in VendorEvents /\ Time(e) = t /\ h[e] \in Hits(e.kind)
  BY <1>2 DEF Logs
<1>5. ASSUME NEW g \in fault_log
      PROVE  /\ g.event \in VendorEvents /\ g.fault \in FaultNames
             /\ Time(g.event) \in Nat /\ Time(g.event) < t
             /\ g.injected_at = Time(g.event) + 1 /\ g.injected_at <= t
  <2>1. /\ g.event \in VendorEvents /\ g.fault \in FaultNames
        /\ g.injected_at = Time(g.event) + 1 /\ g.injected_at <= t
    BY <1>1, <1>2 DEF LogSound
  <2>2. PICK u \in Nat : u = Time(g.event)
    BY <2>1, TimeType
  <2>3. u < t
    BY <2>1, <2>2
  <2> QED
    BY <2>1, <2>2, <2>3
<1>6. ASSUME NEW e \in E, NEW i \in h[e],
             NEW g, g = [fault |-> Fault(i), event |-> e, injected_at |-> t + 1]
      PROVE  /\ g.fault = Fault(i) /\ g.fault \in FaultNames /\ g.event = e
             /\ g.injected_at = t + 1 /\ g \in fault_log'
  <2>1. h[e] \in SUBSET Injected
    BY <1>4, HitsAre
  <2>2. Fault(i) \in FaultNames
    BY <2>1, FaultOfHit
  <2> QED
    BY <1>3, <1>6, <2>2
<1>7. LogSound'
  <2>1. ASSUME NEW g \in fault_log'
        PROVE  /\ g.fault \in FaultNames /\ g.event \in VendorEvents
               /\ g.injected_at = Time(g.event) + 1 /\ g.injected_at <= t + 1
    <3>1. CASE g \in fault_log
      BY <1>5, <3>1
    <3>2. CASE g \notin fault_log
      <4>1. PICK e \in E : \E i \in h[e] :
              g = [fault |-> Fault(i), event |-> e, injected_at |-> t + 1]
        BY <1>3, <3>2
      <4> QED
        BY <1>4, <1>6, <4>1
    <3> QED
      BY <3>1, <3>2
  <2>2. ASSUME NEW f \in fault_log', NEW g \in extracted', f.injected_at <= g.injected_at
        PROVE  f \in extracted'
    <3>1. g \in fault_log
      BY <1>1 DEF LogSound
    <3>2. PICK u \in Nat : g.injected_at = u /\ u <= t
      BY <1>5, <3>1
    <3>3. CASE f \in fault_log
      BY <1>1, <2>2, <3>3 DEF LogSound
    <3>4. CASE f \notin fault_log
      <4>1. f.injected_at = t + 1
        BY <1>3, <1>6, <3>4
      <4> QED
        BY <2>2, <3>2, <4>1
    <3> QED
      BY <3>3, <3>4
  <2>3. t + 1 \in Nat /\ now' = t + 1
    BY <1>2
  <2>4. extracted' \subseteq fault_log'
    BY <1>1 DEF LogSound, Logs
  <2> QED
    BY <2>1, <2>2, <2>3, <2>4 DEF LogSound
<1>8. ASSUME NEW f, NEW e \in VendorEvents, Time(e) < now PROVE InLog(f, e)' <=> InLog(f, e)
  <2>1. e \notin E
    BY <1>2, <1>4, <1>8, TimeType
  <2>2. \A g : g.event = e => (g \in fault_log' <=> g \in fault_log)
    BY <1>3, <1>6, <2>1
  <2> QED
    BY <2>2 DEF InLog
<1>9. ASSUME NEW f, NEW e \in E PROVE InLog(f, e)' <=> \E i \in h[e] : Fault(i) = f
  <2>1. ASSUME NEW g \in fault_log', g.event = e, g.fault = f PROVE \E i \in h[e] : Fault(i) = f
    <3>1. g \notin fault_log
      BY <1>4, <1>5, <2>1
    <3>2. PICK d \in E : \E i \in h[d] :
            g = [fault |-> Fault(i), event |-> d, injected_at |-> t + 1]
      BY <1>3, <3>1
    <3> QED
      BY <1>6, <2>1, <3>2
  <2>2. ASSUME NEW i \in h[e], Fault(i) = f PROVE \E g \in fault_log' : g.fault = f /\ g.event = e
    <3>1. PICK g : g = [fault |-> Fault(i), event |-> e, injected_at |-> t + 1]
      OBVIOUS
    <3> QED
      BY <1>6, <2>2, <3>1
  <2> QED
    BY <2>1, <2>2 DEF InLog
<1> QED
  BY <1>7, <1>8, <1>9

(* The copies that a step makes of the events that passed. *)
Makes(P, h) ==
  /\ emitted' = emitted \cup {Original(e, h[e]) : e \in {x \in P : "late_event" \notin h[x]}}
  /\ held' = held \cup {Original(e, h[e]) : e \in P \ {x \in P : "late_event" \notin h[x]}}
                  \cup UNION {Duplicates(e, h[e]) : e \in P}

LEMMA CopiesAfterStep ==
  ASSUME DetectionsInv, NEW E, E = {e \in VendorEvents : Time(e) = now}, NEW h,
         NEW P \in SUBSET E, Makes(P, h)
  PROVE  /\ Made \subseteq Made'
         /\ \A c \in Made' : c \in Made \/ \E e \in P : c \in CopySet /\ Fresh(c, e, h[e])
         /\ \A e \in P : /\ \E c \in Made' : c.event = e /\ ~c.again
                         /\ "duplicate" \in h[e] => \E c \in Made' : c.event = e /\ c.again
         /\ held' \cap emitted' = {}
<1>1. \A e \in P : e \in VendorEvents /\ Time(e) = now
  OBVIOUS
<1>2. ASSUME NEW e \in P
      PROVE  /\ Original(e, h[e]) \in CopySet /\ Fresh(Original(e, h[e]), e, h[e])
             /\ ~Original(e, h[e]).again /\ Original(e, h[e]).event = e
             /\ \A c \in Duplicates(e, h[e]) :
                  c \in CopySet /\ Fresh(c, e, h[e]) /\ c.again /\ c.event = e
             /\ "duplicate" \in h[e] => Duplicates(e, h[e]) # {}
  BY <1>1, FreshCopies DEF Fresh
<1>3. ASSUME NEW c
      PROVE  /\ c \in emitted' <=>
                  c \in emitted \/ \E e \in P : "late_event" \notin h[e] /\ c = Original(e, h[e])
             /\ c \in held' <=>
                  \/ c \in held
                  \/ \E e \in P : "late_event" \in h[e] /\ c = Original(e, h[e])
                  \/ \E e \in P : c \in Duplicates(e, h[e])
  BY DEF Makes
<1>4. \A c \in Made : c.event \notin E
  <2>1. ASSUME NEW c \in Made PROVE c.event \notin E
    <3>1. Time(c.event) < now /\ Time(c.event) \in Nat
      BY CopyKnown DEF MarkedAsLogged
    <3> QED
      BY <3>1
  <2> QED
    BY <2>1
<1>5. Made \subseteq Made'
  BY DEF Made, Makes
<1>6. \A c \in Made' : c \in Made \/ \E e \in P : c \in CopySet /\ Fresh(c, e, h[e])
  BY <1>2, <1>3 DEF Made
<1>7. ASSUME NEW e \in P
      PROVE  /\ \E c \in Made' : c.event = e /\ ~c.again
             /\ "duplicate" \in h[e] => \E c \in Made' : c.event = e /\ c.again
  <2>1. Original(e, h[e]) \in Made'
    BY <1>3 DEF Made
  <2>2. Duplicates(e, h[e]) \subseteq Made'
    BY <1>3 DEF Made
  <2> QED
    BY <1>2, <2>1, <2>2
<1>8. held' \cap emitted' = {}
  <2> SUFFICES ASSUME NEW c, c \in held', c \in emitted' PROVE FALSE
    OBVIOUS
  <2>1. CASE c \in emitted
    <3>1. c.event \notin E /\ c \notin held
      BY <1>4, <2>1 DEF Made, DetectionsInv, WhereSound
    <3>2. PICK e \in P : c = Original(e, h[e]) \/ c \in Duplicates(e, h[e])
      BY <1>3, <3>1
    <3> QED
      BY <1>2, <3>1, <3>2
  <2>2. CASE c \notin emitted
    <3>1. PICK e \in P : "late_event" \notin h[e] /\ c = Original(e, h[e])
      BY <1>3, <2>2
    <3>2. c.event = e /\ ~c.again
      BY <1>2, <3>1
    <3>3. c \notin held
      BY <1>4, <3>2 DEF Made
    <3>4. PICK d \in P : \/ "late_event" \in h[d] /\ c = Original(d, h[d])
                         \/ c \in Duplicates(d, h[d])
      BY <1>3, <3>3
    <3>5. d = e
      BY <1>2, <3>2, <3>4
    <3> QED
      BY <1>2, <3>1, <3>2, <3>4, <3>5
  <2> QED
    BY <2>1, <2>2
<1> QED
  BY <1>5, <1>6, <1>7, <1>8

LEMMA SourceStep == DetectionsInv /\ Step => DetectionsInv'
<1> SUFFICES ASSUME DetectionsInv, Step PROVE DetectionsInv'
  OBVIOUS
<1>1. PICK t \in Nat : t = now
  BY DEF DetectionsInv, LogSound
<1>2. PICK E : E = {e \in VendorEvents : Time(e) = now}
  OBVIOUS
<1>3. PICK h :
        LET P == {e \in E : "orphan_trip" \notin h[e]}
            punctual == {e \in P : "late_event" \notin h[e]}
        IN  /\ \A e \in E : h[e] \in Hits(e.kind)
            /\ fault_log' = fault_log \cup
                 UNION {{[fault |-> Fault(i), event |-> e, injected_at |-> now + 1] : i \in h[e]}
                          : e \in E}
            /\ emitted' = emitted \cup {Original(e, h[e]) : e \in punctual}
            /\ held' = held \cup {Original(e, h[e]) : e \in P \ punctual}
                            \cup UNION {Duplicates(e, h[e]) : e \in P}
            /\ now' = now + 1
            /\ UNCHANGED <<landed, first, extracted, snap_stations>>
  BY <1>2, Zenon DEF Step
<1>4. PICK P : P = {e \in E : "orphan_trip" \notin h[e]}
  OBVIOUS
<1>5. /\ LogSound'
      /\ \A f : \A e \in VendorEvents : Time(e) < now => (InLog(f, e)' <=> InLog(f, e))
      /\ \A f : \A e \in E : InLog(f, e)' <=> \E i \in h[e] : Fault(i) = f
  <2>1. Logs(E, h)
    BY <1>2, <1>3 DEF Logs
  <2>2. now' = now + 1 /\ extracted' = extracted
    BY <1>3
  <2> QED
    BY <2>1, <2>2, LogAfterStep
<1>6. /\ Made \subseteq Made'
      /\ \A c \in Made' : c \in Made \/ \E e \in P : c \in CopySet /\ Fresh(c, e, h[e])
      /\ \A e \in P : /\ \E c \in Made' : c.event = e /\ ~c.again
                      /\ "duplicate" \in h[e] => \E c \in Made' : c.event = e /\ c.again
      /\ held' \cap emitted' = {}
  <2>1. Makes(P, h) /\ P \in SUBSET E
    BY <1>3, <1>4 DEF Makes
  <2> QED
    BY <1>2, <2>1, CopiesAfterStep
<1>7. ASSUME NEW e \in E
      PROVE  /\ e \in VendorEvents /\ Time(e) = t /\ h[e] \in Hits(e.kind)
             /\ h[e] \in SUBSET Injected
             /\ "orphan_trip" \in h[e] => h[e] = {"orphan_trip"} /\ e.kind \in TripKinds
             /\ (\E i \in Impossible : i \in h[e]) => e.kind = "station_status"
  <2>1. e \in VendorEvents /\ Time(e) = t /\ h[e] \in Hits(e.kind)
    BY <1>1, <1>2, <1>3
  <2> QED
    BY <2>1, HitsAre
(* What the log says of an event of the step. *)
<1>8. ASSUME NEW e \in E
      PROVE  /\ \A f \in {"schema_drift", "duplicate", "late_event", "teleport", "orphan_trip"} :
                  InLog(f, e)' <=> f \in h[e]
             /\ InLog("impossible_status", e)' <=> \E i \in Impossible : i \in h[e]
  <2>1. /\ \A f \in {"schema_drift", "duplicate", "late_event", "teleport", "orphan_trip"} :
              (\E i \in h[e] : Fault(i) = f) <=> f \in h[e]
        /\ (\E i \in h[e] : Fault(i) = "impossible_status") <=> (\E i \in Impossible : i \in h[e])
    BY <1>7, FaultOfHit
  <2>2. \A f : InLog(f, e)' <=> \E i \in h[e] : Fault(i) = f
    BY <1>5
  <2>3. ASSUME NEW f \in {"schema_drift", "duplicate", "late_event", "teleport", "orphan_trip"}
        PROVE  InLog(f, e)' <=> f \in h[e]
    <3>1. InLog(f, e)' <=> \E i \in h[e] : Fault(i) = f
      BY <2>2, Zenon
    <3> QED
      BY <2>1, <3>1
  <2>4. InLog("impossible_status", e)' <=> \E i \in h[e] : Fault(i) = "impossible_status"
    BY <2>2, Zenon
  <2> QED
    BY <2>1, <2>3, <2>4
<1>9. ASSUME NEW c \in Made
      PROVE  c \in CopySet /\ c.event \notin E /\ MarkedAsLogged(c)'
  <2>1. /\ c \in CopySet /\ c.event \in VendorEvents /\ MarkedAsLogged(c)
    BY CopyKnown
  <2>2. PICK e \in VendorEvents, u \in Nat : e = c.event /\ u = Time(e) /\ u < t
    BY <1>1, <2>1, TimeType DEF MarkedAsLogged
  <2>3. \A f : InLog(f, e)' <=> InLog(f, e)
    BY <1>1, <1>5, <2>2
  <2>4. u < t + 1 /\ now' = t + 1 /\ e \notin E
    BY <1>1, <1>3, <1>7, <2>2
  <2> QED
    BY <2>1, <2>2, <2>3, <2>4 DEF MarkedAsLogged
<1>10. ASSUME NEW e \in P, NEW c, Fresh(c, e, h[e]) PROVE MarkedAsLogged(c)'
  <2>1. e \in E /\ "orphan_trip" \notin h[e] /\ c.event = e /\ Time(e) = t
    BY <1>4, <1>7, <1>10 DEF Fresh
  <2>2. t < t + 1 /\ now' = t + 1
    BY <1>1, <1>3
  <2>3. /\ InLog("schema_drift", e)' <=> "schema_drift" \in h[e]
        /\ InLog("teleport", e)' <=> "teleport" \in h[e]
        /\ InLog("late_event", e)' <=> "late_event" \in h[e]
        /\ InLog("duplicate", e)' <=> "duplicate" \in h[e]
        /\ InLog("orphan_trip", e)' <=> "orphan_trip" \in h[e]
        /\ InLog("impossible_status", e)' <=> \E i \in Impossible : i \in h[e]
    BY <1>8, <2>1
  <2>4. /\ "schema_drift" \in c.marks <=> "schema_drift" \in h[e]
        /\ "teleport" \in c.marks <=> "teleport" \in h[e]
        /\ (\E i \in Impossible : i \in c.marks) <=> \E i \in Impossible : i \in h[e]
        /\ c.late <=> ~c.again /\ "late_event" \in h[e]
        /\ c.again => "duplicate" \in h[e]
    BY <1>10 DEF Fresh, Impossible
  <2>5. (\E i \in Impossible : i \in h[e]) => e.kind = "station_status"
    BY <1>7, <2>1
  <2> QED
    BY <2>1, <2>2, <2>3, <2>4, <2>5 DEF MarkedAsLogged
<1>11. WhereSound'
  <2>1. Made' \subseteq CopySet
    BY <1>6, <1>9
  <2>2. emitted \subseteq emitted'
    BY <1>3
  <2> QED
    BY <1>3, <1>6, <2>1, <2>2 DEF DetectionsInv, WhereSound
<1>12. CopiesSound'
  <2>1. ASSUME NEW c \in Made' PROVE MarkedAsLogged(c)'
    BY <1>6, <1>9, <1>10
  <2>2. ASSUME NEW c \in Made', NEW d \in Made', c.event = d.event PROVE c.marks = d.marks
    <3>1. \A e \in P : e \in E
      BY <1>4
    <3>2. CASE c.event \in E
      <4>1. PICK a \in P : Fresh(c, a, h[a])
        BY <1>6, <1>9, <3>2
      <4>2. PICK b \in P : Fresh(d, b, h[b])
        BY <1>6, <1>9, <2>2, <3>2
      <4> QED
        BY <2>2, <4>1, <4>2 DEF Fresh
    <3>3. CASE c.event \notin E
      <4>1. c \in Made /\ d \in Made
        BY <1>6, <2>2, <3>1, <3>3 DEF Fresh
      <4> QED
        BY <2>2, <4>1 DEF DetectionsInv, CopiesSound
    <3> QED
      BY <3>2, <3>3
  <2> QED
    BY <2>1, <2>2 DEF CopiesSound
<1>13. EventsSound'
  <2> SUFFICES ASSUME NEW e \in VendorEvents, Time(e) < now'
               PROVE  \/ /\ InLog("orphan_trip", e)' /\ e.kind \in TripKinds
                         /\ \A f \in FaultNames : InLog(f, e)' => f = "orphan_trip"
                      \/ /\ \E c \in Made' : c.event = e /\ ~c.again
                         /\ InLog("duplicate", e)' => \E c \in Made' : c.event = e /\ c.again
    BY DEF EventsSound
  <2>1. PICK u \in Nat : u = Time(e) /\ (u < t \/ u = t)
    <3>1. PICK u \in Nat : u = Time(e)
      BY TimeType
    <3>2. u < t + 1
      BY <1>1, <1>3, <3>1
    <3> QED
      BY <3>1, <3>2
  <2>2. CASE u < t
    <3>1. \A f : InLog(f, e)' <=> InLog(f, e)
      BY <1>1, <1>5, <2>1, <2>2
    <3>2. \/ /\ InLog("orphan_trip", e) /\ e.kind \in TripKinds
             /\ \A f \in FaultNames : InLog(f, e) => f = "orphan_trip"
          \/ /\ \E c \in Made : c.event = e /\ ~c.again
             /\ InLog("duplicate", e) => \E c \in Made : c.event = e /\ c.again
      BY <1>1, <2>1, <2>2 DEF DetectionsInv, EventsSound
    <3> QED
      BY <1>6, <3>1, <3>2, Zenon
  <2>3. CASE u = t
    <3>1. e \in E
      BY <1>1, <1>2, <2>1, <2>3
    <3>2. CASE e \in P
      <4>1. InLog("duplicate", e)' <=> "duplicate" \in h[e]
        BY <1>8, <3>1
      <4> QED
        BY <1>6, <3>2, <4>1
    <3>3. CASE e \notin P
      <4>1. "orphan_trip" \in h[e] /\ h[e] = {"orphan_trip"} /\ e.kind \in TripKinds
        BY <1>4, <1>7, <3>1, <3>3
      <4>2. InLog("orphan_trip", e)'
        BY <1>8, <3>1, <4>1
      <4>3. ASSUME NEW f \in FaultNames, InLog(f, e)' PROVE f = "orphan_trip"
        BY <1>8, <3>1, <4>1, <4>3 DEF FaultNames, Impossible
      <4> QED
        BY <4>1, <4>2, <4>3
    <3> QED
      BY <3>2, <3>3
  <2> QED
    BY <2>1, <2>2, <2>3
<1>14. VersionsSound'
  <2>1. snap_stations' = snap_stations /\ now' = t + 1
    BY <1>1, <1>3
  <2>2. \A x \in DOMAIN Docks : x \in Nat
    BY DetectionsAssumption
  <2>3. \A x \in DOMAIN Docks : x <= t => x <= t + 1
    BY <2>2
  <2> QED
    BY <1>1, <2>1, <2>3 DEF DetectionsInv, VersionsSound
<1> QED
  BY <1>5, <1>11, <1>12, <1>13, <1>14 DEF DetectionsInv

LEMMA DetectionsStepKeeps == DetectionsInv /\ [DetectionsNext]_detectionsVars => DetectionsInv'
<1> SUFFICES ASSUME DetectionsInv, [DetectionsNext]_detectionsVars PROVE DetectionsInv'
  OBVIOUS
<1>1. CASE Step
  BY <1>1, SourceStep
<1>2. CASE ExtractFaultLog
  BY <1>2, ExtractStep
<1>3. ASSUME NEW c \in held, Release(c) PROVE DetectionsInv'
  BY <1>3, ReleaseStep
<1>4. ASSUME NEW c \in emitted \ landed, Land(c) PROVE DetectionsInv'
  BY <1>4, LandStep
<1>5. CASE SnapshotStations
  BY <1>5, SnapshotStep
<1>6. CASE UNCHANGED detectionsVars
  BY <1>6, DetectionsStutter
<1> QED
  BY <1>1, <1>2, <1>3, <1>4, <1>5, <1>6 DEF DetectionsNext

LEMMA DetectionsInvariance == DetectionsSpec => []DetectionsInv
BY DetectionsStart, DetectionsStepKeeps, PTL DEF DetectionsSpec

LEMMA DetectionsTyped == DetectionsInv => DetectionsTypeOK
BY DEF DetectionsInv, LogSound, WhereSound, VersionsSound, Made, DetectionsTypeOK

-----------------------------------------------------------------------------
(* The theorems.                                                           *)

(* Every copy that lands had left the source, one that is held back has     *)
(* not; one row per event came first, and it is one that landed; and the    *)
(* log that was extracted is of faults that were injected                   *)
(* (faults.py:138-163, extract.py).                                        *)
THEOREM DetectionsTypeCorrect == DetectionsSpec => []DetectionsTypeOK
BY DetectionsInvariance, DetectionsTyped, PTL

(* mart_detection_scorecard.sql:4-15.  Whatever order events land in and    *)
(* however far the extraction of the log lags behind them, a finding that   *)
(* is judged has the fault it points at in the extracted log; or it is an   *)
(* orphan whose other half was rejected, is on its way, or whose drop is    *)
(* not extracted yet; or a report whose station's capacity no build saw     *)
(* (int_detections.sql:40-48).                                             *)
THEOREM ScorecardPrecise == DetectionsSpec => []Precise
BY DetectionsInvariance, PreciseHolds, PTL

(* README.md:199-204.  Every judged fault has a finding that points at it,  *)
(* but for those whose event or other half was rejected, is on its way or   *)
(* was dropped too, a late event whose punctual duplicate came first, an    *)
(* impossible status from before the first version that a build saw of its *)
(* station, and a teleport when no build has seen the stations.            *)
THEOREM ScorecardOverlooksNone == DetectionsSpec => []NoneOverlooked
BY DetectionsInvariance, NoneOverlookedHolds, PTL
=============================================================================
