---------------------------- MODULE EngineProofs ----------------------------
(***************************************************************************)
(* Proofs about the engine, for any city, fleet, step length, trips,       *)
(* trucks and expansions: types, that every bike is in one place and finds *)
(* a dock, that the source's own snapshots give no ground to call an       *)
(* honest station frozen, and that a bike's history is in order.           *)
(***************************************************************************)
EXTENDS Engine, FiniteSetTheorems, SequenceTheorems, WellFoundedInduction, TLAPS

-----------------------------------------------------------------------------
(* The inductive invariant, part by part.                                  *)

(* Docks are only ever added, and no station has more bikes than docks. *)
CapacityInv ==
  /\ capacity \in [Stations -> Nat] /\ \A i \in Stations : capacity[i] >= Capacity[i]
  /\ \A i \in Stations : Count(i) <= capacity[i]

(* What is still under way once the arrivals are done ends after the step. *)
RidesInv ==
  /\ rides \subseteq [bike : Bikes, dest : Stations, started : 0..(StepLen - 1), arrives : Nat]
  /\ phase \in {"snapshots", "rebalance", "expand"} => \A r \in rides : r.arrives >= StepLen

(* BikesConserved, of each place. *)
OnePlace ==
  /\ \A i, j \in Stations : \A b \in docked[i] : b \in docked[j] => i = j
  /\ \A r, q \in rides : r.bike = q.bike => r = q
  /\ \A r \in rides, i \in Stations : r.bike \notin docked[i]
  /\ \A b \in Bikes : b \in Riding \/ \E i \in Stations : b \in docked[i]

(* Without a truck, the watched station has what its latest snapshot shows  *)
(* and the net of the trips stamped since; none is stamped beyond the next. *)
SnapshotInv ==
  /\ watched \in Stations /\ trucked \in BOOLEAN
  /\ last \in {None} \cup [bikes : 0..Cardinality(Bikes), docks : Nat]
  /\ flow \in [before : Int, beyond : {0}]
  /\ last # None /\ ~trucked => Count(watched) = last.bikes + flow.before

(* No bike has been docked in this step before its departures. *)
FreedInv ==
  /\ freed \in [Bikes -> 0..(StepLen - 1)]
  /\ phase = "departures" => \A b \in Bikes : freed[b] = 0
  /\ BikeHistoryInOrder

CountersTyped ==
  /\ phase \in {"departures", "arrivals", "snapshots", "rebalance", "expand"}
  /\ docked \in [Stations -> SUBSET Bikes]
  /\ trips \in 0..MaxTrips /\ expansions \in 0..MaxExpansions

IInv == CountersTyped /\ CapacityInv /\ RidesInv /\ OnePlace /\ SnapshotInv /\ FreedInv

-----------------------------------------------------------------------------
(* Bikes and docks.                                                        *)

LEMMA CountType ==
  ASSUME CountersTyped, NEW i \in Stations
  PROVE  /\ IsFiniteSet(docked[i]) /\ Count(i) \in Nat
         /\ Cardinality(Bikes) \in Nat /\ Count(i) <= Cardinality(Bikes)
<1>1. docked[i] \in SUBSET Bikes /\ IsFiniteSet(Bikes)
  BY EngineAssumption DEF CountersTyped
<1> QED
  BY <1>1, FS_Subset, FS_CardinalityType DEF Count

LEMMA SlotsFinite == IsFiniteSet(Slots) /\ Docks \in Nat
<1>1. ASSUME NEW T \in {{i} \X (1..Capacity[i]) : i \in Stations} PROVE IsFiniteSet(T)
  <2>1. PICK i \in Stations : T = {i} \X (1..Capacity[i])
    OBVIOUS
  <2>2. IsFiniteSet({i}) /\ IsFiniteSet(1..Capacity[i])
    <3>1. 1 \in Int /\ Capacity[i] \in Int
      BY EngineAssumption
    <3> QED
      BY <3>1, FS_Singleton, FS_Interval
  <2> QED
    BY <2>1, <2>2, FS_Product
<1>2. IsFiniteSet({{i} \X (1..Capacity[i]) : i \in Stations})
  <2> DEFINE f == [i \in Stations |-> {i} \X (1..Capacity[i])]
             T == {{i} \X (1..Capacity[i]) : i \in Stations}
  <2>1. f \in Surjection(Stations, T)
    BY DEF Surjection
  <2> QED
    BY <2>1, FS_Surjection, EngineAssumption
<1> QED
  BY <1>1, <1>2, FS_UNION, FS_CardinalityType DEF Slots, Docks

(* There are more docks than bikes, so the stations are not all full: bikes *)
(* in every dock would be in no two places.                                 *)
LEMMA NotAllFull ==
  ASSUME CountersTyped, CapacityInv, OnePlace, Bikes # {}
  PROVE  \E i \in Stations : HasRoom(i)
<1> SUFFICES ASSUME \A i \in Stations : ~HasRoom(i) PROVE FALSE
  OBVIOUS
<1> DEFINE F(i) == CHOOSE f : f \in Bijection(1..Count(i), docked[i])
           g == [s \in Slots |-> F(s[1])[s[2]]]
<1>1. ASSUME NEW i \in Stations PROVE F(i) \in Bijection(1..Count(i), docked[i])
  BY CountType, FS_CardinalityType DEF Count, ExistsBijection
<1>2. ASSUME NEW i \in Stations PROVE 1..Capacity[i] \subseteq 1..Count(i)
  <2>1. PICK n \in Nat, c \in Nat, k \in Nat : n = Count(i) /\ c = capacity[i] /\ k = Capacity[i]
    BY CountType, EngineAssumption DEF CapacityInv
  <2>2. ~(n < c) /\ c >= k
    BY <2>1 DEF HasRoom, CapacityInv
  <2> QED
    BY <2>1, <2>2
<1>3. ASSUME NEW s \in Slots
      PROVE  /\ s[1] \in Stations /\ s[2] \in 1..Count(s[1]) /\ s = <<s[1], s[2]>>
             /\ g[s] = F(s[1])[s[2]] /\ g[s] \in docked[s[1]]
  <2>5. PICK i \in Stations : s \in {i} \X (1..Capacity[i])
    BY DEF Slots
  <2>1. PICK k \in 1..Capacity[i] : s = <<i, k>>
    BY <2>5
  <2>2. k \in 1..Count(i)
    BY <1>2
  <2>3. F(i) \in [1..Count(i) -> docked[i]]
    BY <1>1 DEF Bijection, Injection
  <2>4. g[s] = F(i)[k]
    BY <2>1
  <2> HIDE DEF F, g
  <2> QED
    BY <2>1, <2>2, <2>3, <2>4
<1>4. g \in Injection(Slots, Bikes)
  <2>1. \A s \in Slots : g[s] \in Bikes
    <3> HIDE DEF g
    <3> QED
      BY <1>3 DEF CountersTyped
  <2>2. ASSUME NEW s \in Slots, NEW t \in Slots, g[s] = g[t] PROVE s = t
    <3> HIDE DEF g, F
    <3>1. s[1] = t[1]
      BY <1>3, <2>2 DEF OnePlace
    <3>2. F(s[1]) \in Bijection(1..Count(s[1]), docked[s[1]])
      BY <1>1, <1>3
    <3>3. s[2] = t[2]
      <4>1. PICK f \in Bijection(1..Count(s[1]), docked[s[1]]) : f = F(s[1])
        BY <3>2
      <4>2. f[s[2]] = f[t[2]] /\ {s[2], t[2]} \subseteq 1..Count(s[1])
        BY <1>3, <2>2, <3>1, <4>1
      <4> QED
        BY <4>2 DEF Bijection, Injection, IsInjective
    <3> QED
      BY <1>3, <3>1, <3>3
  <2>3. g \in [Slots -> Bikes]
    BY <2>1
  <2>4. IsInjective(g)
    BY <2>2 DEF IsInjective
  <2> QED
    BY <2>3, <2>4 DEF Injection
<1>5. Docks <= Cardinality(Bikes) /\ Cardinality(Bikes) \in Nat /\ Cardinality(Bikes) # 0
  <2> HIDE DEF g
  <2> QED
    BY <1>4, EngineAssumption, FS_Injection, FS_CardinalityType, FS_EmptySet DEF Docks
<1>6. PICK n \in Nat, d \in Nat : n = Cardinality(Bikes) /\ d = Docks
  BY <1>5, SlotsFinite
<1>7. 100 * n <= 85 * d /\ d <= n /\ n # 0
  BY <1>5, <1>6, EngineAssumption
<1> QED
  BY <1>7

(* A rider who finds the target full finds a free dock elsewhere. *)
LEMMA FreeDock ==
  ASSUME IInv, NEW r \in Due
  PROVE  HasRoom(r.dest) \/ FreeElsewhere(r.dest) # {}
<1>1. r.bike \in Bikes /\ r.dest \in Stations
  BY DEF IInv, RidesInv, Due
<1>2. PICK i \in Stations : HasRoom(i)
  BY <1>1, NotAllFull DEF IInv
<1>3. ASSUME i # r.dest PROVE FreeElsewhere(r.dest) # {}
  <2>1. i \in {Near[r.dest][k] : k \in DOMAIN Near[r.dest]}
    BY <1>1, <1>3, EngineAssumption
  <2> QED
    BY <1>2, <2>1 DEF FreeElsewhere
<1> QED
  BY <1>2, <1>3

LEMMA Fits == IInv => FleetFits
<1> SUFFICES ASSUME IInv PROVE FleetFits
  OBVIOUS
<1>1. ASSUME NEW b \in Bikes
      PROVE  Cardinality({i \in Stations : b \in docked[i]})
               + Cardinality({r \in rides : r.bike = b}) = 1
  <2> DEFINE at == {i \in Stations : b \in docked[i]}
             on == {r \in rides : r.bike = b}
  <2>1. \A x : Cardinality({x}) = 1
    BY FS_Singleton
  <2>2. Cardinality({}) = 0
    BY FS_EmptySet
  <2>3. CASE b \in Riding
    <3>1. PICK r \in rides : r.bike = b
      BY <2>3 DEF Riding
    <3>2. on = {r} /\ at = {}
      BY <3>1 DEF IInv, OnePlace
    <3>3. Cardinality(at) = 0 /\ Cardinality(on) = 1
      BY <2>1, <2>2, <3>2, Zenon
    <3> QED
      BY <3>3
  <2>4. CASE b \notin Riding
    <3>1. PICK i \in Stations : b \in docked[i]
      BY <2>4 DEF IInv, OnePlace
    <3>2. at = {i} /\ on = {}
      BY <2>4, <3>1 DEF IInv, OnePlace, Riding
    <3>3. Cardinality(at) = 1 /\ Cardinality(on) = 0
      BY <2>1, <2>2, <3>2, Zenon
    <3> QED
      BY <3>3
  <2> QED
    BY <2>3, <2>4
<1>2. BikesConserved
  BY <1>1 DEF BikesConserved
<1>3. DocksSuffice
  BY FreeDock DEF DocksSuffice, IInv, CapacityInv
<1> QED
  BY <1>2, <1>3 DEF FleetFits

-----------------------------------------------------------------------------
(* The steps.                                                              *)

LEMMA FloorBelow ==
  ASSUME NEW c \in Nat \ {0}, NEW d \in Nat \ {0}, NEW n \in Nat, 100 * n <= 85 * d
  PROVE  (c * n) \div d \in Nat /\ (c * n) \div d < c
<1>1. n < d
  OBVIOUS
<1>2. c * n \in Nat /\ c * n < c * d
  BY <1>1
<1>3. PICK a \in Nat : a = c * n
  BY <1>2
<1>4. PICK q \in Int : q = a \div d
  OBVIOUS
<1>5. q \in Nat /\ q * d <= a
  BY <1>4
<1>6. ~(c <= q)
  <2> SUFFICES ASSUME c <= q PROVE FALSE
    OBVIOUS
  <2>1. c * d <= q * d
    OBVIOUS
  <2> QED
    BY <1>2, <1>3, <1>5, <2>1
<1> QED
  BY <1>3, <1>4, <1>5, <1>6

LEMMA InitialFit ==
  ASSUME NEW d, InitialDocking(d), NEW i \in Stations
  PROVE  Cardinality(d[i]) <= Capacity[i]
<1> USE EngineAssumption
<1>1. Docks \in Nat \ {0}
  <2>1. <<i, 1>> \in Slots
    <3>1. 1 \in 1..Capacity[i]
      OBVIOUS
    <3> QED
      BY <3>1 DEF Slots
  <2>2. Slots # {}
    BY <2>1
  <2> QED
    BY <2>2, SlotsFinite, FS_EmptySet DEF Docks
<1>2. Cardinality(Bikes) \in Nat /\ Capacity[i] \in Nat \ {0}
  BY FS_CardinalityType
<1>3. Floors[i] \in Nat /\ Floors[i] < Capacity[i]
  BY <1>1, <1>2, FloorBelow DEF Floors
<1>4. PICK more : Cardinality(d[i]) = Floors[i] + (IF i \in more THEN 1 ELSE 0)
  BY DEF InitialDocking
<1> QED
  BY <1>2, <1>3, <1>4

LEMMA Starts == Init => IInv
<1> SUFFICES ASSUME Init PROVE IInv
  OBVIOUS
<1> USE EngineAssumption
<1>1. PICK at \in [Bikes -> Stations] : docked = [i \in Stations |-> {b \in Bikes : at[b] = i}]
  BY DEF Init
<1>2. CountersTyped
  BY <1>1 DEF Init, CountersTyped
<1>3. CapacityInv
  <2>1. \A i \in Stations : Count(i) <= Capacity[i]
    BY InitialFit DEF Init, Count
  <2>2. \A i \in Stations : Capacity[i] \in Nat /\ Capacity[i] >= Capacity[i]
    OBVIOUS
  <2> QED
    BY <2>1, <2>2 DEF Init, CapacityInv
<1>4. RidesInv
  BY DEF Init, RidesInv
<1>5. OnePlace
  BY <1>1 DEF Init, OnePlace, Riding
<1>6. SnapshotInv
  <2>1. /\ watched \in Stations /\ last = None /\ trucked = FALSE
        /\ flow = [before |-> 0, beyond |-> 0]
    BY DEF Init
  <2>2. flow \in [before : Int, beyond : {0}]
    BY <2>1
  <2> QED
    BY <2>1, <2>2 DEF SnapshotInv
<1>7. FreedInv
  BY DEF Init, FreedInv, BikeHistoryInOrder
<1> QED
  BY <1>2, <1>3, <1>4, <1>5, <1>6, <1>7 DEF IInv

(* What a step leaves alone. *)
LEMMA Rests ==
  ASSUME IInv
  PROVE  /\ UNCHANGED <<docked, rides>> => OnePlace'
         /\ UNCHANGED <<docked, capacity>> => CapacityInv'
         /\ UNCHANGED <<docked, watched, last, flow, trucked>> => SnapshotInv'
<1>1. UNCHANGED <<docked, rides>> => OnePlace'
  BY DEF IInv, OnePlace, Riding
<1>2. UNCHANGED <<docked, capacity>> => CapacityInv'
  BY DEF IInv, CapacityInv, Count
<1>3. UNCHANGED <<docked, watched, last, flow, trucked>> => SnapshotInv'
  BY DEF IInv, SnapshotInv, Count
<1> QED
  BY <1>1, <1>2, <1>3

(* A trip event of this step, stamped before the coming snapshot. *)
LEMMA MovedInTime ==
  ASSUME IInv, NEW i \in Stations, NEW t \in Nat, t < StepLen, NEW delta \in Int,
         Moved(i, t, delta), UNCHANGED <<watched, last, trucked>>,
         Count(watched)' = IF i = watched THEN Count(watched) + delta ELSE Count(watched)
  PROVE  SnapshotInv'
<1>1. /\ watched \in Stations /\ trucked \in BOOLEAN
      /\ last \in {None} \cup [bikes : 0..Cardinality(Bikes), docks : Nat]
      /\ flow \in [before : Int, beyond : {0}]
      /\ last # None /\ ~trucked => Count(watched) = last.bikes + flow.before
  BY DEF IInv, SnapshotInv
<1>2. flow' = IF i # watched THEN flow ELSE [flow EXCEPT !.before = @ + delta]
  BY DEF Moved, SnapshotTime
<1>3. flow' \in [before : Int, beyond : {0}]
  BY <1>1, <1>2
<1>4. ASSUME last' # None, ~trucked' PROVE Count(watched)' = last'.bikes + flow'.before
  <2>1. PICK k \in 0..Cardinality(Bikes) : k = last.bikes
    BY <1>1, <1>4
  <2>2. PICK n \in Int : n = flow.before
    BY <1>1
  <2>3. Count(watched) = k + n /\ last'.bikes = k /\ Cardinality(Bikes) \in Nat
    BY <1>1, <1>4, <2>1, <2>2, EngineAssumption, FS_CardinalityType
  <2>4. CASE i = watched
    <3>1. flow'.before = n + delta
      BY <1>1, <1>2, <2>2, <2>4
    <3>2. Count(watched)' = (k + n) + delta
      BY <2>3, <2>4
    <3>3. (k + n) + delta = k + (n + delta)
      BY <2>3
    <3> QED
      BY <2>3, <3>1, <3>2, <3>3
  <2>5. CASE i # watched
    <3>1. flow'.before = n /\ Count(watched)' = k + n
      BY <1>2, <2>2, <2>3, <2>5
    <3> QED
      BY <2>3, <3>1
  <2> QED
    BY <2>4, <2>5
<1> QED
  BY <1>1, <1>3, <1>4 DEF SnapshotInv

LEMMA DepartStep ==
  ASSUME IInv, NEW i \in Stations, NEW b \in docked[i], Depart(i, b)
  PROVE  IInv'
<1> USE EngineAssumption
<1>1. PICK dest \in Stations, s \in 0..(StepLen - 1), d \in 1..MaxRide :
        /\ rides' = rides \cup {[bike |-> b, dest |-> dest, started |-> s, arrives |-> s + d]}
        /\ Moved(i, s, -1)
  BY DEF Depart
<1>2. /\ phase = "departures" /\ trips < MaxTrips /\ trips' = trips + 1
      /\ docked' = [docked EXCEPT ![i] = @ \ {b}]
      /\ UNCHANGED <<phase, capacity, watched, last, trucked, freed, expansions>>
  BY DEF Depart
<1>3. docked \in [Stations -> SUBSET Bikes] /\ b \in Bikes
  BY DEF IInv, CountersTyped
<1>4. CountersTyped'
  <2>1. trips' \in 0..MaxTrips
    BY <1>2 DEF IInv, CountersTyped
  <2>2. docked' \in [Stations -> SUBSET Bikes]
    BY <1>2, <1>3
  <2> QED
    BY <1>2, <2>1, <2>2 DEF IInv, CountersTyped
<1>5. ASSUME NEW j \in Stations
      PROVE  /\ Count(j)' = IF i = j THEN Count(j) + -1 ELSE Count(j)
             /\ Count(j) \in Nat /\ Count(j)' <= Count(j)
  <2>1. IsFiniteSet(docked[j]) /\ Count(j) \in Nat
    BY CountType DEF IInv
  <2>2. CASE i = j
    <3>1. docked'[j] = docked[j] \ {b} /\ b \in docked[j]
      BY <1>2, <1>3, <2>2
    <3>2. Cardinality(docked[j] \ {b}) = Cardinality(docked[j]) - 1
      BY <2>1, <3>1, FS_RemoveElement
    <3>3. PICK n \in Nat : n = Count(j)
      BY <2>1
    <3>4. Count(j)' = n - 1
      BY <3>1, <3>2, <3>3 DEF Count
    <3>5. n - 1 = n + -1 /\ n - 1 <= n
      OBVIOUS
    <3> QED
      BY <2>2, <3>3, <3>4, <3>5
  <2>3. CASE i # j
    <3>1. docked'[j] = docked[j]
      BY <1>2, <1>3, <2>3
    <3> QED
      BY <2>1, <2>3, <3>1 DEF Count
  <2> QED
    BY <2>2, <2>3
<1>6. CapacityInv'
  <2>1. ASSUME NEW j \in Stations PROVE Count(j)' <= capacity'[j]
    <3>1. PICK n \in Nat, c \in Nat : n = Count(j) /\ c = capacity[j]
      BY <1>5 DEF IInv, CapacityInv
    <3>2. n <= c /\ capacity'[j] = c
      BY <1>2, <3>1 DEF IInv, CapacityInv
    <3>3. Count(j)' = (IF i = j THEN n + -1 ELSE n)
      BY <1>5, <3>1
    <3> QED
      BY <3>2, <3>3
  <2> QED
    BY <1>2, <2>1 DEF IInv, CapacityInv
<1>7. RidesInv'
  <2>1. s + d \in Nat
    OBVIOUS
  <2> QED
    BY <1>1, <1>2, <1>3, <2>1 DEF IInv, RidesInv
<1>8. OnePlace'
  <2>1. \A j \in Stations : docked'[j] = IF j = i THEN docked[j] \ {b} ELSE docked[j]
    BY <1>2, <1>3
  <2>2. \A r \in rides : r.bike # b
    BY DEF IInv, OnePlace
  <2>3. \A j \in Stations : b \in docked[j] => j = i
    BY DEF IInv, OnePlace
  <2>4. PICK q : q.bike = b /\ rides' = rides \cup {q}
    BY <1>1
  <2>5. OnePlace
    BY DEF IInv
  <2>6. \A j, k \in Stations : \A x \in docked'[j] : x \in docked'[k] => j = k
    <3> SUFFICES ASSUME NEW j \in Stations, NEW k \in Stations,
                        NEW x, x \in docked'[j], x \in docked'[k]
                 PROVE  j = k
      OBVIOUS
    <3>1. x \in docked[j] /\ x \in docked[k]
      BY <2>1
    <3> QED
      BY <2>5, <3>1 DEF OnePlace
  <2>7. \A r, p \in rides' : r.bike = p.bike => r = p
    BY <2>2, <2>4, <2>5 DEF OnePlace
  <2>8. ASSUME NEW r \in rides', NEW j \in Stations PROVE r.bike \notin docked'[j]
    <3>1. CASE r \in rides
      <4>1. r.bike \notin docked[j]
        BY <2>5, <3>1 DEF OnePlace
      <4> QED
        BY <2>1, <4>1
    <3>2. CASE r.bike = b
      BY <2>1, <2>3, <3>2
    <3> QED
      BY <2>4, <3>1, <3>2
  <2>9. ASSUME NEW x \in Bikes
        PROVE  x \in Riding' \/ \E j \in Stations : x \in docked'[j]
    <3>1. CASE x \in Riding
      BY <2>4, <3>1 DEF Riding
    <3>2. CASE x = b
      BY <2>4, <3>2 DEF Riding
    <3>3. CASE x \notin Riding /\ x # b
      BY <2>1, <2>5, <3>3 DEF OnePlace
    <3> QED
      BY <3>1, <3>2, <3>3
  <2> QED
    BY <2>6, <2>7, <2>8, <2>9 DEF OnePlace
<1>9. SnapshotInv'
  <2>1. watched \in Stations /\ -1 \in Int /\ s \in Nat /\ s < StepLen
    BY DEF IInv, SnapshotInv
  <2>2. Count(watched)' = IF i = watched THEN Count(watched) + -1 ELSE Count(watched)
    <3>1. watched' = watched
      BY <1>2
    <3> QED
      BY <1>5, <2>1, <3>1 DEF Count
  <2> QED
    BY <1>1, <1>2, <2>1, <2>2, MovedInTime
<1>10. FreedInv'
  <2>1. \A r \in rides' : r.started \in Nat /\ r.bike \in Bikes
    BY <1>7 DEF RidesInv
  <2>2. freed' = freed /\ \A x \in Bikes : freed[x] = 0
    BY <1>2 DEF IInv, FreedInv
  <2>3. \A r \in rides' : r.started >= freed'[r.bike]
    BY <2>1, <2>2
  <2> QED
    BY <2>2, <2>3, <1>2 DEF IInv, FreedInv, BikeHistoryInOrder
<1> QED
  BY <1>4, <1>6, <1>7, <1>8, <1>9, <1>10 DEF IInv

LEMMA ArriveStep ==
  ASSUME IInv, NEW r \in rides, Arrive(r)
  PROVE  IInv'
<1> USE EngineAssumption
<1> DEFINE b == r.bike
           i == r.dest
<1>1. /\ phase = "arrivals" /\ r \in Due /\ Count(i) < capacity[i]
      /\ docked' = [docked EXCEPT ![i] = @ \cup {b}]
      /\ rides' = rides \ {r}
      /\ freed' = [freed EXCEPT ![b] = r.arrives]
      /\ Moved(i, r.arrives, 1)
      /\ UNCHANGED <<phase, capacity, watched, last, trucked, trips, expansions>>
  BY DEF Arrive, HasRoom
<1>2. /\ docked \in [Stations -> SUBSET Bikes] /\ b \in Bikes /\ i \in Stations
      /\ r.arrives \in Nat /\ r.arrives < StepLen /\ freed \in [Bikes -> 0..(StepLen - 1)]
  BY <1>1 DEF IInv, CountersTyped, RidesInv, FreedInv, Due
<1>3. OnePlace
  BY DEF IInv
<1>4. \A j \in Stations : b \notin docked[j]
  BY <1>3 DEF OnePlace
<1> HIDE DEF b, i
<1>5. CountersTyped'
  <2>1. docked' \in [Stations -> SUBSET Bikes]
    BY <1>1, <1>2
  <2> QED
    BY <1>1, <2>1 DEF IInv, CountersTyped
<1>6. ASSUME NEW j \in Stations
      PROVE  /\ Count(j)' = IF i = j THEN Count(j) + 1 ELSE Count(j)
             /\ Count(j) \in Nat
  <2>1. IsFiniteSet(docked[j]) /\ Count(j) \in Nat
    BY CountType DEF IInv
  <2>2. CASE i = j
    <3>1. docked'[j] = docked[j] \cup {b} /\ b \notin docked[j]
      BY <1>1, <1>2, <1>4, <2>2
    <3>2. Cardinality(docked[j] \cup {b}) = Cardinality(docked[j]) + 1
      BY <2>1, <3>1, FS_AddElement
    <3> QED
      BY <2>1, <2>2, <3>1, <3>2 DEF Count
  <2>3. CASE i # j
    <3>1. docked'[j] = docked[j]
      BY <1>1, <1>2, <2>3
    <3> QED
      BY <2>1, <2>3, <3>1 DEF Count
  <2> QED
    BY <2>2, <2>3
<1>7. CapacityInv'
  <2>1. ASSUME NEW j \in Stations PROVE Count(j)' <= capacity'[j]
    <3>1. PICK n \in Nat, c \in Nat : n = Count(j) /\ c = capacity[j]
      BY <1>6 DEF IInv, CapacityInv
    <3>2. n <= c /\ capacity'[j] = c /\ (i = j => n < c)
      BY <1>1, <3>1 DEF IInv, CapacityInv
    <3>3. Count(j)' = (IF i = j THEN n + 1 ELSE n)
      BY <1>6, <3>1
    <3> QED
      BY <3>2, <3>3
  <2> QED
    BY <1>1, <2>1 DEF IInv, CapacityInv
<1>8. RidesInv'
  BY <1>1 DEF IInv, RidesInv
<1>9. OnePlace'
  <2>1. \A j \in Stations : docked'[j] = IF j = i THEN docked[j] \cup {b} ELSE docked[j]
    BY <1>1, <1>2
  <2>2. rides' = rides \ {r} /\ r.bike = b
    BY <1>1 DEF b
  <2>3. \A q \in rides : q.bike = b => q = r
    BY <1>3, <2>2 DEF OnePlace
  <2>6. \A j, k \in Stations : \A x \in docked'[j] : x \in docked'[k] => j = k
    <3> SUFFICES ASSUME NEW j \in Stations, NEW k \in Stations,
                        NEW x, x \in docked'[j], x \in docked'[k]
                 PROVE  j = k
      OBVIOUS
    <3>1. CASE x = b
      BY <1>4, <2>1, <3>1
    <3>2. CASE x # b
      <4>0. docked'[j] \subseteq docked[j] \cup {b} /\ docked'[k] \subseteq docked[k] \cup {b}
        BY <2>1
      <4>1. x \in docked[j] /\ x \in docked[k]
        BY <3>2, <4>0
      <4> QED
        BY <1>3, <4>1 DEF OnePlace
    <3> QED
      BY <3>1, <3>2
  <2>7. \A p, q \in rides' : p.bike = q.bike => p = q
    BY <1>3, <2>2 DEF OnePlace
  <2>8. ASSUME NEW p \in rides', NEW j \in Stations PROVE p.bike \notin docked'[j]
    <3>1. p \in rides /\ p.bike # b
      BY <2>2, <2>3
    <3>2. p.bike \notin docked[j]
      BY <1>3, <3>1 DEF OnePlace
    <3>3. docked'[j] \subseteq docked[j] \cup {b}
      BY <2>1
    <3> QED
      BY <3>1, <3>2, <3>3
  <2>9. ASSUME NEW x \in Bikes
        PROVE  x \in Riding' \/ \E j \in Stations : x \in docked'[j]
    <3>1. CASE x = b
      BY <1>2, <2>1, <3>1
    <3>2. CASE x \in Riding /\ x # b
      BY <2>2, <3>2 DEF Riding
    <3>3. CASE x \notin Riding
      <4>1. PICK j \in Stations : x \in docked[j]
        BY <1>3, <3>3 DEF OnePlace
      <4>2. docked[j] \subseteq docked'[j]
        BY <2>1
      <4> QED
        BY <4>1, <4>2
    <3> QED
      BY <3>1, <3>2, <3>3
  <2> QED
    BY <2>6, <2>7, <2>8, <2>9 DEF OnePlace
<1>10. SnapshotInv'
  <2>1. watched \in Stations /\ 1 \in Int
    BY DEF IInv, SnapshotInv
  <2>2. Count(watched)' = IF i = watched THEN Count(watched) + 1 ELSE Count(watched)
    <3>1. watched' = watched
      BY <1>1
    <3> QED
      BY <1>6, <2>1, <3>1 DEF Count
  <2> QED
    BY <1>1, <1>2, <2>1, <2>2, MovedInTime
<1>11. FreedInv'
  <2>1. r.arrives \in 0..(StepLen - 1)
    BY <1>2
  <2>2. freed' \in [Bikes -> 0..(StepLen - 1)]
    BY <1>1, <1>2, <2>1
  <2>3. ASSUME NEW q \in rides' PROVE q.started >= freed'[q.bike]
    <3>1. q \in rides /\ q # r /\ r.bike = b
      BY <1>1 DEF b
    <3>2. q.bike # b
      BY <1>3, <3>1 DEF OnePlace
    <3>3. freed'[q.bike] = freed[q.bike]
      BY <1>1, <1>2, <3>1, <3>2 DEF IInv, RidesInv
    <3> QED
      BY <3>1, <3>3 DEF IInv, FreedInv, BikeHistoryInOrder
  <2> QED
    BY <1>1, <2>2, <2>3 DEF FreedInv, BikeHistoryInOrder
<1> QED
  BY <1>5, <1>7, <1>8, <1>9, <1>10, <1>11 DEF IInv

LEMMA LeastNat ==
  ASSUME NEW S, S \subseteq Nat, S # {}
  PROVE  \E x \in S : \A y \in S : x <= y
<1> DEFINE less == OpToRel(<, Nat)
<1>1. PICK x \in S : \A y \in S : <<y, x>> \notin less
  BY NatLessThanWellFounded, WFMin
<1>2. ASSUME NEW y \in S PROVE x <= y
  <2>1. <<y, x>> \in Nat \X Nat /\ <<y, x>> \notin less
    BY <1>1
  <2> QED
    BY <2>1 DEF OpToRel
<1> QED
  BY <1>2

LEMMA RedirectStep ==
  ASSUME IInv, NEW r \in rides, Redirect(r)
  PROVE  IInv'
<1> USE EngineAssumption
<1> DEFINE k == Min(FreeElsewhere(r.dest))
           alt == Near[r.dest][k]
<1>1. /\ phase = "arrivals" /\ FreeElsewhere(r.dest) # {}
      /\ UNCHANGED <<phase, docked, capacity, watched, last, flow, trucked, freed, trips, expansions>>
  BY DEF Redirect, seen
<1>2. PICK d \in 1..MaxRide :
        rides' = (rides \ {r}) \cup {[r EXCEPT !.dest = alt, !.arrives = @ + d]}
  BY DEF Redirect
<1>3. r \in [bike : Bikes, dest : Stations, started : 0..(StepLen - 1), arrives : Nat]
  BY DEF IInv, RidesInv
<1>4. alt \in Stations
  <2>1. Near[r.dest] \in Seq(Stations)
    BY <1>3
  <2>2. FreeElsewhere(r.dest) \subseteq DOMAIN Near[r.dest] /\ DOMAIN Near[r.dest] \subseteq Nat
    <3>1. DOMAIN Near[r.dest] = 1..Len(Near[r.dest]) /\ Len(Near[r.dest]) \in Nat
      BY <2>1, LenProperties
    <3> QED
      BY <3>1 DEF FreeElsewhere
  <2>3. \E x \in FreeElsewhere(r.dest) : \A y \in FreeElsewhere(r.dest) : x <= y
    BY <1>1, <2>2, LeastNat
  <2>4. k \in FreeElsewhere(r.dest)
    BY <2>3 DEF Min
  <2> QED
    BY <2>1, <2>2, <2>4
<1> HIDE DEF alt, k
<1>5. PICK q : q = [r EXCEPT !.dest = alt, !.arrives = @ + d]
  OBVIOUS
<1>6. /\ q \in [bike : Bikes, dest : Stations, started : 0..(StepLen - 1), arrives : Nat]
      /\ q.bike = r.bike /\ q.started = r.started
  <2>1. r.arrives + d \in Nat
    BY <1>3
  <2>2. q = [bike |-> r.bike, dest |-> alt, started |-> r.started, arrives |-> r.arrives + d]
    BY <1>3, <1>5
  <2> QED
    BY <1>3, <1>4, <2>1, <2>2
<1>7. rides' = (rides \ {r}) \cup {q}
  BY <1>2, <1>5
<1>8. RidesInv'
  BY <1>1, <1>6, <1>7 DEF IInv, RidesInv
<1>9. OnePlace'
  <2>1. OnePlace /\ docked' = docked
    BY <1>1 DEF IInv
  <2>2. ASSUME NEW p \in rides' PROVE \E o \in rides : o.bike = p.bike
    <3>1. CASE p = q
      BY <1>6, <3>1
    <3>2. CASE p \in rides
      BY <3>2
    <3> QED
      BY <1>7, <3>1, <3>2
  <2>3. \A p, o \in rides' : p.bike = o.bike => p = o
    BY <1>6, <1>7, <2>1 DEF OnePlace
  <2>4. Riding' = Riding
    BY <1>6, <1>7 DEF Riding
  <2> QED
    BY <2>1, <2>2, <2>3, <2>4 DEF OnePlace
<1>10. FreedInv'
  BY <1>1, <1>6, <1>7 DEF IInv, FreedInv, BikeHistoryInOrder
<1>11. CountersTyped' /\ CapacityInv' /\ SnapshotInv'
  BY <1>1, Rests DEF IInv, CountersTyped
<1> QED
  BY <1>8, <1>9, <1>10, <1>11 DEF IInv

(* When no arrival is due any more, the rides that are left end later. *)
LEMMA NoneDue ==
  ASSUME IInv, Due = {}
  PROVE  \A r \in rides : r.arrives >= StepLen
<1> USE EngineAssumption
<1> SUFFICES ASSUME NEW r \in rides, r.arrives < StepLen PROVE FALSE
  BY DEF IInv, RidesInv
<1> DEFINE ends == {q.arrives : q \in rides}
<1>1. \A q \in rides : q.arrives \in Nat
  BY DEF IInv, RidesInv
<1>2. ends \subseteq Nat /\ ends # {}
  BY <1>1
<1>3. PICK x \in ends : \A y \in ends : x <= y
  BY <1>2, LeastNat
<1>4. PICK q \in rides : q.arrives = x
  BY <1>3
<1>5. q.arrives <= r.arrives /\ \A p \in rides : q.arrives <= p.arrives
  BY <1>3, <1>4
<1>6. q.arrives < StepLen
  BY <1>1, <1>5
<1>7. q \in Due
  BY <1>5, <1>6 DEF Due
<1> QED
  BY <1>7

LEMMA WaitStep ==
  ASSUME IInv, NextPart, phase \in {"departures", "arrivals"},
         UNCHANGED <<docked, capacity, rides, seen, freed, trips, expansions>>
  PROVE  IInv'
<1>1. \/ phase = "departures" /\ phase' = "arrivals"
      \/ phase = "arrivals" /\ Due = {} /\ phase' = "snapshots"
  BY DEF NextPart
<1>2. UNCHANGED <<docked, capacity, rides, watched, last, flow, trucked, freed, trips, expansions>>
  BY DEF seen
<1>3. OnePlace' /\ CapacityInv' /\ SnapshotInv'
  BY <1>2, Rests
<1>4. CountersTyped'
  BY <1>1, <1>2 DEF IInv, CountersTyped
<1>5. RidesInv'
  BY <1>1, <1>2, NoneDue DEF IInv, RidesInv
<1>6. FreedInv'
  BY <1>1, <1>2 DEF IInv, FreedInv, BikeHistoryInOrder
<1> QED
  BY <1>3, <1>4, <1>5, <1>6 DEF IInv

LEMMA SnapshotsStep ==
  ASSUME IInv, NextPart, Snapshots
  PROVE  IInv'
<1> USE EngineAssumption
<1>1. /\ phase = "snapshots" /\ phase' = "rebalance"
      /\ UNCHANGED <<watched, docked, capacity, rides, freed, trips, expansions>>
  BY DEF NextPart, Snapshots
<1>2. OnePlace' /\ CapacityInv'
  BY <1>1, Rests
<1>3. CountersTyped'
  BY <1>1 DEF IInv, CountersTyped
<1>4. RidesInv'
  BY <1>1 DEF IInv, RidesInv
<1>5. FreedInv'
  BY <1>1 DEF IInv, FreedInv, BikeHistoryInOrder
<1>6. watched \in Stations
  BY DEF IInv, SnapshotInv
<1>7. PICK n \in Nat, c \in Nat, size \in Nat :
        n = Count(watched) /\ c = capacity[watched] /\ size = Cardinality(Bikes)
  BY <1>6, CountType DEF IInv, CapacityInv
<1>8. n <= c /\ n <= size
  BY <1>6, <1>7, CountType DEF IInv, CapacityInv
<1>9. Count(watched)' = n
  BY <1>1, <1>7 DEF Count
<1>10. PICK before \in Int : flow = [before |-> before, beyond |-> 0]
  BY DEF IInv, SnapshotInv
<1>11. SnapshotInv'
  <2>1. CASE /\ last' = [bikes |-> Count(watched), docks |-> capacity[watched] - Count(watched)]
             /\ flow' = [before |-> flow.beyond, beyond |-> 0]
             /\ trucked' = FALSE
    <3>1. last' = [bikes |-> n, docks |-> c - n] /\ flow' = [before |-> 0, beyond |-> 0]
      BY <1>7, <1>10, <2>1
    <3>2. c - n \in Nat /\ n \in 0..size /\ n = n + 0
      BY <1>8
    <3>3. last' \in [bikes : 0..Cardinality(Bikes), docks : Nat]
      BY <1>7, <3>1, <3>2
    <3>4. flow' \in [before : Int, beyond : {0}]
      BY <3>1
    <3>5. Count(watched)' = last'.bikes + flow'.before
      BY <1>9, <3>1, <3>2
    <3> QED
      BY <1>1, <1>6, <2>1, <3>3, <3>4, <3>5 DEF SnapshotInv
  <2>2. CASE /\ flow' = [before |-> flow.before + flow.beyond, beyond |-> 0]
             /\ UNCHANGED <<last, trucked>>
    <3>1. flow' = [before |-> before + 0, beyond |-> 0] /\ before + 0 = before
      BY <1>10, <2>2
    <3>2. flow' = flow
      BY <1>10, <3>1
    <3> QED
      BY <1>1, <2>2, <3>2, Rests
  <2> QED
    BY <2>1, <2>2 DEF Snapshots
<1> QED
  BY <1>2, <1>3, <1>4, <1>5, <1>11 DEF IInv

LEMMA ExpandStep ==
  ASSUME IInv, NextPart, MaybeExpand, MoveCursor, UNCHANGED seen
  PROVE  IInv'
<1> USE EngineAssumption
<1>1. /\ phase = "expand" /\ phase' = "departures"
      /\ UNCHANGED <<docked, trips, watched, last, flow, trucked>>
  BY DEF NextPart, MaybeExpand, seen
<1>2. SnapshotInv'
  BY <1>1, Rests
<1>3. CountersTyped'
  <2>1. expansions' \in 0..MaxExpansions
    <3>1. expansions \in 0..MaxExpansions
      BY DEF IInv, CountersTyped
    <3>2. \/ expansions' = expansions
          \/ expansions < MaxExpansions /\ expansions' = expansions + 1
      BY DEF MaybeExpand
    <3> QED
      BY <3>1, <3>2
  <2> QED
    BY <1>1, <2>1 DEF IInv, CountersTyped
<1>4. CapacityInv'
  <2>1. CASE capacity' = capacity
    BY <1>1, <2>1, Rests
  <2>2. CASE \E i \in Stations : Expand(i)
    <3>1. PICK i \in Stations, more \in {2, 4, 6} : capacity' = [capacity EXCEPT ![i] = @ + more]
      BY <2>2 DEF Expand
    <3>2. capacity \in [Stations -> Nat]
      BY DEF IInv, CapacityInv
    <3>3. ASSUME NEW j \in Stations
          PROVE  /\ capacity'[j] \in Nat /\ capacity'[j] >= Capacity[j]
                 /\ Count(j)' <= capacity'[j]
      <4>1. PICK n \in Nat, c \in Nat, k \in Nat :
              n = Count(j) /\ c = capacity[j] /\ k = Capacity[j]
        BY <3>2, CountType DEF IInv
      <4>2. n <= c /\ c >= k
        BY <4>1 DEF IInv, CapacityInv
      <4>3. Count(j)' = n /\ capacity'[j] = IF j = i THEN c + more ELSE c
        BY <1>1, <3>1, <3>2, <4>1 DEF Count
      <4>4. c + more \in Nat /\ c + more >= k /\ n <= c + more
        BY <3>1, <4>2
      <4> QED
        BY <4>1, <4>2, <4>3, <4>4
    <3>4. capacity' \in [Stations -> Nat]
      BY <3>1, <3>2, <3>3
    <3> QED
      BY <3>3, <3>4 DEF CapacityInv
  <2> QED
    BY <2>1, <2>2 DEF MaybeExpand
<1> DEFINE Moved_(r) == [r EXCEPT !.started = Earlier(@), !.arrives = @ - StepLen]
<1>10. StepLen \in Nat \ {0}
  OBVIOUS
<1>5. rides' = {Moved_(r) : r \in rides}
  BY DEF MoveCursor
<1>6. ASSUME NEW r \in rides
      PROVE  /\ Moved_(r).bike = r.bike
             /\ Moved_(r) \in [bike : Bikes, dest : Stations, started : 0..(StepLen - 1),
                               arrives : Nat]
  <2>1. /\ r \in [bike : Bikes, dest : Stations, started : 0..(StepLen - 1), arrives : Nat]
        /\ r.arrives >= StepLen
    BY <1>1 DEF IInv, RidesInv
  <2>2. Earlier(r.started) = 0 /\ 0 \in 0..(StepLen - 1)
    BY <2>1 DEF Earlier
  <2>3. r.arrives - StepLen \in Nat
    BY <2>1
  <2>4. Moved_(r) = [bike |-> r.bike, dest |-> r.dest, started |-> 0,
                     arrives |-> r.arrives - StepLen]
    <3>1. PICK q : q = [r EXCEPT !.started = 0, !.arrives = r.arrives - StepLen]
      OBVIOUS
    <3>2. q = [bike |-> r.bike, dest |-> r.dest, started |-> 0, arrives |-> r.arrives - StepLen]
      BY <2>1, <3>1
    <3>3. Moved_(r) = q
      BY <2>2, <3>1
    <3> QED
      BY <3>2, <3>3
  <2> QED
    BY <2>1, <2>2, <2>3, <2>4
<1> HIDE DEF Moved_
<1>7. RidesInv'
  BY <1>1, <1>5, <1>6 DEF RidesInv
<1>8. OnePlace'
  <2>1. OnePlace /\ docked' = docked
    BY <1>1 DEF IInv
  <2>2. ASSUME NEW p \in rides' PROVE \E r \in rides : p = Moved_(r) /\ p.bike = r.bike
    BY <1>5, <1>6
  <2>3. \A p, q \in rides' : p.bike = q.bike => p = q
    BY <2>1, <2>2 DEF OnePlace
  <2>4. \A p \in rides', i \in Stations : p.bike \notin docked'[i]
    BY <2>1, <2>2 DEF OnePlace
  <2>5. Riding \subseteq Riding'
    BY <1>5, <1>6 DEF Riding
  <2> QED
    BY <2>1, <2>3, <2>4, <2>5 DEF OnePlace
<1>9. FreedInv'
  <2>1. freed' = [b \in Bikes |-> 0] /\ 0 \in 0..(StepLen - 1)
    <3>1. freed' = [b \in Bikes |-> 0]
      BY Zenon DEF MoveCursor
    <3> QED
      BY <3>1
  <2>2. ASSUME NEW r \in rides' PROVE r.started >= freed'[r.bike]
    <3>1. r.started \in 0..(StepLen - 1) /\ r.bike \in Bikes
      BY <1>7 DEF RidesInv
    <3> QED
      BY <2>1, <3>1
  <2> QED
    BY <2>1, <2>2 DEF FreedInv, BikeHistoryInOrder
<1> QED
  BY <1>2, <1>3, <1>4, <1>7, <1>8, <1>9 DEF IInv

-----------------------------------------------------------------------------
(* Rebalancing.                                                            *)

(* A station is at most once among the givers, and among the takers. *)
LEMMA OrderOf ==
  ASSUME NEW T, IsFiniteSet(T), NEW q \in SetToSeqs(T)
  PROVE  /\ Len(q) = Cardinality(T) /\ Cardinality(T) \in Nat
         /\ \A k \in 1..Cardinality(T) : q[k] \in T
         /\ \A k, l \in 1..Cardinality(T) : q[k] = q[l] => k = l
<1>1. Cardinality(T) \in Nat
  BY FS_CardinalityType
<1>2. /\ q \in [1..Cardinality(T) -> T]
      /\ \A k, l \in 1..Cardinality(T) : k # l => q[k] # q[l]
  BY DEF SetToSeqs
<1>3. Len(q) = Cardinality(T)
  BY <1>1, <1>2
<1> QED
  BY <1>1, <1>2, <1>3

LEMMA PairsApart ==
  ASSUME NEW pairs \in Pairs
  PROVE  /\ \A k \in DOMAIN pairs : pairs[k][1] \in Stations /\ pairs[k][2] \in Stations
         /\ \A k, l \in DOMAIN pairs : pairs[k][1] = pairs[l][1] => k = l
         /\ \A k, l \in DOMAIN pairs : pairs[k][2] = pairs[l][2] => k = l
<1>1. PICK ds \in SetToSeqs(Donors), rs \in SetToSeqs(Takers) :
        pairs = [k \in 1..Least(Len(ds), Len(rs)) |-> <<ds[k], rs[k]>>]
  BY DEF Pairs, Sorted
<1>2. IsFiniteSet(Donors) /\ IsFiniteSet(Takers)
  <2>1. Donors \in SUBSET Stations /\ Takers \in SUBSET Stations
    BY DEF Donors, Takers
  <2> QED
    BY <2>1, FS_Subset, EngineAssumption
<1>3. PICK m \in Nat, n \in Nat :
        /\ m = Len(ds) /\ n = Len(rs)
        /\ \A k \in 1..m : ds[k] \in Donors
        /\ \A k, l \in 1..m : ds[k] = ds[l] => k = l
        /\ \A k \in 1..n : rs[k] \in Takers
        /\ \A k, l \in 1..n : rs[k] = rs[l] => k = l
  BY <1>2, OrderOf
<1>4. DOMAIN pairs \subseteq 1..m /\ DOMAIN pairs \subseteq 1..n
  BY <1>1, <1>3 DEF Least
<1>5. \A k \in DOMAIN pairs : pairs[k][1] = ds[k] /\ pairs[k][2] = rs[k]
  BY <1>1
<1> QED
  BY <1>3, <1>4, <1>5 DEF Donors, Takers

(* A load leaves the taker at most half full. *)
LEMMA LoadFits ==
  ASSUME CountersTyped, CapacityInv, NEW d \in Stations, NEW i \in Stations
  PROVE  LET load == Load(d, i) IN
         /\ load \in Int
         /\ load > 0 => Count(i) + load <= capacity[i]
<1>1. PICK n \in Nat, c \in Nat, a \in Int :
        n = Count(i) /\ c = capacity[i] /\ a = Count(d) - capacity[d] \div 2
  <2>1. \A j \in Stations : Count(j) \in Nat /\ capacity[j] \in Nat
    BY CountType DEF CapacityInv
  <2>2. capacity[d] \div 2 \in Int
    BY <2>1
  <2> QED
    BY <2>1, <2>2
<1>2. c \div 2 \in Nat /\ c \div 2 <= c
  OBVIOUS
<1>3. PICK h \in Nat : h = c \div 2
  BY <1>2
<1>4. Load(d, i) = Least(Least(a, h - n), 20)
  BY <1>1, <1>3 DEF Load
<1>5. Least(Least(a, h - n), 20) \in Int /\ Least(Least(a, h - n), 20) <= h - n
  BY DEF Least
<1> QED
  BY <1>1, <1>2, <1>3, <1>4, <1>5

LEMMA RebalanceStep ==
  ASSUME IInv, phase = "rebalance", phase' = "expand", Rebalance,
         UNCHANGED <<capacity, rides, watched, last, flow, freed, trips>>
  PROVE  IInv'
<1> USE EngineAssumption
<1>1. PICK pairs \in Pairs : \E bikes \in [DOMAIN pairs -> SUBSET Bikes] :
       /\ \A k \in DOMAIN pairs :
            LET load == Load(pairs[k][1], pairs[k][2])
            IN  bikes[k] \subseteq docked[pairs[k][1]]
                /\ Cardinality(bikes[k]) = (IF load > 0 THEN load ELSE 0)
       /\ docked' = [i \in Stations |->
                       (docked[i] \ UNION {bikes[k] : k \in {x \in DOMAIN pairs : pairs[x][1] = i}})
                         \cup UNION {bikes[k] : k \in {x \in DOMAIN pairs : pairs[x][2] = i}}]
       /\ trucked' = (trucked \/ docked'[watched] # docked[watched])
  BY DEF Rebalance
<1>2. PICK bikes \in [DOMAIN pairs -> SUBSET Bikes] :
       /\ \A k \in DOMAIN pairs :
            LET load == Load(pairs[k][1], pairs[k][2])
            IN  bikes[k] \subseteq docked[pairs[k][1]]
                /\ Cardinality(bikes[k]) = (IF load > 0 THEN load ELSE 0)
       /\ docked' = [i \in Stations |->
                       (docked[i] \ UNION {bikes[k] : k \in {x \in DOMAIN pairs : pairs[x][1] = i}})
                         \cup UNION {bikes[k] : k \in {x \in DOMAIN pairs : pairs[x][2] = i}}]
       /\ trucked' = (trucked \/ docked'[watched] # docked[watched])
  BY <1>1
<1>3. PICK D, From, To :
        /\ D = DOMAIN pairs
        /\ From = [k \in D |-> pairs[k][1]] /\ To = [k \in D |-> pairs[k][2]]
  OBVIOUS
<1>4. /\ \A k \in D : From[k] \in Stations /\ To[k] \in Stations
      /\ \A k, l \in D : From[k] = From[l] => k = l
      /\ \A k, l \in D : To[k] = To[l] => k = l
  BY <1>3, PairsApart
<1>5. \A k \in D : bikes[k] \subseteq docked[From[k]] /\ bikes[k] \subseteq Bikes
  BY <1>2, <1>3
<1>6. \A k \in D : LET load == Load(From[k], To[k])
                   IN  Cardinality(bikes[k]) = IF load > 0 THEN load ELSE 0
  BY <1>2, <1>3
<1>7. ASSUME NEW i \in Stations, NEW x
      PROVE  x \in docked'[i] <=>
               \/ x \in docked[i] /\ \A k \in D : From[k] = i => x \notin bikes[k]
               \/ \E k \in D : To[k] = i /\ x \in bikes[k]
  <2>1. docked'[i] =
          (docked[i] \ UNION {bikes[k] : k \in {y \in D : From[y] = i}})
             \cup UNION {bikes[k] : k \in {y \in D : To[y] = i}}
    BY <1>2, <1>3
  <2> QED
    BY <2>1
<1>8. OnePlace /\ docked \in [Stations -> SUBSET Bikes]
  BY DEF IInv, CountersTyped
<1>9. docked' \in [Stations -> SUBSET Bikes]
  <2>1. docked' = [i \in Stations |-> docked'[i]]
    BY <1>2
  <2>2. ASSUME NEW i \in Stations, NEW x \in docked'[i] PROVE x \in Bikes
    BY <1>5, <1>7, <1>8
  <2> QED
    BY <2>1, <2>2
<1>10. CountersTyped'
  <2>1. expansions' \in 0..MaxExpansions
    <3>1. expansions \in 0..MaxExpansions
      BY DEF IInv, CountersTyped
    <3>2. expansions < MaxExpansions /\ expansions' = expansions + 1
      BY DEF Rebalance
    <3> QED
      BY <3>1, <3>2
  <2> QED
    BY <1>9, <2>1 DEF IInv, CountersTyped
<1>11. ASSUME NEW k \in D, NEW x \in bikes[k], NEW i \in Stations
       PROVE  x \in docked'[i] <=> i = To[k]
  <2>1. x \in docked[From[k]]
    BY <1>5
  <2>2. ASSUME NEW l \in D, x \in bikes[l] PROVE l = k
    <3>1. x \in docked[From[l]] /\ From[l] \in Stations /\ From[k] \in Stations
      BY <1>4, <1>5, <2>2
    <3> QED
      BY <1>4, <1>8, <2>1, <3>1 DEF OnePlace
  <2>3. x \in docked[i] => i = From[k]
    BY <1>4, <1>8, <2>1 DEF OnePlace
  <2> QED
    BY <1>7, <2>2, <2>3
<1>12. ASSUME NEW x, \A k \in D : x \notin bikes[k], NEW i \in Stations
       PROVE  x \in docked'[i] <=> x \in docked[i]
  BY <1>7, <1>12
<1>13. OnePlace'
  <2>1. ASSUME NEW i \in Stations, NEW j \in Stations, NEW x, x \in docked'[i], x \in docked'[j]
        PROVE  i = j
    <3>1. CASE \E k \in D : x \in bikes[k]
      <4>1. PICK k \in D : x \in bikes[k]
        BY <3>1
      <4>2. i = To[k] /\ j = To[k]
        BY <1>11, <2>1, <4>1
      <4> QED
        BY <4>2
    <3>2. CASE \A k \in D : x \notin bikes[k]
      <4>1. x \in docked[i] /\ x \in docked[j]
        BY <1>12, <2>1, <3>2
      <4> QED
        BY <1>8, <4>1 DEF OnePlace
    <3> QED
      BY <3>1, <3>2
  <2>2. ASSUME NEW r \in rides, NEW i \in Stations PROVE r.bike \notin docked'[i]
    <3>1. \A j \in Stations : r.bike \notin docked[j]
      BY <1>8 DEF OnePlace
    <3>2. \A k \in D : r.bike \notin bikes[k]
      BY <1>4, <1>5, <3>1
    <3> QED
      BY <1>12, <3>1, <3>2
  <2>3. ASSUME NEW x \in Bikes, x \notin Riding PROVE \E i \in Stations : x \in docked'[i]
    <3>1. CASE \E k \in D : x \in bikes[k]
      BY <1>4, <1>11, <3>1
    <3>2. CASE \A k \in D : x \notin bikes[k]
      <4>1. PICK i \in Stations : x \in docked[i]
        BY <1>8, <2>3 DEF OnePlace
      <4> QED
        BY <1>12, <3>2, <4>1
    <3> QED
      BY <3>1, <3>2
  <2>4. rides' = rides /\ Riding' = Riding
    BY DEF Riding
  <2>5. \A r, q \in rides : r.bike = q.bike => r = q
    BY <1>8 DEF OnePlace
  <2> QED
    BY <2>1, <2>2, <2>3, <2>4, <2>5 DEF OnePlace
<1>14. ASSUME NEW i \in Stations PROVE Count(i)' <= capacity[i]
  <2>1. PICK n \in Nat, c \in Nat : n = Count(i) /\ c = capacity[i] /\ n <= c
    BY CountType DEF IInv, CapacityInv
  <2>2. IsFiniteSet(docked[i]) /\ Cardinality(docked[i]) = n
    BY <2>1, CountType DEF IInv, Count
  <2>3. Count(i)' = Cardinality(docked'[i])
    BY DEF Count
  <2>4. CASE \A k \in D : To[k] # i
    <3>1. docked'[i] \in SUBSET docked[i]
      BY <1>7, <2>4
    <3>2. Cardinality(docked'[i]) \in Nat /\ Cardinality(docked'[i]) <= n
      BY <2>2, <3>1, FS_Subset, FS_CardinalityType
    <3> QED
      BY <2>1, <2>3, <3>2
  <2>5. ASSUME NEW k \in D, To[k] = i PROVE Count(i)' <= capacity[i]
    <3>1. docked'[i] \in SUBSET (docked[i] \cup bikes[k])
      <4> SUFFICES ASSUME NEW x \in docked'[i], x \notin docked[i] PROVE x \in bikes[k]
        OBVIOUS
      <4>1. PICK l \in D : To[l] = i /\ x \in bikes[l]
        BY <1>7
      <4> QED
        BY <1>4, <2>5, <4>1
    <3>2. IsFiniteSet(bikes[k]) /\ Cardinality(bikes[k]) \in Nat
      BY <1>5, FS_Subset, FS_CardinalityType
    <3>3. PICK m \in Nat : m = Cardinality(bikes[k])
      BY <3>2
    <3>4. PICK load \in Int : load = Load(From[k], i) /\ (load > 0 => n + load <= c)
      BY <1>4, <2>1, LoadFits DEF IInv
    <3>5. m = IF load > 0 THEN load ELSE 0
      BY <1>6, <2>5, <3>3, <3>4
    <3>6. n + m <= c
      BY <2>1, <3>4, <3>5
    <3>7. /\ IsFiniteSet(docked[i] \cup bikes[k])
          /\ Cardinality(docked[i] \cup bikes[k]) =
               n + m - Cardinality(docked[i] \cap bikes[k])
      BY <2>2, <3>2, <3>3, FS_Union
    <3>8. Cardinality(docked[i] \cap bikes[k]) \in Nat
      BY <2>2, FS_Intersection, FS_CardinalityType
    <3>9. Cardinality(docked[i] \cup bikes[k]) <= n + m
      BY <3>7, <3>8
    <3>10. /\ Cardinality(docked'[i]) \in Nat /\ Cardinality(docked[i] \cup bikes[k]) \in Nat
           /\ Cardinality(docked'[i]) <= Cardinality(docked[i] \cup bikes[k])
      BY <3>1, <3>7, FS_Subset, FS_CardinalityType
    <3> QED
      BY <2>1, <2>3, <3>6, <3>9, <3>10
  <2> QED
    BY <2>4, <2>5
<1>15. CapacityInv'
  BY <1>14 DEF IInv, CapacityInv
<1>16. RidesInv'
  BY DEF IInv, RidesInv
<1>17. FreedInv'
  BY DEF IInv, FreedInv, BikeHistoryInOrder
<1>18. SnapshotInv'
  <2>1. trucked' \in BOOLEAN /\ (~trucked' => ~trucked /\ docked'[watched] = docked[watched])
    BY <1>2 DEF IInv, SnapshotInv
  <2>2. ~trucked' => Count(watched)' = Count(watched)
    BY <2>1 DEF Count
  <2> QED
    BY <2>1, <2>2 DEF IInv, SnapshotInv
<1> QED
  BY <1>10, <1>13, <1>15, <1>16, <1>17, <1>18 DEF IInv

LEMMA ProceedStep == IInv /\ Proceed => IInv'
<1> SUFFICES ASSUME IInv, Proceed PROVE IInv'
  OBVIOUS
<1>1. CASE phase \in {"departures", "arrivals"}
           /\ UNCHANGED <<docked, capacity, rides, seen, freed, trips, expansions>>
  BY <1>1, WaitStep DEF Proceed
<1>2. CASE Snapshots
  BY <1>2, SnapshotsStep DEF Proceed
<1>3. CASE RebalanceIfDue
  <2>1. /\ phase = "rebalance" /\ phase' = "expand"
        /\ UNCHANGED <<capacity, rides, watched, last, flow, freed, trips>>
    BY <1>3 DEF RebalanceIfDue, Proceed, NextPart
  <2>2. CASE Rebalance
    BY <2>1, <2>2, RebalanceStep
  <2>3. CASE UNCHANGED <<docked, trucked, expansions>>
    <3>1. OnePlace' /\ CapacityInv' /\ SnapshotInv'
      BY <2>1, <2>3, Rests
    <3>2. CountersTyped' /\ RidesInv' /\ FreedInv'
      BY <2>1, <2>3 DEF IInv, CountersTyped, RidesInv, FreedInv, BikeHistoryInOrder
    <3> QED
      BY <3>1, <3>2 DEF IInv
  <2> QED
    BY <1>3, <2>2, <2>3 DEF RebalanceIfDue
<1>4. CASE MaybeExpand /\ MoveCursor /\ UNCHANGED seen
  BY <1>4, ExpandStep DEF Proceed
<1> QED
  BY <1>1, <1>2, <1>3, <1>4 DEF Proceed

LEMMA Step == IInv /\ [Next]_vars => IInv'
<1> SUFFICES ASSUME IInv, [Next]_vars PROVE IInv'
  OBVIOUS
<1>1. ASSUME NEW i \in Stations, NEW b \in docked[i], Depart(i, b) PROVE IInv'
  BY <1>1, DepartStep
<1>2. ASSUME NEW r \in rides, Arrive(r) \/ Redirect(r) PROVE IInv'
  BY <1>2, ArriveStep, RedirectStep
<1>3. CASE Proceed
  BY <1>3, ProceedStep
<1>4. CASE UNCHANGED vars
  <2>1. UNCHANGED <<phase, docked, capacity, rides, watched, last, flow, trucked, freed, trips,
                    expansions>>
    BY <1>4 DEF vars
  <2>2. OnePlace' /\ CapacityInv' /\ SnapshotInv'
    BY <2>1, Rests
  <2>3. CountersTyped' /\ RidesInv' /\ FreedInv'
    BY <2>1 DEF IInv, CountersTyped, RidesInv, FreedInv, BikeHistoryInOrder
  <2> QED
    BY <2>2, <2>3 DEF IInv
<1> QED
  BY <1>1, <1>2, <1>3, <1>4 DEF Next

LEMMA Invariance == Spec => []IInv
<1> QED
  BY Starts, Step, PTL DEF Spec

-----------------------------------------------------------------------------
(* Every reachable state of the engine is of its type. *)
THEOREM TypeCorrect == Spec => []TypeOK
<1>1. IInv => TypeOK
  <2> SUFFICES ASSUME IInv PROVE TypeOK
    OBVIOUS
  <2>1. \A i \in Stations : capacity[i] >= Capacity[i]
    BY DEF IInv, CapacityInv
  <2>2. flow \in [before : Int, beyond : Int]
    BY DEF IInv, SnapshotInv
  <2> QED
    BY <2>1, <2>2 DEF IInv, CountersTyped, RidesInv, SnapshotInv, FreedInv, TypeOK
<1> QED
  BY <1>1, Invariance, PTL

(* engine.py:150-187, 214.  Every bike is in one place at a time, no        *)
(* station holds more than its docks, and a rider who finds the target full *)
(* finds a free dock elsewhere, for any city, fleet, trips and trucks.      *)
THEOREM EveryBikeHasItsPlace == Spec => []FleetFits
<1> QED
  BY Fits, Invariance, PTL

(* engine.py:191-199, int_status_sequence.sql:6-8.  A truthful snapshot is  *)
(* taken for a frozen station only where a truck moved bikes, for any       *)
(* interleaving of trips, detours, trucks, reports and expansions.          *)
THEOREM TruthIsNotStale == Spec => []NoFalseStale
<1>1. IInv => NoFalseStale
  <2> SUFFICES ASSUME IInv, StaleSnapshot, ~trucked PROVE FALSE
    BY DEF NoFalseStale, IInv, SnapshotInv
  <2>1. /\ last # None /\ flow.before # 0 /\ Count(watched) = last.bikes
        /\ Count(watched) = last.bikes + flow.before
    BY DEF IInv, SnapshotInv, StaleSnapshot
  <2>2. PICK n \in Nat, f \in Int : n = last.bikes /\ f = flow.before
    BY <2>1, EngineAssumption, FS_CardinalityType DEF IInv, SnapshotInv
  <2> QED
    BY <2>1, <2>2
<1> QED
  BY <1>1, Invariance, PTL

(* engine.py:65-74.  In the order of their times, no bike leaves a dock     *)
(* before the event that put it there.                                     *)
THEOREM HistoryInOrder == Spec => []BikeHistoryInOrder
<1>1. IInv => BikeHistoryInOrder
  BY DEF IInv, FreedInv
<1> QED
  BY <1>1, Invariance, PTL
=============================================================================
