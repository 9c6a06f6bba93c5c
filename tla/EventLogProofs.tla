--------------------------- MODULE EventLogProofs ---------------------------
(***************************************************************************)
(* Lemmas about the vendor's outbox, for any buffer size: the buffer is    *)
(* always the newest stretch of the log, and read_after() answers with the *)
(* events right after the seq it is asked for, or with a gap notice that   *)
(* says exactly which of them are gone.                                    *)
(***************************************************************************)
EXTENDS EventLog, Integers, SequenceTheorems, TLAPS

(* The buffer holds the newest events, without a hole, and is empty only   *)
(* before the first.                                                       *)
NewestKept ==
  /\ log_seq > 0 => Len(buffer) > 0
  /\ Len(buffer) <= log_seq
  /\ \A i \in 1..Len(buffer) : buffer[i] = (log_seq - Len(buffer)) + i

LogInv == LogTypeOK /\ NewestKept

LEMMA LogInvInit == LogInit => LogInv
<1> SUFFICES ASSUME LogInit PROVE LogInv
  OBVIOUS
<1>1. <<>> \in Seq(1..MaxSeq) /\ Len(<<>>) = 0
  BY EmptySeq
<1> QED
  BY <1>1, EventLogAssumption DEF LogInit, LogInv, LogTypeOK, NewestKept

(* What deque(maxlen) keeps: a tail of what it was given, of MaxLen at most. *)
LEMMA KeepsTheTail ==
  ASSUME NEW S, NEW s \in Seq(S)
  PROVE  LET kept == KeepNewest(s) IN
         /\ kept \in Seq(S) /\ Len(kept) <= MaxLen
         /\ Len(kept) = IF Len(s) > MaxLen THEN MaxLen ELSE Len(s)
         /\ \A i \in 1..Len(kept) : kept[i] = s[(Len(s) - Len(kept)) + i]
<1> DEFINE kept == KeepNewest(s)
<1> USE EventLogAssumption
<1>1. Len(s) \in Nat
  BY LenProperties
<1>2. CASE Len(s) > MaxLen
  <2>1. kept = SubSeq(s, Len(s) - MaxLen + 1, Len(s))
    BY <1>2 DEF KeepNewest
  <2>2. \A i \in (Len(s) - MaxLen + 1)..Len(s) : s[i] \in S
    BY <1>1, <1>2, ElementOfSeq
  <2>3. /\ kept \in Seq(S) /\ Len(kept) = MaxLen
        /\ \A i \in 1..MaxLen : kept[i] = s[(Len(s) - MaxLen + 1) + i - 1]
    <3> DEFINE m == Len(s) - MaxLen + 1
    <3>1. m \in Int /\ Len(s) \in Int /\ m <= Len(s) /\ Len(s) - m + 1 = MaxLen
      BY <1>1, <1>2
    <3>2. \A i \in m..Len(s) : s[i] \in S
      BY <2>2
    <3>3. kept = SubSeq(s, m, Len(s))
      BY <2>1
    <3> HIDE DEF m, kept
    <3>4. /\ SubSeq(s, m, Len(s)) \in Seq(S)
          /\ Len(SubSeq(s, m, Len(s))) = Len(s) - m + 1
          /\ \A i \in 1..(Len(s) - m + 1) : SubSeq(s, m, Len(s))[i] = s[m + i - 1]
      BY <3>1, <3>2, SubSeqProperties
    <3> QED
      BY <3>1, <3>3, <3>4 DEF m
  <2>4. \A i \in 1..MaxLen : (Len(s) - MaxLen + 1) + i - 1 = (Len(s) - MaxLen) + i
    BY <1>1
  <2> QED
    BY <1>1, <1>2, <2>3, <2>4
<1>3. CASE ~(Len(s) > MaxLen)
  <2>1. kept = s
    BY <1>3 DEF KeepNewest
  <2>2. \A i \in 1..Len(s) : (Len(s) - Len(s)) + i = i
    BY <1>1
  <2> QED
    BY <1>1, <1>3, <2>1, <2>2
<1> QED
  BY <1>2, <1>3

(* Publishing keeps the newest stretch. *)
LEMMA PublishKeepsNewest ==
  ASSUME LogInv, NEW k \in Nat, Append_(k)
  PROVE  LogInv' /\ log_seq' = log_seq + k /\ log_seq' <= MaxSeq
<1> DEFINE fresh == [i \in 1..k |-> log_seq + i]
           all == buffer \o fresh
<1> USE EventLogAssumption
<1>1. /\ log_seq \in Nat /\ log_seq <= MaxSeq /\ buffer \in Seq(1..MaxSeq)
      /\ k > 0 /\ log_seq + k <= MaxSeq
      /\ log_seq' = log_seq + k /\ buffer' = KeepNewest(all)
  BY DEF LogInv, LogTypeOK, Append_
<1>2. Len(buffer) \in Nat /\ Len(buffer) <= log_seq
  BY <1>1, LenProperties DEF LogInv, NewestKept
<1>3. fresh \in Seq(1..MaxSeq) /\ Len(fresh) = k
  <2>1. \A i \in 1..k : log_seq + i \in 1..MaxSeq
    BY <1>1
  <2>2. fresh \in [1..k -> 1..MaxSeq]
    BY <2>1
  <2> HIDE DEF fresh
  <2> QED
    BY <2>2, SeqDef
<1>4. /\ all \in Seq(1..MaxSeq) /\ Len(all) = Len(buffer) + k
      /\ \A i \in 1..(Len(buffer) + k) :
           all[i] = IF i <= Len(buffer) THEN buffer[i] ELSE fresh[i - Len(buffer)]
  <2> HIDE DEF fresh
  <2> QED
    BY <1>1, <1>3, ConcatProperties
<1>5. \A i \in 1..Len(all) : all[i] = (log_seq - Len(buffer)) + i
  <2> SUFFICES ASSUME NEW i \in 1..Len(all) PROVE all[i] = (log_seq - Len(buffer)) + i
    OBVIOUS
  <2> HIDE DEF all
  <2>1. CASE i <= Len(buffer)
    <3>1. i \in 1..Len(buffer)
      BY <1>2, <1>4, <2>1
    <3> QED
      BY <1>2, <1>4, <2>1, <3>1 DEF LogInv, NewestKept
  <2>2. CASE ~(i <= Len(buffer))
    <3>1. i - Len(buffer) \in 1..k
      BY <1>1, <1>2, <1>4, <2>2
    <3>2. fresh[i - Len(buffer)] = log_seq + (i - Len(buffer))
      BY <3>1
    <3> QED
      BY <1>1, <1>2, <1>4, <2>2, <3>2
  <2> QED
    BY <2>1, <2>2
<1> HIDE DEF all
<1>6. /\ buffer' \in Seq(1..MaxSeq) /\ Len(buffer') <= MaxLen
      /\ Len(buffer') = IF Len(all) > MaxLen THEN MaxLen ELSE Len(all)
      /\ \A i \in 1..Len(buffer') : buffer'[i] = all[(Len(all) - Len(buffer')) + i]
  BY <1>1, <1>4, KeepsTheTail
<1>7. PICK m \in Nat : m = Len(buffer')
  BY <1>6, LenProperties
<1>8. m > 0 /\ m <= Len(all) /\ m <= log_seq + k /\ m <= MaxLen
  <2>1. PICK a \in Nat : a = Len(all)
    BY <1>4, LenProperties
  <2>2. PICK b \in Nat, seq \in Nat : b = Len(buffer) /\ seq = log_seq
    BY <1>1, <1>2
  <2>3. a = b + k /\ b <= seq /\ k > 0 /\ MaxLen \in Nat \ {0}
    BY <1>1, <1>2, <1>4, <2>1, <2>2
  <2>4. m = IF a > MaxLen THEN MaxLen ELSE a
    BY <1>6, <1>7, <2>1
  <2>5. m > 0 /\ m <= a /\ m <= MaxLen
    BY <2>3, <2>4
  <2>6. m <= seq + k
    BY <2>3, <2>5
  <2> QED
    BY <2>1, <2>2, <2>5, <2>6
<1>9. \A i \in 1..m : buffer'[i] = ((log_seq + k) - m) + i
  <2> SUFFICES ASSUME NEW i \in 1..m PROVE buffer'[i] = ((log_seq + k) - m) + i
    OBVIOUS
  <2>1. (Len(all) - m) + i \in 1..Len(all)
    BY <1>1, <1>2, <1>4, <1>8
  <2>2. buffer'[i] = all[(Len(all) - m) + i]
    BY <1>6, <1>7
  <2>3. all[(Len(all) - m) + i] = (log_seq - Len(buffer)) + ((Len(all) - m) + i)
    BY <1>5, <2>1
  <2> QED
    BY <1>1, <1>2, <1>4, <1>8, <2>2, <2>3
<1>10. LogTypeOK'
  BY <1>1, <1>6 DEF LogTypeOK
<1>11. NewestKept'
  BY <1>1, <1>7, <1>8, <1>9 DEF NewestKept
<1> QED
  BY <1>1, <1>10, <1>11 DEF LogInv

-----------------------------------------------------------------------------
(* Where an answer begins, and whether something before it has gone. *)
Gone(after) == after + 1 < FirstSeq
From(after) == IF Gone(after) THEN FirstSeq ELSE after + 1

LEMMA FirstSeqBounds ==
  ASSUME LogInv
  PROVE  /\ log_seq \in Nat /\ log_seq <= MaxSeq /\ Len(buffer) \in Nat
         /\ FirstSeq \in Nat \ {0} /\ FirstSeq = (log_seq - Len(buffer)) + 1
         /\ FirstSeq > 1 => FirstSeq <= log_seq
         /\ FirstSeq <= log_seq + 1
<1>1. /\ log_seq \in Nat /\ log_seq <= MaxSeq /\ buffer \in Seq(1..MaxSeq)
      /\ Len(buffer) <= log_seq /\ (log_seq > 0 => Len(buffer) > 0)
  BY EventLogAssumption DEF LogInv, LogTypeOK, NewestKept
<1>2. Len(buffer) \in Nat
  BY <1>1, LenProperties
<1> QED
  BY <1>1, <1>2 DEF FirstSeq

(* read_after(): the records follow each other from the first one that is  *)
(* still there, an empty answer means the log has nothing newer, and the   *)
(* notice tells exactly when something is gone, and from where on it is not. *)
LEMMA ReadsOn ==
  ASSUME LogInv, NEW after \in Nat, NEW limit \in Nat \ {0}
  PROVE  /\ ReadAfter(after, limit).records \in Seq(1..MaxSeq)
         /\ Len(ReadAfter(after, limit).records) <= limit
         /\ \A i \in 1..Len(ReadAfter(after, limit).records) :
              ReadAfter(after, limit).records[i] = (From(after) - 1) + i
         /\ ReadAfter(after, limit).records # <<>> =>
              (From(after) - 1) + Len(ReadAfter(after, limit).records) <= log_seq
         /\ ReadAfter(after, limit).records = <<>> => ~Gone(after) /\ log_seq <= after
         /\ ~Gone(after) => ReadAfter(after, limit).gap = NoGap
         /\ Gone(after) =>
              /\ ReadAfter(after, limit).gap =
                   [requested_after_seq |-> after, oldest_available_seq |-> FirstSeq]
              /\ ReadAfter(after, limit).gap # NoGap
<1> DEFINE start == IF Gone(after) THEN 0 ELSE (after + 1) - FirstSeq
           upto == IF start + limit < Len(buffer) THEN start + limit ELSE Len(buffer)
           r == ReadAfter(after, limit)
<1>1. /\ log_seq \in Nat /\ Len(buffer) \in Nat /\ FirstSeq \in Nat \ {0}
      /\ FirstSeq = (log_seq - Len(buffer)) + 1 /\ Len(buffer) <= log_seq
      /\ FirstSeq > 1 => FirstSeq <= log_seq
  BY FirstSeqBounds DEF LogInv, NewestKept
<1>2. start \in Nat /\ upto \in Nat /\ upto <= Len(buffer)
  BY <1>1 DEF Gone
<1>3. /\ r.records = SubSeq(buffer, start + 1, upto)
      /\ r.gap = IF Gone(after)
                 THEN [requested_after_seq |-> after, oldest_available_seq |-> FirstSeq]
                 ELSE NoGap
  BY DEF ReadAfter, Gone
<1>4. (FirstSeq - 1) + (start + 1) = From(after)
  <2>1. CASE Gone(after)
    BY <1>1, <2>1 DEF From
  <2>2. CASE ~Gone(after)
    <3>1. start = (after + 1) - FirstSeq /\ From(after) = after + 1
      BY <2>2 DEF From
    <3> HIDE DEF start
    <3> QED
      BY <1>1, <3>1
  <2> QED
    BY <2>1, <2>2
<1> DEFINE size == IF start + 1 <= upto THEN upto - start ELSE 0
<1>5. /\ r.records \in Seq(1..MaxSeq) /\ Len(r.records) = size
      /\ \A i \in 1..size : r.records[i] = buffer[start + i]
  <2>1. \A i \in (start + 1)..upto : buffer[i] \in 1..MaxSeq
    <3>1. buffer \in Seq(1..MaxSeq)
      BY DEF LogInv, LogTypeOK
    <3> HIDE DEF start, upto
    <3>2. \A i \in (start + 1)..upto : i \in 1..Len(buffer)
      BY <1>1, <1>2
    <3> QED
      BY <3>1, <3>2, ElementOfSeq
  <2> HIDE DEF start, upto, r
  <2>2. start + 1 \in Int /\ upto \in Int
    BY <1>2
  <2>3. PICK m \in Int : m = start + 1
    BY <2>2
  <2>4. /\ SubSeq(buffer, m, upto) \in Seq(1..MaxSeq)
        /\ Len(SubSeq(buffer, m, upto)) = IF m <= upto THEN upto - m + 1 ELSE 0
        /\ \A i \in 1..(upto - m + 1) : SubSeq(buffer, m, upto)[i] = buffer[m + i - 1]
    BY <2>1, <2>2, <2>3, SubSeqProperties
  <2>5. upto - m + 1 = upto - start /\ \A i \in Int : m + i - 1 = start + i
    BY <1>2, <2>3
  <2>6. Len(r.records) = size
    BY <1>2, <1>3, <2>3, <2>4, <2>5
  <2>7. ASSUME NEW i \in 1..size PROVE r.records[i] = buffer[start + i]
    <3>1. i \in 1..(upto - m + 1)
      BY <1>2, <2>5
    <3>2. r.records = SubSeq(buffer, m, upto)
      BY <1>3, <2>3, Zenon
    <3>3. i \in Int /\ m + i - 1 = start + i
      BY <1>2, <2>5, <3>1
    <3> HIDE DEF size
    <3>4. SubSeq(buffer, m, upto)[i] = buffer[m + i - 1]
      BY <2>4, <3>1
    <3> QED
      BY <3>2, <3>3, <3>4, Zenon
  <2> QED
    BY <1>3, <2>3, <2>4, <2>6, <2>7
<1>6. size \in Nat /\ size <= limit /\ (size > 0 => start + size <= Len(buffer))
  <2> HIDE DEF start
  <2> QED
    BY <1>1, <1>2
<1>7. ASSUME NEW i \in 1..size PROVE r.records[i] = (From(after) - 1) + i
  <2>1. start + i \in 1..Len(buffer)
    <3> HIDE DEF size, start
    <3> QED
      BY <1>1, <1>2, <1>6
  <2>2. buffer[start + i] = (log_seq - Len(buffer)) + (start + i)
    BY <2>1 DEF LogInv, NewestKept
  <2>3. From(after) \in Nat
    BY <1>1 DEF From
  <2> HIDE DEF size, start, r
  <2>4. (log_seq - Len(buffer)) + (start + i) = (From(after) - 1) + i
    BY <1>1, <1>2, <1>4, <1>6, <2>3
  <2> QED
    BY <1>5, <2>2, <2>4
<1>8. size > 0 => (From(after) - 1) + size <= log_seq
  <2> HIDE DEF size, start
  <2> QED
    BY <1>1, <1>2, <1>4, <1>6 DEF From
<1>9. size = 0 => ~Gone(after) /\ log_seq <= after
  <2>1. CASE Gone(after)
    <3>1. start = 0 /\ Len(buffer) > 0
      BY <1>1, <2>1 DEF Gone, LogInv, NewestKept
    <3>2. upto > 0
      <4> HIDE DEF start
      <4> QED
        BY <1>1, <3>1
    <3> HIDE DEF start, upto
    <3> QED
      BY <3>1, <3>2, <1>2
  <2>2. CASE ~Gone(after)
    <3>1. start = (after + 1) - FirstSeq
      BY <2>2
    <3> HIDE DEF start
    <3> QED
      BY <1>1, <1>2, <2>2, <3>1
  <2> QED
    BY <2>1, <2>2
<1>10. Gone(after) =>
         [requested_after_seq |-> after, oldest_available_seq |-> FirstSeq] # NoGap
  BY <1>1 DEF NoGap
<1>11. r.records = <<>> <=> size = 0
  <2> HIDE DEF size, r
  <2> QED
    BY <1>5, <1>6, EmptySeq
<1>12. ReadAfter(after, limit) = r
  OBVIOUS
<1> HIDE DEF size, r, start
<1>13. r.records \in Seq(1..MaxSeq) /\ Len(r.records) <= limit
  BY <1>3, <1>5, <1>6
<1>14. \A i \in 1..Len(r.records) : r.records[i] = (From(after) - 1) + i
  BY <1>5, <1>7
<1>15. r.records # <<>> => (From(after) - 1) + Len(r.records) <= log_seq
  BY <1>5, <1>6, <1>8, <1>11
<1>16. r.records = <<>> => ~Gone(after) /\ log_seq <= after
  BY <1>9, <1>11
<1>17. ~Gone(after) => r.gap = NoGap
  BY <1>3, Zenon
<1>18. Gone(after) => /\ r.gap = [requested_after_seq |-> after,
                                  oldest_available_seq |-> FirstSeq]
                      /\ r.gap # NoGap
  BY <1>3, <1>10, Zenon
<1> QED
  BY <1>12, <1>13, <1>14, <1>15, <1>16, <1>17, <1>18, Zenon
=============================================================================
