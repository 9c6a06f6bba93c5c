------------------------------ MODULE EventLog ------------------------------
(***************************************************************************)
(* The vendor's outbox (src/source/bikeshare_sim/eventlog.py): publish()   *)
(* numbers events from 1 and keeps the newest MaxLen of them; read_after() *)
(* answers "what comes after seq n", with a gap notice when part of that   *)
(* answer has already left the buffer.                                     *)
(*                                                                         *)
(* An event is its seq.  What a type filter needs of it is TypeOf[seq].    *)
(***************************************************************************)
EXTENDS Naturals, Sequences

CONSTANTS
  MaxLen,      \* emission.buffer_size: how many events the buffer keeps
  MaxSeq       \* bound of the model: no event is numbered above it

ASSUME EventLogAssumption == MaxLen \in Nat \ {0} /\ MaxSeq \in Nat

VARIABLES
  buffer,      \* the ring buffer, oldest first
  log_seq      \* EventLog.last_seq: the seq of the newest event, 0 at first

logVars == <<buffer, log_seq>>

NoGap == [requested_after_seq |-> 0, oldest_available_seq |-> 0]

MutKeepAll(s) == s

(* deque(maxlen): appending to a full buffer drops from the old end. *)
KeepNewest(s) ==
  IF Len(s) > MaxLen THEN SubSeq(s, Len(s) - MaxLen + 1, Len(s)) ELSE s

(* The oldest seq in the buffer; log_seq + 1 when the buffer is empty. *)
FirstSeq == (log_seq - Len(buffer)) + 1

LogInit ==
  /\ buffer = <<>>
  /\ log_seq = 0

(* publish() of k events; publish() of none returns at once. *)
Append_(k) ==
  /\ k > 0
  /\ log_seq + k <= MaxSeq
  /\ buffer' = KeepNewest(buffer \o [i \in 1..k |-> log_seq + i])
  /\ log_seq' = log_seq + k

MutReadNoGap(after, limit) ==
  LET from == IF after + 1 < FirstSeq THEN FirstSeq ELSE after + 1
  IN  [records |-> SelectSeq(buffer, LAMBDA n : from <= n /\ n < from + limit),
       gap     |-> NoGap]

(* Up to `limit` records after seq `after`, and the gap notice if some of  *)
(* them are no longer there.  An `after` beyond the log reads nothing.     *)
ReadAfter(after, limit) ==
  LET gone  == after + 1 < FirstSeq
      start == IF gone THEN 0 ELSE (after + 1) - FirstSeq
      upto  == IF start + limit < Len(buffer) THEN start + limit ELSE Len(buffer)
  IN  [records |-> SubSeq(buffer, start + 1, upto),
       gap     |-> IF gone
                   THEN [requested_after_seq |-> after, oldest_available_seq |-> FirstSeq]
                   ELSE NoGap]

LogTypeOK ==
  /\ log_seq \in 0..MaxSeq
  /\ buffer \in Seq(1..MaxSeq)
  /\ Len(buffer) <= MaxLen
=============================================================================
