---------------------------- MODULE AtLeastOnce ----------------------------
(***************************************************************************)
(* What the bridge promises (the table in the docstring of                 *)
(* src/ingest/bikeshare_bridge/bridge.py, and checkpoint.py:1-6): events   *)
(* are copied in any order and any number of times, and the position from  *)
(* which copying would start again only moves forward, and only over       *)
(* events that have been copied or are excused (reported lost upstream, or *)
(* older than the first live start).  A new world starts a new numbering.  *)
(* When the source has fallen back behind what it had numbered, copying    *)
(* may start over from its oldest event.                                   *)
(***************************************************************************)
EXTENDS Naturals

VARIABLES
  world,       \* the numbering in force
  newest,      \* the seq of the newest event the source has in it
  emitted,     \* events the source has numbered, of every world
  delivered,   \* events with at least one copy at the destination
  excused,     \* events reported lost, or before the first live start
  position     \* where copying would start again, in this world

avars == <<world, newest, emitted, delivered, excused, position>>

Event(n) == [world |-> world, seq |-> n]

Init ==
  /\ world = 1 /\ newest = 0
  /\ emitted = {} /\ delivered = {} /\ excused = {}
  /\ position = 0

Emit ==
  /\ newest' > newest
  /\ emitted' = emitted \cup {Event(n) : n \in 1..newest'}
  /\ UNCHANGED <<world, delivered, excused, position>>

(* The source has lost the end of its log; the numbering stays. *)
FallBack ==
  /\ newest' < newest
  /\ UNCHANGED <<world, emitted, delivered, excused, position>>

NewWorld ==
  /\ world' = world + 1 /\ newest' = 0
  /\ position' = 0
  /\ UNCHANGED <<emitted, delivered, excused>>

Deliver ==
  /\ delivered \subseteq delivered' /\ delivered' \subseteq emitted
  /\ UNCHANGED <<world, newest, emitted, excused, position>>

Excuse ==
  /\ excused \subseteq excused' /\ excused' \subseteq emitted
  /\ UNCHANGED <<world, newest, emitted, delivered, position>>

Advance ==
  /\ position' > position
  /\ \A n \in 1..position' : Event(n) \in delivered \cup excused
  /\ UNCHANGED <<world, newest, emitted, delivered, excused>>

(* Only while the source is behind what it has numbered. *)
StartOver ==
  /\ \E e \in emitted : e.world = world /\ e.seq > newest
  /\ position' = 0
  /\ UNCHANGED <<world, newest, emitted, delivered, excused>>

Next == Emit \/ FallBack \/ NewWorld \/ Deliver \/ Excuse \/ Advance \/ StartOver

Spec == Init /\ [][Next]_avars
=============================================================================
