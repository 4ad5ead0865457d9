----------------------------- MODULE LossyFifo -----------------------------
(***************************************************************************)
(* What the log queues promise: one bounded first-in first-out queue per   *)
(* worker.  An entry is refused only while its queue is full, an accepted  *)
(* entry comes out once, whole and in order.                               *)
(***************************************************************************)
EXTENDS Integers, Sequences

CONSTANTS
  Workers,    \* the queues
  Entries,    \* what can be logged
  Capacity    \* the entries a queue has room for

VARIABLES
  queue,      \* queue[w]: the entries accepted and not taken out
  accepted,   \* accepted[w]: what the last enqueue into w returned
  taken       \* the set of entries (one or none) in the logging thread's hands

vars == <<queue, accepted, taken>>

Put(w, e) ==
  /\ Len(queue[w]) < Capacity
  /\ queue' = [queue EXCEPT ![w] = Append(@, e)]
  /\ accepted' = [accepted EXCEPT ![w] = TRUE]
  /\ UNCHANGED taken

Refuse(w) ==
  /\ Len(queue[w]) = Capacity
  /\ accepted' = [accepted EXCEPT ![w] = FALSE]
  /\ UNCHANGED <<queue, taken>>

Take(w) ==
  /\ taken = {}
  /\ queue[w] # <<>>
  /\ taken' = {<<w, Head(queue[w])>>}
  /\ queue' = [queue EXCEPT ![w] = Tail(@)]
  /\ UNCHANGED accepted

PutAway ==
  /\ taken # {}
  /\ taken' = {}
  /\ UNCHANGED <<queue, accepted>>

Init ==
  /\ queue = [w \in Workers |-> <<>>]
  /\ accepted = [w \in Workers |-> TRUE]
  /\ taken = {}

Next ==
  \/ \E w \in Workers : (\E e \in Entries : Put(w, e)) \/ Refuse(w) \/ Take(w)
  \/ PutAway

Spec == Init /\ [][Next]_vars
=============================================================================
