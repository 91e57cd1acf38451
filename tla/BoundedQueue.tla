---------------------------- MODULE BoundedQueue -----------------------------
(***************************************************************************)
(* What ring and the channel over it promise: a queue of at most Capacity  *)
(* items.  last is the last call that took effect: a push or a pop, of an  *)
(* item or, when it was refused, of None.                                  *)
(***************************************************************************)
EXTENDS Naturals, Sequences

CONSTANTS Items, None, Capacity

VARIABLES queue, last

vars == <<queue, last>>

Init ==
  /\ queue = <<>>
  /\ last = [op |-> "none", item |-> None]

Push(x) ==
  /\ Len(queue) < Capacity
  /\ queue' = Append(queue, x)
  /\ last' = [op |-> "push", item |-> x]

Pop ==
  /\ queue # <<>>
  /\ last' = [op |-> "pop", item |-> Head(queue)]
  /\ queue' = Tail(queue)

PushRefused ==
  /\ Len(queue) = Capacity
  /\ last' = [op |-> "push", item |-> None]
  /\ UNCHANGED queue

PopRefused ==
  /\ queue = <<>>
  /\ last' = [op |-> "pop", item |-> None]
  /\ UNCHANGED queue

Clear == queue' = <<>> /\ UNCHANGED last

Next == Clear \/ Pop \/ PushRefused \/ PopRefused \/ \E x \in Items : Push(x)

Spec == Init /\ [][Next]_vars

=============================================================================
