-------------------------------- MODULE Fifo --------------------------------
(***************************************************************************)
(* What queue.h promises: an unbounded first-in first-out queue shared by  *)
(* several threads.  Module Queue, the ring buffer of queue.c, implements  *)
(* it.                                                                     *)
(***************************************************************************)
EXTENDS Sequences

CONSTANT Values

VARIABLES
  items,   \* the elements, oldest first
  last     \* the element the last successful pop returned, if any

vars == <<items, last>>

Init == items = <<>> /\ last = <<>>

Push(v) == items' = Append(items, v) /\ UNCHANGED last

Pop ==
  /\ items # <<>>
  /\ last' = <<Head(items)>>
  /\ items' = Tail(items)

Next == Pop \/ \E v \in Values : Push(v)

Spec == Init /\ [][Next]_vars

=============================================================================
