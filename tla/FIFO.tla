-------------------------------- MODULE FIFO --------------------------------
(***************************************************************************)
(* What queue.h promises its callers: an unbounded first-in first-out      *)
(* queue of pointers.  Queue.tla is the ring buffer that implements it.    *)
(***************************************************************************)
EXTENDS Sequences

CONSTANTS Elems, Null

VARIABLES q, alive, ret

vars == <<q, alive, ret>>

Init == q = <<>> /\ alive = TRUE /\ ret = Null

queue_create == ~ alive /\ alive' = TRUE /\ q' = <<>> /\ ret' = Null

queue_enqueue(elem) ==
  /\ alive
  /\ q' = Append(q, elem)
  /\ UNCHANGED <<alive, ret>>

queue_peek ==
  /\ alive
  /\ ret' = IF q = <<>> THEN Null ELSE Head(q)
  /\ UNCHANGED <<q, alive>>

queue_dequeue ==
  /\ alive
  /\ ret' = IF q = <<>> THEN Null ELSE Head(q)
  /\ q' = IF q = <<>> THEN q ELSE Tail(q)
  /\ UNCHANGED alive

queue_free == alive /\ alive' = FALSE /\ q' = <<>> /\ UNCHANGED ret

Next ==
  \/ queue_create
  \/ \E elem \in Elems : queue_enqueue(elem)
  \/ queue_peek
  \/ queue_dequeue
  \/ queue_free

Spec == Init /\ [][Next]_vars
=============================================================================
