--------------------------- MODULE PriorityQueue ---------------------------
(***************************************************************************)
(* What heap.h promises its callers: a pool of pointers from which         *)
(* heap_min and heap_pop_min take one of least key.  Heap.tla is the       *)
(* binary heap that the simulator keeps its pending events in.             *)
(***************************************************************************)
EXTENDS Integers

CONSTANTS Elems, Key, Null

VARIABLES pool, alive, ret

vars == <<pool, alive, ret>>

Least(S) == {m \in S : \A e \in S : Key[m] <= Key[e]}

Init == pool = {} /\ alive = TRUE /\ ret = Null

heap_create == ~ alive /\ alive' = TRUE /\ pool' = {} /\ ret' = Null

heap_insert(elem) ==
  /\ alive /\ elem \notin pool
  /\ pool' = pool \cup {elem}
  /\ UNCHANGED <<alive, ret>>

\* heap_min, and heap_pop_min, when they may choose among the elements of S.
MinFrom(S) == alive /\ ret' \in S /\ UNCHANGED <<pool, alive>>

PopFrom(S) == alive /\ ret' \in S /\ pool' = pool \ {ret'} /\ UNCHANGED alive

heap_free == alive /\ alive' = FALSE /\ pool' = {} /\ UNCHANGED ret

NextFrom(S) ==
  \/ heap_create
  \/ \E elem \in Elems : heap_insert(elem)
  \/ MinFrom(S)
  \/ PopFrom(S)
  \/ heap_free

Next == NextFrom(Least(pool))

Spec == Init /\ [][Next]_vars

\* The weaker promise that no element is lost, invented or returned twice.
PoolSpec == Init /\ [][NextFrom(pool)]_vars
=============================================================================
