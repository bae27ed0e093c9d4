-------------------------------- MODULE Heap --------------------------------
(***************************************************************************)
(* The binary heap of heap.c.  An operation is its first action, one       *)
(* action per turn of its bubbling loop, and the end of the loop: the      *)
(* loops read their indices and elements anew in every turn.               *)
(*                                                                         *)
(* Elements are pointers; no caller inserts a pointer that is in the heap. *)
(* The buffer beyond size is never read and is left out.                   *)
(***************************************************************************)
EXTENDS Integers, FiniteSets

CONSTANTS
  Elems,             \* the pointers the callers insert
  Key,               \* what the comparator compares: an integer per element
  Null,              \* ret before heap_min or heap_pop_min has returned
  DefaultCapacity    \* DEFAULT_CAPACITY

ASSUME KeyAssumption == Key \in [Elems -> Int] /\ Null \notin Elems
ASSUME DefaultCapacityAssumption == DefaultCapacity \in Nat \ {0}

VARIABLES
  elems, size, capacity,  \* the fields of struct heap
  pc,                     \* "idle", or the loop of heap_insert or heap_pop_min
  index,                  \* the index of the bubbling loop
  alive,                  \* the structure is allocated
  ret,                    \* what heap_min or heap_pop_min returned last
  popLeft                 \* history: how many elements the last pop left

fields == <<elems, size, capacity>>
vars == <<fields, pc, index, alive, ret, popLeft>>

Indices == 0 .. size - 1

TypeOK ==
  /\ size \in Nat
  /\ elems \in [Indices -> Elems]
  /\ capacity \in Nat \ {0} /\ size <= capacity
  /\ pc \in {"idle", "up", "down"}
  /\ index \in Nat /\ (pc = "up" => index \in Indices)
  /\ alive \in BOOLEAN
  /\ ret \in Elems \cup {Null}
  /\ popLeft \in Nat

-----------------------------------------------------------------------------
KeyAt(i) == Key[elems[i]]

\* An element that is in the array, at any index.
Live == {elems[i] : i \in Indices}

\* The parent of the 1-indexed tree, taken of a 0-based index.
parent_index(i) == i \div 2

MutantChildrenOfHalf(i) == {2 * i, 2 * i + 1} \cap Indices

children(i) == {2 * i + 1, 2 * i + 2} \cap Indices

MutantLargestNotGreater(i) ==
  LET smaller == {c \in children(i) : KeyAt(c) <= KeyAt(i)}
  IN  IF smaller = {} THEN 0
      ELSE CHOOSE c \in smaller : \A d \in smaller :
             KeyAt(d) < KeyAt(c) \/ (KeyAt(d) = KeyAt(c) /\ d <= c)

\* The child of larger key among those smaller than their parent, the right
\* one of two that are equal, and 0 if neither is smaller.
largest_child_greater_than(i) ==
  LET smaller == {c \in children(i) : KeyAt(c) < KeyAt(i)}
  IN  IF smaller = {} THEN 0
      ELSE CHOOSE c \in smaller : \A d \in smaller :
             KeyAt(d) < KeyAt(c) \/ (KeyAt(d) = KeyAt(c) /\ d <= c)

MutantSwap(i, j) == elems' = [elems EXCEPT ![i] = elems[j]]

swap_elem(i, j) == elems' = [elems EXCEPT ![i] = elems[j], ![j] = elems[i]]

-----------------------------------------------------------------------------
Init ==
  /\ size = 0 /\ elems = [i \in {} |-> Null] /\ capacity = DefaultCapacity
  /\ pc = "idle" /\ index = 0
  /\ alive = TRUE
  /\ ret = Null
  /\ popLeft = 0

heap_create ==
  /\ ~ alive
  /\ size' = 0 /\ elems' = [i \in {} |-> Null] /\ capacity' = DefaultCapacity
  /\ pc' = "idle" /\ index' = 0
  /\ alive' = TRUE
  /\ ret' = Null
  /\ popLeft' = 0

MutantGrow == capacity' = IF size > capacity THEN 2 * capacity ELSE capacity

\* Resize if capacity exceeded.
Grow == capacity' = IF size + 1 > capacity THEN 2 * capacity ELSE capacity

heap_insert(elem) ==
  /\ alive /\ pc = "idle"
  /\ elem \notin Live
  /\ Grow
  /\ elems' = [i \in 0 .. size |-> IF i = size THEN elem ELSE elems[i]]
  /\ size' = size + 1
  /\ index' = size
  /\ pc' = "up"
  /\ UNCHANGED <<alive, ret, popLeft>>

MutantMustRise == index > 1 /\ KeyAt(index) < KeyAt(parent_index(index))

MustRise == index # 0 /\ KeyAt(index) < KeyAt(parent_index(index))

\* One turn of the loop of heap_insert.
BubbleUp ==
  /\ pc = "up" /\ MustRise
  /\ swap_elem(index, parent_index(index))
  /\ index' = parent_index(index)
  /\ UNCHANGED <<size, capacity, pc, alive, ret, popLeft>>

EndInsert ==
  /\ pc = "up" /\ ~ MustRise
  /\ pc' = "idle"
  /\ index' = 0
  /\ UNCHANGED <<fields, alive, ret, popLeft>>

\* The size of the heap is asserted.
heap_min ==
  /\ alive /\ pc = "idle" /\ size > 0
  /\ ret' = elems[0]
  /\ UNCHANGED <<fields, pc, index, alive, popLeft>>

heap_pop_min ==
  /\ alive /\ pc = "idle" /\ size > 0
  /\ ret' = elems[0]
  /\ elems' = [i \in 0 .. size - 2 |-> IF i = 0 THEN elems[size - 1] ELSE elems[i]]
  /\ size' = size - 1
  /\ pc' = "down"
  /\ popLeft' = size - 1
  /\ UNCHANGED <<capacity, index, alive>>

\* One turn of the loop of heap_pop_min, whose index stays 0.
BubbleDown ==
  /\ pc = "down" /\ largest_child_greater_than(0) # 0
  /\ swap_elem(0, largest_child_greater_than(0))
  /\ UNCHANGED <<size, capacity, pc, index, alive, ret, popLeft>>

EndPop ==
  /\ pc = "down" /\ largest_child_greater_than(0) = 0
  /\ pc' = "idle"
  /\ UNCHANGED <<fields, index, alive, ret, popLeft>>

heap_free ==
  /\ alive /\ pc = "idle"
  /\ alive' = FALSE
  /\ UNCHANGED <<fields, pc, index, ret, popLeft>>

Loop == BubbleUp \/ EndInsert \/ BubbleDown \/ EndPop

Next ==
  \/ heap_create
  \/ \E elem \in Elems : heap_insert(elem)
  \/ heap_min
  \/ heap_pop_min
  \/ Loop
  \/ heap_free

Spec == Init /\ [][Next]_vars

\* The code is sequential: a loop that can turn does.
FairSpec == Spec /\ WF_vars(Loop)

-----------------------------------------------------------------------------
(***************************************************************************)
(* Properties                                                              *)
(***************************************************************************)
Abstract == INSTANCE PriorityQueue WITH pool <- IF alive THEN Live ELSE {}

\* heap_min and heap_pop_min return an element of least key.
IsPriorityQueue == Abstract!Spec

\* Whatever they return, no element is lost, invented or returned twice, and
\* the loops do not change what is in the heap.
IsPool == Abstract!PoolSpec

\* They return the minimum until a pop leaves more than three elements, and
\* again from the next pop on that does not.
MinUnlessBigPop ==
  Abstract!Init /\ [][Abstract!Next \/ popLeft > 3]_(Abstract!vars)

\* Between operations the root's key is at most those of indices 1 and 2.
RootOrder ==
  pc = "idle" => \A c \in {1, 2} \cap Indices : KeyAt(0) <= KeyAt(c)

\* Every turn of a loop brings its end nearer: the element that rises has fewer
\* indices before it, and the index of the other loop stays, but fewer elements of
\* the heap are smaller than the root.
TurnsLeft ==
  CASE pc = "idle" -> 0
    [] pc = "up" -> index + 1
    [] pc = "down" -> Cardinality({e \in Live : Key[e] < KeyAt(0)}) + 1

TurnsRunOut == [][Loop => TurnsLeft' \in Nat /\ TurnsLeft' < TurnsLeft]_vars

\* Every operation ends, although heap_pop_min never moves its index.
OperationEnds == pc # "idle" ~> pc = "idle"
=============================================================================
