---------------------------- MODULE Heap_proofs ----------------------------
(***************************************************************************)
(* Proofs about the binary heap, for every set of elements, keys and       *)
(* initial capacity.                                                       *)
(***************************************************************************)
EXTENDS Heap, FiniteSetTheorems, TLAPS

\* No pointer is in the heap at two indices.
Distinct == \A i, j \in Indices : i # j => elems[i] # elems[j]

HeapInv == TypeOK /\ Distinct

LEMMA ParentInside ==
  ASSUME TypeOK, NEW i \in Indices, i # 0
  PROVE  parent_index(i) \in Indices /\ parent_index(i) # i
BY DEF TypeOK, Indices, parent_index

LEMMA KeyType ==
  ASSUME TypeOK, NEW i \in Indices
  PROVE  KeyAt(i) \in Int
BY KeyAssumption DEF TypeOK, KeyAt

\* What BubbleDown swaps the root with: a smaller child, if there is one.
LEMMA LargestChild ==
  ASSUME TypeOK
  PROVE  \/ /\ largest_child_greater_than(0) = 0
            /\ \A c \in children(0) : ~ (KeyAt(c) < KeyAt(0))
         \/ /\ largest_child_greater_than(0) \in children(0)
            /\ largest_child_greater_than(0) \in {1, 2}
            /\ KeyAt(largest_child_greater_than(0)) < KeyAt(0)
<1> DEFINE smaller == {c \in children(0) : KeyAt(c) < KeyAt(0)}
           Largest(c) == \A d \in smaller :
                           KeyAt(d) < KeyAt(c) \/ (KeyAt(d) = KeyAt(c) /\ d <= c)
<1>0. smaller \subseteq {1, 2} /\ smaller \subseteq Indices
  BY DEF children
<1>1. CASE smaller = {}
  BY <1>1 DEF largest_child_greater_than
<1>2. CASE smaller # {}
  <2>1. \A c \in smaller : KeyAt(c) \in Int
    BY <1>0, KeyType
  <2>2. \E c \in smaller : Largest(c)
    <3>1. CASE smaller = {1} \/ smaller = {2}
      BY <2>1, <3>1
    <3>2. CASE smaller = {1, 2}
      <4>1. KeyAt(1) \in Int /\ KeyAt(2) \in Int
        BY <2>1, <3>2
      <4>2. CASE KeyAt(1) <= KeyAt(2)
        <5>1. Largest(2)
          BY <3>2, <4>1, <4>2
        <5> QED  BY <3>2, <5>1
      <4>3. CASE KeyAt(2) < KeyAt(1)
        <5>1. Largest(1)
          BY <3>2, <4>1, <4>3
        <5> QED  BY <3>2, <5>1
      <4> QED  BY <4>1, <4>2, <4>3
    <3> QED  BY <1>0, <1>2, <3>1, <3>2
  <2>3. largest_child_greater_than(0) = CHOOSE c \in smaller : Largest(c)
    BY <1>2 DEF largest_child_greater_than
  <2>4. largest_child_greater_than(0) \in smaller
    <3> HIDE DEF smaller, Largest
    <3> QED  BY <2>2, <2>3
  <2> QED  BY <1>0, <2>4
<1> QED  BY <1>1, <1>2

\* A swap moves no pointer in or out of the heap.
LEMMA SwapKeeps ==
  ASSUME HeapInv, NEW i \in Indices, NEW j \in Indices, swap_elem(i, j), size' = size
  PROVE  /\ elems' \in [Indices -> Elems]
         /\ Indices' = Indices
         /\ Distinct'
         /\ Live' = Live
<1>1. /\ elems \in [Indices -> Elems] /\ Distinct
      /\ elems' = [elems EXCEPT ![i] = elems[j], ![j] = elems[i]]
  BY DEF HeapInv, TypeOK, swap_elem
<1>2. Indices' = Indices
  BY DEF Indices
<1>3. \A k \in Indices : elems'[k] = IF k = j THEN elems[i]
                                     ELSE IF k = i THEN elems[j] ELSE elems[k]
  BY <1>1
<1>4. elems' \in [Indices -> Elems]
  BY <1>1
<1>5. Distinct'
  BY <1>1, <1>2, <1>3 DEF Distinct
<1>6. Live' = Live
  BY <1>2, <1>3 DEF Live
<1> QED  BY <1>2, <1>4, <1>5, <1>6

\* Inserting adds a pointer at the end; popping moves the last one to the root.
LEMMA InsertAdds ==
  ASSUME HeapInv, NEW elem \in Elems, heap_insert(elem)
  PROVE  /\ elems' \in [Indices' -> Elems]
         /\ Distinct'
         /\ Live' = Live \cup {elem}
         /\ index' \in Indices' /\ index' = size
         /\ Indices' = Indices \cup {size} /\ size \notin Indices
         /\ \A i \in Indices : elems'[i] = elems[i]
<1>1. /\ size \in Nat /\ elems \in [Indices -> Elems] /\ Distinct
      /\ elem \notin Live /\ size' = size + 1 /\ index' = size
      /\ elems' = [i \in 0 .. size |-> IF i = size THEN elem ELSE elems[i]]
  BY DEF HeapInv, TypeOK, heap_insert
<1>2. 0 .. size = Indices' /\ Indices' = Indices \cup {size} /\ size \notin Indices
  BY <1>1 DEF Indices
<1>3. /\ \A i \in Indices : elems'[i] = elems[i]
      /\ elems'[size] = elem
      /\ elems' \in [Indices' -> Elems]
  BY <1>1, <1>2
<1>4. Distinct'
  BY <1>1, <1>2, <1>3 DEF Distinct, Live
<1>5. Live' = Live \cup {elem}
  BY <1>2, <1>3 DEF Live
<1> QED  BY <1>1, <1>2, <1>3, <1>4, <1>5

LEMMA PopRemoves ==
  ASSUME HeapInv, heap_pop_min
  PROVE  /\ elems' \in [Indices' -> Elems]
         /\ Distinct'
         /\ Live' = Live \ {elems[0]}
         /\ elems[0] \in Live
<1>1. /\ size \in Nat /\ size > 0 /\ elems \in [Indices -> Elems] /\ Distinct
      /\ size' = size - 1
      /\ elems' = [i \in 0 .. size - 2 |-> IF i = 0 THEN elems[size - 1] ELSE elems[i]]
  BY DEF HeapInv, TypeOK, heap_pop_min
<1>2. /\ Indices' = 0 .. size - 2 /\ Indices' = Indices \ {size - 1}
      /\ 0 \in Indices /\ size - 1 \in Indices
  BY <1>1 DEF Indices
<1>3. \A i \in Indices' : elems'[i] = IF i = 0 THEN elems[size - 1] ELSE elems[i]
  BY <1>1, <1>2
<1>4. elems' \in [Indices' -> Elems]
  BY <1>1, <1>2
<1>5. Distinct'
  BY <1>1, <1>2, <1>3 DEF Distinct
<1>6. ASSUME NEW x PROVE x \in Live' <=> x \in Live /\ x # elems[0]
  <2>1. ASSUME x \in Live' PROVE x \in Live /\ x # elems[0]
    <3>1. PICK i \in Indices' : x = elems'[i]
      BY <2>1 DEF Live
    <3>2. CASE i = 0
      <4>1. x = elems[size - 1] /\ size - 1 # 0
        BY <1>1, <1>2, <1>3, <3>1, <3>2
      <4> QED  BY <1>1, <1>2, <4>1 DEF Live, Distinct
    <3>3. CASE i # 0
      BY <1>1, <1>2, <1>3, <3>1, <3>3 DEF Live, Distinct
    <3> QED  BY <3>2, <3>3
  <2>2. ASSUME x \in Live, x # elems[0] PROVE x \in Live'
    <3>1. PICK i \in Indices : x = elems[i]
      BY <2>2 DEF Live
    <3>2. i # 0
      BY <2>2, <3>1
    <3>3. CASE i = size - 1
      <4>1. 0 \in Indices' /\ elems'[0] = x
        BY <1>1, <1>2, <1>3, <3>1, <3>2, <3>3
      <4> QED  BY <4>1 DEF Live
    <3>4. CASE i # size - 1
      <4>1. i \in Indices' /\ elems'[i] = x
        BY <1>2, <1>3, <3>1, <3>2, <3>4
      <4> QED  BY <4>1 DEF Live
    <3> QED  BY <3>3, <3>4
  <2> QED  BY <2>1, <2>2
<1>7. elems[0] \in Live
  BY <1>2 DEF Live
<1> QED  BY <1>4, <1>5, <1>6, <1>7

-----------------------------------------------------------------------------
(***************************************************************************)
(* Type correctness, and conservation of the elements.                     *)
(***************************************************************************)
LEMMA HeapInit == Init => HeapInv
<1> SUFFICES ASSUME Init PROVE HeapInv
  OBVIOUS
<1>1. Indices = {}
  BY DEF Init, Indices
<1> QED  BY <1>1, DefaultCapacityAssumption DEF Init, HeapInv, TypeOK, Distinct

LEMMA HeapStep == HeapInv /\ [Next]_vars => HeapInv'
<1> SUFFICES ASSUME HeapInv, [Next]_vars PROVE HeapInv'
  OBVIOUS
<1>t. TypeOK /\ Distinct
  BY DEF HeapInv
<1>1. CASE heap_create
  <2>1. Indices' = {}
    BY <1>1 DEF heap_create, Indices
  <2>2. elems' \in [Indices' -> Elems] /\ Distinct'
    BY <1>1, <2>1 DEF heap_create, Distinct
  <2>3. /\ size' = 0 /\ capacity' = DefaultCapacity /\ alive' = TRUE
        /\ ret' = Null /\ popLeft' = 0 /\ pc' = "idle" /\ index' = 0
    BY <1>1 DEF heap_create
  <2> QED  BY <2>2, <2>3, DefaultCapacityAssumption DEF HeapInv, TypeOK
<1>2. ASSUME NEW elem \in Elems, heap_insert(elem)
      PROVE  HeapInv'
  <2>1. size' \in Nat /\ capacity' \in Nat \ {0} /\ size' <= capacity'
    <3>1. size \in Nat /\ capacity \in Nat \ {0} /\ size <= capacity
      BY <1>t DEF TypeOK
    <3>2. size' = size + 1 /\ capacity' = IF size + 1 > capacity THEN 2 * capacity ELSE capacity
      BY <1>2 DEF heap_insert, Grow
    <3> QED  BY <3>1, <3>2
  <2>2. index' \in Nat /\ index' \in Indices' /\ pc' = "up"
    BY <1>t, <1>2, InsertAdds DEF heap_insert, HeapInv, TypeOK
  <2>3. elems' \in [Indices' -> Elems] /\ Distinct'
    BY <1>2, InsertAdds
  <2>4. UNCHANGED <<alive, ret, popLeft>>
    BY <1>2 DEF heap_insert
  <2> QED  BY <1>t, <2>1, <2>2, <2>3, <2>4 DEF HeapInv, TypeOK
<1>3. CASE BubbleUp
  <2>1. index \in Indices /\ index # 0 /\ index \in Nat
    BY <1>t, <1>3 DEF BubbleUp, MustRise, TypeOK
  <2>2. parent_index(index) \in Indices
    BY <1>t, <2>1, ParentInside
  <2>3. swap_elem(index, parent_index(index)) /\ size' = size
    BY <1>3 DEF BubbleUp
  <2>4. elems' \in [Indices' -> Elems] /\ Indices' = Indices /\ Distinct'
    BY <2>1, <2>2, <2>3, SwapKeeps
  <2>5. parent_index(index) \in Nat
    BY <2>2 DEF Indices
  <2> QED  BY <1>t, <1>3, <2>2, <2>4, <2>5 DEF BubbleUp, HeapInv, TypeOK
<1>4. CASE EndInsert
  BY <1>t, <1>4 DEF EndInsert, fields, HeapInv, TypeOK, Distinct, Indices
<1>5. CASE heap_min
  <2>1. 0 \in Indices
    BY <1>t, <1>5 DEF heap_min, TypeOK, Indices
  <2> QED  BY <1>t, <1>5, <2>1 DEF heap_min, fields, HeapInv, TypeOK, Distinct, Indices
<1>6. CASE heap_pop_min
  <2>1. 0 \in Indices /\ size' \in Nat /\ size' <= capacity
    BY <1>t, <1>6 DEF heap_pop_min, TypeOK, Indices
  <2> QED  BY <1>t, <1>6, <2>1, PopRemoves DEF heap_pop_min, HeapInv, TypeOK
<1>7. CASE BubbleDown
  <2>1. 0 \in Indices /\ largest_child_greater_than(0) \in Indices
    BY <1>t, <1>7, LargestChild DEF BubbleDown, children, TypeOK, Indices
  <2>2. swap_elem(0, largest_child_greater_than(0)) /\ size' = size
    BY <1>7 DEF BubbleDown
  <2>3. elems' \in [Indices' -> Elems] /\ Indices' = Indices /\ Distinct'
    BY <2>1, <2>2, SwapKeeps
  <2> QED  BY <1>t, <1>7, <2>3 DEF BubbleDown, HeapInv, TypeOK
<1>8. CASE EndPop
  BY <1>t, <1>8 DEF EndPop, fields, HeapInv, TypeOK, Distinct, Indices
<1>9. CASE heap_free
  BY <1>t, <1>9 DEF heap_free, fields, HeapInv, TypeOK, Distinct, Indices
<1>10. CASE UNCHANGED vars
  BY <1>t, <1>10 DEF vars, fields, HeapInv, TypeOK, Distinct, Indices
<1> QED
  BY <1>1, <1>2, <1>3, <1>4, <1>5, <1>6, <1>7, <1>8, <1>9, <1>10 DEF Next, Loop

\* Type correctness: the indices of the loops stay inside the array, and the
\* array inside its allocation.
THEOREM TypeCorrect == Spec => []TypeOK
<1>1. HeapInv => TypeOK
  BY DEF HeapInv
<1> QED  BY <1>1, HeapInit, HeapStep, PTL DEF Spec

\* The pointers in the heap, as the abstract specification sees them.
Pool == IF alive THEN Live ELSE {}

LEMMA PoolInit == Init => Abstract!Init
BY DEF Init, Abstract!Init, Live, Indices

\* A step of the heap other than heap_min and heap_pop_min is one of the
\* abstract queue whatever these two may return.
LEMMA OtherStep ==
  ASSUME HeapInv, [Next]_vars, ~ heap_min, ~ heap_pop_min, NEW S
  PROVE  Abstract!NextFrom(S) \/ UNCHANGED Abstract!vars
<1>t. TypeOK
  BY DEF HeapInv
<1>1. CASE heap_create
  <2>1. Live' = {}
    BY <1>1 DEF heap_create, Live, Indices
  <2> QED  BY <1>1, <2>1 DEF heap_create, Abstract!NextFrom, Abstract!heap_create
<1>2. ASSUME NEW elem \in Elems, heap_insert(elem)
      PROVE  Abstract!heap_insert(elem)
  <2>1. Live' = Live \cup {elem} /\ elem \notin Live
    BY <1>2, InsertAdds DEF heap_insert
  <2> QED  BY <1>2, <2>1 DEF heap_insert, Abstract!heap_insert
<1>3. CASE BubbleUp
  <2>1. index \in Indices /\ parent_index(index) \in Indices
    BY <1>t, <1>3, ParentInside DEF BubbleUp, MustRise, TypeOK
  <2>2. Live' = Live
    BY <1>3, <2>1, SwapKeeps DEF BubbleUp
  <2> QED  BY <1>3, <2>2 DEF BubbleUp, Abstract!vars
<1>4. CASE BubbleDown
  <2>1. 0 \in Indices /\ largest_child_greater_than(0) \in Indices
    BY <1>t, <1>4, LargestChild DEF BubbleDown, children, TypeOK, Indices
  <2>2. Live' = Live
    BY <1>4, <2>1, SwapKeeps DEF BubbleDown
  <2> QED  BY <1>4, <2>2 DEF BubbleDown, Abstract!vars
<1>5. CASE heap_free
  BY <1>5 DEF heap_free, Abstract!NextFrom, Abstract!heap_free
<1>6. CASE EndInsert \/ EndPop \/ UNCHANGED vars
  <2>1. UNCHANGED <<fields, alive, ret>>
    BY <1>6 DEF EndInsert, EndPop, vars
  <2>2. Live' = Live
    BY <2>1 DEF fields, Live, Indices
  <2> QED  BY <2>1, <2>2 DEF Abstract!vars
<1> QED
  BY <1>1, <1>2, <1>3, <1>4, <1>5, <1>6 DEF Next, Loop, Abstract!NextFrom

\* heap_min and heap_pop_min return the root.
LEMMA RootStep ==
  ASSUME HeapInv, heap_min \/ heap_pop_min, NEW S, elems[0] \in S
  PROVE  Abstract!NextFrom(S)
<1>1. CASE heap_min
  <2>1. Live' = Live
    BY <1>1 DEF heap_min, fields, Live, Indices
  <2> QED  BY <1>1, <2>1 DEF heap_min, Abstract!NextFrom, Abstract!MinFrom
<1>2. CASE heap_pop_min
  <2>1. Live' = Live \ {elems[0]}
    BY <1>2, PopRemoves
  <2> QED  BY <1>2, <2>1 DEF heap_pop_min, Abstract!NextFrom, Abstract!PopFrom
<1> QED  BY <1>1, <1>2

\* The root of a heap that is asked for its minimum is in it.
LEMMA RootLive ==
  ASSUME HeapInv, heap_min \/ heap_pop_min
  PROVE  alive /\ pc = "idle" /\ 0 \in Indices /\ elems[0] \in Live
<1>1. 0 \in Indices
  BY DEF heap_min, heap_pop_min, HeapInv, TypeOK, Indices
<1> QED  BY <1>1 DEF heap_min, heap_pop_min, Live

LEMMA PoolStep ==
  HeapInv /\ [Next]_vars => [Abstract!NextFrom(Pool)]_(Abstract!vars)
<1> SUFFICES ASSUME HeapInv, [Next]_vars
             PROVE  Abstract!NextFrom(Pool) \/ UNCHANGED Abstract!vars
  OBVIOUS
<1>1. CASE heap_min \/ heap_pop_min
  <2>1. elems[0] \in Pool
    BY <1>1, RootLive DEF Pool
  <2> QED  BY <1>1, <2>1, RootStep
<1>2. CASE ~ heap_min /\ ~ heap_pop_min
  BY <1>2, OtherStep
<1> QED  BY <1>1, <1>2

\* No element is lost, invented or returned twice.
THEOREM ElementsConserved == Spec => IsPool
<1>1. HeapInv /\ [Next]_vars => [Abstract!NextFrom(Pool)]_(Abstract!vars)
  BY PoolStep
<1> QED
  BY <1>1, HeapInit, HeapStep, PoolInit, PTL
  DEF Spec, IsPool, Abstract!PoolSpec, Pool

-----------------------------------------------------------------------------
(***************************************************************************)
(* What heap_insert preserves.  C is a set of indices that contains every  *)
(* parent of its members: all of them for the minimum, {1, 2} for the      *)
(* root's order.  While an element rises, it alone may be smaller than the *)
(* root; parent_index need not be the parent that children suggests.       *)
(***************************************************************************)
Rooted(C) ==
  /\ pc = "idle" => \A i \in C \cap Indices : KeyAt(0) <= KeyAt(i)
  /\ pc = "up" => \A i \in C \cap Indices : i # index \/ index = 0 => KeyAt(0) <= KeyAt(i)

Closed(C) == C \subseteq Nat /\ \A i \in C \ {0} : parent_index(i) \in C \cup {0}

LEMMA InsertRooted ==
  ASSUME HeapInv, NEW C, Rooted(C), NEW elem \in Elems, heap_insert(elem)
  PROVE  Rooted(C)'
<1>1. /\ index' = size /\ Indices' = Indices \cup {size} /\ size \notin Indices
      /\ \A i \in Indices : elems'[i] = elems[i]
      /\ pc = "idle" /\ pc' = "up" /\ size \in Nat
  BY InsertAdds DEF heap_insert, HeapInv, TypeOK
<1>2. ASSUME NEW i \in C \cap Indices', i # index' \/ index' = 0
      PROVE  KeyAt(0)' <= KeyAt(i)'
  <2>1. CASE i = size
    <3>1. i = 0 /\ 0 \in Indices'
      BY <1>1, <1>2, <2>1
    <3>2. KeyAt(0)' \in Int
      BY <3>1, InsertAdds, KeyAssumption DEF KeyAt
    <3> QED  BY <3>1, <3>2
  <2>2. CASE i # size
    <3>1. i \in Indices /\ 0 \in Indices
      BY <1>1, <1>2, <2>2 DEF Indices
    <3>2. KeyAt(0)' = KeyAt(0) /\ KeyAt(i)' = KeyAt(i)
      BY <1>1, <3>1 DEF KeyAt
    <3> QED  BY <1>1, <1>2, <3>1, <3>2 DEF Rooted
  <2> QED  BY <2>1, <2>2
<1> QED  BY <1>1, <1>2 DEF Rooted

LEMMA BubbleUpRooted ==
  ASSUME HeapInv, NEW C, Closed(C), Rooted(C), BubbleUp
  PROVE  Rooted(C)'
<1> DEFINE p == parent_index(index)
<1>1. /\ pc = "up" /\ pc' = "up" /\ index \in Indices /\ index # 0
      /\ KeyAt(index) < KeyAt(p)
      /\ elems' = [elems EXCEPT ![index] = elems[p], ![p] = elems[index]]
      /\ index' = p /\ size' = size /\ elems \in [Indices -> Elems]
  BY DEF BubbleUp, MustRise, swap_elem, HeapInv, TypeOK
<1>2. p \in Indices /\ p # index /\ Indices' = Indices /\ 0 \in Indices
  BY <1>1, ParentInside DEF HeapInv, Indices, TypeOK
<1>3. index \in C => p \in C \cup {0}
  BY <1>1 DEF Closed
<1> HIDE DEF p
<1>4. ASSUME NEW i \in Indices
      PROVE  KeyAt(i)' = IF i = p THEN KeyAt(index)
                         ELSE IF i = index THEN KeyAt(p) ELSE KeyAt(i)
  BY <1>1, <1>2, <1>4 DEF KeyAt
<1>5. \A i \in Indices : KeyAt(i) \in Int
  BY KeyType DEF HeapInv
<1>6. \A i \in C \cap Indices : i # index => KeyAt(0) <= KeyAt(i)
  BY <1>1 DEF Rooted
<1>7. KeyAt(0) <= KeyAt(p) \/ index \notin C
  BY <1>2, <1>3, <1>5, <1>6
<1>8. ASSUME NEW i \in C \cap Indices, i # p \/ p = 0
      PROVE  KeyAt(0)' <= KeyAt(i)'
  <2>1. CASE p = 0
    <3>1. KeyAt(0)' = KeyAt(index) /\ KeyAt(index) < KeyAt(0)
      BY <1>1, <1>2, <1>4, <2>1
    <3>2. KeyAt(i)' = KeyAt(index) \/ KeyAt(i)' = KeyAt(0) \/ KeyAt(0) <= KeyAt(i)'
      BY <1>4, <1>6, <1>8, <2>1
    <3> QED  BY <1>1, <1>2, <1>4, <1>5, <1>8, <3>1, <3>2
  <2>2. CASE p # 0
    <3>1. KeyAt(0)' = KeyAt(0)
      BY <1>1, <1>2, <1>4, <2>2
    <3>2. CASE i = index
      BY <1>4, <1>7, <1>8, <2>2, <3>1, <3>2
    <3>3. CASE i # index
      BY <1>4, <1>6, <1>8, <2>2, <3>1, <3>3
    <3> QED  BY <3>2, <3>3
  <2> QED  BY <2>1, <2>2
<1> QED  BY <1>1, <1>2, <1>8 DEF Rooted

LEMMA EndInsertRooted ==
  ASSUME HeapInv, NEW C, Closed(C), Rooted(C), EndInsert
  PROVE  Rooted(C)'
<1>1. /\ pc = "up" /\ pc' = "idle" /\ index \in Indices /\ Indices' = Indices
      /\ elems' = elems /\ (index # 0 => ~ (KeyAt(index) < KeyAt(parent_index(index))))
  BY DEF EndInsert, MustRise, fields, HeapInv, TypeOK, Indices
<1>2. 0 \in Indices /\ \A i \in Indices : KeyAt(i) \in Int
  BY <1>1, KeyType DEF HeapInv, TypeOK, Indices
<1>3. ASSUME NEW i \in C \cap Indices
      PROVE  KeyAt(0) <= KeyAt(i)
  <2>1. CASE i = index /\ index # 0
    <3> DEFINE p == parent_index(index)
    <3>1. p \in Indices /\ p # index /\ p \in C \cup {0}
      BY <1>1, <1>3, <2>1, ParentInside DEF HeapInv, Closed
    <3>2. KeyAt(p) <= KeyAt(index)
      BY <1>1, <1>2, <2>1, <3>1
    <3>3. KeyAt(0) <= KeyAt(p)
      <4> HIDE DEF p
      <4> QED  BY <1>1, <1>2, <3>1 DEF Rooted
    <3> HIDE DEF p
    <3> QED  BY <1>2, <2>1, <3>1, <3>2, <3>3, <1>1
  <2>2. CASE ~ (i = index /\ index # 0)
    BY <1>1, <1>3, <2>2 DEF Rooted
  <2> QED  BY <2>1, <2>2
<1>4. \A i \in Indices : KeyAt(i)' = KeyAt(i)
  BY <1>1 DEF KeyAt
<1> QED  BY <1>1, <1>2, <1>3, <1>4 DEF Rooted

\* When heap_pop_min ends, the root is at most its two children.
LEMMA EndPopRooted ==
  ASSUME HeapInv, NEW C, C \cap Indices \subseteq {0, 1, 2}, EndPop
  PROVE  Rooted(C)'
<1>1. /\ pc' = "idle" /\ Indices' = Indices /\ elems' = elems
      /\ largest_child_greater_than(0) = 0
  BY DEF EndPop, fields, Indices
<1>2. \A i \in Indices : KeyAt(i) \in Int /\ KeyAt(i)' = KeyAt(i)
  BY <1>1, KeyType DEF HeapInv, KeyAt
<1>3. \A c \in children(0) : ~ (KeyAt(c) < KeyAt(0))
  BY <1>1, LargestChild DEF HeapInv, children
<1>4. ASSUME NEW i \in C \cap Indices PROVE KeyAt(0) <= KeyAt(i) /\ 0 \in Indices
  <2>1. 0 \in Indices
    BY DEF HeapInv, TypeOK, Indices
  <2>2. CASE i = 0
    BY <1>2, <2>1, <2>2
  <2>3. CASE i \in {1, 2}
    <3>1. i \in children(0)
      BY <1>4, <2>3 DEF children
    <3> QED  BY <1>2, <1>3, <2>1, <3>1
  <2> QED  BY <1>4, <2>2, <2>3, <2>1
<1> QED  BY <1>1, <1>2, <1>4 DEF Rooted

\* The actions that do not touch the order of a heap that is not popped.
LEMMA QuietRooted ==
  ASSUME NEW C,
         heap_create \/ (Rooted(C) /\ (heap_min \/ heap_free \/ UNCHANGED vars))
           \/ heap_pop_min \/ BubbleDown
  PROVE  Rooted(C)'
<1>1. CASE heap_create
  <2>1. Indices' = {} /\ pc' = "idle"
    BY <1>1 DEF heap_create, Indices
  <2> QED  BY <2>1 DEF Rooted
<1>2. CASE Rooted(C) /\ (heap_min \/ heap_free \/ UNCHANGED vars)
  BY <1>2 DEF heap_min, heap_free, vars, fields, Rooted, Indices, KeyAt
<1>3. CASE heap_pop_min \/ BubbleDown
  BY <1>3 DEF heap_pop_min, BubbleDown, Rooted
<1> QED  BY <1>1, <1>2, <1>3

\* Between operations the root's key is at most those of indices 1 and 2.
THEOREM RootIsOrdered == Spec => []RootOrder
<1> DEFINE OrderInv == HeapInv /\ Rooted({1, 2})
<1>1. Init => OrderInv
  <2>1. Init => Rooted({1, 2})
    BY DEF Init, Rooted, Indices
  <2> QED  BY <2>1, HeapInit
<1>2. OrderInv /\ [Next]_vars => OrderInv'
  <2> SUFFICES ASSUME HeapInv, Rooted({1, 2}), [Next]_vars
               PROVE  Rooted({1, 2})'
    BY HeapStep
  <2>1. Closed({1, 2})
    BY DEF Closed, parent_index
  <2>2. ASSUME NEW elem \in Elems, heap_insert(elem) PROVE Rooted({1, 2})'
    BY <2>2, InsertRooted
  <2>3. CASE BubbleUp
    BY <2>1, <2>3, BubbleUpRooted
  <2>4. CASE EndInsert
    BY <2>1, <2>4, EndInsertRooted
  <2>5. CASE EndPop
    BY <2>5, EndPopRooted
  <2>6. CASE heap_create \/ heap_min \/ heap_free \/ UNCHANGED vars
               \/ heap_pop_min \/ BubbleDown
    BY <2>6, QuietRooted
  <2> QED  BY <2>2, <2>3, <2>4, <2>5, <2>6 DEF Next, Loop
<1>3. OrderInv => RootOrder
  BY DEF Rooted, RootOrder
<1> QED  BY <1>1, <1>2, <1>3, PTL DEF Spec

-----------------------------------------------------------------------------
(***************************************************************************)
(* The minimum.  A pop that leaves at most three elements leaves the root  *)
(* at most its children, which are then all there is; inserting keeps the  *)
(* root the least; a larger pop promises nothing.                          *)
(***************************************************************************)
MinInv ==
  /\ HeapInv
  /\ popLeft <= 3 => Rooted(Nat)
  /\ pc = "down" => size = popLeft

LEMMA MinInit == Init => MinInv
<1>1. Init => Rooted(Nat) /\ pc # "down"
  BY DEF Init, Rooted, Indices
<1> QED  BY <1>1, HeapInit DEF MinInv

LEMMA MinStep == MinInv /\ [Next]_vars => MinInv'
<1> SUFFICES ASSUME MinInv, [Next]_vars PROVE MinInv'
  OBVIOUS
<1>h. HeapInv /\ HeapInv'
  BY HeapStep DEF MinInv
<1>c. Closed(Nat)
  BY DEF Closed, parent_index
<1>1. CASE heap_create
  BY <1>h, <1>1, QuietRooted DEF heap_create, MinInv
<1>2. ASSUME NEW elem \in Elems, heap_insert(elem) PROVE MinInv'
  <2>1. pc' = "up" /\ popLeft' = popLeft
    BY <1>2 DEF heap_insert
  <2>2. popLeft' <= 3 => Rooted(Nat)'
    BY <1>h, <1>2, <2>1, InsertRooted DEF MinInv
  <2> QED  BY <1>h, <2>1, <2>2 DEF MinInv
<1>3. CASE BubbleUp
  <2>1. pc' = "up" /\ popLeft' = popLeft
    BY <1>3 DEF BubbleUp
  <2>2. popLeft' <= 3 => Rooted(Nat)'
    BY <1>h, <1>c, <1>3, <2>1, BubbleUpRooted DEF MinInv
  <2> QED  BY <1>h, <2>1, <2>2 DEF MinInv
<1>4. CASE EndInsert
  <2>1. pc' = "idle" /\ popLeft' = popLeft
    BY <1>4 DEF EndInsert
  <2>2. popLeft' <= 3 => Rooted(Nat)'
    BY <1>h, <1>c, <1>4, <2>1, EndInsertRooted DEF MinInv
  <2> QED  BY <1>h, <2>1, <2>2 DEF MinInv
<1>5. CASE heap_pop_min
  BY <1>h, <1>5, QuietRooted DEF heap_pop_min, MinInv
<1>6. CASE BubbleDown
  BY <1>h, <1>6, QuietRooted DEF BubbleDown, MinInv
<1>7. CASE EndPop
  <2>1. pc = "down" /\ pc' = "idle" /\ popLeft' = popLeft /\ size = popLeft
    BY <1>7 DEF EndPop, MinInv
  <2>2. ASSUME popLeft <= 3 PROVE Rooted(Nat)'
    <3>1. Nat \cap Indices \subseteq {0, 1, 2}
      BY <1>h, <2>1, <2>2 DEF Indices, HeapInv, TypeOK
    <3> QED  BY <1>h, <1>7, <3>1, EndPopRooted
  <2> QED  BY <1>h, <2>1, <2>2 DEF MinInv
<1>8. CASE heap_min \/ heap_free \/ UNCHANGED vars
  <2>1. UNCHANGED <<pc, size, popLeft>>
    BY <1>8 DEF heap_min, heap_free, vars, fields
  <2>2. popLeft <= 3 => Rooted(Nat)'
    BY <1>8, QuietRooted DEF MinInv
  <2> QED  BY <1>h, <2>1, <2>2 DEF MinInv
<1> QED
  BY <1>1, <1>2, <1>3, <1>4, <1>5, <1>6, <1>7, <1>8 DEF Next, Loop

LEMMA MinAbstractStep ==
  MinInv /\ [Next]_vars => [Abstract!Next \/ popLeft > 3]_(Abstract!vars)
<1> SUFFICES ASSUME MinInv, [Next]_vars, ~ (popLeft > 3)
             PROVE  Abstract!Next \/ UNCHANGED Abstract!vars
  OBVIOUS
<1> DEFINE least == {m \in Pool : \A e \in Pool : Key[m] <= Key[e]}
<1>1. CASE heap_min \/ heap_pop_min
  <2>1. alive /\ pc = "idle" /\ 0 \in Indices /\ elems[0] \in Live
    BY <1>1, RootLive DEF MinInv
  <2>2. popLeft <= 3
    BY DEF MinInv, HeapInv, TypeOK
  <2>3. \A i \in Nat \cap Indices : KeyAt(0) <= KeyAt(i)
    BY <2>1, <2>2 DEF MinInv, Rooted
  <2>4. elems[0] \in least
    BY <2>1, <2>3 DEF Pool, Live, KeyAt, Indices
  <2>5. Abstract!NextFrom(least)
    <3> HIDE DEF least
    <3> QED  BY <1>1, <2>4, RootStep DEF MinInv
  <2> QED  BY <2>5 DEF Abstract!Next, Abstract!Least, Pool
<1>2. CASE ~ heap_min /\ ~ heap_pop_min
  <2>1. Abstract!NextFrom(least) \/ UNCHANGED Abstract!vars
    <3> HIDE DEF least
    <3> QED  BY <1>2, OtherStep DEF MinInv
  <2> QED  BY <2>1 DEF Abstract!Next, Abstract!Least, Pool
<1> QED  BY <1>1, <1>2

\* heap_min and heap_pop_min return an element of least key, unless the last
\* pop has left more than three elements.
THEOREM MinUntilBigPop == Spec => MinUnlessBigPop
<1>1. MinInv /\ [Next]_vars => [Abstract!Next \/ popLeft > 3]_(Abstract!vars)
  BY MinAbstractStep
<1> QED  BY <1>1, MinInit, MinStep, PoolInit, PTL DEF Spec, MinUnlessBigPop

-----------------------------------------------------------------------------
(***************************************************************************)
(* The loops run out of turns: one goes up the indices, the other down the *)
(* keys of the elements, since what it moves to the root is smaller.       *)
(***************************************************************************)
\* The elements of the heap that are smaller than the root.
Smaller == {e \in Live : Key[e] < KeyAt(0)}

LEMMA SmallerFinite ==
  ASSUME TypeOK
  PROVE  IsFiniteSet(Smaller) /\ Cardinality(Smaller) \in Nat
<1>1. IsFiniteSet(Indices)
  BY FS_Interval DEF TypeOK, Indices
<1>2. IsFiniteSet(Live)
  <2>1. elems \in Surjection(Indices, Live)
    BY DEF TypeOK, Live, Surjection
  <2> QED  BY <1>1, <2>1, FS_Surjection
<1>3. IsFiniteSet(Smaller)
  BY <1>2, FS_Subset DEF Smaller
<1> QED  BY <1>3, FS_CardinalityType

\* A swap with a smaller child leaves fewer of them: not the child itself.
LEMMA SwapLowersRoot ==
  ASSUME HeapInv, BubbleDown
  PROVE  Smaller' \subseteq Smaller /\ \E e \in Smaller : e \notin Smaller'
<1> DEFINE c == largest_child_greater_than(0)
<1>1. TypeOK /\ swap_elem(0, c) /\ size' = size
  BY DEF BubbleDown, HeapInv
<1>2. c \in Indices /\ 0 \in Indices /\ KeyAt(c) < KeyAt(0) /\ c # 0
  BY <1>1, LargestChild DEF BubbleDown, children, TypeOK, Indices
<1>3. Live' = Live /\ elems'[0] = elems[c]
  <2>1. elems \in [Indices -> Elems] /\ elems' = [elems EXCEPT ![0] = elems[c], ![c] = elems[0]]
    BY <1>1 DEF TypeOK, swap_elem
  <2> HIDE DEF c
  <2> QED  BY <1>1, <1>2, <2>1, SwapKeeps
<1> HIDE DEF c
<1>4. KeyAt(0)' = KeyAt(c) /\ KeyAt(c) \in Int /\ KeyAt(0) \in Int
  BY <1>1, <1>2, <1>3, KeyType DEF KeyAt
<1>5. \A e \in Live : Key[e] \in Int
  BY <1>1, KeyAssumption DEF Live, TypeOK
<1>6. Smaller' = {e \in Live : Key[e] < KeyAt(c)}
  BY <1>3, <1>4 DEF Smaller
<1>7. Smaller' \subseteq Smaller
  BY <1>2, <1>4, <1>5, <1>6 DEF Smaller
<1>8. elems[c] \in Smaller /\ elems[c] \notin Smaller'
  BY <1>2, <1>4, <1>6 DEF Smaller, Live, KeyAt
<1> QED  BY <1>7, <1>8

LEMMA TurnsStep ==
  ASSUME HeapInv, Loop
  PROVE  TurnsLeft' \in Nat /\ TurnsLeft' < TurnsLeft
<1>t. TypeOK
  BY DEF HeapInv
<1>1. CASE BubbleUp
  <2>1. /\ pc = "up" /\ pc' = "up" /\ index' = parent_index(index)
        /\ index \in Nat /\ index # 0
    BY <1>t, <1>1 DEF BubbleUp, MustRise, TypeOK
  <2>2. parent_index(index) \in Nat /\ parent_index(index) < index
    BY <2>1 DEF parent_index
  <2>3. TurnsLeft = index + 1 /\ TurnsLeft' = parent_index(index) + 1
    BY <2>1 DEF TurnsLeft
  <2> QED  BY <2>1, <2>2, <2>3
<1>2. CASE EndInsert
  <2>1. index \in Nat /\ TurnsLeft = index + 1 /\ TurnsLeft' = 0
    BY <1>t, <1>2 DEF EndInsert, TurnsLeft, TypeOK
  <2> QED  BY <2>1
<1>3. CASE BubbleDown
  <2>1. TurnsLeft = Cardinality(Smaller) + 1 /\ TurnsLeft' = Cardinality(Smaller') + 1
    BY <1>3 DEF BubbleDown, TurnsLeft, Smaller
  <2>2. IsFiniteSet(Smaller) /\ Cardinality(Smaller) \in Nat
    BY <1>t, SmallerFinite
  <2>3. Smaller' \subseteq Smaller /\ Smaller' # Smaller
    BY <1>3, SwapLowersRoot
  <2>4. Cardinality(Smaller') \in Nat /\ Cardinality(Smaller') < Cardinality(Smaller)
    BY <2>2, <2>3, FS_Subset, FS_CardinalityType
  <2> QED  BY <2>1, <2>2, <2>4
<1>4. CASE EndPop
  <2>1. TurnsLeft = Cardinality(Smaller) + 1 /\ TurnsLeft' = 0
    BY <1>4 DEF EndPop, TurnsLeft, Smaller
  <2> QED  BY <1>t, <2>1, SmallerFinite
<1> QED  BY <1>1, <1>2, <1>3, <1>4 DEF Loop

\* Every turn brings the end of its loop nearer, by a number that is a natural: no
\* insertion and no pop can go on for ever.
THEOREM LoopsRunOut == Spec => TurnsRunOut
<1>1. HeapInv /\ [Next]_vars => [Loop => TurnsLeft' \in Nat /\ TurnsLeft' < TurnsLeft]_vars
  BY TurnsStep
<1> QED  BY <1>1, HeapInit, HeapStep, PTL DEF Spec, TurnsRunOut
=============================================================================
