---------------------------- MODULE Queue_proofs ----------------------------
(***************************************************************************)
(* Proofs about the ring buffer, for every capacity.                       *)
(***************************************************************************)
EXTENDS Queue, TLAPS

\* Quotient and remainder by the capacity.
LEMMA Division ==
  ASSUME NEW n \in Nat
  PROVE  /\ n \div Capacity \in Nat
         /\ n % Capacity \in Slots
         /\ n % Capacity = n - Capacity * (n \div Capacity)
<1>1. Capacity \in Nat \ {0}
  BY CapacityAssumption
<1>2. n % Capacity = n - Capacity * (n \div Capacity)
  BY <1>1, SMTT(30)
<1> QED  BY <1>1, <1>2 DEF Slots

\* Indices a whole number of turns apart name the same slot.
LEMMA Turns ==
  ASSUME NEW a \in Nat, NEW b \in Nat, NEW t \in Int, a = b + Capacity * t
  PROVE  a % Capacity = b % Capacity
<1>1. Capacity \in Nat \ {0}
  BY CapacityAssumption
<1> DEFINE qa == a \div Capacity  ra == a % Capacity
           qb == b \div Capacity  rb == b % Capacity
<1>2. /\ qa \in Nat /\ ra \in Nat /\ ra < Capacity /\ a = Capacity * qa + ra
      /\ qb \in Nat /\ rb \in Nat /\ rb < Capacity /\ b = Capacity * qb + rb
  BY <1>1, Division DEF Slots
<1> HIDE DEF qa, ra, qb, rb
<1>3. Capacity * qa + ra = Capacity * (qb + t) + rb
  BY <1>1, <1>2
<1>4. ra = rb
  <2> DEFINE x == qa  y == qb + t
  <2>1. x \in Int /\ y \in Int
    BY <1>2
  <2>2. Capacity * x + ra = Capacity * y + rb
    BY <1>3
  <2> HIDE DEF x, y
  <2> QED  BY <1>1, <1>2, <2>1, <2>2
<1> QED  BY <1>4 DEF ra, rb

\* An index inside the buffer is its own remainder.
LEMMA Inside ==
  ASSUME NEW i \in Slots
  PROVE  i % Capacity = i
BY CapacityAssumption DEF Slots

\* The index n slots after i, for n up to a full turn.
LEMMA WithinATurn ==
  ASSUME NEW i \in Slots, NEW n \in 0 .. Capacity
  PROVE  (i + n) % Capacity = IF i + n < Capacity THEN i + n ELSE i + n - Capacity
<1>1. Capacity \in Nat \ {0} /\ i \in Nat /\ i < Capacity
  BY CapacityAssumption DEF Slots
<1>2. CASE i + n < Capacity
  BY <1>1, <1>2 DEF Slots
<1>3. CASE i + n >= Capacity
  <2>1. i + n - Capacity \in Slots /\ i + n \in Nat
    BY <1>1, <1>3 DEF Slots
  <2>2. (i + n - Capacity) % Capacity = i + n - Capacity
    BY <2>1, Inside
  <2>3. i + n = (i + n - Capacity) + Capacity * 1 /\ i + n - Capacity \in Nat
    BY <1>1, <1>3
  <2>4. (i + n) % Capacity = (i + n - Capacity) % Capacity
    BY <2>1, <2>3, Turns
  <2> QED  BY <1>1, <1>3, <2>2, <2>4
<1> QED  BY <1>1, <1>2, <1>3

\* One step after the slot of n is the slot of n + 1.
LEMMA StepAfter ==
  ASSUME NEW n \in Nat
  PROVE  After(n % Capacity) = (n + 1) % Capacity
<1> DEFINE q == n \div Capacity
<1>0. Capacity \in Nat \ {0}
  BY CapacityAssumption
<1>1. q \in Nat /\ n % Capacity \in Nat /\ n % Capacity = n - Capacity * q
  <2>1. n % Capacity \in Slots
    BY Division
  <2>2. q \in Nat /\ n % Capacity = n - Capacity * q
    BY Division
  <2> QED  BY <1>0, <2>1, <2>2 DEF Slots
<1> HIDE DEF q
<1>2. (n % Capacity) + 1 = (n + 1) + Capacity * (- q)
  BY <1>0, <1>1
<1>3. ((n % Capacity) + 1) \in Nat /\ n + 1 \in Nat /\ - q \in Int
  BY <1>1
<1>4. ((n % Capacity) + 1) % Capacity = (n + 1) % Capacity
  BY <1>2, <1>3, Turns
<1> QED  BY <1>4 DEF After

\* The slots between the index of i and the index of i + n: n, up to a turn.
LEMMA Distance ==
  ASSUME NEW i \in Slots, NEW n \in Nat
  PROVE  (((i + n) % Capacity) - i + Capacity) % Capacity = n % Capacity
<1> DEFINE q == (i + n) \div Capacity
           r == (i + n) % Capacity
<1>0. Capacity \in Nat \ {0} /\ i \in Nat /\ i < Capacity
  BY CapacityAssumption DEF Slots
<1>1. q \in Nat /\ r \in Nat /\ r = (i + n) - Capacity * q
  <2>1. i + n \in Nat
    BY <1>0
  <2> QED  BY <1>0, <2>1, Division DEF Slots
<1> HIDE DEF q, r
<1>2. r - i + Capacity = n + Capacity * (1 - q) /\ r - i + Capacity \in Nat
  BY <1>0, <1>1
<1>3. (r - i + Capacity) % Capacity = n % Capacity
  <2>1. 1 - q \in Int
    BY <1>1
  <2> QED  BY <1>2, <2>1, Turns
<1> QED  BY <1>3 DEF r

\* Index n from the slot after i is index n + 1 from i.
LEMMA FromNext ==
  ASSUME NEW i \in Slots, NEW n \in Nat
  PROVE  (After(i) + n) % Capacity = (i + (n + 1)) % Capacity
<1>1. Capacity \in Nat /\ i \in Nat /\ i + 1 <= Capacity
  BY CapacityAssumption DEF Slots
<1>2. CASE i + 1 < Capacity
  <2>1. After(i) = i + 1
    BY <1>1, <1>2, Inside DEF After, Slots
  <2> QED  BY <1>1, <2>1
<1>3. CASE i + 1 = Capacity
  <2>1. After(i) = 0
    BY <1>1, <1>3, CapacityAssumption DEF After
  <2>2. i + (n + 1) = (After(i) + n) + Capacity * 1
    BY <1>1, <1>3, <2>1
  <2>3. i + (n + 1) \in Nat /\ After(i) + n \in Nat
    BY <1>1, <2>1
  <2> QED  BY <2>2, <2>3, Turns
<1> QED  BY <1>1, <1>2, <1>3

-----------------------------------------------------------------------------
(***************************************************************************)
(* Type correctness, and the agreement of size with the two indices.       *)
(* Neither needs the callers to respect the capacity.                      *)
(***************************************************************************)
LEMMA IndexTypes ==
  ASSUME TypeOK
  PROVE  /\ Capacity \in Nat \ {0}
         /\ head \in Slots /\ head \in 0 .. Capacity - 1
         /\ tail \in Slots /\ tail \in 0 .. Capacity - 1
         /\ size \in Nat
BY CapacityAssumption DEF TypeOK, Slots

\* The loops from head to tail meet fewer than Capacity elements.
LEMMA WalkType ==
  ASSUME TypeOK
  PROVE  /\ Walk \in Seq(Elems \cup {Garbage})
         /\ Len(Walk) = (tail - head + Capacity) % Capacity
         /\ Len(Walk) \in Slots
<1> DEFINE n == (tail - head + Capacity) % Capacity
<1>1. n \in Slots /\ n \in Nat
  <2>1. tail - head + Capacity \in Nat
    BY IndexTypes
  <2> QED  BY <2>1, IndexTypes, Division DEF Slots
<1>2. ASSUME NEW k \in 1 .. n
      PROVE  elems[(head + k - 1) % Capacity] \in Elems \cup {Garbage}
  <2>1. head + k - 1 \in Nat
    BY IndexTypes, <1>1
  <2>2. (head + k - 1) % Capacity \in Slots
    BY <2>1, Division
  <2> QED  BY <2>2 DEF TypeOK
<1>3. Walk = [k \in 1 .. n |-> elems[(head + k - 1) % Capacity]]
  BY DEF Walk
<1> HIDE DEF n
<1>4. Walk \in [1 .. n -> Elems \cup {Garbage}]
  BY <1>2, <1>3
<1>5. Walk \in Seq(Elems \cup {Garbage}) /\ Len(Walk) = n
  BY <1>1, <1>4
<1> QED  BY <1>1, <1>5 DEF n

LEMMA ResizedType ==
  ASSUME TypeOK
  PROVE  Resized \in [Slots -> Elems \cup {Garbage}]
<1>1. ASSUME NEW i \in Slots, i < Len(Walk)
      PROVE  Walk[i + 1] \in Elems \cup {Garbage}
  <2>1. i + 1 \in 1 .. Len(Walk)
    BY <1>1, WalkType, CapacityAssumption DEF Slots
  <2> QED  BY <2>1, WalkType
<1> QED  BY <1>1 DEF Resized

LEMMA AfterType ==
  ASSUME NEW i \in Slots
  PROVE  After(i) \in Slots
<1>1. i + 1 \in Nat
  BY CapacityAssumption DEF Slots
<1> QED  BY <1>1, Division DEF After

LEMMA StoreType ==
  ASSUME NEW buffer \in [Slots -> Elems \cup {Garbage}], NEW first \in Slots,
         NEW last \in Slots, NEW elem \in Elems, size \in Nat,
         Store(buffer, first, last, elem)
  PROVE  /\ elems' \in [Slots -> Elems \cup {Garbage}]
         /\ head' \in Slots /\ tail' \in Slots /\ size' \in Nat
BY AfterType DEF Store

LEMMA TypeInit == Init => TypeOK
<1>1. 0 \in Slots
  BY CapacityAssumption DEF Slots
<1>2. Fresh \in [Slots -> Elems \cup {Garbage}]
  BY DEF Fresh
<1> QED  BY <1>1, <1>2 DEF Init, TypeOK

LEMMA TypeStep == TypeOK /\ [Next]_vars => TypeOK'
<1> SUFFICES ASSUME TypeOK, [Next]_vars PROVE TypeOK'
  OBVIOUS
<1>0. 0 \in Slots
  BY CapacityAssumption DEF Slots
<1>1. CASE queue_create
  <2>1. Fresh \in [Slots -> Elems \cup {Garbage}]
    BY DEF Fresh
  <2> QED  BY <1>0, <1>1, <2>1 DEF queue_create, TypeOK
<1>2. ASSUME NEW elem \in Elems, queue_enqueue(elem)
      PROVE  TypeOK'
  <2>1. CASE Store(elems, head, tail, elem)
    BY <1>2, <2>1, StoreType DEF queue_enqueue, TypeOK
  <2>2. CASE Store(Resized, 0, Len(Walk), elem)
    <3>1. /\ elems' \in [Slots -> Elems \cup {Garbage}]
          /\ head' \in Slots /\ tail' \in Slots /\ size' \in Nat
      BY <1>0, <2>2, StoreType, ResizedType, WalkType, IndexTypes
    <3> QED  BY <1>2, <3>1 DEF queue_enqueue, TypeOK
  <2> QED  BY <1>2, <2>1, <2>2 DEF queue_enqueue
<1>3. CASE queue_peek
  BY <1>3 DEF queue_peek, fields, TypeOK
<1>4. CASE queue_dequeue
  <2>1. head' \in Slots /\ size' \in Nat
    BY <1>4, AfterType, IndexTypes DEF queue_dequeue, TypeOK
  <2>2. ret' \in Elems \cup {Null, Garbage}
    BY <1>4 DEF queue_dequeue, TypeOK
  <2> QED  BY <1>4, <2>1, <2>2 DEF queue_dequeue, TypeOK
<1>5. CASE queue_free
  BY <1>5, WalkType DEF queue_free, fields, TypeOK
<1>6. CASE UNCHANGED vars
  BY <1>6 DEF vars, fields, TypeOK
<1> QED  BY <1>1, <1>2, <1>3, <1>4, <1>5, <1>6 DEF Next

\* Type correctness: head and tail never leave the buffer.
THEOREM TypeCorrect == Spec => []TypeOK
BY TypeInit, TypeStep, PTL DEF Spec

LEMMA IndicesInit == Init => RingIndices
<1>1. 0 \in Slots /\ 0 % Capacity = 0
  BY CapacityAssumption DEF Slots
<1> QED  BY <1>1 DEF Init, RingIndices

LEMMA IndicesStep == TypeOK /\ RingIndices /\ [Next]_vars => RingIndices'
<1> SUFFICES ASSUME TypeOK, RingIndices, [Next]_vars PROVE RingIndices'
  OBVIOUS
<1>0. head' \in Slots /\ tail' \in Slots
  BY TypeStep DEF TypeOK
<1>1. CASE queue_create
  <2>1. 0 % Capacity = 0
    BY CapacityAssumption
  <2> QED  BY <1>0, <1>1, <2>1 DEF queue_create, RingIndices
<1>2. ASSUME NEW elem \in Elems, queue_enqueue(elem)
      PROVE  RingIndices'
  <2>1. CASE Store(elems, head, tail, elem)
    <3>1. After((head + size) % Capacity) = (head + size + 1) % Capacity
      <4>1. head + size \in Nat
        BY IndexTypes
      <4> QED  BY <4>1, StepAfter
    <3>2. head' = head /\ size' = size + 1 /\ tail' = After((head + size) % Capacity)
      BY <2>1 DEF Store, RingIndices
    <3>3. head + (size + 1) = head + size + 1
      BY IndexTypes
    <3> QED  BY <1>0, <3>1, <3>2, <3>3 DEF RingIndices
  <2>2. CASE Store(Resized, 0, Len(Walk), elem)
    <3>1. Len(Walk) = size % Capacity
      BY WalkType, IndexTypes, Distance DEF RingIndices
    <3>2. head' = 0 /\ size' = size + 1 /\ tail' = After(size % Capacity)
      BY <2>2, <3>1 DEF Store
    <3>3. After(size % Capacity) = (size + 1) % Capacity
      BY IndexTypes, StepAfter
    <3>4. 0 + (size + 1) = size + 1
      BY IndexTypes
    <3> QED  BY <1>0, <3>2, <3>3, <3>4 DEF RingIndices
  <2> QED  BY <1>2, <2>1, <2>2 DEF queue_enqueue
<1>3. CASE queue_peek
  BY <1>3 DEF queue_peek, fields, RingIndices
<1>4. CASE queue_dequeue
  <2>1. CASE size = 0
    BY <1>4, <2>1 DEF queue_dequeue, RingIndices
  <2>2. CASE size # 0
    <3>1. (After(head) + (size - 1)) % Capacity = (head + ((size - 1) + 1)) % Capacity
      <4>1. size - 1 \in Nat
        BY <2>2, IndexTypes
      <4> QED  BY <4>1, IndexTypes, FromNext
    <3>2. (size - 1) + 1 = size
      BY IndexTypes
    <3>3. head' = After(head) /\ size' = size - 1 /\ tail' = tail
      BY <1>4, <2>2 DEF queue_dequeue
    <3> QED  BY <1>0, <3>1, <3>2, <3>3 DEF RingIndices
  <2> QED  BY <2>1, <2>2
<1>5. CASE queue_free
  BY <1>5 DEF queue_free, fields, RingIndices
<1>6. CASE UNCHANGED vars
  BY <1>6 DEF vars, fields, RingIndices
<1> QED  BY <1>1, <1>2, <1>3, <1>4, <1>5, <1>6 DEF Next

\* size agrees with head and tail in every queue, overfilled ones included.
THEOREM IndicesAgree == Spec => []RingIndices
BY TypeInit, TypeStep, IndicesInit, IndicesStep, PTL DEF Spec

-----------------------------------------------------------------------------
(***************************************************************************)
(* Until a caller enqueues into a full queue, the buffer holds what the    *)
(* callers stored, and the queue implements FIFO.                          *)
(***************************************************************************)
RingInv == TypeOK /\ RingIndices /\ Stored

\* The k-th element of a queue whose oldest one is at index h of buffer e.
At(e, h, k) == e[(h + k - 1) % Capacity]

LEMMA SliceSeq ==
  ASSUME NEW e, NEW h \in Nat, NEW n \in Nat,
         \A k \in 0 .. n - 1 : e[(h + k) % Capacity] \in Elems
  PROVE  /\ [k \in 1 .. n |-> e[(h + k - 1) % Capacity]] \in Seq(Elems)
         /\ Len([k \in 1 .. n |-> e[(h + k - 1) % Capacity]]) = n
         /\ \A k \in 1 .. n :
              [j \in 1 .. n |-> e[(h + j - 1) % Capacity]][k] = At(e, h, k)
<1>1. ASSUME NEW k \in 1 .. n PROVE At(e, h, k) \in Elems
  <2>1. k - 1 \in 0 .. n - 1 /\ h + (k - 1) = h + k - 1
    OBVIOUS
  <2> QED  BY <2>1 DEF At
<1> DEFINE s == [k \in 1 .. n |-> e[(h + k - 1) % Capacity]]
<1>2. s = [k \in 1 .. n |-> At(e, h, k)]
  BY DEF At
<1> HIDE DEF s
<1>3. s \in Seq(Elems) /\ Len(s) = n /\ \A k \in 1 .. n : s[k] = At(e, h, k)
  BY <1>1, <1>2
<1> QED  BY <1>3 DEF s

LEMMA ContentsSeq ==
  ASSUME RingInv
  PROVE  /\ Contents \in Seq(Elems)
         /\ Len(Contents) = size
         /\ \A k \in 1 .. size : Contents[k] = At(elems, head, k)
<1>1. size \in Nat /\ head \in Nat
  BY IndexTypes DEF RingInv, Stored, Slots
<1>2. \A k \in 0 .. size - 1 : elems[(head + k) % Capacity] \in Elems
  BY DEF RingInv, Stored
<1> QED  BY <1>1, <1>2, SliceSeq DEF Contents

\* The same of the next state.
LEMMA NextContentsSeq ==
  ASSUME RingInv'
  PROVE  /\ Contents' \in Seq(Elems)
         /\ Len(Contents') = size'
         /\ \A k \in 1 .. size' : Contents'[k] = At(elems', head', k)
<1>1. size' \in Nat /\ head' \in Nat
  BY CapacityAssumption DEF RingInv, Stored, TypeOK, Slots
<1>2. \A k \in 0 .. size' - 1 : elems'[(head' + k) % Capacity] \in Elems
  BY DEF RingInv, Stored
<1> QED  BY <1>1, <1>2, SliceSeq DEF Contents

\* The slot that the next element goes to is none of those in use.
LEMMA TailIsFree ==
  ASSUME RingInv, size < Capacity, NEW k \in 0 .. size - 1
  PROVE  (head + k) % Capacity # tail
<1>1. /\ k \in 0 .. Capacity /\ size \in 0 .. Capacity /\ head \in Slots
      /\ Capacity \in Nat \ {0} /\ size \in Nat /\ head \in 0 .. Capacity - 1
  BY IndexTypes DEF RingInv, Stored
<1>2. (head + k) % Capacity = IF head + k < Capacity THEN head + k ELSE head + k - Capacity
  BY <1>1, WithinATurn
<1>3. (head + size) % Capacity
        = IF head + size < Capacity THEN head + size ELSE head + size - Capacity
  BY <1>1, WithinATurn
<1>4. tail = (head + size) % Capacity
  BY DEF RingInv, Stored, RingIndices
<1> QED  BY <1>1, <1>2, <1>3, <1>4

LEMMA RingInit == Init => RingInv
<1> SUFFICES ASSUME Init PROVE RingInv
  OBVIOUS
<1>1. size = 0 /\ size <= Capacity
  BY CapacityAssumption DEF Init
<1> QED  BY <1>1, TypeInit, IndicesInit DEF RingInv, Stored

\* An enqueue that respects the capacity stores its element in a free slot.
LEMMA EnqueueStores ==
  ASSUME RingInv, NEW elem \in Elems, queue_enqueue(elem), ~ overfilled'
  PROVE  /\ size < Capacity
         /\ Store(elems, head, tail, elem)
         /\ alive /\ UNCHANGED <<alive, ret, released>>
<1>1. ~ (size + 1 > Capacity)
  BY DEF queue_enqueue
<1>2. size < Capacity
  BY <1>1, CapacityAssumption, IndexTypes DEF RingInv
<1> QED  BY <1>1, <1>2 DEF queue_enqueue

LEMMA RingStep == RingInv /\ [Next]_vars /\ ~ overfilled' => RingInv'
<1> SUFFICES ASSUME RingInv, [Next]_vars, ~ overfilled' PROVE RingInv'
  OBVIOUS
<1>0. TypeOK' /\ RingIndices'
  BY TypeStep, IndicesStep DEF RingInv, Stored
<1>t. /\ Capacity \in Nat \ {0} /\ size \in Nat /\ head \in Nat
      /\ head \in Slots /\ tail \in Slots /\ elems \in [Slots -> Elems \cup {Garbage}]
  BY IndexTypes DEF RingInv, Stored, TypeOK, Slots
<1>1. CASE queue_create
  BY <1>0, <1>1, <1>t DEF queue_create, RingInv, Stored
<1>2. ASSUME NEW elem \in Elems, queue_enqueue(elem)
      PROVE  RingInv'
  <2>1. /\ elems' = [elems EXCEPT ![tail] = elem]
        /\ head' = head /\ size' = size + 1 /\ size < Capacity
    BY <1>2, EnqueueStores DEF Store
  <2>2. size' <= Capacity
    BY <1>t, <2>1
  <2>3. ASSUME NEW k \in 0 .. size' - 1
        PROVE  elems'[(head' + k) % Capacity] \in Elems
    <3>1. CASE k = size
      <4>1. (head + k) % Capacity = tail
        BY <3>1 DEF RingInv, Stored, RingIndices
      <4> QED  BY <1>t, <2>1, <4>1
    <3>2. CASE k # size
      <4>1. k \in 0 .. size - 1
        BY <1>t, <2>1, <3>2
      <4>2. elems[(head + k) % Capacity] \in Elems
        BY <4>1 DEF RingInv, Stored
      <4>3. (head + k) % Capacity \in Slots
        <5>1. head + k \in Nat
          BY <1>t, <4>1
        <5> QED  BY <5>1, Division
      <4> QED  BY <1>t, <2>1, <4>2, <4>3
    <3> QED  BY <3>1, <3>2
  <2> QED  BY <1>0, <2>2, <2>3 DEF RingInv, Stored
<1>3. CASE queue_peek
  BY <1>0, <1>3 DEF queue_peek, fields, RingInv, Stored
<1>4. CASE queue_dequeue
  <2>1. CASE size = 0
    BY <1>0, <1>4, <2>1 DEF queue_dequeue, RingInv, Stored
  <2>2. CASE size # 0
    <3>1. head' = After(head) /\ size' = size - 1 /\ elems' = elems
      BY <1>4, <2>2 DEF queue_dequeue
    <3>2. size' <= Capacity
      BY <1>t, <3>1 DEF RingInv, Stored
    <3>3. ASSUME NEW k \in 0 .. size' - 1
          PROVE  elems'[(head' + k) % Capacity] \in Elems
      <4>1. k \in Nat /\ k + 1 \in 0 .. size - 1
        BY <1>t, <3>1
      <4>2. (After(head) + k) % Capacity = (head + (k + 1)) % Capacity
        BY <1>t, <4>1, FromNext
      <4> QED  BY <3>1, <4>1, <4>2 DEF RingInv, Stored
    <3> QED  BY <1>0, <3>2, <3>3 DEF RingInv, Stored
  <2> QED  BY <2>1, <2>2
<1>5. CASE queue_free
  BY <1>0, <1>5 DEF queue_free, fields, RingInv, Stored
<1>6. CASE UNCHANGED vars
  BY <1>0, <1>6 DEF vars, fields, RingInv, Stored
<1> QED  BY <1>1, <1>2, <1>3, <1>4, <1>5, <1>6 DEF Next

LEMMA EmptyContents ==
  ASSUME size = 0
  PROVE  Contents = <<>>
BY DEF Contents

\* What each operation does to the contents.
LEMMA EnqueueAppends ==
  ASSUME RingInv, RingInv', size < Capacity, NEW elem \in Elems,
         Store(elems, head, tail, elem)
  PROVE  Contents' = Append(Contents, elem)
<1>1. /\ elems' = [elems EXCEPT ![tail] = elem]
      /\ head' = head /\ size' = size + 1
      /\ size \in Nat /\ head \in Nat /\ tail \in Slots
      /\ elems \in [Slots -> Elems \cup {Garbage}]
  BY IndexTypes DEF Store, RingInv, Stored, TypeOK, Slots
<1>2. /\ Contents \in Seq(Elems) /\ Len(Contents) = size
      /\ \A k \in 1 .. size : Contents[k] = At(elems, head, k)
  BY ContentsSeq
<1>3. /\ Contents' \in Seq(Elems) /\ Len(Contents') = size + 1
      /\ \A k \in 1 .. size + 1 : Contents'[k] = At(elems', head', k)
  BY <1>1, NextContentsSeq
<1>4. At(elems', head', size + 1) = elem
  <2>1. head' + (size + 1) - 1 = head + size
    BY <1>1
  <2>2. (head + size) % Capacity = tail
    BY DEF RingInv, Stored, RingIndices
  <2> QED  BY <1>1, <2>1, <2>2 DEF At
<1>5. ASSUME NEW k \in 1 .. size PROVE At(elems', head', k) = At(elems, head, k)
  <2>1. k - 1 \in 0 .. size - 1 /\ head + (k - 1) = head + k - 1 /\ head + k - 1 \in Nat
    BY <1>1
  <2>2. (head + k - 1) % Capacity # tail
    BY <2>1, TailIsFree
  <2>3. (head + k - 1) % Capacity \in Slots
    BY <2>1, Division
  <2> QED  BY <1>1, <2>2, <2>3 DEF At
<1>6. \A k \in 1 .. size + 1 :
        Contents'[k] = IF k = size + 1 THEN elem ELSE Contents[k]
  <2> SUFFICES ASSUME NEW k \in 1 .. size + 1
               PROVE  Contents'[k] = IF k = size + 1 THEN elem ELSE Contents[k]
    OBVIOUS
  <2>1. CASE k = size + 1
    BY <1>3, <1>4, <2>1
  <2>2. CASE k # size + 1
    <3>1. k \in 1 .. size
      BY <1>1, <2>2
    <3> QED  BY <1>2, <1>3, <1>5, <2>2, <3>1
  <2> QED  BY <2>1, <2>2
<1> QED  BY <1>1, <1>2, <1>3, <1>6

LEMMA DequeueTakesHead ==
  ASSUME RingInv, RingInv', size # 0,
         head' = After(head), size' = size - 1, elems' = elems
  PROVE  /\ Contents # <<>>
         /\ Head(Contents) = elems[head]
         /\ Contents' = Tail(Contents)
<1>1. size \in Nat /\ size >= 1 /\ head \in Slots /\ head \in Nat
  BY IndexTypes DEF RingInv, Stored, Slots
<1>2. /\ Contents \in Seq(Elems) /\ Len(Contents) = size
      /\ \A k \in 1 .. size : Contents[k] = At(elems, head, k)
  BY ContentsSeq
<1>3. /\ Contents' \in Seq(Elems) /\ Len(Contents') = size - 1
      /\ \A k \in 1 .. size - 1 : Contents'[k] = At(elems', head', k)
  BY NextContentsSeq
<1>4. At(elems, head, 1) = elems[head]
  <2>1. head + 1 - 1 = head /\ head % Capacity = head
    BY <1>1, Inside
  <2> QED  BY <2>1 DEF At
<1>5. ASSUME NEW k \in 1 .. size - 1 PROVE At(elems', head', k) = At(elems, head, k + 1)
  <2>1. /\ k - 1 \in Nat /\ (k - 1) + 1 = k
        /\ After(head) + (k - 1) = After(head) + k - 1
        /\ head + ((k - 1) + 1) = head + (k + 1) - 1
    <3>1. After(head) \in Nat
      BY <1>1, AfterType, CapacityAssumption DEF Slots
    <3> QED  BY <1>1, <3>1
  <2>2. (After(head) + (k - 1)) % Capacity = (head + ((k - 1) + 1)) % Capacity
    BY <1>1, <2>1, FromNext
  <2> QED  BY <2>1, <2>2 DEF At
<1>6. \A k \in 1 .. size - 1 : Contents'[k] = Contents[k + 1]
  BY <1>1, <1>2, <1>3, <1>5
<1> QED  BY <1>1, <1>2, <1>3, <1>4, <1>6

\* A queue that holds elements shows its oldest one at head.
LEMMA HeadOfContents ==
  ASSUME RingInv
  PROVE  (IF size = 0 THEN Null ELSE elems[head])
           = (IF Contents = <<>> THEN Null ELSE Head(Contents))
<1>1. CASE size = 0
  BY <1>1, EmptyContents
<1>2. CASE size # 0
  <2>1. /\ Contents \in Seq(Elems) /\ Len(Contents) = size /\ size >= 1
        /\ Contents[1] = At(elems, head, 1) /\ head + 1 - 1 = head /\ head % Capacity = head
    BY <1>2, ContentsSeq, IndexTypes, Inside DEF RingInv, Stored
  <2> QED  BY <1>2, <2>1 DEF At
<1> QED  BY <1>1, <1>2

LEMMA AbstractInit == Init => Abstract!Init
BY EmptyContents DEF Init, Abstract!Init

LEMMA AbstractStep ==
  QueueInv /\ QueueInv' /\ [Next]_vars
    => [Abstract!Next \/ overfilled']_(Abstract!vars)
<1> SUFFICES ASSUME QueueInv, QueueInv', [Next]_vars, ~ overfilled'
             PROVE  [Abstract!Next]_(Abstract!vars)
  OBVIOUS
<1>r. RingInv'
  BY DEF QueueInv, RingInv
<1>i. ~ overfilled => RingInv
  BY DEF QueueInv, RingInv
<1>1. CASE queue_create
  <2>1. Contents' = <<>>
    BY <1>1, EmptyContents DEF queue_create, Contents
  <2> QED  BY <1>1, <2>1 DEF queue_create, Abstract!Next, Abstract!queue_create
<1>2. ASSUME NEW elem \in Elems, queue_enqueue(elem)
      PROVE  Abstract!Next
  <2>1. RingInv
    BY <1>2, <1>i DEF queue_enqueue
  <2>2. Contents' = Append(Contents, elem) /\ alive /\ UNCHANGED <<alive, ret>>
    BY <1>2, <1>r, <2>1, EnqueueStores, EnqueueAppends
  <2> QED  BY <2>2 DEF Abstract!Next, Abstract!queue_enqueue
<1>3. CASE queue_peek
  <2>1. RingInv /\ Contents' = Contents
    BY <1>3, <1>i DEF queue_peek, fields, Contents
  <2> QED  BY <1>3, <2>1, HeadOfContents
           DEF queue_peek, Abstract!Next, Abstract!queue_peek
<1>4. CASE queue_dequeue
  <2>1. CASE size = 0
    <3>1. Contents = <<>> /\ Contents' = <<>>
      BY <1>4, <2>1, EmptyContents DEF queue_dequeue, Contents
    <3> QED  BY <1>4, <2>1, <3>1
             DEF queue_dequeue, Abstract!Next, Abstract!queue_dequeue
  <2>2. CASE size # 0
    <3>1. RingInv
      BY <1>4, <1>i DEF queue_dequeue
    <3>2. Contents # <<>> /\ Head(Contents) = elems[head] /\ Contents' = Tail(Contents)
      BY <1>4, <1>r, <2>2, <3>1, DequeueTakesHead DEF queue_dequeue
    <3> QED  BY <1>4, <2>2, <3>2
             DEF queue_dequeue, Abstract!Next, Abstract!queue_dequeue
  <2> QED  BY <2>1, <2>2
<1>5. CASE queue_free
  BY <1>5 DEF queue_free, Abstract!Next, Abstract!queue_free
<1>6. CASE UNCHANGED vars
  <2>1. Contents' = Contents
    BY <1>6 DEF vars, fields, Contents
  <2> QED  BY <1>6, <2>1 DEF vars, Abstract!vars
<1> QED  BY <1>1, <1>2, <1>3, <1>4, <1>5, <1>6 DEF Next

LEMMA QueueInvInit == Init => QueueInv
BY RingInit DEF QueueInv, RingInv

LEMMA QueueInvStep == QueueInv /\ [Next]_vars => QueueInv'
<1> SUFFICES ASSUME QueueInv, [Next]_vars PROVE QueueInv'
  OBVIOUS
<1>1. TypeOK' /\ RingIndices'
  BY TypeStep, IndicesStep DEF QueueInv
<1>2. CASE ~ overfilled /\ ~ overfilled'
  BY <1>1, <1>2, RingStep DEF QueueInv, RingInv
<1>3. CASE overfilled'
  BY <1>1, <1>3 DEF QueueInv
<1>4. CASE overfilled /\ ~ overfilled'
  <2>1. queue_create
    BY <1>4 DEF Next, queue_enqueue, queue_peek, queue_dequeue, queue_free, vars
  <2>2. Stored'
    BY <2>1, CapacityAssumption DEF queue_create, Stored
  <2> QED  BY <1>1, <2>2 DEF QueueInv
<1> QED  BY <1>2, <1>3, <1>4

\* The ring buffer implements the abstract queue until somebody enqueues into
\* a full one: peek and dequeue return the elements in the order they came.
THEOREM FIFOUntilOverfilled == Spec => FIFOUnlessOverfilled
<1>1. QueueInv /\ [Next]_vars => QueueInv'
  BY QueueInvStep
<1>2. QueueInv /\ QueueInv' /\ [Next]_vars
        => [Abstract!Next \/ overfilled']_(Abstract!vars)
  BY AbstractStep
<1> QED  BY <1>1, <1>2, QueueInvInit, AbstractInit, PTL DEF Spec, FIFOUnlessOverfilled

\* Callers that never let a queue grow past its capacity have a FIFO queue.
THEOREM QueueIsFIFO ==
  ASSUME Limit <= Capacity
  PROVE  Spec => IsFIFO
<1>1. Init => ~ overfilled
  BY DEF Init
<1>2. QueueInv /\ ~ overfilled /\ [Next]_vars => ~ overfilled'
  <2> SUFFICES ASSUME QueueInv, ~ overfilled, [Next]_vars
               PROVE  ~ overfilled'
    OBVIOUS
  <2>1. ASSUME NEW elem \in Elems, queue_enqueue(elem) PROVE ~ overfilled'
    <3>1. size \in Nat /\ size < Limit
      BY <2>1 DEF queue_enqueue, QueueInv, TypeOK
    <3>2. ~ (size + 1 > Capacity)
      BY <3>1, LimitAssumption, CapacityAssumption
    <3> QED  BY <2>1, <3>2 DEF queue_enqueue
  <2>2. CASE queue_create \/ queue_peek \/ queue_dequeue \/ queue_free \/ UNCHANGED vars
    BY <2>2 DEF queue_create, queue_peek, queue_dequeue, queue_free, vars
  <2> QED  BY <2>1, <2>2 DEF Next
<1>3. QueueInv /\ QueueInv' /\ [Next]_vars /\ ~ overfilled'
        => [Abstract!Next]_(Abstract!vars)
  BY AbstractStep
<1> QED
  BY <1>1, <1>2, <1>3, QueueInvInit, QueueInvStep, AbstractInit, PTL
  DEF Spec, IsFIFO, Abstract!Spec

-----------------------------------------------------------------------------
\* The walk from head to tail meets the whole contents of a queue that is not
\* full.
LEMMA WalkIsContents ==
  ASSUME TypeOK, RingIndices, size < Capacity
  PROVE  Walk = Contents
<1>1. size \in Slots
  BY IndexTypes DEF Slots
<1>2. (tail - head + Capacity) % Capacity = size
  BY <1>1, IndexTypes, Distance, Inside DEF RingIndices
<1> QED  BY <1>2 DEF Walk, Contents

\* queue_free releases every element of a queue that holds less than its
\* capacity.
THEOREM FreeReleases == Spec => []FreesUnlessFull
<1> DEFINE FreeInv == TypeOK /\ RingIndices /\ FreesUnlessFull
<1>1. Init => FreeInv
  BY TypeInit, IndicesInit DEF Init, FreesUnlessFull
<1>2. FreeInv /\ [Next]_vars => FreeInv'
  <2> SUFFICES ASSUME TypeOK, RingIndices, FreesUnlessFull, [Next]_vars,
                      ~ alive', size' < Capacity
               PROVE  released' = Contents'
    BY TypeStep, IndicesStep DEF FreesUnlessFull
  <2>1. CASE queue_create \/ queue_peek \/ queue_dequeue
    BY <2>1 DEF queue_create, queue_peek, queue_dequeue
  <2>2. ASSUME NEW elem \in Elems, queue_enqueue(elem) PROVE FALSE
    BY <2>2 DEF queue_enqueue
  <2>3. CASE queue_free
    <3>1. Contents' = Contents /\ size' = size /\ released' = Walk
      BY <2>3 DEF queue_free, fields, Contents
    <3> QED  BY <3>1, WalkIsContents
  <2>4. CASE UNCHANGED vars
    <3>1. Contents' = Contents /\ UNCHANGED <<size, released, alive>>
      BY <2>4 DEF vars, fields, Contents
    <3> QED  BY <3>1 DEF FreesUnlessFull
  <2> QED  BY <2>1, <2>2, <2>3, <2>4 DEF Next
<1>3. FreeInv => FreesUnlessFull
  OBVIOUS
<1> QED  BY <1>1, <1>2, <1>3, PTL DEF Spec
=============================================================================
