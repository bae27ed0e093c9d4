------------------------------- MODULE Queue -------------------------------
(***************************************************************************)
(* The ring buffer of queue.c, which holds the packets of every VOQ.       *)
(*                                                                         *)
(* The buffer's slots that were malloc'ed and not written hold Garbage.    *)
(* The buffer that queue_enqueue allocates when the queue is full has      *)
(* twice the slots, but capacity is not updated, so that head and tail     *)
(* never leave the first Capacity of them: only those are modelled.        *)
(***************************************************************************)
EXTENDS Integers, Sequences

CONSTANTS
  Capacity,  \* DEFAULT_CAPACITY, and the capacity field of every queue
  Elems,     \* the pointers the callers enqueue
  Null,      \* what peek and dequeue return when the queue is empty
  Garbage,   \* an uninitialised slot
  Limit      \* bound: the callers enqueue only while size < Limit

ASSUME CapacityAssumption == Capacity \in Nat \ {0}
ASSUME LimitAssumption == Limit \in Nat
ASSUME ElemsAssumption == Null \notin Elems /\ Garbage \notin Elems

VARIABLES
  elems, head, tail, size,  \* the fields of struct queue
  alive,                    \* the structure is allocated
  ret,                      \* what the last peek or dequeue returned
  released,                 \* what queue_free passed to free_elem, in order
  overfilled                \* history: this queue was enqueued into when full

fields == <<elems, head, tail, size>>
vars == <<fields, alive, ret, released, overfilled>>

Slots == 0 .. Capacity - 1

TypeOK ==
  /\ elems \in [Slots -> Elems \cup {Garbage}]
  /\ head \in Slots
  /\ tail \in Slots
  /\ size \in Nat
  /\ alive \in BOOLEAN
  /\ ret \in Elems \cup {Null, Garbage}
  /\ released \in Seq(Elems \cup {Garbage})
  /\ overfilled \in BOOLEAN

-----------------------------------------------------------------------------
MutantAfterNoWrap(i) == i + 1

\* The index after i, around the buffer.
After(i) == (i + 1) % Capacity

MutantWalkStopsShort == [k \in 1 .. (tail - head + Capacity - 1) % Capacity
                           |-> elems[(head + k - 1) % Capacity]]

\* What the loops from head to tail meet: nothing when head = tail, whether
\* the queue is empty or full.
Walk == [k \in 1 .. (tail - head + Capacity) % Capacity
           |-> elems[(head + k - 1) % Capacity]]

Fresh == [i \in Slots |-> Garbage]

Init ==
  /\ elems = Fresh
  /\ head = 0 /\ tail = 0 /\ size = 0
  /\ alive = TRUE
  /\ ret = Null
  /\ released = <<>>
  /\ overfilled = FALSE

queue_create ==
  /\ ~ alive
  /\ elems' = Fresh
  /\ head' = 0 /\ tail' = 0 /\ size' = 0
  /\ alive' = TRUE
  /\ ret' = Null
  /\ released' = <<>>
  /\ overfilled' = FALSE

MutantStoreKeepsHead(buffer, first, last, elem) ==
  /\ elems' = [buffer EXCEPT ![last] = elem]
  /\ head' = head
  /\ tail' = After(last)
  /\ size' = size + 1

\* Store at the tail of a buffer and advance the tail.
Store(buffer, first, last, elem) ==
  /\ elems' = [buffer EXCEPT ![last] = elem]
  /\ head' = first
  /\ tail' = After(last)
  /\ size' = size + 1

\* The buffer after "Resize underlying array".
Resized == [i \in Slots |-> IF i < Len(Walk) THEN Walk[i + 1] ELSE Garbage]

queue_enqueue(elem) ==
  /\ alive
  /\ size < Limit
  /\ \/ size + 1 <= Capacity /\ Store(elems, head, tail, elem)
     \/ size + 1 > Capacity /\ Store(Resized, 0, Len(Walk), elem)
  /\ overfilled' = (overfilled \/ size + 1 > Capacity)
  /\ UNCHANGED <<alive, ret, released>>

queue_peek ==
  /\ alive
  /\ ret' = IF size = 0 THEN Null ELSE elems[head]
  /\ UNCHANGED <<fields, alive, released, overfilled>>

MutantDequeueOfEmpty ==
  /\ alive
  /\ ret' = IF size = 0 THEN Null ELSE elems[head]
  /\ head' = After(head)
  /\ size' = IF size = 0 THEN 0 ELSE size - 1
  /\ UNCHANGED <<elems, tail, alive, released, overfilled>>

queue_dequeue ==
  /\ alive
  /\ \/ size = 0 /\ ret' = Null /\ UNCHANGED <<head, size>>
     \/ size # 0 /\ ret' = elems[head] /\ head' = After(head) /\ size' = size - 1
  /\ UNCHANGED <<elems, tail, alive, released, overfilled>>

queue_free ==
  /\ alive
  /\ alive' = FALSE
  /\ released' = Walk
  /\ UNCHANGED <<fields, ret, overfilled>>

Next ==
  \/ queue_create
  \/ \E elem \in Elems : queue_enqueue(elem)
  \/ queue_peek
  \/ queue_dequeue
  \/ queue_free

Spec == Init /\ [][Next]_vars

-----------------------------------------------------------------------------
(***************************************************************************)
(* Properties                                                              *)
(***************************************************************************)
\* The abstract value of the queue: size elements from head on.
Contents == [k \in 1 .. size |-> elems[(head + k - 1) % Capacity]]

\* size, which alone tells an empty queue from a full one, agrees with the two
\* indices, and both stay inside the buffer: also when the queue has been
\* filled beyond its capacity, where its contents are lost.
RingIndices ==
  /\ head \in Slots /\ tail \in Slots
  /\ tail = (head + size) % Capacity

\* The inductive invariant: until the queue is overfilled, what lies between
\* head and tail has moreover been stored by a caller.
Stored ==
  /\ size <= Capacity
  /\ \A k \in 0 .. size - 1 : elems[(head + k) % Capacity] \in Elems

QueueInv ==
  /\ TypeOK
  /\ RingIndices
  /\ ~ overfilled => Stored

\* The ring buffer is a FIFO queue: peek and dequeue return what was enqueued
\* first and not yet dequeued, over every wrap-around of the indices.
Abstract == INSTANCE FIFO WITH q <- IF alive THEN Contents ELSE <<>>

IsFIFO == Abstract!Spec

\* It is, as long as nobody enqueues into it when it is full.
FIFOUnlessOverfilled ==
  Abstract!Init /\ [][Abstract!Next \/ overfilled']_(Abstract!vars)

\* queue_free frees the elements from the head to the tail: all that a queue of less
\* than its capacity holds (a full one has its head equal to its tail).
FreesUnlessFull == ~ alive /\ size < Capacity => released = Contents
=============================================================================
