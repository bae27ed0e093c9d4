------------------------------- MODULE MCHeap -------------------------------
(* Six elements make a heap of three levels under either reading of the    *)
(* parent relation; two pairs of them compare equal.                       *)
EXTENDS Heap

MCElems == 1 .. 6
MCKey == <<1, 2, 2, 3, 4, 4>>
=============================================================================
