---------------------------- MODULE MCHashTable -----------------------------
(* Four names, one with two keys, in tables of 1, 2 and 4 buckets: a and b  *)
(* collide at 1 and 2, and part at 4; a and c always collide.               *)
EXTENDS HashTable

MCName == [a1 |-> "a", a2 |-> "a", b |-> "b", c |-> "c", d |-> "d"]
MCHash == [a |-> 0, b |-> 2, c |-> 8, d |-> 3]
MCKeys == DOMAIN MCName
=============================================================================
