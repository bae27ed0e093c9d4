------------------------------ MODULE MCQueue ------------------------------
(* Three slots, so that the indices wrap around in every position, and      *)
(* elements enough to tell any two slots apart.                             *)
EXTENDS Queue
=============================================================================
