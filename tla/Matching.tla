------------------------------ MODULE Matching ------------------------------
(***************************************************************************)
(* What a crossbar may carry in one time slot, whoever computes it: sets   *)
(* of <<input, output>> pairs.  ISLIP.tla grows one in rounds, Scheduler   *)
(* says what it promises of it, and CycleSwitch.tla uses the result.       *)
(***************************************************************************)
EXTENDS Integers, FiniteSets

CONSTANT N                      \* num_ports

ASSUME NumPorts == N \in Nat \ {0}

Ports == 0 .. N - 1

\* ISLIP_ROUNDS(n): ceil(log2(n)), the number of powers of two below n, which
\* is 0 for a single port.
Rounds == Cardinality({r \in Ports : 2^r < N})

Inputs(pairs) == {p[1] : p \in pairs}

Outputs(pairs) == {p[2] : p \in pairs}

\* No port is used twice.
IsMatching(pairs) ==
  \A p, q \in pairs : p # q => p[1] # q[1] /\ p[2] # q[2]

\* The requests whose input and output are both free still.
Free(pairs, waiting) ==
  {p \in waiting : p[1] \notin Inputs(pairs) /\ p[2] \notin Outputs(pairs)}

\* As good as Rounds rounds are bound to be: nothing can be added, or every
\* round has added a pair.
Enough(pairs, waiting) ==
  Free(pairs, waiting) = {} \/ Cardinality(Inputs(pairs)) >= Rounds

\* A matching as an array: an input without a match has the 0 of the reset.
Mapping(pairs) ==
  [i \in Ports |->
     IF i \in Inputs(pairs) THEN CHOOSE o \in Ports : <<i, o>> \in pairs ELSE 0]

MutantResults(waiting) == {pairs \in SUBSET (Ports \X Ports) : IsMatching(pairs)}

\* The matchings a call for the waiting VOQs may return.
Results(waiting) ==
  {pairs \in SUBSET waiting : IsMatching(pairs) /\ Enough(pairs, waiting)}
=============================================================================
