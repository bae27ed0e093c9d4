--------------------------- MODULE MCCycleSwitch ---------------------------
EXTENDS CycleSwitch, TLC

\* Packets and hosts are only compared, so renaming them changes nothing.
Symmetry == Permutations(Memory) \cup Permutations(Addrs)
=============================================================================
