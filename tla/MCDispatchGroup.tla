--------------------------- MODULE MCDispatchGroup ---------------------------
\* Instances of DispatchGroup: a few tasks, notes and waiters, all alike.
EXTENDS DispatchGroup, TLC

Symmetry == Permutations(Tasks) \cup Permutations(Notes) \cup Permutations(Waiters)
=============================================================================
