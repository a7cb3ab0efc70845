---------------------------- MODULE MCThreadPool ----------------------------
\* ThreadPool for TLC: small sets of tasks and clients, interchangeable.
EXTENDS ThreadPoolProps, TLC

Symmetry == Permutations(Tasks) \cup Permutations(Clients)

\* What uninitialised counters may hold: values on both sides of zero.
Garbages == {-3, 2}
=============================================================================
