----------------------------- MODULE MCReactor -----------------------------
\* Reactor for TLC: connections are interchangeable.
EXTENDS ReactorProps, TLC

Symmetry == Permutations(Conns)
=============================================================================
