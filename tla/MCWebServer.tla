---------------------------- MODULE MCWebServer ----------------------------
\* WebServer for TLC: connections are interchangeable.
EXTENDS WebServerProps, TLC

Symmetry == Permutations(Conns)
=============================================================================
