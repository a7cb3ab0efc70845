---------------------------- MODULE MCHttpServer ----------------------------
\* HttpServer for TLC: connections are interchangeable.
EXTENDS HttpServerProps, TLC

Symmetry == Permutations(Conns)
=============================================================================
