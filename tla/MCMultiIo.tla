----------------------------- MODULE MCMultiIo -----------------------------
\* MultiIo for TLC.
EXTENDS MultiIoProps
=============================================================================
