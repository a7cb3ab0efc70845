-------------------------- MODULE CoroutinesState ---------------------------
(***************************************************************************)
(* The state of ucontext.c (module Coroutines), and what has to hold of it.*)
(***************************************************************************)
EXTENDS Integers

CONSTANTS N, K,       \* the count that ends it (30), the coroutines (3)
          Contents    \* what a.txt may hold when it is opened

ASSUME CoroutineAssumption == N \in Nat /\ K \in Nat \ {0}

VARIABLES running,  \* file, main, coroutine, or ended
          current,  \* the coroutine that runs or ran last
          count,
          ctx,      \* coroutine -> fresh, yielded (in swapcontext), or returned
          buffer    \* what main read of the file

(***************************************************************************)
(* No context that has returned is resumed, though main and the coroutines *)
(* test the shared count apart, and the two tests differ by one.           *)
(***************************************************************************)
NeverResumesReturned == running = "coroutine" => ctx[current] # "returned"
=============================================================================
