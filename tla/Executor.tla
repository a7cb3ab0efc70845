------------------------------ MODULE Executor ------------------------------
(***************************************************************************)
(* What a thread pool promises to the program that uses it, with no        *)
(* threads, locks or signals: tasks start in the order they were accepted, *)
(* each at most once, at most MaxNum at a time; closing the pool lets      *)
(* running tasks finish and may throw the backlog away.                    *)
(***************************************************************************)
EXTENDS Integers, Sequences, FiniteSets

CONSTANTS Tasks, MaxNum

VARIABLES accepted,   \* tasks handed to the pool so far
          backlog,    \* accepted and not yet started, oldest first
          running,    \* started and not yet finished
          finished,   \* run to completion
          closed      \* the pool has begun to close

vars == <<accepted, backlog, running, finished, closed>>

Init == /\ accepted = {}
        /\ backlog = <<>>
        /\ running = {}
        /\ finished = {}
        /\ closed = FALSE

Accept(t) == /\ t \notin accepted
             /\ ~closed
             /\ accepted' = accepted \cup {t}
             /\ backlog' = Append(backlog, t)
             /\ UNCHANGED <<running, finished, closed>>

\* A task may still start after closed: a worker may already be past its check.
Start == /\ backlog # <<>>
         /\ Cardinality(running) < MaxNum
         /\ Head(backlog) \notin running \cup finished
         /\ running' = running \cup {Head(backlog)}
         /\ backlog' = Tail(backlog)
         /\ UNCHANGED <<accepted, finished, closed>>

Finish(t) == /\ t \in running
             /\ running' = running \ {t}
             /\ finished' = finished \cup {t}
             /\ UNCHANGED <<accepted, backlog, closed>>

Close == /\ ~closed
         /\ closed' = TRUE
         /\ UNCHANGED <<accepted, backlog, running, finished>>

Discard == /\ closed
           /\ backlog' = <<>>
           /\ UNCHANGED <<accepted, running, finished, closed>>

Next == \/ \E t \in Tasks : Accept(t) \/ Finish(t)
        \/ Start
        \/ Close
        \/ Discard

Spec == Init /\ [][Next]_vars
=============================================================================
