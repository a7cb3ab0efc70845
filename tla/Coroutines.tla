----------------------------- MODULE Coroutines -----------------------------
(***************************************************************************)
(* ucontext.c: main resumes context count % K until count has passed N;    *)
(* every coroutine counts and yields to main in a loop, and returns to main*)
(* through uc_link when the counting is over (K = 3, N = 30).  The hooks   *)
(* are in the way of the file access before it.                            *)
(***************************************************************************)
EXTENDS CoroutinesState

cvars == <<running, current, count, ctx, buffer>>

Ctx == 0 .. K - 1

Init == /\ running = "file" /\ current = 0 /\ count = 0
        /\ ctx = [c \in Ctx |-> "fresh"]
        /\ buffer = "nothing"

\* open, which may fail, then write and read.  init_hook looks up "read" for
\* write_f as well: the write reads into its argument, a literal the kernel does
\* not write to.  So the file keeps what it held, and that is what is read.
File == /\ running = "file"
        /\ \/ running' = "ended" /\ UNCHANGED buffer
           \/ running' = "main" /\ buffer' \in Contents
        /\ UNCHANGED <<current, count, ctx>>

Schedule == /\ running = "main"
            /\ IF count <= N
               THEN /\ running' = "coroutine" /\ current' = count % K
               ELSE running' = "ended" /\ UNCHANGED current
            /\ UNCHANGED <<count, ctx, buffer>>

\* The test of func1, func2 and func3.
CountingShort == count < N - K   \* wrong variant: a bound of their own
Counting == count < N

\* func1, func2 and func3: count ++ < N, from the start or out of swapcontext.
\* Resuming one that has returned would run off the end of its stack.
Coroutine == /\ running = "coroutine" /\ ctx[current] # "returned"
             /\ count' = count + 1
             /\ ctx' = [ctx EXCEPT ![current] = IF Counting THEN "yielded" ELSE "returned"]
             /\ running' = "main"
             /\ UNCHANGED <<current, buffer>>

Next == File \/ Schedule \/ Coroutine

Spec == Init /\ [][Next]_cvars
=============================================================================
