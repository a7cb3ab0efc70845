------------------------------ MODULE Resolver ------------------------------
(***************************************************************************)
(* What the asynchronous resolver of async_dns_client_noblock.c promises   *)
(* of its queries, without threads, descriptors or epoll.                  *)
(*                                                                         *)
(* Each query goes its own way, one stage after the other: no query that   *)
(* is listened to is ever forgotten, and no step of one disturbs another,  *)
(* except that they share a limited number of sockets.                     *)
(***************************************************************************)
EXTENDS Integers, FiniteSets

CONSTANTS Count,    \* the number of domains asked for
          Sockets,  \* how many sockets there can be at a time
          MayFail   \* whether calls may fail

VARIABLES stage,  \* query -> how far it has come
          called  \* query -> the calls of its callback

vars == <<stage, called>>

Queries == 0 .. Count - 1

\* open: it has a socket, and is sent; listening: its reply will be heard;
\* lost: it keeps its socket and is never heard of again.
Stages == {"new", "open", "listening", "lost", "called", "closed", "released"}
HasSocket == {q \in Queries : stage[q] \in {"open", "listening", "lost", "called"}}

Init == /\ stage = [q \in Queries |-> "new"]
        /\ called = [q \in Queries |-> {}]

Move(q, from, to) == stage[q] = from /\ stage' = [stage EXCEPT ![q] = to]

\* Queries are asked in order, one at a time.
Ask(q) == /\ \A p \in Queries : p < q => stage[p] \notin {"new", "open"}
          /\ Cardinality(HasSocket) < Sockets
          /\ Move(q, "new", "open")
          /\ UNCHANGED called

Listen(q) == Move(q, "open", "listening") /\ UNCHANGED called

Abandon(q) == MayFail /\ Move(q, "open", "lost") /\ UNCHANGED called

\* One call, the first, with what came for this query; the query before it
\* has released its socket and its ep_arg.
Answer(q) == /\ \A p \in Queries : stage[p] \notin {"called", "closed"}
             /\ Move(q, "listening", "called")
             /\ \E m \in {"reply", "error"} : called' = [called EXCEPT ![q] = {<<0, q, m>>}]

CloseSocket(q) == Move(q, "called", "closed") /\ UNCHANGED called

Release(q) == Move(q, "closed", "released") /\ UNCHANGED called

Next == \E q \in Queries : \/ Ask(q) \/ Listen(q) \/ Abandon(q)
                           \/ Answer(q) \/ CloseSocket(q) \/ Release(q)

Spec == Init /\ [][Next]_vars
=============================================================================
