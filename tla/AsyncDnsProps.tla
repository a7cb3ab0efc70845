--------------------------- MODULE AsyncDnsProps ---------------------------
(***************************************************************************)
(* What the asynchronous resolver must do.                                 *)
(***************************************************************************)
EXTENDS AsyncDns

\* The types of all variables.
TypeOK ==
  /\ main \in MainPC /\ proc \in ProcPC
  /\ i \in 0 .. Count /\ data \in Queries \cup {NoQuery}
  /\ proc \in {"recv", "delete", "close", "free"} => data # NoQuery
  /\ names \subseteq Queries /\ heap \subseteq Queries /\ batch \subseteq Queries
  /\ files \in [Fds -> Queries \cup {NoQuery}]
  /\ watched \in [Fds -> Queries \cup {NoQuery}]
  /\ sockfd \in [Queries -> Fds]
  /\ \A q \in Queries : inbox[q] \subseteq {"reply", "error"}

(***************************************************************************)
(* What epoll hands to the thread, and what the thread works on, is an     *)
(* ep_arg that is allocated and a socket that is still that of its query,  *)
(* although main opens sockets on the descriptors the thread closes.       *)
(***************************************************************************)
InHand == batch \cup (IF proc \in {"recv", "delete", "close"} THEN {data} ELSE {})
EventsOwnTheirSocket ==
  /\ \A q \in InHand : q \in heap /\ files[sockfd[q]] = q
  /\ \A f \in Fds : watched[f] # NoQuery => watched[f] \in heap /\ files[f] = watched[f]

(***************************************************************************)
(* What has arrived for a query that is watched reaches its callback,      *)
(* whatever main and the thread do with descriptors in the meantime, unless*)
(* the program ends or the thread gave up after a failed epoll_wait.       *)
(***************************************************************************)
Over == ~Running \/ proc = "broken"
Delivered(q) == \E f \in Fds : files[f] = q /\ watched[f] = q /\ inbox[q] # {}
EveryReplyCalledBack == \A q \in Queries : Delivered(q) ~> (called[q] # {} \/ Over)

(***************************************************************************)
(* Once a query was called back its socket is closed, out of epoll, and its*)
(* ep_arg is free.  All that it may keep is the name of its question, which*)
(* is never freed.                                                         *)
(***************************************************************************)
Kept(q) == {r \in {"socket", "place in epoll", "ep_arg", "qname"} :
              \/ r = "socket" /\ SocketOpen(q)
              \/ r = "place in epoll" /\ \E f \in Fds : watched[f] = q
              \/ r = "ep_arg" /\ q \in heap
              \/ r = "qname" /\ q \in names}
OnlyNameKept == \A q \in Queries : called[q] # {} ~> (Kept(q) \subseteq {"qname"} \/ Over)

(***************************************************************************)
(* The resolver does for each query what Resolver says, in its order:      *)
(* whatever main and the thread do to descriptors that both of them use,   *)
(* no query loses its socket, its place in epoll or its ep_arg before its  *)
(* own callback was called, once and with what came for it, and gives all  *)
(* three back before the next callback.                                    *)
(***************************************************************************)
Committing == main \in {"send", "alloc", "add"}
Stage(q) ==
  IF called[q] # {} THEN IF SocketOpen(q) THEN "called" ELSE IF q \in heap THEN "closed" ELSE "released"
  ELSE IF q > i \/ (q = i /\ ~Committing) THEN "new"
  ELSE IF q = i THEN "open"
  ELSE IF \E f \in Fds : watched[f] = q THEN "listening" ELSE "lost"

CResolver == INSTANCE Resolver WITH stage <- [q \in Queries |-> Stage(q)], Sockets <- MaxFd + 1

ImplementsResolver == CResolver!Spec
=============================================================================
