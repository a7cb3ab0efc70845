--------------------------- MODULE WebServerProps ---------------------------
(***************************************************************************)
(* What the server of WebServerDemo must do: what the server in C does.    *)
(***************************************************************************)
EXTENDS WebServer

\* The types of the variables; an object that a descriptor leads to was created
\* for that descriptor and no other.
TypeOK ==
  /\ TypeOKSockets
  /\ connList \in [Fds -> Ports \cup Conns \cup {Free}]
  /\ mode \in {"boot", "wait", "dispatch", "ended", "crashed"}
  /\ \A f \in Fds : connList[f] # Free => object[connList[f]].fd = f
  /\ \A f \in Fds : files[f] \in Ports \cup Conns => connList[f] = files[f]

(***************************************************************************)
(* The objects behind the pointers behave as the entries of reactor.c: the *)
(* server of WebServerDemo implements the one of 2.1.1-multi-io, step for  *)
(* step, descriptors reused and objects replaced included.                 *)
(***************************************************************************)
Callback(o) == CASE object[o].class = "ConnItemListen" -> "accept"
                 [] object[o].class = "ConnItemRecv" -> "recv"
Entry(f) == LET o == connList[f] IN
            IF o = Free THEN [callback |-> "none", rbuffer |-> <<>>, wbuffer |-> <<>>]
            ELSE [callback |-> Callback(o), rbuffer |-> object[o].rbuffer,
                  wbuffer |-> object[o].wbuffer]

CReactor == INSTANCE ReactorProps WITH connlist <- [f \in Fds |-> Entry(f)]

ImplementsReactor == CReactor!Spec

(***************************************************************************)
(* So it keeps the promises of that server.  No byte is lost, repeated,    *)
(* reordered or sent from the object of another connection, although the   *)
(* pointers of connList are overwritten and no object is deleted: what was *)
(* sent back, what waits in the wbuffer of the connection's own object and *)
(* what waits in its socket is what the client sent.                       *)
(***************************************************************************)
Pending(k) == IF \E f \in Fds : files[f] = k /\ epoll[f] = "out" THEN object[k].wbuffer ELSE <<>>
Echoes ==
  \A k \in Conns :
    /\ reply[k] = SubSeq(Sent(k), 1, Len(reply[k]))
    /\ sock[k].phase = "open" /\ ~sock[k].shut => reply[k] \o Pending(k) \o sock[k].in = Sent(k)

\* An event of a batch is still true when the loop of Server::run comes to it.
EventsStayTrue == CReactor!EventsStayTrue

\* Once it listens, only a client that closes before it has read all of its
\* answer brings the server down.
OnlyEarlyCloseKills == CReactor!OnlyEarlyCloseKills
=============================================================================
