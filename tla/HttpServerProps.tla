-------------------------- MODULE HttpServerProps --------------------------
(***************************************************************************)
(* What the HTTP server must do.                                           *)
(***************************************************************************)
EXTENDS HttpServer

\* The types of all variables; rlen stays within rbuffer.
TypeOK ==
  /\ TypeOKSockets
  /\ mode \in {"start", "wait", "dispatch", "ended", "killed"}
  /\ \A f \in Fds : /\ conn_list[f].callback \in {"none", "accept", "recv"}
                    /\ conn_list[f].rlen \in 0 .. BUFFER_LEN
                    /\ conn_list[f].wlen \in {0, 1}
  /\ failed \subseteq Conns

(***************************************************************************)
(* An event of a batch is still true when the loop comes to it: the        *)
(* connection is the one it was reported for, and the call does not block. *)
(***************************************************************************)
EventsStayTrue ==
  mode # "killed" =>
    \A e \in events : /\ files[e.fd] = e.of
                      /\ epoll[e.fd] = e.ev
                      /\ IF e.ev = "in" THEN Readable(e.of) ELSE Writable(e.of)

(***************************************************************************)
(* rbuffer holds what the client sent on this connection, all of it and    *)
(* nothing of the connection that had the descriptor before: what was      *)
(* received and what waits in the socket is what the client sent.          *)
(***************************************************************************)
Watched(f) == files[f] \in Conns /\ epoll[f] # "none"
RequestInBuffer ==
  \A f \in Fds : Watched(f) =>
    conn_list[f].rlen + Len(sock[files[f]].in) = sock[files[f]].sent

(***************************************************************************)
(* Every successful recv is answered by exactly one response, or will be:  *)
(* a connection waits for EPOLLOUT as long as one is owed, after a reset   *)
(* and a failed send too, unless an epoll_ctl failed.                      *)
(***************************************************************************)
OneResponseEach ==
  \A f \in Fds :
    Watched(f) /\ files[f] \notin failed =>
      requests[files[f]] = responses[files[f]] + IF epoll[f] = "out" THEN 1 ELSE 0

(***************************************************************************)
(* The server is only ever killed, by the SIGPIPE of a send, through a     *)
(* client that closed while it was owed a response or had one unread, or   *)
(* that got responses it had not asked for since an epoll_ctl failed.      *)
(***************************************************************************)
ClosedEarly(k) ==
  /\ sock[k].peer = "closed"
  /\ sock[k].out > 0 \/ responses[k] < requests[k] \/ k \in failed
OnlyEarlyCloseKills ==
  mode = "killed" => \E k \in Conns : sock[k].phase = "open" /\ ClosedEarly(k)
=============================================================================
