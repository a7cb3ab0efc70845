---------------------------- MODULE ReactorProps ----------------------------
(***************************************************************************)
(* What the echo server must do.                                           *)
(***************************************************************************)
EXTENDS Reactor

\* The types of all variables; no buffer is ever overrun.
TypeOK ==
  /\ TypeOKSockets
  /\ mode \in {"boot", "wait", "dispatch", "ended", "crashed"}
  /\ \A f \in Fds : /\ connlist[f].callback \in {"none", "accept", "recv"}
                    /\ Len(connlist[f].rbuffer) <= BUFFER_LEN
                    /\ Len(connlist[f].wbuffer) <= BUFFER_LEN
  /\ (mode = "dispatch") <=> (events # {} /\ mode # "crashed")

(***************************************************************************)
(* An event of a batch that the loop has not come to yet is still true     *)
(* when it does: the earlier handlers of the batch, which close and reuse  *)
(* descriptors, leave it with the connection it was reported for, and the  *)
(* call it leads to does not block the only thread of the server.          *)
(***************************************************************************)
EventsStayTrue ==
  mode # "crashed" =>
    \A e \in events : /\ files[e.fd] = e.of
                      /\ epoll[e.fd] = e.ev
                      /\ IF e.ev = "in" THEN Readable(e.of) ELSE Writable(e.of)

(***************************************************************************)
(* No byte is lost, repeated, reordered or given to another connection,    *)
(* although descriptors and their entries are reused: what was sent back,  *)
(* what waits in wbuffer and what waits in the socket is what the client   *)
(* sent.  A reset may lose bytes, but what was sent back is still a prefix.*)
(***************************************************************************)
Pending(k) == IF \E f \in Fds : files[f] = k /\ epoll[f] = "out"
              THEN connlist[CHOOSE f \in Fds : files[f] = k].wbuffer ELSE <<>>
Echoes ==
  \A k \in Conns :
    /\ reply[k] = SubSeq(Sent(k), 1, Len(reply[k]))
    /\ sock[k].phase = "open" /\ ~sock[k].shut => reply[k] \o Pending(k) \o sock[k].in = Sent(k)

\* Every byte a client sends comes back.
EveryByteEchoed ==
  \A k \in Conns, n \in 1 .. MaxBytes : sock[k].sent >= n ~> Len(reply[k]) >= n

(***************************************************************************)
(* Once it listens, the server is only ever brought down by a client that  *)
(* closes before it has had and read all of its answer: whatever is queued,*)
(* reused or in flight, a client that waits for its echo does no harm.     *)
(***************************************************************************)
ClosedEarly(k) == sock[k].peer = "closed" /\ (sock[k].out > 0 \/ Len(reply[k]) < sock[k].sent)
OnlyEarlyCloseKills ==
  mode = "crashed" /\ Unbound = {} => \E k \in Conns : sock[k].phase = "open" /\ ClosedEarly(k)
=============================================================================
