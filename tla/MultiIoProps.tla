---------------------------- MODULE MultiIoProps ----------------------------
(***************************************************************************)
(* What the servers of multi-io.c and the hook programs do and do not, with*)
(* what MultiIoState says of them.                                         *)
(***************************************************************************)
EXTENDS MultiIo

\* The types of all variables; whoever is about to send has something to send.
TypeOK ==
  /\ TypeOKSockets
  /\ mode \in {"select", "poll", "epoll", "thread", "hook", "single", "once"}
  /\ at \in {"start", "wait", "accept", "first", "create", "serving", "scan", "send",
             "ended", "killed", "undefined", "spinning"}
  /\ watch \cup ready \subseteq Fds /\ {maxfd, nfds} \subseteq Fds /\ i \in 0 .. MaxFd + 1
  /\ Len(buffer) <= BUFFER_LEN /\ batch \in Seq(Fds)
  /\ clientfd \in Fds \cup {-1} /\ Len(threads) <= MaxThreads
  /\ \A t \in DOMAIN threads : threads[t].pc \in {"start", "recv", "send", "close", "ended"}
  /\ \A t \in DOMAIN threads : threads[t].pc = "send" => threads[t].buffer # <<>>
  /\ at = "send" => buffer # <<>>

(***************************************************************************)
(* With select and poll, and with threads unless accept overtook one, no   *)
(* byte is lost, repeated, reordered or given to another connection: what  *)
(* was sent back, what is in hand and what waits in the socket is what the *)
(* client sent.  A reset may lose bytes.  With epoll nobody is answered    *)
(* until close(i) has hit a descriptor of the program's own, or so many are*)
(* connected that the index of an event can be one of theirs.              *)
(***************************************************************************)
InHand(k) == IF mode \in {"select", "poll"}
             THEN IF at = "send" /\ files[i] = k THEN buffer ELSE <<>>
             ELSE LET has == {t \in DOMAIN threads : threads[t].pc = "send" /\ files[threads[t].fd] = k} IN
                  IF has = {} THEN <<>> ELSE threads[CHOOSE t \in has : TRUE].buffer
Accepted == {k \in Conns : sock[k].phase \in {"open", "closed"}}
Echoes ==
  /\ mode # "epoll" /\ ~overtaken =>
       \A k \in Conns :
         /\ reply[k] = SubSeq(Sent(k), 1, Len(reply[k]))
         /\ sock[k].phase = "open" /\ ~sock[k].shut => reply[k] \o InHand(k) \o sock[k].in = Sent(k)
  /\ mode = "epoll" /\ OwnIntact /\ Cardinality(Accepted) < Stdio + 2 => \A k \in Conns : reply[k] = <<>>

(***************************************************************************)
(* In the end every byte has come back, from a server that is alive to a   *)
(* client that does not close, unless the connection is left aside: by     *)
(* select and poll because its descriptor stays above maxfd, by a select   *)
(* blocked on a bit nobody set, by threads because accept overtook one or  *)
(* none was made for it, by the servers of one connection as another's.    *)
(***************************************************************************)
Gone(k) == sock[k].peer = "closed" \/ at \in {"ended", "killed", "undefined", "spinning"}
LeftAside(k) ==
  \/ mode \in {"select", "poll"} /\ \E f \in Fds : files[f] = k /\ f > maxfd
  \/ mode = "select" /\ at = "scan" /\ \E f \in Select!Ahead : ~Readable(files[f])
  \/ mode = "epoll" \/ overtaken
  \/ at = "serving" /\ sock[k].phase = "queued"
  \/ /\ mode \in {"thread", "hook"} /\ (FreeFds = {} \/ sock[k].phase = "open")
     /\ ~\E t \in DOMAIN threads : threads[t].fd # -1 /\ files[threads[t].fd] = k
EveryByteEchoed == <>[](\A k \in Conns : Len(reply[k]) = sock[k].sent \/ Gone(k) \/ LeftAside(k))
=============================================================================
