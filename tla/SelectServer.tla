---------------------------- MODULE SelectServer ----------------------------
(***************************************************************************)
(* multi-io.c compiled with SELECT_MODE or with POLL_MODE: an echo server  *)
(* that scans the descriptors up to maxfd.  The two loops have one shape;  *)
(* they differ in what the call leaves in its result where it did not look.*)
(* at is start, wait (in select or poll), accept, scan or send, or ended,  *)
(* killed or undefined.                                                    *)
(***************************************************************************)
EXTENDS MultiIoState

vars == <<kernel, mode, at, watch, ready, maxfd, i, buffer, nfds, reply>>

Init == /\ SocketsInit
        /\ mode \in {"select", "poll"} /\ at = "start"
        /\ watch = {} /\ ready = {} /\ maxfd = 0 /\ i = 0 /\ nfds = 0
        /\ buffer = <<>>
        /\ reply = [k \in Conns |-> <<>>]

\* socket, bind and listen.
Start == /\ at = "start"
         /\ \/ /\ files' = [files EXCEPT ![SockFd] = CHOOSE p \in Ports : TRUE]
               /\ watch' = {SockFd} /\ maxfd' = SockFd /\ at' = "wait"
            \/ StartMayFail /\ at' = "ended" /\ UNCHANGED <<files, watch, maxfd>>
         /\ UNCHANGED <<sock, epoll, events, mode, ready, i, buffer, nfds, reply>>

\* What the call does not look at keeps its value: the words of rset beyond
\* the last descriptor, which are still a copy of rfds; the revents beyond it.
ClearedRevents == ready   \* wrong variant: no revents is ever cleared
Revents == {f \in ready : f > maxfd}
Unseen == IF mode = "select" THEN {f \in watch : f \div Word > maxfd \div Word} ELSE Revents

\* select or poll returns when a descriptor up to maxfd is readable.
Wait == LET seen == {f \in watch : f <= maxfd /\ Readable(files[f])} IN
        /\ at = "wait"
        /\ seen # {}
        /\ ready' = seen \cup Unseen
        /\ nfds' = maxfd
        /\ at' = "accept"
        /\ UNCHANGED <<kernel, mode, watch, maxfd, i, buffer, reply>>

\* FD_SET, or the assignment of fds[fd].
WatchOnlyCounted(fd) == watch   \* wrong variant: only maxfd is set
Watch(fd) == watch \cup {fd}

\* The test of sockfd: one accept, which sets maxfd whatever it was before.
\* With no descriptor left, FD_SET(-1, &rfds) or fds[-1] is out of bounds.
Accept ==
  /\ at = "accept"
  /\ i' = SockFd + 1
  /\ \/ SockFd \notin ready /\ at' = "scan" /\ UNCHANGED <<files, sock, watch, maxfd>>
     \/ SockFd \in ready /\ FreeFds = {} /\ at' = "undefined" /\ UNCHANGED <<files, sock, watch, maxfd>>
     \/ \E k \in Conns :
          /\ SockFd \in ready /\ FreeFds # {} /\ Queued(k, files[SockFd])
          /\ files' = [files EXCEPT ![LowestFree] = k]
          /\ sock' = [sock EXCEPT ![k].phase = "open"]
          /\ watch' = Watch(LowestFree) /\ maxfd' = LowestFree /\ at' = "scan"
  /\ UNCHANGED <<epoll, events, mode, ready, buffer, nfds, reply>>

\* The descriptors the scan still has to look at and takes for ready.
Ahead == {f \in ready : i <= f /\ f <= maxfd}

ScanEnds == /\ at = "scan" /\ Ahead = {}
            /\ at' = "wait"
            /\ UNCHANGED <<kernel, mode, watch, ready, maxfd, i, buffer, nfds, reply>>

\* recv on the next ready descriptor, which blocks if it is not readable.
\* An error is not tested for: send is given (size_t)-1, and raises SIGPIPE on
\* the reset connection unless buffer + length leaves the address space.
ReadFd(f, k) ==
  LET n == RecvCount(k, BUFFER_LEN) IN
  \/ /\ n = 0
     /\ watch' = watch \ {f}
     /\ CloseFd(f)
     /\ i' = f + 1
     /\ UNCHANGED <<at, buffer>>
  \/ /\ n = -1
     /\ sock' = Received(k, BUFFER_LEN)
     /\ at' \in {"killed", "scan"} /\ i' = f + 1
     /\ UNCHANGED <<watch, files, epoll, buffer>>
  \/ /\ n > 0
     /\ buffer' = RecvData(k, BUFFER_LEN)
     /\ sock' = Received(k, BUFFER_LEN)
     /\ at' = "send" /\ i' = f
     /\ UNCHANGED <<watch, files, epoll>>

Scan == /\ at = "scan"
        /\ \E f \in Ahead : /\ \A g \in Ahead : f <= g
                            /\ Readable(files[f])
                            /\ ReadFd(f, files[f])
        /\ UNCHANGED <<events, mode, ready, maxfd, nfds, reply>>

\* The connection that send is called on.
LastAccepted == files[maxfd]   \* wrong variant
SendTo == files[i]

Send == /\ at = "send"
        /\ IF SendKills(SendTo) THEN at' = "killed" /\ UNCHANGED <<sock, i, reply>>
           ELSE /\ SendReturns(SendTo, Len(buffer))
                /\ sock' = SentTo(SendTo, Len(buffer))
                /\ reply' = IF SendFails(SendTo) THEN reply ELSE [reply EXCEPT ![SendTo] = @ \o buffer]
                /\ at' = "scan" /\ i' = i + 1
        /\ UNCHANGED <<files, epoll, events, mode, watch, ready, maxfd, buffer, nfds>>

Server == Start \/ Wait \/ Accept \/ ScanEnds \/ Scan \/ Send

Clients == /\ \E k \in Conns : Client(k, Len(reply[k]) = sock[k].sent)
           /\ UNCHANGED <<mode, at, watch, ready, maxfd, i, buffer, nfds, reply>>

Next == Server \/ Clients

Spec == Init /\ [][Next]_vars
=============================================================================
