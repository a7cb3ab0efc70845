---------------------------- MODULE EpollServer ----------------------------
(***************************************************************************)
(* multi-io.c compiled with EPOLL_MODE.  The loop receives on connfd, the  *)
(* descriptor of an event, but sends on and closes i, the event's index in *)
(* the batch: 0 and up, where the program's own descriptors are.  at is    *)
(* start, wait, scan or send, or ended, killed, undefined or spinning.     *)
(***************************************************************************)
EXTENDS MultiIoState

vars == <<kernel, mode, at, batch, i, buffer, reply>>

Init == /\ SocketsInit
        /\ mode = "epoll" /\ at = "start"
        /\ batch = <<>> /\ i = 0 /\ buffer = <<>>
        /\ reply = [k \in Conns |-> <<>>]

\* socket, bind, listen, epoll_create and EPOLL_CTL_ADD of sockfd.  Without an
\* epoll instance every epoll_wait fails and the loop spins.
Start == /\ at = "start"
         /\ \/ /\ files' = [files EXCEPT ![SockFd] = CHOOSE p \in Ports : TRUE, ![EpFd] = Other]
               /\ epoll' = [epoll EXCEPT ![SockFd] = "in"] /\ at' = "wait"
            \/ StartMayFail /\ at' \in {"ended", "spinning"} /\ UNCHANGED <<files, epoll>>
         /\ UNCHANGED <<sock, events, mode, batch, i, buffer, reply>>

EpollOpen == files[EpFd] = Other

\* The events of a batch come in any order.
Wait == /\ at = "wait"
        /\ \/ /\ ~EpollOpen /\ at' = "spinning" /\ UNCHANGED batch
           \/ LET all == {f \in Fds : Ready(f)} IN
              /\ EpollOpen /\ all # {} /\ at' = "scan"
              /\ \E b \in [1 .. Cardinality(all) -> all] :
                   (\A f \in all : \E n \in DOMAIN b : b[n] = f) /\ batch' = b
        /\ i' = 0
        /\ UNCHANGED <<kernel, mode, buffer, reply>>

connfd == batch[i + 1]

BatchEnds == /\ at = "scan" /\ i = Len(batch)
             /\ at' = "wait"
             /\ UNCHANGED <<kernel, mode, batch, i, buffer, reply>>

\* accept fails when there is no descriptor left or sockfd was closed.
Accept ==
  /\ connfd = SockFd
  /\ \/ /\ FreeFds = {} \/ files[SockFd] = Free
        /\ UNCHANGED <<files, sock, epoll>>
     \/ \E k \in Conns :
          /\ files[SockFd] \in Ports /\ FreeFds # {} /\ Queued(k, files[SockFd])
          /\ files' = [files EXCEPT ![LowestFree] = k]
          /\ sock' = [sock EXCEPT ![k].phase = "open"]
          /\ epoll' = IF EpollOpen THEN [epoll EXCEPT ![LowestFree] = "in"] ELSE epoll
  /\ i' = i + 1
  /\ UNCHANGED <<at, buffer>>

\* The client has ended: EPOLL_CTL_DEL of connfd, and close of the index.
RecvEnd == /\ files[connfd] \in Conns /\ RecvCount(files[connfd], BUFFER_LEN) = 0
           /\ files' = [files EXCEPT ![i] = Free]
           /\ sock' = [k \in Conns |-> IF files[i] = k THEN [sock[k] EXCEPT !.phase = "closed"] ELSE sock[k]]
           /\ epoll' = [epoll EXCEPT ![i] = "none", ![connfd] = IF EpollOpen THEN "none" ELSE @]
           /\ i' = i + 1
           /\ UNCHANGED <<at, buffer>>

\* recv fails, on a reset connection or a descriptor closed meanwhile, and send
\* is given (size_t)-1.  On a socket that raises SIGPIPE, sends what lies on the
\* stack, or fails.
RecvError == /\ \/ files[connfd] = Free /\ UNCHANGED sock
                \/ /\ files[connfd] \in Conns /\ RecvCount(files[connfd], BUFFER_LEN) = -1
                   /\ sock' = Received(files[connfd], BUFFER_LEN)
             /\ at' \in {"scan"} \cup IF files[i] \in {Free, Other} THEN {} ELSE {"killed", "undefined"}
             /\ i' = i + 1
             /\ UNCHANGED <<files, epoll, buffer>>

RecvData1 == /\ files[connfd] \in Conns /\ RecvCount(files[connfd], BUFFER_LEN) > 0
             /\ buffer' = RecvData(files[connfd], BUFFER_LEN)
             /\ sock' = Received(files[connfd], BUFFER_LEN)
             /\ at' = "send"
             /\ UNCHANGED <<files, epoll, i>>

Handle == /\ at = "scan" /\ i < Len(batch)
          /\ \/ Accept
             \/ /\ connfd # SockFd
                /\ files[connfd] \in Conns => Readable(files[connfd])
                /\ RecvEnd \/ RecvError \/ RecvData1
          /\ UNCHANGED <<events, mode, batch, reply>>

\* send on the index: ignored where there is no socket, SIGPIPE on a listener.
SendTo == files[i]

Send == /\ at = "send"
        /\ i' = i + 1
        /\ \/ SendTo \in {Free, Other} /\ at' = "scan" /\ UNCHANGED <<sock, reply>>
           \/ SendTo \in Ports /\ at' = "killed" /\ UNCHANGED <<sock, reply>>
           \/ /\ SendTo \in Conns
              /\ IF SendKills(SendTo) THEN at' = "killed" /\ UNCHANGED <<sock, reply>>
                 ELSE /\ SendReturns(SendTo, Len(buffer))
                      /\ sock' = SentTo(SendTo, Len(buffer))
                      /\ reply' = IF SendFails(SendTo) THEN reply ELSE [reply EXCEPT ![SendTo] = @ \o buffer]
                      /\ at' = "scan"
        /\ UNCHANGED <<files, epoll, events, mode, batch, buffer>>

Server == Start \/ Wait \/ BatchEnds \/ Handle \/ Send

\* The clients were meant to be answered; a patient one waits for that.
Clients == /\ \E k \in Conns : Client(k, Len(reply[k]) = sock[k].sent)
           /\ UNCHANGED <<mode, at, batch, i, buffer, reply>>

Next == Server \/ Clients

Spec == Init /\ [][Next]_vars
=============================================================================
