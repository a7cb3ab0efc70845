---------------------------- MODULE ThreadServer ----------------------------
(***************************************************************************)
(* The servers that block in recv: multi-io.c with MULTI_PTHREAD           *)
(* ("thread") and hook-pthread.c ("hook"), which give every connection a   *)
(* thread; hook.c ("single") and multi-io.c with SINGLE_MODE ("once"),     *)
(* where main serves one connection.                                       *)
(*                                                                         *)
(* main hands a thread the address of its clientfd.  The block ends and    *)
(* the next iteration's clientfd has the same place in the frame, so a     *)
(* thread reads whatever accept has returned last.  at is where main is:   *)
(* start, first, accept, create, serving, or ended or killed.              *)
(***************************************************************************)
EXTENDS MultiIoState

vars == <<kernel, mode, at, clientfd, threads, overtaken, reply>>

Thread(pc, fd) == [pc |-> pc, fd |-> fd, in |-> Free, buffer |-> <<>>]

Init == /\ SocketsInit
        /\ mode \in {"thread", "hook", "single", "once"} /\ at = "start"
        /\ clientfd = -1 /\ threads = <<>> /\ overtaken = FALSE
        /\ reply = [k \in Conns |-> <<>>]

Start == /\ at = "start"
         /\ \/ /\ files' = [files EXCEPT ![SockFd] = CHOOSE p \in Ports : TRUE]
               /\ at' = IF mode = "thread" THEN "accept" ELSE "first"
            \/ StartMayFail /\ at' = "ended" /\ UNCHANGED files
         /\ UNCHANGED <<sock, epoll, events, mode, clientfd, threads, overtaken, reply>>

\* accept: without a free descriptor it fails before it looks at the queue.
Accepted(fd) ==
  \/ FreeFds = {} /\ fd = -1 /\ UNCHANGED <<files, sock>>
  \/ \E k \in Conns : /\ FreeFds # {} /\ fd = LowestFree /\ Queued(k, files[SockFd])
                      /\ files' = [files EXCEPT ![fd] = k]
                      /\ sock' = [sock EXCEPT ![k].phase = "open"]

\* The accept before the loop.  hook-pthread.c never uses its result; the
\* others serve it in main, which is the only entry of threads then.
AcceptFirst == /\ at = "first"
               /\ \E fd \in Fds \cup {-1} :
                    /\ Accepted(fd)
                    /\ threads' = IF mode = "hook" THEN threads ELSE <<Thread("recv", fd)>>
               /\ at' = IF mode = "hook" THEN "accept" ELSE "serving"
               /\ UNCHANGED <<epoll, events, mode, clientfd, overtaken, reply>>

Accept == /\ at = "accept"
          /\ \E fd \in Fds \cup {-1} : Accepted(fd) /\ clientfd' = fd
          /\ overtaken' = (overtaken \/ \E t \in DOMAIN threads : threads[t].pc = "start")
          /\ at' = "create"
          /\ UNCHANGED <<epoll, events, mode, threads, reply>>

\* A failed pthread_create is not noticed.
Create == /\ at = "create"
          /\ \/ Len(threads) < MaxThreads /\ threads' = Append(threads, Thread("start", -1))
             \/ (StartMayFail \/ Len(threads) = MaxThreads) /\ UNCHANGED threads
          /\ at' = "accept"
          /\ UNCHANGED <<kernel, mode, clientfd, overtaken, reply>>

-----------------------------------------------------------------------------
(* A thread, t. *)

ReadArg(t) == /\ threads[t].pc = "start"
              /\ threads' = [threads EXCEPT ![t] = Thread("recv", clientfd)]
              /\ UNCHANGED <<kernel, at, reply>>

\* The thread enters recv, which holds the socket until it returns.  On a
\* descriptor that is not open, recv and send fail until it is.
EnterRecv(t) == /\ threads[t].pc = "recv" /\ threads[t].in = Free /\ threads[t].fd \in Fds
                /\ files[threads[t].fd] \in Conns
                /\ threads' = [threads EXCEPT ![t].in = files[threads[t].fd]]
                /\ UNCHANGED <<kernel, at, reply>>

\* Where the loop goes with cnt.
AfterRecvNoBreak(n) == IF n >= 0 THEN "send" ELSE "recv"   \* wrong variant: no test for 0
AfterRecv(n) == IF n > 0 THEN "send" ELSE IF n = 0 \/ mode = "once" THEN "close" ELSE "recv"

\* recv returns.  After -1, send of (size_t)-1 bytes raises SIGPIPE on the reset
\* connection or fails; write of as many always fails.
Recv(t) ==
  LET k == threads[t].in IN
  /\ threads[t].pc = "recv" /\ k # Free
  /\ Readable(k)
  /\ LET n == RecvCount(k, BUFFER_LEN) IN
     threads' = [threads EXCEPT ![t].in = Free, ![t].buffer = RecvData(k, BUFFER_LEN),
                                ![t].pc = AfterRecv(n)]
  /\ sock' = Received(k, BUFFER_LEN)
  /\ at' \in {at} \cup IF RecvCount(k, BUFFER_LEN) = -1 /\ mode \in {"thread", "once"} THEN {"killed"} ELSE {}
  /\ UNCHANGED <<files, epoll, events, reply>>

\* The connection that send is called on.
Send(t) ==
  LET k == files[threads[t].fd]
      data == threads[t].buffer
      rest == [threads EXCEPT ![t] = [@ EXCEPT !.pc = IF mode = "once" THEN "close" ELSE "recv", !.buffer = <<>>]]
  IN /\ threads[t].pc = "send"
     /\ \/ k = Free /\ threads' = rest /\ UNCHANGED <<sock, at, reply>>
        \/ k # Free /\ SendKills(k) /\ at' = "killed" /\ UNCHANGED <<threads, sock, reply>>
        \/ /\ k # Free /\ ~SendKills(k) /\ SendReturns(k, Len(data))
           /\ threads' = rest
           /\ sock' = SentTo(k, Len(data))
           /\ reply' = IF SendFails(k) THEN reply ELSE [reply EXCEPT ![k] = @ \o data]
           /\ UNCHANGED at
     /\ UNCHANGED <<files, epoll, events>>

\* close(clientfd) of whatever the descriptor stands for by now; the thread
\* ends, and main, when it served the connection, returns.
AfterCloseLoops == "recv"   \* wrong variant: the loop goes on
AfterClose == "ended"

Close(t) == /\ threads[t].pc = "close"
            /\ IF files[threads[t].fd] = Free THEN UNCHANGED <<files, sock, epoll>> ELSE CloseFd(threads[t].fd)
            /\ threads' = [threads EXCEPT ![t] = Thread(AfterClose, IF AfterClose = "ended" THEN -1 ELSE threads[t].fd)]
            /\ at' = IF at = "serving" THEN "ended" ELSE at
            /\ UNCHANGED <<events, reply>>

Threads == /\ at \notin {"ended", "killed"}
           /\ \E t \in DOMAIN threads : ReadArg(t) \/ EnterRecv(t) \/ Recv(t) \/ Send(t) \/ Close(t)
           /\ UNCHANGED <<mode, clientfd, overtaken>>

Main == Start \/ AcceptFirst \/ Accept \/ Create

Server == Main \/ Threads

Clients == /\ \E k \in Conns : Client(k, Len(reply[k]) = sock[k].sent)
           /\ UNCHANGED <<mode, at, clientfd, threads, overtaken, reply>>

Next == Server \/ Clients

Spec == Init /\ [][Next]_vars
=============================================================================
