---------------------------- MODULE MultiIoState ----------------------------
(***************************************************************************)
(* The state of the servers of multi-io.c, hook-pthread.c and hook.c, and  *)
(* what has to hold of what they read before they use it.  A server        *)
(* (SelectServer, EpollServer, ThreadServer) uses the common variables and *)
(* its own.                                                                *)
(***************************************************************************)
EXTENDS Sockets

CONSTANTS Word,          \* descriptors in one word of an fd_set (64 in the program)
          MaxThreads,    \* bound on the threads; pthread_create fails beyond it
          StartMayFail   \* whether bind, epoll_create or pthread_create may fail

\* There are descriptors for sockfd and epfd, and main is a thread.
ASSUME MultiIoAssumption ==
  /\ Word \in Nat \ {0} /\ MaxThreads \in Nat \ {0} /\ StartMayFail \in BOOLEAN
  /\ Stdio + 1 <= MaxFd

VARIABLES mode,     \* the macro that is 1, or the hook program
          at,       \* where main is; ended, killed, undefined, spinning
          buffer,   \* buffer[0 .. cnt-1] of main
          i,        \* the descriptor of a scan; the index of the event in hand, from 0
          reply     \* history: the bytes sent on each connection

\* SelectServer: watch is rfds of select, and the fds[f].fd >= 0 of poll; ready
\* is rset of select, and the revents of poll.
VARIABLES watch, ready, maxfd,
          nfds      \* history: maxfd when the last call was made

VARIABLE batch      \* EpollServer: the descriptors of the events of the last epoll_wait

VARIABLES clientfd,   \* ThreadServer: the variable of the accept loop
          threads,    \* the threads made so far: pc, clientfd, socket in recv, buffer
          overtaken   \* history: accept returned before a thread read clientfd

\* The descriptors that a server opens first.
SockFd == Stdio
EpFd == Stdio + 1

(***************************************************************************)
(* select and poll come to a descriptor they take for ready only when it   *)
(* is: the results were read before accept reused descriptors and earlier  *)
(* rounds of the scan closed some, and recv or accept would otherwise block*)
(* the only thread.  The one exception is select's: when accept lowered    *)
(* maxfd and raises it again, rset holds, in the words beyond the ones the *)
(* call looked at, the bits of rfds.  poll's results above maxfd are as    *)
(* old, but of events nobody has handled.  An event of an epoll batch stays*)
(* true until close(i) has hit a descriptor of the program's own; in a     *)
(* longer batch i can be the descriptor of another connection.             *)
(***************************************************************************)
Due(f) == IF at = "accept" THEN f = SockFd ELSE i <= f /\ f <= maxfd
InUse(f) == at = "send" /\ f = i
Unasked(f) == mode = "select" /\ f \div Word > nfds \div Word
OwnIntact == /\ \A f \in Fds : f < Stdio \/ f = EpFd => files[f] = Other
             /\ files[SockFd] \in Ports
ReadyStaysTrue ==
  /\ mode \in {"select", "poll"} /\ at \in {"accept", "scan", "send"} =>
       \A f \in ready : Due(f) => Readable(files[f]) \/ InUse(f) \/ Unasked(f)
  /\ mode = "epoll" /\ at \in {"scan", "send"} /\ OwnIntact /\ Len(batch) <= EpFd + 1 =>
       \A n \in i + 1 .. Len(batch) :
         (at = "send" /\ n = i + 1) \/ (epoll[batch[n]] = "in" /\ Readable(files[batch[n]]))

(***************************************************************************)
(* As long as accept never returned before a new thread had read clientfd, *)
(* no two threads have one descriptor, although descriptors are reused and *)
(* a thread closes its own only after recv has returned: no thread closes  *)
(* or reads the connection of another.                                     *)
(***************************************************************************)
Serving(t) == threads[t].pc \in {"recv", "send", "close"} /\ threads[t].fd # -1
OwnDescriptor ==
  ~overtaken =>
    \A t, u \in DOMAIN threads :
      /\ t # u /\ Serving(t) /\ Serving(u) => threads[t].fd # threads[u].fd
      /\ Serving(t) => files[threads[t].fd] \in Conns
      /\ Serving(t) /\ threads[t].in # Free => files[threads[t].fd] = threads[t].in
=============================================================================
