------------------------------ MODULE Sockets ------------------------------
(***************************************************************************)
(* The part of the system under the servers that is not in the repository: *)
(* blocking TCP sockets, epoll (level triggered) and the clients at the    *)
(* other end, as the servers use them.                                     *)
(*                                                                         *)
(* A byte is a pair <<connection, position>>, so that bytes of different   *)
(* connections, lost bytes and repeated bytes can be told apart.           *)
(***************************************************************************)
EXTENDS Integers, Sequences, FiniteSets

CONSTANTS Ports,       \* the ports the server listens on
          Conns,       \* the connections clients make
          Free,        \* a descriptor that is not in use
          Other,       \* a file that is no socket: the terminal, an epoll instance
          Stdio,       \* how many descriptors are in use when the program starts
          MaxFd,       \* descriptors are 0 .. MaxFd
          MaxBytes,    \* bound on the bytes a client sends
          BUFFER_LEN,  \* size of a connection's buffer in the server
          SndBuf,      \* what the kernel accepts before send() blocks
          Hasty        \* whether a client may close before it was answered

ASSUME SocketAssumption ==
  /\ Ports \cap Conns = {} /\ Free # Other /\ {Free, Other} \cap (Ports \cup Conns) = {}
  /\ Ports # {} /\ {MaxFd, MaxBytes} \subseteq Nat /\ Stdio \in 0 .. MaxFd
  /\ BUFFER_LEN \in Nat \ {0}
  /\ SndBuf \in Nat /\ SndBuf >= BUFFER_LEN
  /\ Hasty \in BOOLEAN

VARIABLES files,   \* descriptor -> what it stands for
          sock,    \* connection -> state of the server's socket and its peer
          epoll,   \* descriptor -> the event epoll watches it for
          events   \* the events of the last epoll_wait not handled yet

kernel == <<files, sock, epoll, events>>

Fds == 0 .. MaxFd
FreeFds == {f \in Fds : files[f] = Free}
LowestFree == CHOOSE f \in FreeFds : \A g \in FreeFds : f <= g
Events == [fd : Fds, ev : {"in", "out"}, of : Ports \cup Conns]

NewSocket ==
  [phase |-> "new",     \* new, queued for accept, open, or closed by the server
   port  |-> Free,      \* the port it was made to
   peer  |-> "open",    \* whether the client has closed
   sent  |-> 0,         \* bytes the client has sent
   in    |-> <<>>,      \* received and not yet read by the server
   out   |-> 0,         \* sent by the server and not yet read by the client
   fin   |-> FALSE,     \* the client's FIN has arrived
   err   |-> "none",    \* sk_err: reset (ECONNRESET) or pipe (EPIPE)
   shut  |-> FALSE,     \* both directions are shut down by a reset
   rst   |-> FALSE]     \* a RST is on its way to the server

\* All bytes a client has sent.
Sent(k) == [n \in 1 .. sock[k].sent |-> <<k, n>>]

TypeOKSockets ==
  /\ files \in [Fds -> Ports \cup Conns \cup {Free, Other}]
  /\ epoll \in [Fds -> {"none", "in", "out"}]
  /\ events \subseteq Events
  /\ \A k \in Conns :
       /\ sock[k].phase \in {"new", "queued", "open", "closed"}
       /\ sock[k].sent \in 0 .. MaxBytes /\ sock[k].out \in Nat
       /\ sock[k].err \in {"none", "reset", "pipe"}

-----------------------------------------------------------------------------
(* What the calls of a server return and change.                           *)

Queued(k, p) == sock[k].phase = "queued" /\ sock[k].port = p

\* A connection is readable when recv will not block; a port, when accept won't.
Readable(x) ==
  IF x \in Ports THEN \E k \in Conns : Queued(k, x)
  ELSE sock[x].in # <<>> \/ sock[x].fin \/ sock[x].err # "none" \/ sock[x].shut

\* EPOLLOUT is reported when at least a third of the send buffer is free,
\* which is more than BUFFER_LEN: a send() of one buffer then does not block.
Writable(k) == sock[k].shut \/ sock[k].out + BUFFER_LEN <= SndBuf

\* recv(fd, .., len, 0) as a count: data first, then a FIN, an error once, and
\* the end that a reset left.
RecvCount(k, len) ==
  LET s == sock[k] IN
  IF len = 0 \/ (s.in = <<>> /\ s.fin) THEN 0
  ELSE IF s.in # <<>> THEN IF Len(s.in) < len THEN Len(s.in) ELSE len
  ELSE IF s.err # "none" THEN -1 ELSE 0

RecvData(k, len) == SubSeq(sock[k].in, 1, RecvCount(k, len))

\* What recv leaves of the socket.
Received(k, len) ==
  LET n == RecvCount(k, len) IN
  IF n > 0 THEN [sock EXCEPT ![k].in = SubSeq(@, n + 1, Len(@))]
  ELSE IF n = -1 THEN [sock EXCEPT ![k].err = "none"] ELSE sock

\* send() on a connection that was reset fails once with ECONNRESET; when the
\* error is EPIPE, or was reported already, it raises SIGPIPE.
SendFails(k) == sock[k].err = "reset"
SendKills(k) == sock[k].err = "pipe" \/ (sock[k].err = "none" /\ sock[k].shut)

\* What send leaves of the socket.  A client that has closed answers with RST.
SentTo(k, n) ==
  IF sock[k].shut THEN [sock EXCEPT ![k].err = "none"]
  ELSE IF sock[k].peer = "closed" THEN [sock EXCEPT ![k].rst = TRUE]
  ELSE [sock EXCEPT ![k].out = @ + n]

\* A blocking send of n bytes returns: there is room, or nobody to send to.
SendReturns(k, n) == sock[k].shut \/ sock[k].peer = "closed" \/ sock[k].out + n <= SndBuf

\* close(fd) also removes the descriptor from epoll.
CloseFd(fd) ==
  /\ files' = [files EXCEPT ![fd] = Free]
  /\ sock' = [sock EXCEPT ![files[fd]] = [@ EXCEPT !.phase = "closed"]]
  /\ epoll' = [epoll EXCEPT ![fd] = "none"]

Ready(f) == \/ epoll[f] = "in" /\ Readable(files[f])
            \/ epoll[f] = "out" /\ Writable(files[f])

\* epoll_wait with room for every descriptor: all events that are ready.
EpollWait == /\ \E f \in Fds : Ready(f)
             /\ events' = {[fd |-> f, ev |-> epoll[f], of |-> files[f]] : f \in {g \in Fds : Ready(g)}}
             /\ UNCHANGED <<files, sock, epoll>>

-----------------------------------------------------------------------------
(* The clients.                                                            *)

\* A connection to a port that listens waits in its queue.
Connect(k) == \E f \in Fds : /\ sock[k].phase = "new" /\ files[f] \in Ports
                             /\ sock' = [sock EXCEPT ![k].phase = "queued", ![k].port = files[f]]

Connected(k) == sock[k].peer = "open" /\ sock[k].phase \in {"queued", "open"}

ClientSend(k) == /\ Connected(k)
                 /\ sock[k].sent < MaxBytes
                 /\ sock' = [sock EXCEPT ![k].sent = @ + 1,
                                         ![k].in = Append(@, <<k, sock[k].sent + 1>>)]

ClientRead(k) == /\ sock[k].peer = "open"
                 /\ sock[k].out > 0
                 /\ sock' = [sock EXCEPT ![k].out = 0]

\* Closing with unread data resets the connection instead of ending it.
ClientClose(k) == /\ Connected(k)
                  /\ sock' = [sock EXCEPT ![k].peer = "closed",
                                          ![k].fin = (sock[k].out = 0),
                                          ![k].rst = (sock[k].out > 0)]

ResetArrives(k) == /\ sock[k].rst /\ sock[k].phase # "closed"
                   /\ sock' = [sock EXCEPT ![k].rst = FALSE, ![k].shut = TRUE,
                                 ![k].err = IF sock[k].fin THEN "pipe" ELSE "reset"]

\* A patient client closes only when it was answered and has read the answer.
Client(k, answered) ==
  /\ \/ Connect(k) \/ ClientSend(k) \/ ClientRead(k) \/ ResetArrives(k)
     \/ ClientClose(k) /\ (Hasty \/ (answered /\ sock[k].in = <<>> /\ sock[k].out = 0))
  /\ UNCHANGED <<files, epoll, events>>

SocketsInit == /\ files = [f \in Fds |-> IF f < Stdio THEN Other ELSE Free]
               /\ sock = [k \in Conns |-> NewSocket]
               /\ epoll = [f \in Fds |-> "none"]
               /\ events = {}
=============================================================================
