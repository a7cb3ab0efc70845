--------------------------- MODULE SocketsProofs ---------------------------
(***************************************************************************)
(* What the calls of a server and the steps of a client keep, for the      *)
(* proofs about the servers.                                               *)
(***************************************************************************)
EXTENDS Sockets, WellFoundedInduction, TLAPS

Byte == Conns \X Nat
Socket == [phase : {"new", "queued", "open", "closed"}, port : Ports \cup {Free},
           peer : {"open", "closed"}, sent : Nat, in : Seq(Byte), out : Nat, fin : BOOLEAN,
           err : {"none", "reset", "pipe"}, shut : BOOLEAN, rst : BOOLEAN]

\* A FIN comes from a client that has closed.
SockType == /\ sock \in [Conns -> Socket]
            /\ \A k \in Conns : sock[k].fin => sock[k].peer = "closed"

FileType == files \in [Fds -> Ports \cup Conns \cup {Free, Other}]

\* A step that only adds to what can be read: it accepts and closes nothing.
OnlyAdds(k) == /\ sock[k].phase \in {"open", "closed"} => sock'[k].phase = sock[k].phase
               /\ sock[k].phase = "queued" => sock'[k].phase = "queued" /\ sock'[k].port = sock[k].port
               /\ Readable(k) => Readable(k)'

\* The lowest free descriptor is one, and there is none below it.
LEMMA Lowest ==
  ASSUME FreeFds # {}
  PROVE  LowestFree \in FreeFds /\ \A g \in FreeFds : LowestFree <= g
<1> DEFINE R == OpToRel(<, Nat)
<1>1. IsWellFoundedOn(R, Nat)
  BY NatLessThanWellFounded
<1>2. FreeFds \subseteq Nat
  BY SocketAssumption DEF FreeFds, Fds
<1>3. PICK x \in FreeFds : \A y \in FreeFds : ~(<<y, x>> \in R)
  <2> HIDE DEF R
  <2> QED BY <1>1, <1>2, WFMin
<1>4. \A y \in FreeFds : x <= y
  <2> SUFFICES ASSUME NEW y \in FreeFds, y < x PROVE FALSE
    BY <1>2
  <2>1. <<y, x>> \in {ss \in Nat \X Nat : ss[1] < ss[2]}
    BY <1>2
  <2>2. R = {ss \in Nat \X Nat : ss[1] < ss[2]}
    BY DEF OpToRel
  <2> QED BY <1>3, <2>1, <2>2
<1> QED BY <1>4 DEF LowestFree

\* A port and a connection are different things.
LEMMA Distinct ==
  /\ \A p \in Ports : p \notin Conns /\ p # Free /\ p # Other
  /\ \A k \in Conns : k # Free /\ k # Other
  /\ Free # Other
BY SocketAssumption

\* At first no descriptor is a connection or a port.
LEMMA InitSockets ==
  ASSUME SocketsInit
  PROVE  SockType /\ FileType /\ \A f \in Fds : files[f] \in {Free, Other}
<1>1. NewSocket \in Socket /\ NewSocket.fin = FALSE
  BY DEF NewSocket, Socket
<1>2. SockType
  BY <1>1 DEF SocketsInit, SockType
<1> QED BY <1>2 DEF SocketsInit, FileType

\* One socket changes, and stays one.
LEMMA OneChanges ==
  ASSUME SockType, NEW k \in Conns, NEW x \in Socket, x.fin => x.peer = "closed",
         sock' = [sock EXCEPT ![k] = x]
  PROVE  SockType' /\ sock'[k] = x /\ \A j \in Conns \ {k} : sock'[j] = sock[j]
BY DEF SockType

\* What a socket has to do to add only.
LEMMA OneAdds ==
  ASSUME SockType, NEW k \in Conns, \A j \in Conns \ {k} : sock'[j] = sock[j],
         sock[k].phase = "new" \/ (sock'[k].phase = sock[k].phase /\ sock'[k].port = sock[k].port),
         sock'[k].in = sock[k].in \/ sock'[k].in # <<>>,
         sock[k].fin => sock'[k].fin, sock[k].shut => sock'[k].shut,
         sock'[k].err = sock[k].err \/ sock'[k].shut
  PROVE  \A j \in Conns : OnlyAdds(j)
<1>1. OnlyAdds(k)
  BY Distinct DEF OnlyAdds, Readable
<1>2. ASSUME NEW j \in Conns \ {k} PROVE OnlyAdds(j)
  BY <1>2, Distinct DEF OnlyAdds, Readable
<1> QED BY <1>1, <1>2

\* recv counts what it takes.
LEMMA RecvCounts ==
  ASSUME SockType, NEW k \in Conns, NEW n \in Nat \ {0}
  PROVE  /\ RecvCount(k, n) \in Int /\ RecvCount(k, n) >= -1 /\ RecvCount(k, n) <= Len(sock[k].in)
         /\ RecvCount(k, n) <= n
         /\ RecvData(k, n) \in Seq(Byte)
         /\ RecvCount(k, n) > 0 => RecvData(k, n) # <<>>
<1>1. sock[k].in \in Seq(Byte) /\ Len(sock[k].in) \in Nat
  BY DEF SockType, Socket
<1>2. sock[k].in # <<>> => Len(sock[k].in) > 0
  BY <1>1
<1>3. /\ RecvCount(k, n) \in Int /\ RecvCount(k, n) >= -1 /\ RecvCount(k, n) <= Len(sock[k].in)
      /\ RecvCount(k, n) <= n
  BY <1>1, <1>2 DEF RecvCount
<1>4. \A c \in Int : c >= -1 /\ c <= Len(sock[k].in) =>
        SubSeq(sock[k].in, 1, c) \in Seq(Byte) /\ (c > 0 => SubSeq(sock[k].in, 1, c) # <<>>)
  BY <1>1
<1> QED BY <1>3, <1>4 DEF RecvData

\* recv changes the socket it reads, and of it what can be read.
LEMMA Receives ==
  ASSUME SockType, NEW k \in Conns, NEW n \in Nat \ {0}, sock' = Received(k, n)
  PROVE  /\ SockType'
         /\ \A j \in Conns \ {k} : sock'[j] = sock[j]
         /\ sock'[k].phase = sock[k].phase /\ sock'[k].port = sock[k].port
<1>1. sock[k].in \in Seq(Byte) /\ Len(sock[k].in) \in Nat
  BY DEF SockType, Socket
<1>2. RecvCount(k, n) \in Int /\ RecvCount(k, n) >= -1 /\ RecvCount(k, n) <= Len(sock[k].in)
  BY RecvCounts
<1>3. CASE RecvCount(k, n) > 0
  <2>1. sock' = [sock EXCEPT ![k].in = SubSeq(@, RecvCount(k, n) + 1, Len(@))]
    BY <1>3 DEF Received
  <2>2. SubSeq(sock[k].in, RecvCount(k, n) + 1, Len(sock[k].in)) \in Seq(Byte)
    BY <1>1, <1>2, <1>3
  <2>3. [sock[k] EXCEPT !.in = SubSeq(@, RecvCount(k, n) + 1, Len(@))] \in Socket
    BY <2>2 DEF SockType, Socket
  <2>4. sock' = [sock EXCEPT ![k] = [sock[k] EXCEPT !.in = SubSeq(@, RecvCount(k, n) + 1, Len(@))]]
    BY <2>1
  <2> QED BY <2>3, <2>4, OneChanges DEF SockType, Socket
<1>4. CASE RecvCount(k, n) = -1
  <2>1. sock' = [sock EXCEPT ![k].err = "none"]
    BY <1>4 DEF Received
  <2>2. [sock[k] EXCEPT !.err = "none"] \in Socket
    BY ZenonT(30) DEF SockType, Socket
  <2> QED BY <2>1, <2>2, OneChanges DEF SockType, Socket
<1>5. CASE RecvCount(k, n) = 0
  BY <1>5 DEF Received, SockType
<1> QED BY <1>2, <1>3, <1>4, <1>5

\* send only adds to what can be read.
LEMMA Sends ==
  ASSUME SockType, NEW k \in Conns, NEW n \in Nat, sock' = SentTo(k, n)
  PROVE  SockType' /\ \A j \in Conns : OnlyAdds(j)
<1>1. CASE sock[k].shut
  <2>1. sock' = [sock EXCEPT ![k].err = "none"]
    BY <1>1 DEF SentTo
  <2>2. [sock[k] EXCEPT !.err = "none"] \in Socket
    BY ZenonT(30) DEF SockType, Socket
  <2>3. SockType' /\ sock'[k] = [sock[k] EXCEPT !.err = "none"] /\ \A j \in Conns \ {k} : sock'[j] = sock[j]
    BY <2>1, <2>2, OneChanges DEF SockType, Socket
  <2>5. /\ sock[k].phase = "new" \/ (sock'[k].phase = sock[k].phase /\ sock'[k].port = sock[k].port)
        /\ sock'[k].in = sock[k].in \/ sock'[k].in # <<>>
        /\ sock[k].fin => sock'[k].fin
        /\ sock[k].shut => sock'[k].shut
        /\ sock'[k].err = sock[k].err \/ sock'[k].shut
    BY <1>1, <2>3 DEF SockType, Socket
  <2> QED BY <2>3, <2>5, OneAdds
<1>2. CASE ~sock[k].shut /\ sock[k].peer = "closed"
  <2>1. sock' = [sock EXCEPT ![k].rst = TRUE]
    BY <1>2 DEF SentTo
  <2>2. [sock[k] EXCEPT !.rst = TRUE] \in Socket
    BY ZenonT(30) DEF SockType, Socket
  <2>3. SockType' /\ sock'[k] = [sock[k] EXCEPT !.rst = TRUE] /\ \A j \in Conns \ {k} : sock'[j] = sock[j]
    BY <2>1, <2>2, OneChanges DEF SockType, Socket
  <2>5. /\ sock[k].phase = "new" \/ (sock'[k].phase = sock[k].phase /\ sock'[k].port = sock[k].port)
        /\ sock'[k].in = sock[k].in \/ sock'[k].in # <<>>
        /\ sock[k].fin => sock'[k].fin
        /\ sock[k].shut => sock'[k].shut
        /\ sock'[k].err = sock[k].err \/ sock'[k].shut
    BY <2>3 DEF SockType, Socket
  <2> QED BY <2>3, <2>5, OneAdds
<1>3. CASE ~sock[k].shut /\ sock[k].peer # "closed"
  <2>1. sock' = [sock EXCEPT ![k].out = @ + n]
    BY <1>3 DEF SentTo
  <2>0. sock[k].out + n \in Nat
    BY DEF SockType, Socket
  <2>2. [sock[k] EXCEPT !.out = @ + n] \in Socket
    BY <2>0, ZenonT(30) DEF SockType, Socket
  <2>3. SockType' /\ sock'[k] = [sock[k] EXCEPT !.out = @ + n] /\ \A j \in Conns \ {k} : sock'[j] = sock[j]
    BY <2>1, <2>2, OneChanges DEF SockType, Socket
  <2>5. /\ sock[k].phase = "new" \/ (sock'[k].phase = sock[k].phase /\ sock'[k].port = sock[k].port)
        /\ sock'[k].in = sock[k].in \/ sock'[k].in # <<>>
        /\ sock[k].fin => sock'[k].fin
        /\ sock[k].shut => sock'[k].shut
        /\ sock'[k].err = sock[k].err \/ sock'[k].shut
    BY <2>3 DEF SockType, Socket
  <2> QED BY <2>3, <2>5, OneAdds
<1> QED BY <1>1, <1>2, <1>3

\* So does every step of a client.
LEMMA ClientAdds ==
  ASSUME SockType, NEW k \in Conns, NEW answered, Client(k, answered)
  PROVE  SockType' /\ UNCHANGED files /\ \A j \in Conns : OnlyAdds(j)
<1>1. CASE Connect(k)
  <2>1. PICK f \in Fds : /\ sock[k].phase = "new" /\ files[f] \in Ports
                         /\ sock' = [sock EXCEPT ![k].phase = "queued", ![k].port = files[f]]
    BY <1>1 DEF Connect
  <2>2. [sock[k] EXCEPT !.phase = "queued", !.port = files[f]] \in Socket
    BY <2>1 DEF SockType, Socket
  <2>3. sock' = [sock EXCEPT ![k] = [sock[k] EXCEPT !.phase = "queued", !.port = files[f]]]
    BY <2>1 DEF SockType, Socket
  <2>4. SockType' /\ sock'[k] = [sock[k] EXCEPT !.phase = "queued", !.port = files[f]] /\ \A j \in Conns \ {k} : sock'[j] = sock[j]
    BY <1>1, <2>2, <2>3, OneChanges DEF SockType, Socket, Connect, Connected
  <2>5. /\ sock[k].phase = "new" \/ (sock'[k].phase = sock[k].phase /\ sock'[k].port = sock[k].port)
        /\ sock'[k].in = sock[k].in \/ sock'[k].in # <<>>
        /\ sock[k].fin => sock'[k].fin
        /\ sock[k].shut => sock'[k].shut
        /\ sock'[k].err = sock[k].err \/ sock'[k].shut
    BY <1>1, <2>1, <2>4 DEF SockType, Socket, Connect, Connected
  <2> QED BY <2>4, <2>5, OneAdds DEF Client
<1>2. CASE ClientSend(k)
  <2>1. /\ sock[k].sent + 1 \in Nat
        /\ Append(sock[k].in, <<k, sock[k].sent + 1>>) \in Seq(Byte) \ {<<>>}
    <3>1. sock[k].in \in Seq(Byte) /\ sock[k].sent + 1 \in Nat
      BY DEF SockType, Socket
    <3>2. <<k, sock[k].sent + 1>> \in Byte
      BY <3>1 DEF Byte
    <3> QED BY <3>1, <3>2
  <2>2. [sock[k] EXCEPT !.sent = @ + 1, !.in = Append(@, <<k, sock[k].sent + 1>>)] \in Socket
    BY <2>1, ZenonT(30) DEF SockType, Socket
  <2>3. sock' = [sock EXCEPT ![k] = [sock[k] EXCEPT !.sent = @ + 1, !.in = Append(@, <<k, sock[k].sent + 1>>)]]
    BY <1>2 DEF SockType, Socket, ClientSend
  <2>4. SockType' /\ sock'[k] = [sock[k] EXCEPT !.sent = @ + 1, !.in = Append(@, <<k, sock[k].sent + 1>>)] /\ \A j \in Conns \ {k} : sock'[j] = sock[j]
    <3> PICK x : x = [sock[k] EXCEPT !.sent = @ + 1, !.in = Append(@, <<k, sock[k].sent + 1>>)]
      OBVIOUS
    <3>1. x \in Socket /\ sock' = [sock EXCEPT ![k] = x]
      BY <2>2, <2>3
    <3>2. x.fin = sock[k].fin /\ x.peer = sock[k].peer
      BY DEF SockType, Socket
    <3>3. x.fin => x.peer = "closed"
      BY <3>2 DEF SockType
    <3> QED BY <3>1, <3>3, OneChanges
  <2>5. /\ sock[k].phase = "new" \/ (sock'[k].phase = sock[k].phase /\ sock'[k].port = sock[k].port)
        /\ sock'[k].in = sock[k].in \/ sock'[k].in # <<>>
        /\ sock[k].fin => sock'[k].fin
        /\ sock[k].shut => sock'[k].shut
        /\ sock'[k].err = sock[k].err \/ sock'[k].shut
    BY <1>2, <2>1, <2>4 DEF SockType, Socket, ClientSend, Connected
  <2> QED BY <2>4, <2>5, OneAdds DEF Client
<1>3. CASE ClientRead(k)
  <2>2. [sock[k] EXCEPT !.out = 0] \in Socket
    BY ZenonT(30) DEF SockType, Socket
  <2>3. sock' = [sock EXCEPT ![k] = [sock[k] EXCEPT !.out = 0]]
    BY <1>3 DEF SockType, Socket, ClientRead
  <2>4. SockType' /\ sock'[k] = [sock[k] EXCEPT !.out = 0] /\ \A j \in Conns \ {k} : sock'[j] = sock[j]
    BY <1>3, <2>2, <2>3, OneChanges DEF SockType, Socket, ClientRead, Connected
  <2>5. /\ sock[k].phase = "new" \/ (sock'[k].phase = sock[k].phase /\ sock'[k].port = sock[k].port)
        /\ sock'[k].in = sock[k].in \/ sock'[k].in # <<>>
        /\ sock[k].fin => sock'[k].fin
        /\ sock[k].shut => sock'[k].shut
        /\ sock'[k].err = sock[k].err \/ sock'[k].shut
    BY <1>3, <2>4 DEF SockType, Socket, ClientRead, Connected
  <2> QED BY <2>4, <2>5, OneAdds DEF Client
<1>4. CASE ClientClose(k)
  <2>2. [sock[k] EXCEPT !.peer = "closed", !.fin = (sock[k].out = 0), !.rst = (sock[k].out > 0)] \in Socket
    <3>1. \A a, b \in BOOLEAN : [sock[k] EXCEPT !.peer = "closed", !.fin = a, !.rst = b] \in Socket
      BY ZenonT(30) DEF SockType, Socket
    <3>2. (sock[k].out = 0) \in BOOLEAN /\ (sock[k].out > 0) \in BOOLEAN
      OBVIOUS
    <3> QED BY <3>1, <3>2, Zenon
  <2>3. sock' = [sock EXCEPT ![k] = [sock[k] EXCEPT !.peer = "closed", !.fin = (sock[k].out = 0), !.rst = (sock[k].out > 0)]]
    BY <1>4 DEF SockType, Socket, ClientClose
  <2>4. SockType' /\ sock'[k] = [sock[k] EXCEPT !.peer = "closed", !.fin = (sock[k].out = 0), !.rst = (sock[k].out > 0)] /\ \A j \in Conns \ {k} : sock'[j] = sock[j]
    <3> PICK x : x = [sock[k] EXCEPT !.peer = "closed", !.fin = (sock[k].out = 0), !.rst = (sock[k].out > 0)]
      OBVIOUS
    <3>1. x \in Socket /\ sock' = [sock EXCEPT ![k] = x]
      BY <2>2, <2>3
    <3>2. x.peer = "closed"
      BY DEF SockType, Socket
    <3> QED BY <3>1, <3>2, OneChanges
  <2>5. /\ sock[k].phase = "new" \/ (sock'[k].phase = sock[k].phase /\ sock'[k].port = sock[k].port)
        /\ sock'[k].in = sock[k].in \/ sock'[k].in # <<>>
        /\ sock[k].fin => sock'[k].fin
        /\ sock[k].shut => sock'[k].shut
        /\ sock'[k].err = sock[k].err \/ sock'[k].shut
    BY <1>4, <2>4 DEF SockType, Socket, ClientClose, Connected
  <2> QED BY <2>4, <2>5, OneAdds DEF Client
<1>5. CASE ResetArrives(k)
  <2>2. [sock[k] EXCEPT !.rst = FALSE, !.shut = TRUE, !.err = IF sock[k].fin THEN "pipe" ELSE "reset"] \in Socket
    BY ZenonT(30) DEF SockType, Socket
  <2>3. sock' = [sock EXCEPT ![k] = [sock[k] EXCEPT !.rst = FALSE, !.shut = TRUE, !.err = IF sock[k].fin THEN "pipe" ELSE "reset"]]
    BY <1>5 DEF SockType, Socket, ResetArrives
  <2>4. SockType' /\ sock'[k] = [sock[k] EXCEPT !.rst = FALSE, !.shut = TRUE, !.err = IF sock[k].fin THEN "pipe" ELSE "reset"] /\ \A j \in Conns \ {k} : sock'[j] = sock[j]
    BY <1>5, <2>2, <2>3, OneChanges DEF SockType, Socket, ResetArrives, Connected
  <2>5. /\ sock[k].phase = "new" \/ (sock'[k].phase = sock[k].phase /\ sock'[k].port = sock[k].port)
        /\ sock'[k].in = sock[k].in \/ sock'[k].in # <<>>
        /\ sock[k].fin => sock'[k].fin
        /\ sock[k].shut => sock'[k].shut
        /\ sock'[k].err = sock[k].err \/ sock'[k].shut
    BY <1>5, <2>4 DEF SockType, Socket, ResetArrives, Connected
  <2> QED BY <2>4, <2>5, OneAdds DEF Client
<1> QED BY <1>1, <1>2, <1>3, <1>4, <1>5 DEF Client

\* A port at which somebody waits stays one.
LEMMA PortsAdd ==
  ASSUME NEW p \in Ports, Readable(p), \A j \in Conns : OnlyAdds(j)
  PROVE  Readable(p)'
BY DEF Readable, OnlyAdds, Queued

\* accept opens a connection that waited.
LEMMA Accepts ==
  ASSUME SockType, NEW k \in Conns, sock' = [sock EXCEPT ![k].phase = "open"]
  PROVE  SockType' /\ sock'[k].phase = "open" /\ \A j \in Conns \ {k} : sock'[j] = sock[j]
<1>1. [sock[k] EXCEPT !.phase = "open"] \in Socket
  BY ZenonT(30) DEF SockType, Socket
<1>2. sock' = [sock EXCEPT ![k] = [sock[k] EXCEPT !.phase = "open"]]
  OBVIOUS
<1> QED BY <1>1, <1>2, OneChanges DEF SockType, Socket

\* close frees the descriptor and nothing else of the other connections.
LEMMA Closes ==
  ASSUME SockType, FileType, NEW f \in Fds, files[f] \in Conns, CloseFd(f)
  PROVE  /\ SockType' /\ FileType'
         /\ files' = [files EXCEPT ![f] = Free]
         /\ \A j \in Conns : j # files[f] => sock'[j] = sock[j]
<1>0. sock[files[f]] \in Socket
  BY DEF SockType
<1>1. [sock[files[f]] EXCEPT !.phase = "closed"] \in Socket
  BY <1>0 DEF Socket
<1>2. sock' = [sock EXCEPT ![files[f]] = [sock[files[f]] EXCEPT !.phase = "closed"]]
  BY DEF CloseFd
<1>3. SockType' /\ \A j \in Conns \ {files[f]} : sock'[j] = sock[j]
  BY <1>1, <1>2, OneChanges DEF SockType, Socket
<1> QED BY <1>3 DEF CloseFd, FileType

-----------------------------------------------------------------------------
(***************************************************************************)
(* The servers that dispatch the events of epoll_wait: a descriptor and    *)
(* the connection it stands for belong to each other, and the events that  *)
(* wait are true.  Each lemma is about one call of such a server.          *)
(***************************************************************************)

\* What a socket's fields say about each other.
Rules(k) ==
  LET s == sock[k] IN
  /\ s.peer = "closed" /\ ~s.fin => s.out > 0
  /\ s.fin \/ s.rst \/ s.shut => s.peer = "closed"
  /\ s.err # "none" => s.shut
  /\ s.sent <= MaxBytes
  /\ s.phase = "new" => s.sent = 0 /\ s.in = <<>> /\ s.peer = "open"
  /\ s.phase = "queued" => s.port \in Ports

\* An open connection has one descriptor, and only sockets are watched.
Owned ==
  /\ \A f, g \in Fds : files[f] = files[g] /\ files[f] \in Ports \cup Conns => f = g
  /\ \A k \in Conns : sock[k].phase = "open" <=> \E f \in Fds : files[f] = k
  /\ \A f \in Fds : files[f] \in {Free, Other} => epoll[f] = "none"
  /\ \A f \in Fds : files[f] \in Ports => epoll[f] # "out"

EpollType == epoll \in [Fds -> {"none", "in", "out"}] /\ events \subseteq Events

Kernel == SockType /\ FileType /\ EpollType /\ Owned /\ \A k \in Conns : Rules(k)

\* An event is still what epoll_wait said, and the call it leads to returns.
Live(e) == /\ files[e.fd] = e.of
           /\ epoll[e.fd] = e.ev
           /\ IF e.ev = "in" THEN Readable(e.of) ELSE Writable(e.of)
AllLive == \A e \in events : Live(e)

\* The kernel's part of TypeOK.
LEMMA KernelTypes ==
  ASSUME Kernel
  PROVE  TypeOKSockets
BY DEF Kernel, SockType, FileType, EpollType, Rules, TypeOKSockets, Socket

\* A descriptor has one event of a batch.
LEMMA OneEvent ==
  ASSUME Kernel, AllLive, NEW d \in events, NEW e \in events, d.fd = e.fd
  PROVE  d = e
BY DEF Kernel, EpollType, Events, AllLive, Live

\* A live event is about a port or a connection that is open.
LEMMA EventOf ==
  ASSUME Kernel, AllLive, NEW e \in events
  PROVE  /\ e.fd \in Fds /\ e.of = files[e.fd] /\ e.of \in Ports \cup Conns
         /\ e.ev = epoll[e.fd] /\ e.ev \in {"in", "out"}
         /\ e.ev = "out" => files[e.fd] \in Conns /\ Writable(files[e.fd])
         /\ e.ev = "in" => Readable(files[e.fd])
         /\ files[e.fd] \in Conns => sock[files[e.fd]].phase = "open"
<1>1. e \in Events
  BY DEF Kernel, EpollType
<1>2. /\ e.fd \in Fds /\ e.of = files[e.fd] /\ e.of \in Ports \cup Conns
      /\ e.ev = epoll[e.fd] /\ e.ev \in {"in", "out"}
  BY <1>1 DEF AllLive, Live, Events
<1> QED BY <1>2 DEF AllLive, Live, Kernel, Owned

\* A handler that works on the connection of its event and leaves it open.
LEMMA KernelHandler ==
  ASSUME Kernel, AllLive, NEW e \in events, files[e.fd] \in Conns,
         SockType', Rules(files[e.fd])', files' = files,
         \A j \in Conns : j # files[e.fd] => sock'[j] = sock[j],
         sock'[files[e.fd]].phase = sock[files[e.fd]].phase,
         epoll' \in [Fds -> {"none", "in", "out"}],
         \A f \in Fds : f # e.fd => epoll'[f] = epoll[f],
         events' = events \ {e}
  PROVE  Kernel' /\ AllLive'
<1> DEFINE k == files[e.fd]
<1>0. e.fd \in Fds /\ k \notin Ports /\ k \notin {Free, Other} /\ sock[k].phase = "open"
  BY EventOf, Distinct
<1>1. \A j \in Conns : Rules(j)'
  BY DEF Kernel, Rules
<1>2. Owned'
  BY <1>0 DEF Kernel, Owned
<1>3. EpollType' /\ FileType'
  BY DEF Kernel, EpollType, FileType
<1>4. ASSUME NEW p \in Ports, Readable(p) PROVE Readable(p)'
  BY <1>0, <1>4 DEF Readable, Queued
<1>5. ASSUME NEW d \in events' PROVE Live(d)'
  <2>1. d \in events /\ d.fd # e.fd
    BY OneEvent
  <2>2. d.fd \in Fds /\ d.of = files[d.fd] /\ d.of \in Ports \cup Conns
    BY <2>1, EventOf
  <2>3. d.of # k
    BY <2>1, <2>2, <1>0 DEF Kernel, Owned
  <2>4. d.of \in Conns => sock'[d.of] = sock[d.of]
    BY <2>3
  <2>5. Readable(d.of) => Readable(d.of)'
    BY <1>4, <2>2, <2>4, Distinct DEF Readable
  <2>6. epoll'[d.fd] = epoll[d.fd]
    BY <2>1, <2>2
  <2>7. CASE d.of \in Conns
    BY <2>1, <2>4, <2>5, <2>6, <2>7 DEF AllLive, Live, Writable
  <2>8. CASE d.of \in Ports
    BY <2>1, <2>2, <2>5, <2>6, <2>8, EventOf, Distinct DEF AllLive, Live
  <2> QED BY <2>2, <2>7, <2>8
<1> QED BY <1>1, <1>2, <1>3, <1>5 DEF Kernel, AllLive

\* recv: the socket loses the bytes that were taken, and nothing else.
LEMMA KernelRecv ==
  ASSUME Kernel, NEW k \in Conns, NEW n \in Nat \ {0}, sock' = Received(k, n)
  PROVE  /\ SockType' /\ Rules(k)'
         /\ \A j \in Conns : j # k => sock'[j] = sock[j]
         /\ sock'[k].phase = sock[k].phase /\ sock'[k].shut = sock[k].shut
         /\ sock'[k].sent = sock[k].sent /\ sock'[k].out = sock[k].out
         /\ sock'[k].peer = sock[k].peer
         /\ sock'[k].in = IF RecvCount(k, n) > 0
                           THEN SubSeq(sock[k].in, RecvCount(k, n) + 1, Len(sock[k].in))
                           ELSE sock[k].in
<1>1. SockType' /\ \A j \in Conns : j # k => sock'[j] = sock[j]
  BY Receives DEF Kernel
<1>2. /\ sock[k] \in Socket /\ k \in DOMAIN sock
      /\ RecvCount(k, n) \in Int /\ RecvCount(k, n) >= -1
  BY RecvCounts DEF Kernel, SockType
<1>3. CASE RecvCount(k, n) > 0
  <2>1. sock'[k] = [sock[k] EXCEPT !.in = SubSeq(@, RecvCount(k, n) + 1, Len(@))]
    BY <1>2, <1>3 DEF Received
  <2>2. sock[k].in # <<>>
    BY <1>3, RecvCounts DEF Kernel
  <2>3. Rules(k)'
    BY <1>2, <2>1, <2>2 DEF Socket, Rules, Kernel
  <2> QED BY <1>1, <1>2, <1>3, <2>1, <2>3 DEF Socket
<1>4. CASE RecvCount(k, n) = -1
  <2>1. sock'[k] = [sock[k] EXCEPT !.err = "none"]
    BY <1>2, <1>4 DEF Received
  <2> QED BY <1>1, <1>2, <1>4, <2>1 DEF Socket, Rules, Kernel
<1>5. CASE RecvCount(k, n) = 0
  BY <1>1, <1>2, <1>5 DEF Received, Rules, Kernel
<1> QED BY <1>2, <1>3, <1>4, <1>5

\* send: what is queued for the client grows, or an error is reported.
LEMMA KernelSend ==
  ASSUME Kernel, NEW k \in Conns, NEW n \in Nat, sock' = SentTo(k, n)
  PROVE  /\ SockType' /\ Rules(k)'
         /\ \A j \in Conns : j # k => sock'[j] = sock[j]
         /\ sock'[k].phase = sock[k].phase /\ sock'[k].shut = sock[k].shut
         /\ sock'[k].sent = sock[k].sent /\ sock'[k].in = sock[k].in
<1>1. SockType'
  BY Sends DEF Kernel
<1>2. sock[k] \in Socket /\ k \in DOMAIN sock
  BY DEF Kernel, SockType
<1>3. CASE sock[k].shut
  <2>1. sock' = [sock EXCEPT ![k].err = "none"]
    BY <1>3 DEF SentTo
  <2>2. sock'[k] = [sock[k] EXCEPT !.err = "none"] /\ \A j \in Conns : j # k => sock'[j] = sock[j]
    BY <1>2, <2>1 DEF Kernel, SockType
  <2> QED BY <1>1, <1>2, <2>2 DEF Socket, Rules, Kernel
<1>4. CASE ~sock[k].shut /\ sock[k].peer = "closed"
  <2>1. sock' = [sock EXCEPT ![k].rst = TRUE]
    BY <1>4 DEF SentTo
  <2>2. sock'[k] = [sock[k] EXCEPT !.rst = TRUE] /\ \A j \in Conns : j # k => sock'[j] = sock[j]
    BY <1>2, <2>1 DEF Kernel, SockType
  <2> QED BY <1>1, <1>2, <1>4, <2>2 DEF Socket, Rules, Kernel
<1>5. CASE ~sock[k].shut /\ sock[k].peer # "closed"
  <2>1. sock' = [sock EXCEPT ![k].out = @ + n]
    BY <1>5 DEF SentTo
  <2>2. sock'[k] = [sock[k] EXCEPT !.out = @ + n] /\ \A j \in Conns : j # k => sock'[j] = sock[j]
    BY <1>2, <2>1 DEF Kernel, SockType
  <2> QED BY <1>1, <1>2, <1>5, <2>2 DEF Socket, Rules, Kernel
<1> QED BY <1>3, <1>4, <1>5

\* close: the descriptor and the connection are done with.
LEMMA KernelCloses ==
  ASSUME Kernel, NEW c \in Fds, files[c] \in Conns, CloseFd(c), events' \subseteq events
  PROVE  /\ Kernel'
         /\ files' = [files EXCEPT ![c] = Free]
         /\ \A f \in Fds : f # c => files'[f] = files[f] /\ epoll'[f] = epoll[f]
         /\ \A j \in Conns : j # files[c] => sock'[j] = sock[j]
         /\ sock'[files[c]] = [sock[files[c]] EXCEPT !.phase = "closed"]
         /\ sock[files[c]].phase = "open"
<1> PICK k \in Conns : k = files[c]
  OBVIOUS
<1>0. k \notin Ports /\ k \notin {Free, Other} /\ sock[k].phase = "open"
  BY Distinct DEF Kernel, Owned
<1>1. /\ SockType' /\ FileType'
      /\ files' = [files EXCEPT ![c] = Free]
      /\ \A j \in Conns : j # k => sock'[j] = sock[j]
  BY <1>0, Closes DEF Kernel
<1>2. sock'[k] = [sock[k] EXCEPT !.phase = "closed"] /\ sock[k] \in Socket
  BY DEF CloseFd, Kernel, SockType
<1>3. \A j \in Conns : Rules(j)'
  <2>1. Rules(k)'
    BY <1>2 DEF Kernel, Rules, Socket
  <2>2. ASSUME NEW j \in Conns, j # k PROVE Rules(j)'
    BY <1>1, <2>2 DEF Kernel, Rules
  <2> QED BY <2>1, <2>2
<1>4. epoll' = [epoll EXCEPT ![c] = "none"]
  BY DEF CloseFd
<1>5. EpollType'
  BY <1>4 DEF Kernel, EpollType
<1>6. \A f \in Fds : files'[f] = IF f = c THEN Free ELSE files[f]
  BY <1>1 DEF Kernel, FileType
<1>7. \A f \in Fds : epoll'[f] = IF f = c THEN "none" ELSE epoll[f]
  BY <1>4 DEF Kernel, EpollType
<1>8. Owned'
  <2>3. \A f, g \in Fds : files'[f] = files'[g] /\ files'[f] \in Ports \cup Conns => f = g
    BY <1>6, Distinct DEF Kernel, Owned
  <2>4. sock'[k].phase = "closed"
    BY <1>2 DEF Socket
  <2>5. \A f \in Fds : files'[f] # k
    BY <1>0, <1>6, Distinct DEF Kernel, Owned
  <2>6. ASSUME NEW j \in Conns PROVE sock'[j].phase = "open" <=> \E f \in Fds : files'[f] = j
    BY <1>1, <1>6, <2>4, <2>5, <2>6, Distinct DEF Kernel, Owned
  <2> QED BY <1>6, <1>7, <2>3, <2>6, Distinct DEF Kernel, Owned
<1> QED BY <1>0, <1>1, <1>2, <1>3, <1>5, <1>6, <1>7, <1>8 DEF Kernel

\* The events that wait stay true when the descriptor of one is closed.
LEMMA KernelClose ==
  ASSUME Kernel, AllLive, NEW e \in events, files[e.fd] \in Conns,
         CloseFd(e.fd), events' = events \ {e}
  PROVE  /\ Kernel' /\ AllLive'
         /\ files' = [files EXCEPT ![e.fd] = Free]
         /\ \A f \in Fds : f # e.fd => epoll'[f] = epoll[f]
         /\ \A j \in Conns : j # files[e.fd] => sock'[j] = sock[j]
         /\ sock'[files[e.fd]] = [sock[files[e.fd]] EXCEPT !.phase = "closed"]
<1> PICK k \in Conns : k = files[e.fd]
  OBVIOUS
<1>0. e.fd \in Fds /\ k \notin Ports /\ k \notin {Free, Other}
  BY EventOf, Distinct
<1>1. /\ Kernel'
      /\ files' = [files EXCEPT ![e.fd] = Free]
      /\ \A f \in Fds : f # e.fd => files'[f] = files[f] /\ epoll'[f] = epoll[f]
      /\ \A j \in Conns : j # k => sock'[j] = sock[j]
      /\ sock'[k] = [sock[k] EXCEPT !.phase = "closed"] /\ sock[k].phase = "open"
  BY <1>0, KernelCloses
<1>7. ASSUME NEW p \in Ports, Readable(p) PROVE Readable(p)'
  BY <1>0, <1>1, <1>7 DEF Readable, Queued
<1>8. ASSUME NEW d \in events' PROVE Live(d)'
  <2>1. d \in events /\ d.fd # e.fd
    BY OneEvent
  <2>2. d.fd \in Fds /\ d.of = files[d.fd] /\ d.of \in Ports \cup Conns
    BY <2>1, EventOf
  <2>3. d.of # k
    BY <2>1, <2>2, <1>0 DEF Kernel, Owned
  <2>4. d.of \in Conns => sock'[d.of] = sock[d.of]
    BY <1>1, <2>3
  <2>5. Readable(d.of) => Readable(d.of)'
    BY <1>7, <2>2, <2>4, Distinct DEF Readable
  <2>6. epoll'[d.fd] = epoll[d.fd] /\ files'[d.fd] = files[d.fd]
    BY <1>1, <2>1, <2>2
  <2>7. CASE d.of \in Conns
    BY <2>1, <2>4, <2>5, <2>6, <2>7 DEF AllLive, Live, Writable
  <2>8. CASE d.of \in Ports
    BY <2>1, <2>2, <2>5, <2>6, <2>8, EventOf, Distinct DEF AllLive, Live
  <2> QED BY <2>2, <2>7, <2>8
<1> QED BY <1>1, <1>8 DEF AllLive

\* accept: a connection that waited gets a descriptor that was free.
LEMMA KernelAccepts ==
  ASSUME Kernel, FreeFds # {}, NEW k \in Conns, NEW p, Queued(k, p),
         files' = [files EXCEPT ![LowestFree] = k],
         sock' = [sock EXCEPT ![k].phase = "open"],
         epoll' \in {[epoll EXCEPT ![LowestFree] = "in"], epoll},
         events' \subseteq events
  PROVE  /\ Kernel'
         /\ LowestFree \in Fds /\ files[LowestFree] = Free
         /\ epoll'[LowestFree] # "out"
         /\ \A f \in Fds : f # LowestFree => files'[f] = files[f] /\ epoll'[f] = epoll[f]
         /\ files'[LowestFree] = k /\ \A f \in Fds : files[f] # k
         /\ \A j \in Conns : j # k => sock'[j] = sock[j]
         /\ p \in Ports /\ sock[k].phase = "queued" /\ sock'[k] = [sock[k] EXCEPT !.phase = "open"]
<1> DEFINE n == LowestFree
<1>1. n \in Fds /\ files[n] = Free /\ epoll[n] = "none"
  BY Lowest DEF FreeFds, Kernel, Owned
<1>2. /\ sock[k].phase = "queued" /\ sock[k].port = p /\ sock[k] \in Socket
      /\ p \in Ports
  BY DEF Queued, Kernel, SockType, Rules
<1>3. SockType' /\ sock'[k].phase = "open" /\ \A j \in Conns : j # k => sock'[j] = sock[j]
  BY Accepts DEF Kernel
<1>4. sock'[k] = [sock[k] EXCEPT !.phase = "open"]
  BY DEF Kernel, SockType
<1>5. \A f \in Fds : files'[f] = IF f = n THEN k ELSE files[f]
  BY <1>1 DEF Kernel, FileType
<1>6. /\ epoll' \in [Fds -> {"none", "in", "out"}] /\ epoll'[n] \in {"none", "in"}
      /\ \A f \in Fds : f # n => epoll'[f] = epoll[f]
  BY <1>1 DEF Kernel, EpollType
<1>7. FileType' /\ EpollType'
  BY <1>6 DEF Kernel, FileType, EpollType
<1>8. \A j \in Conns : Rules(j)'
  <2>1. Rules(k)'
    BY <1>2, <1>4 DEF Kernel, Rules, Socket
  <2>2. ASSUME NEW j \in Conns, j # k PROVE Rules(j)'
    BY <1>3, <2>2 DEF Kernel, Rules
  <2> QED BY <2>1, <2>2
<1>9. \A f \in Fds : files[f] # k
  BY <1>2 DEF Kernel, Owned
<1>10. Owned'
  <2>1. \A f, g \in Fds : files'[f] = files'[g] /\ files'[f] \in Ports \cup Conns => f = g
    BY <1>5, <1>9 DEF Kernel, Owned
  <2>2. ASSUME NEW j \in Conns PROVE sock'[j].phase = "open" <=> \E f \in Fds : files'[f] = j
    BY <1>1, <1>3, <1>5, <1>9, Distinct DEF Kernel, Owned
  <2>3. \A f \in Fds : files'[f] \in {Free, Other} => epoll'[f] = "none"
    BY <1>5, <1>6, Distinct DEF Kernel, Owned
  <2>4. \A f \in Fds : files'[f] \in Ports => epoll'[f] # "out"
    BY <1>5, <1>6, Distinct DEF Kernel, Owned
  <2> QED BY <2>1, <2>2, <2>3, <2>4 DEF Owned
<1> QED BY <1>1, <1>2, <1>3, <1>4, <1>5, <1>6, <1>7, <1>8, <1>9, <1>10 DEF Kernel

\* The events that wait stay true when a connection is accepted.
LEMMA KernelAccept ==
  ASSUME Kernel, AllLive, NEW e \in events, FreeFds # {}, NEW k \in Conns, Queued(k, files[e.fd]),
         files' = [files EXCEPT ![LowestFree] = k],
         sock' = [sock EXCEPT ![k].phase = "open"],
         epoll' \in {[epoll EXCEPT ![LowestFree] = "in"], epoll},
         events' = events \ {e}
  PROVE  /\ Kernel' /\ AllLive'
         /\ LowestFree \in Fds /\ files[LowestFree] = Free
         /\ epoll'[LowestFree] # "out"
         /\ \A f \in Fds : f # LowestFree => files'[f] = files[f] /\ epoll'[f] = epoll[f]
         /\ files'[LowestFree] = k
         /\ \A j \in Conns : j # k => sock'[j] = sock[j]
         /\ sock[k].phase = "queued" /\ sock'[k] = [sock[k] EXCEPT !.phase = "open"]
<1> PICK n \in Fds : n = LowestFree /\ files[n] = Free
  BY Lowest DEF FreeFds
<1>1. /\ Kernel'
      /\ epoll'[n] # "out"
      /\ \A f \in Fds : f # n => files'[f] = files[f] /\ epoll'[f] = epoll[f]
      /\ files'[n] = k /\ \A f \in Fds : files[f] # k
      /\ \A j \in Conns : j # k => sock'[j] = sock[j]
      /\ files[e.fd] \in Ports /\ sock[k].phase = "queued"
      /\ sock'[k] = [sock[k] EXCEPT !.phase = "open"]
  BY KernelAccepts
<1>2. sock[k].port = files[e.fd]
  BY DEF Queued
<1>11. ASSUME NEW d \in events' PROVE Live(d)'
  <2>1. d \in events /\ d.fd # e.fd
    BY OneEvent
  <2>2. d.fd \in Fds /\ d.of = files[d.fd] /\ d.of \in Ports \cup Conns /\ e.fd \in Fds
    BY <2>1, EventOf
  <2>3. d.of # k /\ d.of # files[e.fd] /\ d.fd # n
    BY <1>1, <2>1, <2>2, Distinct DEF Kernel, Owned
  <2>4. d.of \in Conns => sock'[d.of] = sock[d.of]
    BY <1>1, <2>3
  <2>5. files'[d.fd] = files[d.fd] /\ epoll'[d.fd] = epoll[d.fd]
    BY <1>1, <2>2, <2>3
  <2>6. CASE d.of \in Conns
    BY <2>1, <2>4, <2>5, <2>6, Distinct DEF AllLive, Live, Writable, Readable
  <2>7. CASE d.of \in Ports
    <3>1. d.ev = "in" /\ Readable(d.of)
      BY <2>1, <2>2, <2>7, EventOf, Distinct
    <3>2. PICK j \in Conns : Queued(j, d.of)
      BY <3>1, <2>7 DEF Readable
    <3>3. j # k
      BY <1>2, <2>3, <3>2 DEF Queued
    <3>4. Readable(d.of)'
      BY <1>1, <2>7, <3>2, <3>3 DEF Readable, Queued
    <3> QED BY <2>1, <2>5, <3>1, <3>4 DEF AllLive, Live
  <2> QED BY <2>2, <2>6, <2>7
<1> QED BY <1>1, <1>11 DEF AllLive

\* A call on one socket that neither opens nor closes it.
LEMMA KernelOne ==
  ASSUME Kernel, NEW k \in Conns, SockType', Rules(k)', \A j \in Conns : j # k => sock'[j] = sock[j],
         sock'[k].phase = sock[k].phase, UNCHANGED <<files, epoll>>, events' \subseteq events
  PROVE  Kernel'
<1>1. \A j \in Conns : Rules(j)'
  <2>1. ASSUME NEW j \in Conns, j # k PROVE Rules(j)'
    BY <2>1 DEF Kernel, Rules
  <2> QED BY <2>1
<1>2. \A j \in Conns : sock'[j].phase = sock[j].phase
  OBVIOUS
<1>3. Owned'
  BY <1>2 DEF Kernel, Owned
<1> QED BY <1>1, <1>3 DEF Kernel, FileType, EpollType

\* A port is bound before there are events.
LEMMA KernelBind ==
  ASSUME Kernel, events = {}, NEW p \in Ports, \A f \in Fds : files[f] # p, FreeFds # {},
         files' = [files EXCEPT ![LowestFree] = p],
         epoll' \in {[epoll EXCEPT ![LowestFree] = "in"], epoll},
         UNCHANGED <<sock, events>>
  PROVE  /\ Kernel' /\ AllLive'
         /\ LowestFree \in Fds /\ files[LowestFree] = Free
         /\ epoll'[LowestFree] # "out"
         /\ \A f \in Fds : f # LowestFree => files'[f] = files[f] /\ epoll'[f] = epoll[f]
         /\ files'[LowestFree] = p
<1> DEFINE n == LowestFree
<1>1. n \in Fds /\ files[n] = Free /\ epoll[n] = "none"
  BY Lowest DEF FreeFds, Kernel, Owned
<1>5. \A f \in Fds : files'[f] = IF f = n THEN p ELSE files[f]
  BY <1>1 DEF Kernel, FileType
<1>6. /\ epoll' \in [Fds -> {"none", "in", "out"}] /\ epoll'[n] \in {"none", "in"}
      /\ \A f \in Fds : f # n => epoll'[f] = epoll[f]
  BY <1>1 DEF Kernel, EpollType
<1>7. FileType' /\ EpollType' /\ SockType' /\ AllLive' /\ \A j \in Conns : Rules(j)'
  BY <1>6 DEF Kernel, FileType, EpollType, SockType, AllLive, Rules
<1>10. Owned'
  <2>1. \A f, g \in Fds : files'[f] = files'[g] /\ files'[f] \in Ports \cup Conns => f = g
    BY <1>5 DEF Kernel, Owned
  <2>2. ASSUME NEW j \in Conns PROVE sock'[j].phase = "open" <=> \E f \in Fds : files'[f] = j
    BY <1>1, <1>5, Distinct DEF Kernel, Owned
  <2>3. \A f \in Fds : files'[f] \in {Free, Other} => epoll'[f] = "none"
    BY <1>5, <1>6, Distinct DEF Kernel, Owned
  <2>4. \A f \in Fds : files'[f] \in Ports => epoll'[f] # "out"
    BY <1>5, <1>6, Distinct DEF Kernel, Owned
  <2> QED BY <2>1, <2>2, <2>3, <2>4 DEF Owned
<1> QED BY <1>1, <1>5, <1>6, <1>7, <1>10 DEF Kernel

\* epoll_wait: every event of the batch is true.
LEMMA KernelWait ==
  ASSUME Kernel, EpollWait
  PROVE  Kernel' /\ AllLive' /\ events' # {}
<1>1. /\ events' = {[fd |-> f, ev |-> epoll[f], of |-> files[f]] : f \in {g \in Fds : Ready(g)}}
      /\ UNCHANGED <<files, sock, epoll>> /\ \E f \in Fds : Ready(f)
  BY DEF EpollWait
<1>2. ASSUME NEW d \in events' PROVE d \in Events /\ Live(d)'
  <2>1. PICK f \in Fds : Ready(f) /\ d = [fd |-> f, ev |-> epoll[f], of |-> files[f]]
    BY <1>1
  <2>2. d.fd = f /\ d.ev = epoll[f] /\ d.of = files[f] /\ d.ev \in {"in", "out"}
    BY <2>1 DEF Ready
  <2>3. files[f] \in Ports \cup Conns
    BY <2>2 DEF Kernel, Owned, FileType
  <2>4. d \in Events
    BY <2>1, <2>2, <2>3 DEF Events
  <2>5. Readable(d.of)' <=> Readable(d.of)
    BY <1>1 DEF Readable, Queued
  <2>6. Writable(d.of)' <=> Writable(d.of)
    BY <1>1 DEF Writable
  <2> QED BY <1>1, <2>1, <2>2, <2>4, <2>5, <2>6 DEF Live, Ready
<1>3. events' # {}
  BY <1>1
<1>4. SockType' /\ FileType' /\ Owned' /\ \A k \in Conns : Rules(k)'
  BY <1>1 DEF Kernel, SockType, FileType, Owned, Rules
<1>5. EpollType'
  BY <1>1, <1>2 DEF Kernel, EpollType
<1> QED BY <1>2, <1>3, <1>4, <1>5 DEF Kernel, AllLive

\* A client's step: on its own connection, and of that only what a client does.
LEMMA KernelClient ==
  ASSUME Kernel, NEW k \in Conns, NEW answered, Client(k, answered)
  PROVE  /\ Kernel' /\ (AllLive => AllLive')
         /\ UNCHANGED <<files, epoll, events>>
         /\ \A j \in Conns : j # k => sock'[j] = sock[j]
         /\ \/ sock'[k].phase = sock[k].phase
            \/ sock[k].phase = "new" /\ sock'[k].phase = "queued"
         /\ \/ sock'[k].in = sock[k].in /\ sock'[k].sent = sock[k].sent
            \/ /\ sock[k].peer = "open" /\ sock[k].phase # "new"
               /\ sock'[k].in = Append(sock[k].in, <<k, sock[k].sent + 1>>)
               /\ sock'[k].sent = sock[k].sent + 1
         /\ sock[k].shut => sock'[k].shut
         /\ sock[k].peer = "closed" => sock'[k].peer = "closed" /\ sock'[k].out = sock[k].out
<1>1. /\ SockType' /\ UNCHANGED <<files, epoll, events>>
      /\ \A j \in Conns : OnlyAdds(j)
  BY ClientAdds DEF Kernel, Client
<1>2. sock[k] \in Socket
  BY DEF Kernel, SockType
<1> DEFINE
      Does(x) == /\ sock' = [sock EXCEPT ![k] = x]
                 /\ \/ x.phase = sock[k].phase /\ x.port = sock[k].port
                    \/ sock[k].phase = "new" /\ x.phase = "queued" /\ x.port \in Ports
                 /\ \/ x.in = sock[k].in /\ x.sent = sock[k].sent
                    \/ /\ sock[k].peer = "open" /\ sock[k].phase # "new" /\ sock[k].sent < MaxBytes
                       /\ x.in = Append(sock[k].in, <<k, sock[k].sent + 1>>)
                       /\ x.sent = sock[k].sent + 1
                 /\ sock[k].shut => x.shut
                 /\ sock[k].peer = "closed" => x.peer = "closed" /\ x.out = sock[k].out
                 /\ sock[k].phase = "new" => x.peer = sock[k].peer
                 /\ x.peer = "closed" /\ ~x.fin => x.out > 0
                 /\ x.fin \/ x.rst \/ x.shut => x.peer = "closed"
                 /\ x.err # "none" => x.shut
                 /\ x.shut \/ x.out <= sock[k].out
<1>3. \E x : Does(x)
  <2>1. CASE Connect(k)
    <3>1. PICK f \in Fds : /\ sock[k].phase = "new" /\ files[f] \in Ports
                            /\ sock' = [sock EXCEPT ![k].phase = "queued", ![k].port = files[f]]
      BY <2>1 DEF Connect
    <3> DEFINE x == [sock[k] EXCEPT !.phase = "queued", !.port = files[f]]
    <3>2. sock' = [sock EXCEPT ![k] = x]
      BY <3>1 DEF Kernel, SockType, Socket
    <3>3. /\ x.phase = "queued" /\ x.port = files[f] /\ x.shut = sock[k].shut
          /\ x.fin = sock[k].fin /\ x.rst = sock[k].rst
          /\ x.peer = sock[k].peer /\ x.out = sock[k].out /\ x.err = sock[k].err
          /\ x.in = sock[k].in /\ x.sent = sock[k].sent /\ sock[k].out \in Nat
      BY <1>2 DEF Socket
    <3>4. sock[k].phase = "new" /\ files[f] \in Ports
      BY <3>1
    <3> HIDE DEF x
    <3>5. Does(x)
      BY <3>2, <3>3, <3>4 DEF Kernel, Rules
    <3> QED BY <3>5
  <2>2. CASE ClientSend(k)
    <3> DEFINE x == [sock[k] EXCEPT !.sent = @ + 1, !.in = Append(@, <<k, sock[k].sent + 1>>)]
    <3>1. sock' = [sock EXCEPT ![k] = x] /\ Connected(k) /\ sock[k].sent < MaxBytes
      BY <2>2 DEF ClientSend, Kernel, SockType, Socket
    <3>2. /\ x.phase = sock[k].phase /\ x.port = sock[k].port /\ x.shut = sock[k].shut
          /\ x.fin = sock[k].fin /\ x.rst = sock[k].rst
          /\ x.peer = sock[k].peer /\ x.out = sock[k].out /\ x.err = sock[k].err
          /\ x.in = Append(sock[k].in, <<k, sock[k].sent + 1>>) /\ x.sent = sock[k].sent + 1
      BY <1>2 DEF Socket
    <3>3. sock[k].peer = "open" /\ sock[k].phase # "new" /\ sock[k].out \in Nat
      BY <1>2, <3>1 DEF Connected, Socket
    <3> HIDE DEF x
    <3>4. Does(x)
      BY <3>1, <3>2, <3>3 DEF Kernel, Rules
    <3> QED BY <3>4
  <2>3. CASE ClientRead(k)
    <3> DEFINE x == [sock[k] EXCEPT !.out = 0]
    <3>1. sock' = [sock EXCEPT ![k] = x] /\ sock[k].peer = "open"
      BY <2>3 DEF ClientRead, Kernel, SockType, Socket
    <3>2. Does(x)
      BY <1>2, <3>1 DEF Socket, Kernel, Rules
    <3> QED BY <3>2
  <2>4. CASE ClientClose(k)
    <3> DEFINE x == [sock[k] EXCEPT !.peer = "closed", !.fin = (sock[k].out = 0),
                                    !.rst = (sock[k].out > 0)]
    <3>1. sock' = [sock EXCEPT ![k] = x] /\ Connected(k)
      BY <2>4 DEF ClientClose, Kernel, SockType, Socket
    <3>2. /\ x.phase = sock[k].phase /\ x.port = sock[k].port /\ x.shut = sock[k].shut
          /\ x.in = sock[k].in /\ x.sent = sock[k].sent
          /\ x.peer = "closed" /\ x.out = sock[k].out /\ x.err = sock[k].err
      BY <1>2 DEF Socket
    <3>3. x.fin <=> sock[k].out = 0
      BY <1>2 DEF Socket
    <3>4. sock[k].phase # "new" /\ sock[k].out \in Nat /\ sock[k].peer = "open"
      BY <1>2, <3>1 DEF Connected, Socket
    <3> HIDE DEF x
    <3>5. Does(x)
      BY <3>1, <3>2, <3>3, <3>4 DEF Kernel, Rules
    <3> QED BY <3>5
  <2>5. CASE ResetArrives(k)
    <3> DEFINE x == [sock[k] EXCEPT !.rst = FALSE, !.shut = TRUE,
                                    !.err = IF sock[k].fin THEN "pipe" ELSE "reset"]
    <3>1. sock' = [sock EXCEPT ![k] = x] /\ sock[k].rst
      BY <2>5 DEF ResetArrives, Kernel, SockType, Socket
    <3>2. /\ x.phase = sock[k].phase /\ x.port = sock[k].port /\ x.shut /\ ~x.rst
          /\ x.fin = sock[k].fin /\ x.peer = sock[k].peer /\ x.out = sock[k].out
          /\ x.in = sock[k].in /\ x.sent = sock[k].sent
      BY <1>2 DEF Socket
    <3>3. sock[k].out \in Nat /\ sock[k].peer = "closed"
      BY <1>2, <3>1 DEF Kernel, Rules, Socket
    <3> HIDE DEF x
    <3>4. Does(x)
      BY <3>1, <3>2, <3>3 DEF Kernel, Rules
    <3> QED BY <3>4
  <2> QED BY <2>1, <2>2, <2>3, <2>4, <2>5 DEF Client
<1>4. PICK x : Does(x)
  BY <1>3
<1> HIDE DEF Does
<1>5. sock'[k] = x /\ \A j \in Conns : j # k => sock'[j] = sock[j]
  BY <1>4 DEF Does, Kernel, SockType
<1>6. \A j \in Conns : Rules(j)'
  <2>1. Rules(k)'
    <3>1. sock[k].sent \in Nat /\ MaxBytes \in Nat /\ Rules(k)
      BY <1>2, SocketAssumption DEF Kernel, Socket
    <3>2. x.sent <= MaxBytes
      BY <1>4, <3>1 DEF Does, Rules
    <3>3. x.phase = "new" => x.sent = 0 /\ x.in = <<>> /\ x.peer = "open"
      BY <1>4, <3>1 DEF Does, Rules
    <3>4. x.phase = "queued" => x.port \in Ports
      BY <1>4, <3>1 DEF Does, Rules
    <3> QED BY <1>4, <1>5, <3>2, <3>3, <3>4 DEF Does, Rules
  <2>2. ASSUME NEW j \in Conns, j # k PROVE Rules(j)'
    BY <1>5, <2>2 DEF Kernel, Rules
  <2> QED BY <2>1, <2>2
<1>7. Owned'
  <2>1. \A j \in Conns : sock'[j].phase = "open" <=> sock[j].phase = "open"
    BY <1>4, <1>5 DEF Does
  <2> QED BY <1>1, <2>1 DEF Kernel, Owned
<1>8. Kernel'
  BY <1>1, <1>6, <1>7 DEF Kernel, FileType, EpollType
<1>9. ASSUME AllLive, NEW d \in events' PROVE Live(d)'
  <2>1. d \in events /\ d.of = files[d.fd] /\ d.of \in Ports \cup Conns /\ d.fd \in Fds
    BY <1>1, <1>9, EventOf
  <2>2. \A p \in Ports : Readable(p) => Readable(p)'
    BY <1>1, PortsAdd
  <2>3. CASE d.of \in Conns
    <3>1. Readable(d.of) => Readable(d.of)'
      BY <1>1, <1>9, <2>1, <2>3, EventOf DEF OnlyAdds
    <3>2. Writable(d.of) => Writable(d.of)'
      <4>1. CASE d.of = k
        <5>1. sock'[k] = x /\ (x.shut \/ x.out <= sock[k].out) /\ (sock[k].shut => x.shut)
          BY <1>4, <1>5 DEF Does
        <5>2. x \in Socket
          BY <1>1, <5>1 DEF SockType
        <5> QED BY <1>2, <4>1, <5>1, <5>2, SocketAssumption DEF Writable, Socket
      <4>2. CASE d.of # k
        BY <1>5, <2>3, <4>2 DEF Writable
      <4> QED BY <4>1, <4>2
    <3> QED BY <1>1, <1>9, <2>1, <3>1, <3>2 DEF AllLive, Live
  <2>4. CASE d.of \in Ports
    BY <1>1, <1>9, <2>1, <2>2, <2>4, EventOf, Distinct DEF AllLive, Live
  <2> QED BY <2>1, <2>3, <2>4
<1>10. /\ \/ sock'[k].phase = sock[k].phase
          \/ sock[k].phase = "new" /\ sock'[k].phase = "queued"
       /\ \/ sock'[k].in = sock[k].in /\ sock'[k].sent = sock[k].sent
          \/ /\ sock[k].peer = "open" /\ sock[k].phase # "new"
             /\ sock'[k].in = Append(sock[k].in, <<k, sock[k].sent + 1>>)
             /\ sock'[k].sent = sock[k].sent + 1
       /\ sock[k].shut => sock'[k].shut
       /\ sock[k].peer = "closed" => sock'[k].peer = "closed" /\ sock'[k].out = sock[k].out
  BY <1>4, <1>5 DEF Does
<1> QED BY <1>1, <1>5, <1>8, <1>9, <1>10 DEF AllLive

\* At first the kernel's rules hold and nothing is open or watched.
LEMMA InitKernel ==
  ASSUME SocketsInit
  PROVE  /\ Kernel /\ AllLive
         /\ \A f \in Fds : files[f] \in {Free, Other} /\ epoll[f] = "none"
         /\ \A k \in Conns : sock[k].phase = "new" /\ sock[k].in = <<>> /\ sock[k].sent = 0
<1>1. SockType /\ FileType /\ \A f \in Fds : files[f] \in {Free, Other}
  BY InitSockets
<1>2. EpollType /\ AllLive /\ \A f \in Fds : epoll[f] = "none"
  BY DEF SocketsInit, EpollType, AllLive
<1>3. \A k \in Conns : sock[k] = NewSocket
  BY DEF SocketsInit
<1>4. \A k \in Conns : Rules(k) /\ sock[k].phase = "new" /\ sock[k].in = <<>> /\ sock[k].sent = 0
  BY <1>3, SocketAssumption DEF NewSocket, Rules
<1>5. Owned
  BY <1>1, <1>2, <1>4, Distinct DEF Owned
<1> QED BY <1>1, <1>2, <1>4, <1>5 DEF Kernel

-----------------------------------------------------------------------------
(* Runs of bytes: a sequence that holds what connection k sent after its   *)
(* first a bytes.                                                          *)

RunOf(k, a, q) == \A n \in 1 .. Len(q) : q[n] = <<k, a + n>>

\* A run can be cut.
LEMMA RunCut ==
  ASSUME NEW k, NEW a \in Nat, NEW q \in Seq(Byte), NEW n \in 0 .. Len(q), RunOf(k, a, q)
  PROVE  /\ SubSeq(q, 1, n) \in Seq(Byte) /\ Len(SubSeq(q, 1, n)) = n
         /\ RunOf(k, a, SubSeq(q, 1, n))
         /\ Len(SubSeq(q, n + 1, Len(q))) = Len(q) - n
         /\ RunOf(k, a + n, SubSeq(q, n + 1, Len(q)))
<1>1. Len(q) \in Nat /\ n \in Nat
  OBVIOUS
<1>2. SubSeq(q, 1, n) \in Seq(Byte) /\ Len(SubSeq(q, 1, n)) = n
  BY <1>1
<1>3. Len(SubSeq(q, n + 1, Len(q))) = Len(q) - n
  BY <1>1
<1>4. \A i \in 1 .. n : SubSeq(q, 1, n)[i] = q[i]
  BY <1>1
<1>5. \A i \in 1 .. Len(q) - n : SubSeq(q, n + 1, Len(q))[i] = q[n + i]
  BY <1>1
<1>6. \A i \in 1 .. Len(q) - n : a + n + i = a + (n + i) /\ n + i \in 1 .. Len(q)
  BY <1>1
<1> QED BY <1>1, <1>2, <1>3, <1>4, <1>5, <1>6 DEF RunOf

\* A run can be continued.
LEMMA RunJoin ==
  ASSUME NEW k, NEW a \in Nat, NEW p \in Seq(Byte), NEW q \in Seq(Byte),
         RunOf(k, a, p), RunOf(k, a + Len(p), q)
  PROVE  /\ p \o q \in Seq(Byte) /\ Len(p \o q) = Len(p) + Len(q)
         /\ RunOf(k, a, p \o q)
<1>1. p \o q \in Seq(Byte) /\ Len(p \o q) = Len(p) + Len(q) /\ Len(p) \in Nat /\ Len(q) \in Nat
  OBVIOUS
<1>2. ASSUME NEW i \in 1 .. Len(p) + Len(q) PROVE (p \o q)[i] = <<k, a + i>>
  <2>1. CASE i <= Len(p)
    <3>1. (p \o q)[i] = p[i] /\ i \in 1 .. Len(p)
      BY <1>1, <2>1
    <3> QED BY <3>1 DEF RunOf
  <2>2. CASE i > Len(p)
    <3>1. (p \o q)[i] = q[i - Len(p)] /\ i - Len(p) \in 1 .. Len(q)
      BY <1>1, <2>2
    <3>2. a + Len(p) + (i - Len(p)) = a + i
      BY <1>1
    <3> QED BY <3>1, <3>2 DEF RunOf
  <2> QED BY <1>1, <2>1, <2>2
<1> QED BY <1>1, <1>2 DEF RunOf

\* A client's next byte continues the run.
LEMMA RunAppend ==
  ASSUME NEW k \in Conns, NEW a \in Nat, NEW q \in Seq(Byte), RunOf(k, a, q)
  PROVE  /\ Append(q, <<k, a + Len(q) + 1>>) \in Seq(Byte)
         /\ Len(Append(q, <<k, a + Len(q) + 1>>)) = Len(q) + 1
         /\ RunOf(k, a, Append(q, <<k, a + Len(q) + 1>>))
<1> DEFINE b == <<k, a + Len(q) + 1>>
<1>1. b \in Byte /\ Len(q) \in Nat
  BY DEF Byte
<1>2. Append(q, b) \in Seq(Byte) /\ Len(Append(q, b)) = Len(q) + 1
  BY <1>1
<1>3. \A i \in 1 .. Len(q) : Append(q, b)[i] = q[i]
  BY <1>1
<1>4. Append(q, b)[Len(q) + 1] = b
  BY <1>1
<1> QED BY <1>1, <1>2, <1>3, <1>4 DEF RunOf

\* A run from the start that is as long as what was sent is what was sent.
LEMMA RunSent ==
  ASSUME NEW k \in Conns, SockType, NEW q \in Seq(Byte), RunOf(k, 0, q)
  PROVE  /\ Len(q) = sock[k].sent => q = Sent(k)
         /\ Len(q) <= sock[k].sent => q = SubSeq(Sent(k), 1, Len(q))
<1>1. sock[k].sent \in Nat /\ Len(q) \in Nat
  BY DEF SockType, Socket
<1>2. Sent(k) \in Seq(Byte) /\ Len(Sent(k)) = sock[k].sent
  BY <1>1 DEF Sent, Byte
<1>3. \A i \in 1 .. sock[k].sent : Sent(k)[i] = <<k, i>>
  BY DEF Sent
<1>4. \A i \in 1 .. Len(q) : q[i] = <<k, i>>
  BY <1>1 DEF RunOf
<1>5. ASSUME Len(q) = sock[k].sent PROVE q = Sent(k)
  <2>1. \A i \in 1 .. Len(q) : q[i] = Sent(k)[i]
    BY <1>3, <1>4, <1>5
  <2> QED BY <1>2, <1>5, <2>1
<1>6. ASSUME Len(q) <= sock[k].sent PROVE q = SubSeq(Sent(k), 1, Len(q))
  <2> DEFINE s == SubSeq(Sent(k), 1, Len(q))
  <2>1. s \in Seq(Byte) /\ Len(s) = Len(q)
    BY <1>1, <1>2, <1>6
  <2>2. \A i \in 1 .. Len(q) : s[i] = Sent(k)[i]
    BY <1>1, <1>2, <1>6
  <2> HIDE DEF s
  <2>3. ASSUME NEW i \in 1 .. Len(q) PROVE s[i] = q[i]
    <3>1. i \in 1 .. sock[k].sent
      BY <1>1, <1>6
    <3>2. s[i] = Sent(k)[i]
      BY <2>2, Zenon
    <3> QED BY <1>3, <1>4, <3>1, <3>2, Zenon
  <2>4. s = q
    BY <2>1, <2>3
  <2> QED BY <2>4 DEF s
<1> QED BY <1>5, <1>6

-----------------------------------------------------------------------------
\* What a server does cannot change of a client that has closed.
Settled(k) == /\ sock'[k].peer = sock[k].peer /\ sock'[k].sent = sock[k].sent
              /\ sock[k].peer = "closed" => sock'[k].out = sock[k].out

LEMMA CallsSettle ==
  ASSUME SockType, NEW k \in Conns, NEW n,
         \/ sock' = [sock EXCEPT ![k].phase = "open"] \/ sock' = [sock EXCEPT ![k].phase = "closed"]
         \/ sock' = Received(k, n) \/ sock' = SentTo(k, n) \/ sock' = sock
  PROVE  \A j \in Conns : Settled(j)
<1>1. sock \in [Conns -> Socket]
  BY DEF SockType
<1>2. ASSUME NEW x, sock' = [sock EXCEPT ![k].phase = x] PROVE \A j \in Conns : Settled(j)
  BY <1>1, <1>2 DEF Settled, Socket
<1>3. CASE sock' = Received(k, n)
  BY <1>1, <1>3 DEF Received, Settled, Socket
<1>4. CASE sock' = SentTo(k, n)
  BY <1>1, <1>4 DEF SentTo, Settled, Socket
<1>5. CASE sock' = sock
  BY <1>5 DEF Settled
<1> QED BY <1>2, <1>3, <1>4, <1>5

\* Of a patient client, which closes when it was answered and has read it all.
LEMMA PatientCloses ==
  ASSUME Hasty = FALSE, SockType, NEW k \in Conns, NEW answered, Client(k, answered)
  PROVE  /\ \A j \in Conns : j # k => sock'[j] = sock[j]
         /\ sock[k].peer = "closed" =>
              /\ sock'[k].peer = "closed" /\ sock'[k].out = sock[k].out
              /\ sock'[k].sent = sock[k].sent /\ sock'[k].in = sock[k].in
         /\ sock[k].peer # "closed" /\ sock'[k].peer = "closed" =>
              /\ answered /\ sock[k].in = <<>> /\ sock'[k].in = <<>> /\ sock'[k].out = 0
              /\ sock'[k].sent = sock[k].sent
<1>1. sock \in [Conns -> Socket]
  BY DEF SockType
<1>2. CASE Connect(k)
  BY <1>1, <1>2 DEF Connect, Socket
<1>3. CASE ClientSend(k)
  BY <1>1, <1>3 DEF ClientSend, Connected, Socket
<1>4. CASE ClientRead(k)
  BY <1>1, <1>4 DEF ClientRead, Socket
<1>5. CASE ResetArrives(k)
  BY <1>1, <1>5 DEF ResetArrives, Socket
<1>6. CASE ClientClose(k) /\ answered /\ sock[k].in = <<>> /\ sock[k].out = 0
  BY <1>1, <1>6 DEF ClientClose, Connected, Socket
<1> QED BY <1>2, <1>3, <1>4, <1>5, <1>6 DEF Client
=============================================================================
