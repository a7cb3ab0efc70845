--------------------------- MODULE MultiIoProofs ---------------------------
(***************************************************************************)
(* The servers of multi-io.c and the hook programs, for every number of    *)
(* connections, descriptors and threads and any word size.  Each server    *)
(* has an invariant of its own (SelectInv, EpollInv, ThreadInv) over the   *)
(* rules of the kernel and what is known of the bytes (Wire).              *)
(***************************************************************************)
EXTENDS MultiIoProps, SocketsProofs, FiniteSetTheorems

-----------------------------------------------------------------------------
(* The bytes of a connection: sent back, in the server's hand, in the socket. *)

\* One after the other they are what the client sent.
Stream(k, r, q, in, n) ==
  /\ RunOf(k, 0, r) /\ RunOf(k, Len(r), q) /\ RunOf(k, Len(r) + Len(q), in)
  /\ Len(r) + Len(q) + Len(in) = n

\* What was sent back is a prefix of that; a reset may lose the rest.
Wire(k, q) ==
  /\ RunOf(k, 0, reply[k]) /\ Len(reply[k]) <= sock[k].sent
  /\ sock[k].phase # "closed" /\ ~sock[k].shut => Stream(k, reply[k], q, sock[k].in, sock[k].sent)

Common == Kernel /\ events = {} /\ reply \in [Conns -> Seq(Byte)]

LEMMA NoBytes == <<>> \in Seq(Byte) /\ Len(<<>>) = 0 /\ \A k, a : RunOf(k, a, <<>>)
BY DEF RunOf

LEMMA LenNat == ASSUME NEW q \in Seq(Byte) PROVE Len(q) \in Nat
OBVIOUS

\* The client adds a byte.
LEMMA StreamGrows ==
  ASSUME NEW k \in Conns, NEW r \in Seq(Byte), NEW q \in Seq(Byte), NEW in \in Seq(Byte), NEW n \in Nat,
         Stream(k, r, q, in, n)
  PROVE  Stream(k, r, q, Append(in, <<k, n + 1>>), n + 1)
<1> PICK a \in Nat, b \in Nat, c \in Nat : a = Len(r) /\ b = Len(q) /\ c = Len(in)
  BY LenNat
<1>1. a + b \in Nat /\ a + b + c = n /\ RunOf(k, a + b, in)
  BY DEF Stream
<1>2. /\ Len(Append(in, <<k, a + b + c + 1>>)) = c + 1
      /\ RunOf(k, a + b, Append(in, <<k, a + b + c + 1>>))
  BY <1>1, RunAppend, Zenon
<1>3. a + b + c + 1 = n + 1 /\ a + b + (c + 1) = n + 1
  BY <1>1
<1> PICK s : s = Append(in, <<k, n + 1>>)
  OBVIOUS
<1>4. Len(s) = c + 1 /\ RunOf(k, a + b, s)
  BY <1>2, <1>3, Zenon
<1>5. RunOf(k, Len(r) + Len(q), s) /\ Len(r) + Len(q) + Len(s) = n + 1
  BY <1>3, <1>4, Zenon
<1> QED BY <1>1, <1>5, Zenon DEF Stream

\* recv takes some.
LEMMA StreamTaken ==
  ASSUME NEW k \in Conns, NEW r \in Seq(Byte), NEW in \in Seq(Byte), NEW n \in Nat,
         Stream(k, r, <<>>, in, n), NEW c \in 0 .. Len(in)
  PROVE  Stream(k, r, SubSeq(in, 1, c), SubSeq(in, c + 1, Len(in)), n)
<1> PICK a \in Nat, d \in Nat : a = Len(r) /\ d = Len(in)
  BY LenNat
<1>1. a + 0 = a /\ c \in Nat /\ a + 0 + d = n /\ RunOf(k, a, in)
  BY NoBytes DEF Stream
<1>2. /\ Len(SubSeq(in, 1, c)) = c /\ RunOf(k, a, SubSeq(in, 1, c))
      /\ Len(SubSeq(in, c + 1, Len(in))) = d - c
      /\ RunOf(k, a + c, SubSeq(in, c + 1, Len(in)))
  BY <1>1, RunCut, SMTT(30)
<1>3. a + c + (d - c) = n
  BY <1>1
<1> QED BY <1>2, <1>3, Zenon DEF Stream

\* send sends what was taken.
LEMMA StreamSent ==
  ASSUME NEW k \in Conns, NEW r \in Seq(Byte), NEW q \in Seq(Byte), NEW in \in Seq(Byte), NEW n \in Nat,
         Stream(k, r, q, in, n)
  PROVE  /\ Stream(k, r \o q, <<>>, in, n) /\ r \o q \in Seq(Byte)
         /\ RunOf(k, 0, r \o q) /\ Len(r \o q) <= n
<1> PICK a \in Nat, b \in Nat, c \in Nat : a = Len(r) /\ b = Len(q) /\ c = Len(in)
  BY LenNat
<1>1. 0 \in Nat /\ 0 + a = a /\ a + b + 0 = a + b /\ a + b + c = n /\ a + b <= n
  BY DEF Stream
<1>2. RunOf(k, 0, r) /\ RunOf(k, a, q) /\ RunOf(k, a + b, in)
  BY DEF Stream
<1>3. r \o q \in Seq(Byte) /\ Len(r \o q) = a + b /\ RunOf(k, 0, r \o q)
  BY <1>1, <1>2, RunJoin
<1> QED BY <1>1, <1>2, <1>3, NoBytes, Zenon DEF Stream

\* All of it.
LEMMA RunFollows ==
  ASSUME NEW k, NEW p \in Seq(Byte), NEW in \in Seq(Byte), RunOf(k, 0, p), RunOf(k, Len(p), in)
  PROVE  p \o in \in Seq(Byte) /\ Len(p \o in) = Len(p) + Len(in) /\ RunOf(k, 0, p \o in)
<1>1. 0 + Len(p) = Len(p) /\ 0 \in Nat
  BY LenNat
<1> QED BY <1>1, RunJoin, Zenon

LEMMA StreamIs ==
  ASSUME SockType, NEW k \in Conns, NEW r \in Seq(Byte), NEW q \in Seq(Byte),
         Stream(k, r, q, sock[k].in, sock[k].sent)
  PROVE  r \o q \o sock[k].in = Sent(k)
<1>1. sock[k].in \in Seq(Byte) /\ sock[k].sent \in Nat
  BY DEF SockType, Socket
<1>2. Stream(k, r \o q, <<>>, sock[k].in, sock[k].sent) /\ r \o q \in Seq(Byte)
  BY <1>1, StreamSent, Zenon
<1>3. /\ RunOf(k, 0, r \o q) /\ RunOf(k, Len(r \o q) + Len(<<>>), sock[k].in)
      /\ Len(r \o q) + Len(<<>>) + Len(sock[k].in) = sock[k].sent
  BY <1>2, Zenon DEF Stream
<1>4. Len(r \o q) + Len(<<>>) = Len(r \o q)
  BY <1>2, LenNat, NoBytes
<1>5. RunOf(k, Len(r \o q), sock[k].in) /\ Len(r \o q) + Len(sock[k].in) = sock[k].sent
  BY <1>3, <1>4, Zenon
<1>6. /\ r \o q \o sock[k].in \in Seq(Byte) /\ Len(r \o q \o sock[k].in) = sock[k].sent
      /\ RunOf(k, 0, r \o q \o sock[k].in)
  BY <1>1, <1>2, <1>3, <1>5, RunFollows, Zenon
<1> QED BY <1>6, RunSent, Zenon

-----------------------------------------------------------------------------
(* What the calls do to the bytes. *)

\* A call on another connection, a close, an accept, a reset that arrives.
LEMMA WireSame ==
  ASSUME NEW k \in Conns, NEW q, Wire(k, q), reply'[k] = reply[k],
         sock'[k].in = sock[k].in, sock'[k].sent = sock[k].sent,
         sock[k].shut => sock'[k].shut, sock[k].phase = "closed" => sock'[k].phase = "closed"
  PROVE  Wire(k, q)'
BY DEF Wire

LEMMA WireClient ==
  ASSUME Common, NEW k \in Conns, NEW q \in Seq(Byte), Wire(k, q), reply' = reply,
         NEW j \in Conns, NEW answered, Client(j, answered)
  PROVE  Wire(k, q)'
<1>1. /\ \A x \in Conns : x # j => sock'[x] = sock[x]
      /\ \/ sock'[j].phase = sock[j].phase
         \/ sock[j].phase = "new" /\ sock'[j].phase = "queued"
      /\ \/ sock'[j].in = sock[j].in /\ sock'[j].sent = sock[j].sent
         \/ /\ sock'[j].in = Append(sock[j].in, <<j, sock[j].sent + 1>>)
            /\ sock'[j].sent = sock[j].sent + 1
      /\ sock[j].shut => sock'[j].shut
  BY KernelClient DEF Common
<1>2. CASE k # j \/ (sock'[j].in = sock[j].in /\ sock'[j].sent = sock[j].sent)
  BY <1>1, <1>2, WireSame
<1>3. CASE k = j /\ sock'[j].in = Append(sock[j].in, <<j, sock[j].sent + 1>>)
           /\ sock'[j].sent = sock[j].sent + 1
  <2>1. PICK r \in Seq(Byte), in \in Seq(Byte), n \in Nat :
          r = reply[k] /\ in = sock[k].in /\ n = sock[k].sent
    BY DEF Common, Kernel, SockType, Socket
  <2>2. Stream(k, r, q, in, n) => Stream(k, r, q, Append(in, <<k, n + 1>>), n + 1)
    BY StreamGrows
  <2>3. Len(r) <= n => Len(r) <= n + 1
    BY LenNat
  <2> QED BY <1>1, <1>3, <2>1, <2>2, <2>3, Zenon DEF Wire
<1> QED BY <1>1, <1>2, <1>3

LEMMA WireRecv ==
  ASSUME Common, NEW k \in Conns, Wire(k, <<>>), reply'[k] = reply[k],
         NEW n \in Nat \ {0}, sock' = Received(k, n),
         NEW q, q = IF RecvCount(k, n) > 0 THEN RecvData(k, n) ELSE <<>>
  PROVE  Wire(k, q)'
<1>1. /\ sock'[k].phase = sock[k].phase /\ sock'[k].shut = sock[k].shut /\ sock'[k].sent = sock[k].sent
      /\ sock'[k].in = IF RecvCount(k, n) > 0
                       THEN SubSeq(sock[k].in, RecvCount(k, n) + 1, Len(sock[k].in)) ELSE sock[k].in
  BY KernelRecv DEF Common
<1>2. CASE RecvCount(k, n) > 0
  <2>1. PICK r \in Seq(Byte), in \in Seq(Byte), s \in Nat :
          r = reply[k] /\ in = sock[k].in /\ s = sock[k].sent
    BY DEF Common, Kernel, SockType, Socket
  <2>2. RecvCount(k, n) \in 0 .. Len(in)
    BY <1>2, <2>1, RecvCounts, LenNat DEF Common, Kernel
  <2>3. PICK c \in 0 .. Len(in) : c = RecvCount(k, n)
    BY <2>2
  <2>4. Stream(k, r, <<>>, in, s) => Stream(k, r, SubSeq(in, 1, c), SubSeq(in, c + 1, Len(in)), s)
    BY StreamTaken
  <2>5. q = SubSeq(in, 1, c)
    BY <1>2, <2>1, <2>3 DEF RecvData
  <2> QED BY <1>1, <1>2, <2>1, <2>3, <2>4, <2>5, Zenon DEF Wire
<1>3. CASE ~(RecvCount(k, n) > 0)
  BY <1>1, <1>3, WireSame
<1> QED BY <1>2, <1>3

LEMMA WireSend ==
  ASSUME Common, NEW k \in Conns, NEW q \in Seq(Byte), Wire(k, q), sock[k].phase # "closed",
         ~SendKills(k), sock' = SentTo(k, Len(q)),
         reply' = IF SendFails(k) THEN reply ELSE [reply EXCEPT ![k] = @ \o q]
  PROVE  /\ Wire(k, <<>>)' /\ reply' \in [Conns -> Seq(Byte)]
         /\ \A j \in Conns : j # k => reply'[j] = reply[j]
<1>1. sock'[k].phase = sock[k].phase /\ sock'[k].shut = sock[k].shut
      /\ sock'[k].sent = sock[k].sent /\ sock'[k].in = sock[k].in
  BY LenNat, KernelSend DEF Common
<1>2. CASE SendFails(k)
  <2>1. sock[k].shut
    BY <1>2 DEF SendFails, Common, Kernel, Rules
  <2> QED BY <1>1, <1>2, <2>1 DEF Wire, Common
<1>3. CASE ~SendFails(k)
  <2>1. ~sock[k].shut
    BY <1>3 DEF SendFails, SendKills, Common, Kernel, SockType, Socket
  <2>2. PICK r \in Seq(Byte), in \in Seq(Byte), n \in Nat :
          r = reply[k] /\ in = sock[k].in /\ n = sock[k].sent
    BY DEF Common, Kernel, SockType, Socket
  <2>3. /\ Stream(k, r \o q, <<>>, in, n) /\ r \o q \in Seq(Byte)
        /\ RunOf(k, 0, r \o q) /\ Len(r \o q) <= n
    BY <2>1, <2>2, StreamSent DEF Wire
  <2>4. reply' = [reply EXCEPT ![k] = r \o q]
    BY <1>3, <2>2
  <2>5. reply'[k] = r \o q /\ reply' \in [Conns -> Seq(Byte)]
        /\ \A j \in Conns : j # k => reply'[j] = reply[j]
    BY <2>3, <2>4 DEF Common
  <2> QED BY <1>1, <2>2, <2>3, <2>5, Zenon DEF Wire
<1> QED BY <1>2, <1>3

\* What a client gets back is what it sent.
LEMMA WireEchoes ==
  ASSUME Common, NEW k \in Conns, NEW q \in Seq(Byte), Wire(k, q)
  PROVE  /\ reply[k] = SubSeq(Sent(k), 1, Len(reply[k]))
         /\ sock[k].phase = "open" /\ ~sock[k].shut => reply[k] \o q \o sock[k].in = Sent(k)
<1>1. reply[k] \in Seq(Byte) /\ SockType
  BY DEF Common, Kernel
<1>2. reply[k] = SubSeq(Sent(k), 1, Len(reply[k]))
  BY <1>1, RunSent DEF Wire
<1>3. ASSUME sock[k].phase = "open", ~sock[k].shut PROVE reply[k] \o q \o sock[k].in = Sent(k)
  <2>1. Stream(k, reply[k], q, sock[k].in, sock[k].sent)
    BY <1>3 DEF Wire
  <2> QED BY <1>1, <2>1, StreamIs, Zenon
<1> QED BY <1>2, <1>3

-----------------------------------------------------------------------------
(* The three servers are instances over the same kernel. *)

\* Select makes the same calls.
LEMMA SelectCalls ==
  /\ Select!SockFd = SockFd /\ Select!EpFd = EpFd /\ Select!Fds = Fds
  /\ Select!FreeFds = FreeFds /\ Select!LowestFree = LowestFree /\ Select!kernel = kernel
  /\ Select!SocketsInit <=> SocketsInit
  /\ \A k, x : Select!Queued(k, x) <=> Queued(k, x)
  /\ \A x : Select!Readable(x) <=> Readable(x)
  /\ \A k, n : /\ Select!RecvCount(k, n) = RecvCount(k, n)
               /\ Select!RecvData(k, n) = RecvData(k, n)
               /\ Select!Received(k, n) = Received(k, n)
               /\ Select!SentTo(k, n) = SentTo(k, n)
  /\ \A k : (Select!SendFails(k) <=> SendFails(k)) /\ (Select!SendKills(k) <=> SendKills(k))
  /\ \A f : (Select!CloseFd(f) <=> CloseFd(f)) /\ (Select!Ready(f) <=> Ready(f))
<1>1. Select!SockFd = SockFd /\ Select!EpFd = EpFd /\ Select!Fds = Fds /\ Select!FreeFds = FreeFds /\ Select!kernel = kernel
  BY DEF SockFd, Select!SockFd, EpFd, Select!EpFd, Fds, Select!Fds, FreeFds, Select!FreeFds, kernel, Select!kernel
<1>2. Select!LowestFree = LowestFree
  BY <1>1 DEF LowestFree, Select!LowestFree
<1>3. Select!SocketsInit <=> SocketsInit
  BY <1>1 DEF SocketsInit, Select!SocketsInit, NewSocket, Select!NewSocket
<1>4. \A k, x : Select!Queued(k, x) <=> Queued(k, x)
  BY DEF Queued, Select!Queued
<1>5. \A x : Select!Readable(x) <=> Readable(x)
  BY <1>4 DEF Readable, Select!Readable
<1>6. \A k, n : Select!RecvCount(k, n) = RecvCount(k, n)
  BY DEF RecvCount, Select!RecvCount
<1>7. \A k, n : Select!RecvData(k, n) = RecvData(k, n) /\ Select!Received(k, n) = Received(k, n)
  BY <1>6 DEF RecvData, Select!RecvData, Received, Select!Received
<1>8. \A k, n : Select!SentTo(k, n) = SentTo(k, n)
  BY DEF SentTo, Select!SentTo
<1>9. \A k : (Select!SendFails(k) <=> SendFails(k)) /\ (Select!SendKills(k) <=> SendKills(k))
  BY DEF SendFails, Select!SendFails, SendKills, Select!SendKills
<1>10. \A f : (Select!CloseFd(f) <=> CloseFd(f)) /\ (Select!Ready(f) <=> Ready(f))
  BY <1>5 DEF CloseFd, Select!CloseFd, Ready, Select!Ready, Writable, Select!Writable
<1> QED BY <1>1, <1>2, <1>3, <1>4, <1>5, <1>6, <1>7, <1>8, <1>9, <1>10

\* Epoll makes the same calls.
LEMMA EpollCalls ==
  /\ Epoll!SockFd = SockFd /\ Epoll!EpFd = EpFd /\ Epoll!Fds = Fds
  /\ Epoll!FreeFds = FreeFds /\ Epoll!LowestFree = LowestFree /\ Epoll!kernel = kernel
  /\ Epoll!SocketsInit <=> SocketsInit
  /\ \A k, x : Epoll!Queued(k, x) <=> Queued(k, x)
  /\ \A x : Epoll!Readable(x) <=> Readable(x)
  /\ \A k, n : /\ Epoll!RecvCount(k, n) = RecvCount(k, n)
               /\ Epoll!RecvData(k, n) = RecvData(k, n)
               /\ Epoll!Received(k, n) = Received(k, n)
               /\ Epoll!SentTo(k, n) = SentTo(k, n)
  /\ \A k : (Epoll!SendFails(k) <=> SendFails(k)) /\ (Epoll!SendKills(k) <=> SendKills(k))
  /\ \A f : (Epoll!CloseFd(f) <=> CloseFd(f)) /\ (Epoll!Ready(f) <=> Ready(f))
<1>1. Epoll!SockFd = SockFd /\ Epoll!EpFd = EpFd /\ Epoll!Fds = Fds /\ Epoll!FreeFds = FreeFds /\ Epoll!kernel = kernel
  BY DEF SockFd, Epoll!SockFd, EpFd, Epoll!EpFd, Fds, Epoll!Fds, FreeFds, Epoll!FreeFds, kernel, Epoll!kernel
<1>2. Epoll!LowestFree = LowestFree
  BY <1>1 DEF LowestFree, Epoll!LowestFree
<1>3. Epoll!SocketsInit <=> SocketsInit
  BY <1>1 DEF SocketsInit, Epoll!SocketsInit, NewSocket, Epoll!NewSocket
<1>4. \A k, x : Epoll!Queued(k, x) <=> Queued(k, x)
  BY DEF Queued, Epoll!Queued
<1>5. \A x : Epoll!Readable(x) <=> Readable(x)
  BY <1>4 DEF Readable, Epoll!Readable
<1>6. \A k, n : Epoll!RecvCount(k, n) = RecvCount(k, n)
  BY DEF RecvCount, Epoll!RecvCount
<1>7. \A k, n : Epoll!RecvData(k, n) = RecvData(k, n) /\ Epoll!Received(k, n) = Received(k, n)
  BY <1>6 DEF RecvData, Epoll!RecvData, Received, Epoll!Received
<1>8. \A k, n : Epoll!SentTo(k, n) = SentTo(k, n)
  BY DEF SentTo, Epoll!SentTo
<1>9. \A k : (Epoll!SendFails(k) <=> SendFails(k)) /\ (Epoll!SendKills(k) <=> SendKills(k))
  BY DEF SendFails, Epoll!SendFails, SendKills, Epoll!SendKills
<1>10. \A f : (Epoll!CloseFd(f) <=> CloseFd(f)) /\ (Epoll!Ready(f) <=> Ready(f))
  BY <1>5 DEF CloseFd, Epoll!CloseFd, Ready, Epoll!Ready, Writable, Epoll!Writable
<1> QED BY <1>1, <1>2, <1>3, <1>4, <1>5, <1>6, <1>7, <1>8, <1>9, <1>10

\* Thread makes the same calls.
LEMMA ThreadCalls ==
  /\ Thread!SockFd = SockFd /\ Thread!EpFd = EpFd /\ Thread!Fds = Fds
  /\ Thread!FreeFds = FreeFds /\ Thread!LowestFree = LowestFree /\ Thread!kernel = kernel
  /\ Thread!SocketsInit <=> SocketsInit
  /\ \A k, x : Thread!Queued(k, x) <=> Queued(k, x)
  /\ \A x : Thread!Readable(x) <=> Readable(x)
  /\ \A k, n : /\ Thread!RecvCount(k, n) = RecvCount(k, n)
               /\ Thread!RecvData(k, n) = RecvData(k, n)
               /\ Thread!Received(k, n) = Received(k, n)
               /\ Thread!SentTo(k, n) = SentTo(k, n)
  /\ \A k : (Thread!SendFails(k) <=> SendFails(k)) /\ (Thread!SendKills(k) <=> SendKills(k))
  /\ \A f : (Thread!CloseFd(f) <=> CloseFd(f)) /\ (Thread!Ready(f) <=> Ready(f))
<1>1. Thread!SockFd = SockFd /\ Thread!EpFd = EpFd /\ Thread!Fds = Fds /\ Thread!FreeFds = FreeFds /\ Thread!kernel = kernel
  BY DEF SockFd, Thread!SockFd, EpFd, Thread!EpFd, Fds, Thread!Fds, FreeFds, Thread!FreeFds, kernel, Thread!kernel
<1>2. Thread!LowestFree = LowestFree
  BY <1>1 DEF LowestFree, Thread!LowestFree
<1>3. Thread!SocketsInit <=> SocketsInit
  BY <1>1 DEF SocketsInit, Thread!SocketsInit, NewSocket, Thread!NewSocket
<1>4. \A k, x : Thread!Queued(k, x) <=> Queued(k, x)
  BY DEF Queued, Thread!Queued
<1>5. \A x : Thread!Readable(x) <=> Readable(x)
  BY <1>4 DEF Readable, Thread!Readable
<1>6. \A k, n : Thread!RecvCount(k, n) = RecvCount(k, n)
  BY DEF RecvCount, Thread!RecvCount
<1>7. \A k, n : Thread!RecvData(k, n) = RecvData(k, n) /\ Thread!Received(k, n) = Received(k, n)
  BY <1>6 DEF RecvData, Thread!RecvData, Received, Thread!Received
<1>8. \A k, n : Thread!SentTo(k, n) = SentTo(k, n)
  BY DEF SentTo, Thread!SentTo
<1>9. \A k : (Thread!SendFails(k) <=> SendFails(k)) /\ (Thread!SendKills(k) <=> SendKills(k))
  BY DEF SendFails, Thread!SendFails, SendKills, Thread!SendKills
<1>10. \A f : (Thread!CloseFd(f) <=> CloseFd(f)) /\ (Thread!Ready(f) <=> Ready(f))
  BY <1>5 DEF CloseFd, Thread!CloseFd, Ready, Thread!Ready, Writable, Thread!Writable
<1> QED BY <1>1, <1>2, <1>3, <1>4, <1>5, <1>6, <1>7, <1>8, <1>9, <1>10

\* The program's own descriptors.
LEMMA OwnFds == /\ SockFd \in Fds /\ SockFd \in Nat /\ EpFd \in Fds /\ EpFd = SockFd + 1
                /\ Fds \subseteq Nat /\ MaxFd \in Nat /\ -1 \notin Fds
                /\ SockFd + 1 \in 0 .. MaxFd + 1 /\ \A f \in Fds : f + 1 \in 0 .. MaxFd + 1 /\ f \in 0 .. MaxFd + 1
BY SocketAssumption, MultiIoAssumption DEF SockFd, EpFd, Fds

\* The listener gets its descriptor before anything else is opened.
LEMMA KernelStarts ==
  ASSUME Kernel, NEW p \in Ports, \A f \in Fds : files[f] \in {Free, Other},
         files' \in [Fds -> {Free, Other, p}], files'[SockFd] = p,
         \A f \in Fds : files'[f] = p => f = SockFd,
         epoll' \in {[epoll EXCEPT ![SockFd] = "in"], epoll}, UNCHANGED <<sock, events>>
  PROVE  Kernel'
<1>1. \A f \in Fds : epoll[f] = "none" /\ files[f] \notin Conns
  BY Distinct DEF Kernel, Owned
<1>2. /\ epoll' \in [Fds -> {"none", "in", "out"}] /\ epoll'[SockFd] # "out"
      /\ \A f \in Fds : f # SockFd => epoll'[f] = "none"
  BY <1>1, OwnFds DEF Kernel, EpollType
<1>3. SockType' /\ FileType' /\ EpollType' /\ \A k \in Conns : Rules(k)'
  BY <1>2 DEF Kernel, SockType, FileType, EpollType, Rules
<1>4. \A f \in Fds : files'[f] \notin Conns
  BY Distinct
<1>5. \A k \in Conns : sock'[k].phase # "open"
  BY <1>1 DEF Kernel, Owned
<1>6. Owned'
  BY <1>2, <1>4, <1>5, Distinct DEF Owned
<1> QED BY <1>3, <1>6 DEF Kernel

\* Steps that leave the sockets alone.
LEMMA CommonSame ==
  ASSUME Common, UNCHANGED <<files, sock, epoll, events, reply>>
  PROVE  Common'
<1>1. files' = files /\ sock' = sock /\ epoll' = epoll /\ events' = events /\ reply' = reply
  OBVIOUS
<1>2. SockType' /\ FileType' /\ EpollType'
  BY <1>1 DEF Common, Kernel, SockType, FileType, EpollType
<1>3. Owned'
  BY <1>1 DEF Common, Kernel, Owned
<1>4. \A k \in Conns : Rules(k)'
  BY <1>1 DEF Common, Kernel, Rules
<1> QED BY <1>1, <1>2, <1>3, <1>4 DEF Common, Kernel

\* The socket of a connection that nobody touches is as readable as before.
LEMMA ReadableSame ==
  ASSUME NEW k \in Conns, sock'[k] = sock[k]
  PROVE  Readable(k)' <=> Readable(k)
BY Distinct DEF Readable

-----------------------------------------------------------------------------
(* select and poll. *)

ThreadPart == clientfd = -1 /\ threads = <<>> /\ overtaken = FALSE

SelectType ==
  /\ mode \in {"select", "poll"}
  /\ at \in {"start", "wait", "accept", "scan", "send", "ended", "killed", "undefined"}
  /\ watch \subseteq Fds /\ ready \subseteq Fds /\ {maxfd, nfds} \subseteq Fds /\ i \in 0 .. MaxFd + 1
  /\ buffer \in Seq(Byte) /\ Len(buffer) <= BUFFER_LEN /\ (at = "send" => buffer # <<>>)

\* sockfd is the lowest descriptor that may be watched, and what is watched is
\* in use.
Watched == /\ \A f \in Fds : f < SockFd => files[f] = Other
           /\ at = "start" => watch = {} /\ ready = {} /\ \A f \in Fds : files[f] \in {Free, Other}
           /\ at = "start" => files[SockFd] = Free
           /\ at \notin {"start", "ended"} => files[SockFd] \in Ports /\ SockFd <= maxfd
           /\ at = "ended" => watch = {} /\ ready = {}
           /\ \A f \in Fds \ {SockFd} : files[f] \notin Ports
           /\ \A f \in watch : files[f] \in Ports \cup Conns

\* The descriptors of ready that the loop has yet to look at, or keeps for the
\* next call.
Left(f) == \/ at = "wait" /\ f > maxfd
           \/ at = "accept"
           \/ at \in {"scan", "send"} /\ i <= f

\* They are watched, and readable: of poll all of them, of select the ones in
\* the words that the call looked at.
Trusted(f) == mode = "poll" \/ (at # "wait" /\ ~Unasked(f))
Waiting == /\ \A f \in ready : Left(f) => f \in watch
           /\ \A f \in ready : Left(f) /\ Trusted(f) => Readable(files[f]) \/ InUse(f)
           /\ at \in {"scan", "send"} => SockFd < i /\ i <= maxfd + 1
           /\ at = "send" => i <= maxfd /\ i \in watch

\* What a scan has received and not sent.
Taken(k) == IF at = "send" /\ files[i] = k THEN buffer ELSE <<>>
SelectWires == \A k \in Conns : Wire(k, Taken(k))

SelectInv == SelectType /\ Watched /\ Waiting /\ SelectWires

LEMMA TakenBytes == ASSUME SelectType, NEW k PROVE Taken(k) \in Seq(Byte)
BY NoBytes DEF SelectType, Taken

\* What a client does takes nothing away.
LEMMA SelectClients ==
  ASSUME Common, SelectInv, NEW k \in Conns, NEW answered, Client(k, answered),
         UNCHANGED <<mode, at, buffer, i, reply, ofSelect>>
  PROVE  Common' /\ SelectInv'
<1>1. UNCHANGED <<mode, at, watch, ready, maxfd, nfds, buffer, i, reply>>
  BY DEF ofSelect
<1>2. Kernel' /\ UNCHANGED <<files, epoll, events>> /\ \A j \in Conns : OnlyAdds(j)
  BY KernelClient, ClientAdds DEF Common, Kernel
<1>3. SelectType' /\ Watched'
  BY <1>1, <1>2 DEF SelectInv, SelectType, Watched
<1>4. \A f \in ready : (Left(f)' <=> Left(f)) /\ (Trusted(f)' <=> Trusted(f)) /\ (InUse(f)' <=> InUse(f))
  BY <1>1 DEF Left, Trusted, InUse, Unasked
<1>5. \A f \in watch : Readable(files[f]) => Readable(files[f])'
  BY <1>1, <1>2, PortsAdd DEF SelectInv, Watched, OnlyAdds
<1>6. Waiting'
  BY <1>1, <1>4, <1>5 DEF SelectInv, Waiting
<1>7. SelectWires'
  <2> SUFFICES ASSUME NEW j \in Conns PROVE Wire(j, Taken(j))'
    BY DEF SelectWires
  <2>1. PICK q \in Seq(Byte) : q = Taken(j)
    BY TakenBytes DEF SelectInv
  <2>2. Taken(j)' = q
    BY <1>1, <1>2, <2>1 DEF Taken
  <2>3. Wire(j, q)'
    BY <1>1, <2>1, WireClient DEF SelectInv, SelectWires
  <2> QED BY <2>2, <2>3
<1> QED BY <1>1, <1>2, <1>3, <1>6, <1>7 DEF SelectInv, Common

\* Steps that leave the sockets and the descriptors alone.
LEMMA SelectQuiet ==
  ASSUME Common, SelectInv, UNCHANGED <<files, sock, epoll, events, buffer, reply>>,
         at # "send", at' # "send"
  PROVE  Common' /\ SelectWires' /\ \A x : Readable(x)' <=> Readable(x)
<1>1. Kernel'
  BY DEF Common, Kernel, SockType, FileType, EpollType, Owned, Rules
<1>2. \A k \in Conns : Taken(k) = <<>> /\ Taken(k)' = <<>>
  BY DEF Taken
<1>3. SelectWires'
  BY <1>2 DEF SelectInv, SelectWires, Wire
<1>4. \A x : Readable(x)' <=> Readable(x)
  BY DEF Readable, Queued
<1> QED BY <1>1, <1>3, <1>4 DEF Common

\* Before the start nothing is watched; after it, sockfd is.
LEMMA SelectStart == ASSUME Common, SelectInv, Select!Start PROVE Common' /\ SelectInv'
<1>1. (CHOOSE p \in Ports : TRUE) \in Ports
  BY SocketAssumption
<1>2. /\ UNCHANGED <<sock, epoll, events, mode, ready, i, buffer, nfds, reply>> /\ at = "start"
      /\ ready = {} /\ watch = {}
  BY DEF Select!Start, SelectInv, Watched
<1>3. ASSUME NEW p \in Ports, files' = [files EXCEPT ![SockFd] = p],
             watch' = {SockFd}, maxfd' = SockFd, at' = "wait"
      PROVE  Common' /\ SelectInv'
  <2>1. \A f \in Fds : files'[f] = IF f = SockFd THEN p ELSE files[f]
    BY <1>3, OwnFds DEF Common, Kernel, FileType
  <2>2. \A f \in Fds : files[f] \in {Free, Other}
    BY <1>2 DEF SelectInv, Watched
  <2>3. files' \in [Fds -> {Free, Other, p}] /\ files'[SockFd] = p
    BY <1>3, <2>1, <2>2, OwnFds DEF Common, Kernel, FileType
  <2>4. \A f \in Fds : files'[f] = p => f = SockFd
    BY <2>1, <2>2, Distinct
  <2>5. Kernel'
    BY <1>2, <2>2, <2>3, <2>4, KernelStarts DEF Common
  <2>6. SelectType'
    BY <1>2, <1>3, OwnFds DEF SelectInv, SelectType
  <2>7. Watched'
    BY <1>2, <1>3, <2>1, <2>2, OwnFds, Distinct DEF SelectInv, Watched
  <2>8. Waiting'
    BY <1>2, <1>3 DEF Waiting
  <2>9. SelectWires'
    <3>1. \A k \in Conns : Taken(k) = <<>> /\ Taken(k)' = <<>>
      BY <1>2, <1>3 DEF Taken
    <3> QED BY <1>2, <3>1 DEF SelectInv, SelectWires, Wire
  <2> QED BY <1>2, <2>5, <2>6, <2>7, <2>8, <2>9 DEF SelectInv, Common
<1>4. CASE at' = "ended" /\ UNCHANGED <<files, watch, maxfd>>
  <2>1. Common' /\ SelectWires'
    BY <1>2, <1>4, SelectQuiet
  <2>2. SelectType' /\ Watched' /\ Waiting'
    BY <1>2, <1>4 DEF SelectInv, SelectType, Watched, Waiting
  <2> QED BY <2>1, <2>2 DEF SelectInv
<1> QED BY <1>1, <1>3, <1>4, SelectCalls DEF Select!Start

\* What the call reports it has seen; the rest was left from an earlier one.
LEMMA SelectWait == ASSUME Common, SelectInv, Select!Wait PROVE Common' /\ SelectInv'
<1>1. /\ at = "wait" /\ at' = "accept" /\ nfds' = maxfd
      /\ ready' = {f \in watch : f <= maxfd /\ Readable(files[f])} \cup Select!Unseen
      /\ UNCHANGED <<files, sock, epoll, events, mode, watch, maxfd, i, buffer, reply>>
  <2>1. \A x : Select!Readable(x) <=> Readable(x)
    BY SelectCalls
  <2>2. {f \in watch : f <= maxfd /\ Select!Readable(files[f])} = {f \in watch : f <= maxfd /\ Readable(files[f])}
    BY <2>1
  <2>3. UNCHANGED <<files, sock, epoll, events>>
    BY DEF Select!Wait, Select!kernel
  <2>4. /\ at = "wait" /\ at' = "accept" /\ nfds' = maxfd
        /\ ready' = {f \in watch : f <= maxfd /\ Select!Readable(files[f])} \cup Select!Unseen
        /\ UNCHANGED <<mode, watch, maxfd, i, buffer, reply>>
    BY DEF Select!Wait
  <2> QED BY <2>2, <2>3, <2>4
<1>2. /\ mode = "select" => Select!Unseen = {f \in watch : f \div Word > maxfd \div Word}
      /\ mode # "select" => Select!Unseen = {f \in ready : f > maxfd}
  BY DEF Select!Unseen, Select!Revents
<1>3. Common' /\ SelectWires' /\ \A x : Readable(x)' <=> Readable(x)
  BY <1>1, SelectQuiet
<1>4. SelectType'
  BY <1>1, <1>2 DEF SelectInv, SelectType
<1>5. Watched'
  BY <1>1 DEF SelectInv, Watched
<1>6. \A f \in Select!Unseen : f \in watch /\ (mode = "select" => f \div Word > maxfd \div Word)
                               /\ (mode = "poll" => Readable(files[f]))
  BY <1>1, <1>2 DEF SelectInv, SelectType, Waiting, Left, Trusted, InUse
<1>7. ASSUME NEW f \in ready'
      PROVE  f \in watch /\ (Trusted(f)' => Readable(files[f])')
  <2>1. CASE f \in Select!Unseen
    BY <1>1, <1>6, <1>3, <2>1 DEF Trusted, Unasked, SelectInv, SelectType
  <2>2. CASE f \in watch /\ Readable(files[f])
    BY <1>1, <1>3, <2>2
  <2> QED BY <1>1, <1>7, <2>1, <2>2
<1>8. Waiting'
  BY <1>1, <1>7 DEF Waiting
<1> QED BY <1>3, <1>4, <1>5, <1>8 DEF SelectInv

\* A connection takes a descriptor that nobody expects anything of.
LEMMA SelectAccept == ASSUME Common, SelectInv, Select!Accept PROVE Common' /\ SelectInv'
<1>1. at = "accept" /\ i' = SockFd + 1 /\ UNCHANGED <<epoll, events, mode, ready, buffer, nfds, reply>>
  BY SelectCalls DEF Select!Accept
<1>2. CASE at' \in {"scan", "undefined"} /\ (at' = "scan" => SockFd \notin ready) /\ UNCHANGED <<files, sock, watch, maxfd>>
  <2>1. Common' /\ SelectWires' /\ \A x : Readable(x)' <=> Readable(x)
    BY <1>1, <1>2, SelectQuiet
  <2>2. SelectType'
    <3>1. i' \in 0 .. MaxFd + 1
      BY <1>1, OwnFds
    <3> QED BY <1>1, <1>2, <3>1 DEF SelectInv, SelectType
  <2>2a. Watched'
    BY <1>1, <1>2 DEF SelectInv, Watched
  <2>3. \A f \in ready : f \in watch /\ (Trusted(f) => Readable(files[f]))
    BY <1>1 DEF SelectInv, Waiting, Left, InUse
  <2>4. \A f \in ready : Trusted(f)' <=> Trusted(f)
    BY <1>1, <1>2 DEF Trusted, Unasked
  <2>5. SockFd < i' /\ i' <= maxfd' + 1
    <3>1. SockFd \in Nat /\ maxfd \in Nat /\ SockFd <= maxfd
      BY <1>1, OwnFds DEF SelectInv, SelectType, Watched
    <3> QED BY <1>1, <1>2, <3>1
  <2>6. Waiting'
    BY <1>1, <1>2, <2>1, <2>3, <2>4, <2>5 DEF Waiting
  <2> QED BY <2>1, <2>2, <2>2a, <2>6 DEF SelectInv
<1>3. ASSUME NEW k \in Conns, FreeFds # {}, Queued(k, files[SockFd]),
             files' = [files EXCEPT ![LowestFree] = k], sock' = [sock EXCEPT ![k].phase = "open"],
             watch' = watch \cup {LowestFree}, maxfd' = LowestFree, at' = "scan"
      PROVE  Common' /\ SelectInv'
  <2> PICK n : n = LowestFree
    OBVIOUS
  <2>1. /\ Kernel' /\ n \in Fds /\ files[n] = Free
        /\ \A f \in Fds : f # n => files'[f] = files[f]
        /\ files'[n] = k /\ \A f \in Fds : files[f] # k
        /\ \A j \in Conns : j # k => sock'[j] = sock[j]
        /\ sock[k].phase = "queued" /\ sock'[k] = [sock[k] EXCEPT !.phase = "open"]
    BY <1>1, <1>3, KernelAccepts DEF Common
  <2>2. n \notin watch /\ n # SockFd /\ SockFd < n
    BY <1>1, <2>1, OwnFds, Distinct DEF SelectInv, Watched
  <2>3. SelectType'
    <3>1. i' \in 0 .. MaxFd + 1
      BY <1>1, OwnFds
    <3> QED BY <1>1, <1>3, <2>1, <3>1 DEF SelectInv, SelectType
  <2>4. Watched'
    <3>1. files[SockFd] \in Ports /\ files'[SockFd] = files[SockFd] /\ SockFd <= maxfd'
      BY <1>1, <1>3, <2>1, <2>2, OwnFds DEF SelectInv, Watched
    <3>2. \A f \in Fds : f < SockFd => files'[f] = Other
      BY <2>1, Distinct DEF SelectInv, Watched
    <3>3. \A f \in Fds \ {SockFd} : files'[f] \notin Ports
      BY <2>1, Distinct DEF SelectInv, Watched
    <3>4. \A f \in watch' : files'[f] \in Ports \cup Conns
      BY <1>3, <2>1, <2>2 DEF SelectInv, SelectType, Watched
    <3> QED BY <1>3, <3>1, <3>2, <3>3, <3>4 DEF Watched
  <2>5. \A f \in watch \ {SockFd} : files[f] \in Conns /\ files'[f] = files[f] /\ (Readable(files[f])' <=> Readable(files[f]))
    <3>1. \A f \in watch \ {SockFd} : files[f] \in Conns /\ files[f] # k /\ f # n /\ files'[f] = files[f]
      BY <2>1, <2>2 DEF SelectInv, SelectType, Watched
    <3> QED BY <2>1, <3>1, ReadableSame
  <2>6. Waiting'
    <3>1. ASSUME NEW f \in ready, Left(f)'
          PROVE  f \in watch \ {SockFd} /\ (Trusted(f)' => Readable(files[f])')
      <4>1. f \in watch /\ f # SockFd
        BY <1>1, <1>3, <3>1, OwnFds DEF Left, SelectInv, Waiting
      <4>2. Trusted(f)' => Trusted(f)
        BY <1>1, <1>3 DEF Trusted, Unasked
      <4>3. Trusted(f) => Readable(files[f])
        BY <1>1 DEF SelectInv, Waiting, Left, InUse
      <4> QED BY <2>5, <4>1, <4>2, <4>3
    <3>2. SockFd < i' /\ i' <= maxfd' + 1
      BY <1>1, <1>3, <2>1, <2>2, OwnFds
    <3> QED BY <1>1, <1>3, <2>5, <3>1, <3>2 DEF Waiting
  <2>7. SelectWires'
    <3> SUFFICES ASSUME NEW j \in Conns PROVE Wire(j, Taken(j))'
      BY DEF SelectWires
    <3>1. Taken(j) = <<>> /\ Taken(j)' = <<>>
      BY <1>1, <1>3 DEF Taken
    <3>2. sock'[j].in = sock[j].in /\ sock'[j].sent = sock[j].sent /\ sock'[j].shut = sock[j].shut
          /\ (sock[j].phase = "closed" => sock'[j].phase = "closed")
      <4>1. sock[k] \in Socket
        BY DEF Common, Kernel, SockType
      <4>2. sock'[k].in = sock[k].in /\ sock'[k].sent = sock[k].sent /\ sock'[k].shut = sock[k].shut
        BY <2>1, <4>1 DEF Socket
      <4> QED BY <2>1, <4>2
    <3> QED BY <1>1, <3>1, <3>2, WireSame DEF SelectInv, SelectWires
  <2> QED BY <1>1, <2>1, <2>3, <2>4, <2>6, <2>7 DEF SelectInv, Common
<1>4. \/ at' \in {"scan", "undefined"} /\ (at' = "scan" => SockFd \notin ready) /\ UNCHANGED <<files, sock, watch, maxfd>>
      \/ \E k \in Conns :
           /\ FreeFds # {} /\ Queued(k, files[SockFd])
           /\ files' = [files EXCEPT ![LowestFree] = k] /\ sock' = [sock EXCEPT ![k].phase = "open"]
           /\ watch' = watch \cup {LowestFree} /\ maxfd' = LowestFree /\ at' = "scan"
  BY SelectCalls DEF Select!Accept, Select!Watch
<1> QED BY <1>2, <1>3, <1>4

\* What the scan leaves for the next call lies above maxfd.
LEMMA SelectScanEnds == ASSUME Common, SelectInv, Select!ScanEnds PROVE Common' /\ SelectInv'
<1>1. /\ at = "scan" /\ at' = "wait" /\ {f \in ready : i <= f /\ f <= maxfd} = {}
      /\ UNCHANGED <<files, sock, epoll, events, mode, watch, ready, maxfd, i, buffer, nfds, reply>>
  BY DEF Select!ScanEnds, Select!Ahead, Select!kernel
<1>2. Common' /\ SelectWires' /\ \A x : Readable(x)' <=> Readable(x)
  BY <1>1, SelectQuiet
<1>3. SelectType' /\ Watched'
  BY <1>1 DEF SelectInv, SelectType, Watched
<1>4. ASSUME NEW f \in ready, Left(f)'
      PROVE  Left(f) /\ (Trusted(f)' => Trusted(f))
  <2>1. f \in Nat /\ maxfd \in Nat /\ i \in Nat /\ i <= maxfd + 1
    <3>1. f \in Fds /\ maxfd \in Fds /\ i \in 0 .. MaxFd + 1
      BY DEF SelectInv, SelectType
    <3> QED BY <1>1, <3>1, OwnFds DEF SelectInv, Waiting
  <2>2. f > maxfd
    BY <1>1, <1>4 DEF Left
  <2>3. i <= f
    BY <2>1, <2>2
  <2> QED BY <1>1, <2>3 DEF Left, Trusted
<1>5. Waiting'
  BY <1>1, <1>2, <1>4 DEF SelectInv, Waiting, InUse
<1> QED BY <1>2, <1>3, <1>5 DEF SelectInv

\* The scan reads one descriptor: the ones above it stay as readable as they were.
LEMMA SelectScan == ASSUME Common, SelectInv, Select!Scan PROVE Common' /\ SelectInv'
<1>1. PICK f \in ready : /\ i <= f /\ f <= maxfd /\ Readable(files[f])
                         /\ Select!ReadFd(f, files[f])
  BY SelectCalls DEF Select!Scan, Select!Ahead
<1>2. at = "scan" /\ UNCHANGED <<events, mode, ready, maxfd, nfds, reply>>
  BY DEF Select!Scan
<1>3. f \in watch /\ f \in Fds /\ f \in Nat /\ i \in Nat /\ SockFd < f /\ f # SockFd
  <2>1. f \in watch /\ SockFd < i /\ f \in Fds /\ i \in 0 .. MaxFd + 1
    BY <1>1, <1>2 DEF SelectInv, SelectType, Waiting, Left
  <2> QED BY <1>1, <2>1, OwnFds
<1> PICK k : k = files[f]
  OBVIOUS
<1>4. /\ k \in Conns /\ BUFFER_LEN \in Nat \ {0} /\ sock[k].phase = "open"
      /\ \A g \in Fds : files[g] = k => g = f
  <2>1. k \in Conns
    BY <1>3 DEF SelectInv, Watched
  <2> QED BY <1>3, <2>1, SocketAssumption DEF Common, Kernel, Owned
<1>5. \A g \in watch \ {f, SockFd} : files[g] \in Conns /\ files[g] # k
  BY <1>2, <1>4 DEF SelectInv, SelectType, Watched
<1>6. \A j : Taken(j) = <<>>
  BY <1>2 DEF Taken
<1>7. i' \in {f, f + 1} /\ (at' = "send" => i' = f) /\ (at' = "scan" => i' = f + 1)
      /\ at' \in {"scan", "send", "killed"}
  BY <1>1, <1>2 DEF Select!ReadFd
<1>8. i' \in 0 .. MaxFd + 1 /\ SockFd < i' /\ i' <= maxfd + 1 /\ i <= i'
  <2>1. maxfd \in Nat
    BY OwnFds DEF SelectInv, SelectType
  <2> QED BY <1>1, <1>3, <1>7, <2>1, OwnFds
<1>9. /\ Common' /\ SelectType' /\ Watched' /\ SelectWires'
      /\ \A g \in watch \ {f} : g \in watch' /\ (g # SockFd => (Readable(files[g]) => Readable(files[g])'))
      /\ at' = "send" => f \in watch'
  <2>1. CASE RecvCount(k, BUFFER_LEN) = 0
    <3>1. watch' = watch \ {f} /\ CloseFd(f) /\ UNCHANGED <<at, buffer>>
      BY <1>1, <2>1, SelectCalls DEF Select!ReadFd
    <3>2. /\ Kernel'
          /\ files' = [files EXCEPT ![f] = Free]
          /\ \A g \in Fds : g # f => files'[g] = files[g]
          /\ \A j \in Conns : j # k => sock'[j] = sock[j]
          /\ sock'[k] = [sock[k] EXCEPT !.phase = "closed"] /\ sock[k] \in Socket
      BY <1>2, <1>3, <1>4, <3>1, KernelCloses DEF Common, Kernel, SockType
    <3>3. files'[f] = Free
      BY <1>3, <3>2 DEF Common, Kernel, FileType
    <3>4. Common'
      BY <1>2, <3>2 DEF Common
    <3>5. SelectType'
      BY <1>2, <1>8, <3>1 DEF SelectInv, SelectType
    <3>6. Watched'
      <4>1. \A g \in Fds : g < SockFd => files'[g] = Other
        BY <1>3, <3>2, OwnFds DEF SelectInv, Watched
      <4>2. files'[SockFd] \in Ports /\ SockFd <= maxfd'
        BY <1>2, <1>3, <3>2, OwnFds DEF SelectInv, Watched
      <4>3. \A g \in Fds \ {SockFd} : files'[g] \notin Ports
        BY <3>2, <3>3, Distinct DEF SelectInv, Watched
      <4>4. \A g \in watch' : files'[g] \in Ports \cup Conns
        BY <3>1, <3>2 DEF SelectInv, SelectType, Watched
      <4> QED BY <1>2, <3>1, <4>1, <4>2, <4>3, <4>4 DEF Watched
    <3>7. SelectWires'
      <4> SUFFICES ASSUME NEW j \in Conns PROVE Wire(j, Taken(j))'
        BY DEF SelectWires
      <4>1. Taken(j)' = <<>>
        BY <1>2, <3>1 DEF Taken
      <4>2. sock'[j].in = sock[j].in /\ sock'[j].sent = sock[j].sent /\ sock'[j].shut = sock[j].shut
            /\ (sock[j].phase = "closed" => sock'[j].phase = "closed")
        BY <3>2 DEF Socket
      <4> QED BY <1>2, <1>6, <4>1, <4>2, WireSame DEF SelectInv, SelectWires
    <3>8. \A g \in watch \ {f} : g \in watch' /\ (g # SockFd => (Readable(files[g]) => Readable(files[g])'))
      <4>1. ASSUME NEW g \in watch \ {f}, g # SockFd PROVE Readable(files[g])' <=> Readable(files[g])
        <5>1. files[g] \in Conns /\ files'[g] = files[g] /\ sock'[files[g]] = sock[files[g]]
          BY <1>5, <3>2, <4>1 DEF SelectInv, SelectType
        <5> QED BY <5>1, ReadableSame
      <4> QED BY <3>1, <4>1
    <3> QED BY <1>2, <3>1, <3>4, <3>5, <3>6, <3>7, <3>8
  <2>2. CASE RecvCount(k, BUFFER_LEN) # 0
    <3>1. /\ sock' = Received(k, BUFFER_LEN) /\ UNCHANGED <<files, epoll, watch>>
          /\ buffer' = buffer \/ (RecvCount(k, BUFFER_LEN) > 0 /\ buffer' = RecvData(k, BUFFER_LEN))
          /\ at' = "send" => RecvCount(k, BUFFER_LEN) > 0 /\ buffer' = RecvData(k, BUFFER_LEN)
          /\ at' # "send" => ~(RecvCount(k, BUFFER_LEN) > 0)
      BY <1>1, <1>2, <2>2, SelectCalls DEF Select!ReadFd
    <3>2. /\ Kernel' /\ \A j \in Conns : j # k => sock'[j] = sock[j]
      BY <1>2, <1>4, <3>1, KernelRecv, KernelOne DEF Common
    <3>3. /\ RecvData(k, BUFFER_LEN) \in Seq(Byte) /\ Len(RecvData(k, BUFFER_LEN)) <= BUFFER_LEN
          /\ RecvCount(k, BUFFER_LEN) > 0 => RecvData(k, BUFFER_LEN) # <<>>
      <4>1. /\ sock[k].in \in Seq(Byte) /\ RecvCount(k, BUFFER_LEN) \in Int /\ RecvCount(k, BUFFER_LEN) >= -1
            /\ RecvCount(k, BUFFER_LEN) <= Len(sock[k].in) /\ RecvCount(k, BUFFER_LEN) <= BUFFER_LEN
            /\ RecvData(k, BUFFER_LEN) \in Seq(Byte)
            /\ RecvCount(k, BUFFER_LEN) > 0 => RecvData(k, BUFFER_LEN) # <<>>
        BY <1>4, RecvCounts DEF Common, Kernel, SockType, Socket
      <4>2. \A q \in Seq(Byte), c \in Int : c >= -1 /\ c <= Len(q) /\ c <= BUFFER_LEN =>
              Len(SubSeq(q, 1, c)) <= BUFFER_LEN
        BY <1>4
      <4> QED BY <4>1, <4>2 DEF RecvData
    <3>4. SelectType'
      BY <1>2, <1>7, <1>8, <3>1, <3>3 DEF SelectInv, SelectType
    <3>5. Watched'
      BY <1>2, <1>7, <3>1 DEF SelectInv, Watched
    <3>6. SelectWires'
      <4> SUFFICES ASSUME NEW j \in Conns PROVE Wire(j, Taken(j))'
        BY DEF SelectWires
      <4>1. CASE j = k
        <5>1. Taken(k)' = IF RecvCount(k, BUFFER_LEN) > 0 THEN RecvData(k, BUFFER_LEN) ELSE <<>>
          BY <1>7, <3>1 DEF Taken
        <5>2. Wire(k, <<>>) /\ reply'[k] = reply[k]
          BY <1>2, <1>4, <1>6 DEF SelectInv, SelectWires
        <5> QED BY <1>4, <3>1, <4>1, <5>1, <5>2, WireRecv
      <4>2. CASE j # k
        <5>1. Taken(j)' = <<>>
          BY <1>7, <3>1, <4>2 DEF Taken
        <5>2. sock'[j] = sock[j]
          BY <3>2, <4>2
        <5> QED BY <1>2, <1>6, <5>1, <5>2, WireSame DEF SelectInv, SelectWires
      <4> QED BY <4>1, <4>2
    <3>7. \A g \in watch \ {f} : g \in watch' /\ (g # SockFd => (Readable(files[g]) => Readable(files[g])'))
      <4>1. ASSUME NEW g \in watch \ {f}, g # SockFd PROVE Readable(files[g])' <=> Readable(files[g])
        <5>1. files[g] \in Conns /\ files'[g] = files[g] /\ sock'[files[g]] = sock[files[g]]
          BY <1>5, <3>1, <3>2, <4>1
        <5> QED BY <5>1, ReadableSame
      <4> QED BY <3>1, <4>1
    <3> QED BY <1>2, <1>3, <3>1, <3>2, <3>4, <3>5, <3>6, <3>7 DEF Common
  <2> QED BY <2>1, <2>2
<1>10. ASSUME NEW g \in ready, Left(g)', g # f
       PROVE  g \in watch' /\ (Trusted(g)' => Readable(files[g])')
  <2>1. g \in Nat
    BY OwnFds DEF SelectInv, SelectType
  <2>2. i <= g /\ g # SockFd
    <3>1. i' <= g
      BY <1>7, <1>10 DEF Left
    <3> QED BY <1>3, <1>8, <2>1, <3>1, OwnFds
  <2>3. Left(g) /\ g \in watch
    BY <1>2, <2>2 DEF Left, SelectInv, Waiting
  <2>4. Trusted(g)' => Trusted(g)
    BY <1>2, <1>7 DEF Trusted, Unasked
  <2>5. Trusted(g) => Readable(files[g])
    BY <1>2, <2>3 DEF SelectInv, Waiting, InUse
  <2> QED BY <1>9, <1>10, <2>2, <2>3, <2>4, <2>5
<1>11. Left(f)' => at' = "send"
  BY <1>3, <1>7 DEF Left
<1>12. Waiting'
  <2>1. \A g \in ready : Left(g)' => g \in watch' /\ (Trusted(g)' => Readable(files[g])' \/ InUse(g)')
    BY <1>7, <1>9, <1>10, <1>11 DEF InUse
  <2> QED BY <1>1, <1>2, <1>7, <1>8, <1>9, <2>1 DEF Waiting
<1> QED BY <1>9, <1>12 DEF SelectInv

\* send takes nothing away, and the scan goes on above the descriptor.
LEMMA SelectSend == ASSUME Common, SelectInv, Select!Send PROVE Common' /\ SelectInv'
<1>1. at = "send" /\ UNCHANGED <<files, epoll, events, mode, watch, ready, maxfd, buffer, nfds>>
  BY DEF Select!Send
<1>2. /\ i \in Fds /\ i \in Nat /\ i <= maxfd /\ i \in watch /\ SockFd < i /\ buffer \in Seq(Byte)
      /\ Len(buffer) \in Nat
  BY <1>1, OwnFds DEF SelectInv, SelectType, Waiting
<1> PICK k : k = files[i]
  OBVIOUS
<1> PICK q \in Seq(Byte) : q = buffer
  BY <1>2
<1>3. k \in Conns /\ sock[k].phase = "open"
  <2>1. i # SockFd /\ k \in Ports \cup Conns /\ k \notin Ports
    BY <1>2, OwnFds DEF SelectInv, Watched
  <2> QED BY <1>2, <2>1 DEF Common, Kernel, Owned
<1>4. /\ \A j \in Conns : Wire(j, IF j = k THEN q ELSE <<>>)
  BY <1>1 DEF SelectInv, SelectWires, Taken
<1>5. CASE SendKills(k) /\ at' = "killed" /\ UNCHANGED <<sock, i, reply>>
  <2>1. Common'
    BY <1>1, <1>5, CommonSame
  <2>2. SelectType' /\ Watched' /\ Waiting'
    BY <1>1, <1>5 DEF SelectInv, SelectType, Watched, Waiting, Left
  <2>3. SelectWires'
    <3> SUFFICES ASSUME NEW j \in Conns PROVE Wire(j, <<>>)'
      BY <1>5 DEF SelectWires, Taken
    <3>1. CASE j = k
      <4>1. sock[k].shut
        BY <1>5, <1>3 DEF SendKills, Common, Kernel, Rules
      <4> QED BY <1>4, <1>5, <3>1, <4>1 DEF Wire
    <3>2. CASE j # k
      BY <1>4, <1>5, <3>2 DEF Wire
    <3> QED BY <3>1, <3>2
  <2> QED BY <2>1, <2>2, <2>3 DEF SelectInv
<1>6. CASE /\ ~SendKills(k) /\ sock' = SentTo(k, Len(q)) /\ at' = "scan" /\ i' = i + 1
           /\ reply' = IF SendFails(k) THEN reply ELSE [reply EXCEPT ![k] = @ \o q]
  <2>1. Kernel' /\ \A j \in Conns : j # k => sock'[j] = sock[j]
    BY <1>1, <1>2, <1>3, <1>6, LenNat, KernelSend, KernelOne DEF Common
  <2>2. /\ Wire(k, <<>>)' /\ reply' \in [Conns -> Seq(Byte)]
        /\ \A j \in Conns : j # k => reply'[j] = reply[j]
    BY <1>3, <1>4, <1>6, WireSend
  <2>3. Common'
    BY <1>1, <2>1, <2>2 DEF Common
  <2>4. \A j \in Conns : OnlyAdds(j)
    BY <1>3, <1>6, LenNat, Sends DEF Common, Kernel
  <2>5. SelectType' /\ Watched'
    <3>1. i' \in 0 .. MaxFd + 1
      BY <1>2, <1>6, OwnFds
    <3> QED BY <1>1, <1>6, <3>1 DEF SelectInv, SelectType, Watched
  <2>6. \A f \in watch : Readable(files[f]) => Readable(files[f])'
    BY <1>1, <2>4, PortsAdd DEF SelectInv, Watched, OnlyAdds
  <2>7. ASSUME NEW f \in ready, Left(f)'
        PROVE  f \in watch /\ (Trusted(f)' => Readable(files[f])')
    <3>1. f \in Nat /\ i + 1 <= f
      BY <1>6, <2>7, OwnFds DEF Left, SelectInv, SelectType
    <3>2. i <= f /\ i # f
      BY <1>2, <3>1
    <3>3. Left(f) /\ f \in watch
      BY <1>1, <3>2 DEF Left, SelectInv, Waiting
    <3>4. Trusted(f)' => Trusted(f)
      BY <1>1, <1>6 DEF Trusted, Unasked
    <3> QED BY <1>1, <2>6, <3>2, <3>3, <3>4 DEF SelectInv, Waiting, InUse
  <2>8. SockFd < i' /\ i' <= maxfd' + 1
    <3>1. maxfd \in Nat /\ SockFd \in Nat
      BY OwnFds DEF SelectInv, SelectType
    <3> QED BY <1>1, <1>2, <1>6, <3>1
  <2>9. Waiting'
    BY <1>1, <1>6, <2>7, <2>8 DEF Waiting
  <2>10. SelectWires'
    <3> SUFFICES ASSUME NEW j \in Conns PROVE Wire(j, <<>>)'
      BY <1>6 DEF SelectWires, Taken
    <3>1. CASE j # k
      BY <1>4, <2>1, <2>2, <3>1, WireSame
    <3> QED BY <2>2, <3>1
  <2> QED BY <2>3, <2>5, <2>9, <2>10 DEF SelectInv
<1>7. \/ SendKills(k) /\ at' = "killed" /\ UNCHANGED <<sock, i, reply>>
      \/ /\ ~SendKills(k) /\ sock' = SentTo(k, Len(q)) /\ at' = "scan" /\ i' = i + 1
         /\ reply' = IF SendFails(k) THEN reply ELSE [reply EXCEPT ![k] = @ \o q]
  BY SelectCalls DEF Select!Send, Select!SendTo
<1> QED BY <1>5, <1>6, <1>7

LEMMA SelectInit == ASSUME Select!Init PROVE Common /\ SelectInv
<1>1. SocketsInit /\ reply = [k \in Conns |-> <<>>]
  BY SelectCalls DEF Select!Init
<1>2. Common
  BY <1>1, InitKernel, NoBytes DEF Common, SocketsInit
<1>3. SelectType /\ Waiting
  BY OwnFds, NoBytes, SocketAssumption DEF Select!Init, SelectType, Waiting, Fds
<1>4. Watched
  <2>1. \A f \in Fds : files[f] = IF f < Stdio THEN Other ELSE Free
    BY <1>1 DEF SocketsInit
  <2>2. at = "start" /\ watch = {} /\ ready = {}
    BY DEF Select!Init
  <2>3. \A f \in Fds : (f < SockFd => files[f] = Other) /\ files[f] \in {Free, Other} /\ files[SockFd] = Free
    BY <2>1, OwnFds DEF SockFd
  <2> QED BY <2>2, <2>3, OwnFds, Distinct DEF Watched
<1>5. SelectWires
  <2> SUFFICES ASSUME NEW k \in Conns PROVE Wire(k, <<>>)
    BY DEF SelectWires, Taken, Select!Init
  <2>1. sock[k].in = <<>> /\ sock[k].sent = 0 /\ reply[k] = <<>>
    BY <1>1 DEF SocketsInit, NewSocket
  <2> QED BY <2>1, NoBytes DEF Wire, Stream
<1> QED BY <1>2, <1>3, <1>4, <1>5 DEF SelectInv

LEMMA SelectSteps ==
  ASSUME Common, SelectInv, Select!Server
  PROVE  Common' /\ SelectInv'
BY SelectStart, SelectWait, SelectAccept, SelectScanEnds, SelectScan, SelectSend DEF Select!Server

\* select and poll keep their promises.
LEMMA SelectPromises ==
  ASSUME Common, SelectInv, ThreadPart
  PROVE  ReadyStaysTrue /\ Echoes
<1>1. ReadyStaysTrue
  BY DEF SelectInv, SelectType, Waiting, ReadyStaysTrue, Due, Left, Trusted
<1>2. ASSUME NEW k \in Conns
      PROVE  /\ reply[k] = SubSeq(Sent(k), 1, Len(reply[k]))
             /\ sock[k].phase = "open" /\ ~sock[k].shut => reply[k] \o InHand(k) \o sock[k].in = Sent(k)
  <2>1. Taken(k) = InHand(k)
    BY DEF Taken, InHand, SelectInv, SelectType
  <2> QED BY <2>1, TakenBytes, WireEchoes DEF SelectInv, SelectWires
<1>3. mode # "epoll"
  BY DEF SelectInv, SelectType
<1> QED BY <1>1, <1>2, <1>3 DEF Echoes

-----------------------------------------------------------------------------
(* The servers with threads. *)

ThreadRecord == [pc : {"start", "recv", "send", "close", "ended"}, fd : Fds \cup {-1},
                 in : Conns \cup {Free}, buffer : Seq(Byte)]

\* A thread that serves nothing holds nothing; only one in recv holds a socket,
\* and one that sends has something to send.
Sane(x) == /\ x.pc \in {"start", "ended"} => x.fd = -1
           /\ x.in # Free => x.pc = "recv" /\ x.fd # -1
           /\ x.pc \in {"send", "close"} => x.fd # -1
           /\ x.pc = "send" => x.buffer # <<>>

ThreadType ==
  /\ mode \in {"thread", "hook", "single", "once"}
  /\ at \in {"start", "first", "accept", "create", "serving", "ended", "killed"}
  /\ clientfd \in Fds \cup {-1} /\ overtaken \in BOOLEAN
  /\ threads \in Seq(ThreadRecord) /\ Len(threads) <= MaxThreads
  /\ \A t \in DOMAIN threads : Sane(threads[t])

\* Every descriptor of a thread was a connection's, and is one or is free.
Known == /\ at \in {"start", "first"} => threads = <<>> /\ clientfd = -1
         /\ at = "start" => \A f \in Fds : files[f] \in {Free, Other}
         /\ clientfd # -1 => files[clientfd] \in Conns \cup {Free}
         /\ \A t \in DOMAIN threads : threads[t].fd # -1 => files[threads[t].fd] \in Conns \cup {Free}

Starting == \E t \in DOMAIN threads : threads[t].pc = "start"

\* At most one thread has yet to read clientfd, and what it will read is served
\* by nobody.
HandedOver ==
  ~overtaken =>
    /\ at = "create" => ~Starting
    /\ \A t, u \in DOMAIN threads : threads[t].pc = "start" /\ threads[u].pc = "start" => t = u
    /\ (at = "create" \/ Starting) /\ clientfd # -1 =>
         /\ files[clientfd] \in Conns
         /\ \A t \in DOMAIN threads : threads[t].fd # clientfd

Apart == ThreadType /\ Known /\ HandedOver /\ OwnDescriptor

\* What the thread that is about to send on a connection has taken from it.
Holds(t, k) == threads[t].pc = "send" /\ files[threads[t].fd] = k
ThreadWires ==
  ~overtaken => \A k \in Conns :
    /\ \A t \in DOMAIN threads : Holds(t, k) => Wire(k, threads[t].buffer)
    /\ (\A t \in DOMAIN threads : ~Holds(t, k)) => Wire(k, <<>>)

ThreadInv == Apart /\ ThreadWires

\* One thread changes.
LEMMA OneThread ==
  ASSUME threads \in Seq(ThreadRecord), NEW t \in DOMAIN threads, NEW x \in ThreadRecord,
         threads' = [threads EXCEPT ![t] = x]
  PROVE  /\ threads' \in Seq(ThreadRecord) /\ DOMAIN threads' = DOMAIN threads /\ Len(threads') = Len(threads)
         /\ threads'[t] = x /\ \A u \in DOMAIN threads \ {t} : threads'[u] = threads[u]
OBVIOUS

\* A thread is added.
LEMMA AddThread ==
  ASSUME threads \in Seq(ThreadRecord), NEW x \in ThreadRecord, threads' = Append(threads, x)
  PROVE  /\ threads' \in Seq(ThreadRecord) /\ DOMAIN threads' = DOMAIN threads \cup {Len(threads) + 1}
         /\ Len(threads) + 1 \notin DOMAIN threads /\ Len(threads') = Len(threads) + 1 /\ Len(threads) \in Nat
         /\ threads'[Len(threads) + 1] = x /\ \A u \in DOMAIN threads : threads'[u] = threads[u]
OBVIOUS

\* A thread as it is made.
LEMMA NewThread ==
  ASSUME NEW pc \in {"start", "recv", "ended"}, NEW fd \in Fds \cup {-1}, pc = "recv" \/ fd = -1
  PROVE  Thread!Thread(pc, fd) \in ThreadRecord /\ Sane(Thread!Thread(pc, fd))
         /\ Thread!Thread(pc, fd).pc = pc /\ Thread!Thread(pc, fd).fd = fd /\ Thread!Thread(pc, fd).in = Free
BY DEF Thread!Thread, ThreadRecord, Sane

\* Without an overtaken thread, who serves a connection is alone with it.
LEMMA Alone ==
  ASSUME Common, Apart, ~overtaken, NEW t \in DOMAIN threads, Serving(t)
  PROVE  /\ files[threads[t].fd] \in Conns /\ threads[t].fd \in Fds
         /\ sock[files[threads[t].fd]].phase = "open"
         /\ \A u \in DOMAIN threads : u # t => ~Holds(u, files[threads[t].fd]) /\ (Serving(u) => threads[u].fd # threads[t].fd)
         /\ threads[t].in # Free => files[threads[t].fd] = threads[t].in
<1>1. \A u \in DOMAIN threads : threads[u] \in ThreadRecord /\ Sane(threads[u])
  BY DEF Apart, ThreadType
<1>2. files[threads[t].fd] \in Conns /\ threads[t].fd \in Fds
      /\ (threads[t].in # Free => files[threads[t].fd] = threads[t].in)
  BY <1>1 DEF Apart, OwnDescriptor, Serving, ThreadRecord
<1>3. ASSUME NEW u \in DOMAIN threads, u # t PROVE ~Holds(u, files[threads[t].fd]) /\ (Serving(u) => threads[u].fd # threads[t].fd)
  <2>1. Serving(u) => threads[u].fd # threads[t].fd /\ threads[u].fd \in Fds
    BY <1>1, <1>3 DEF Apart, OwnDescriptor, Serving, ThreadRecord
  <2>2. threads[u].pc = "send" => Serving(u)
    BY <1>1 DEF Sane, Serving
  <2> QED BY <1>2, <2>1, <2>2 DEF Holds, Common, Kernel, Owned
<1>4. sock[files[threads[t].fd]].phase = "open"
  BY <1>2 DEF Common, Kernel, Owned
<1> QED BY <1>2, <1>3, <1>4

\* accept fails or takes a descriptor that was free.
LEMMA AcceptedTakes ==
  ASSUME Common, NEW fd \in Fds \cup {-1}, Thread!Accepted(fd), UNCHANGED <<epoll, events, reply>>
  PROVE  /\ Common'
         /\ \A f \in Fds : f # fd => files'[f] = files[f]
         /\ fd # -1 => files[fd] = Free /\ files'[fd] \in Conns
         /\ \A k \in Conns : \A q : Wire(k, q) => Wire(k, q)'
<1>1. CASE fd = -1 /\ UNCHANGED <<files, sock>>
  <2>1. Common'
    BY <1>1 DEF Common, Kernel, SockType, FileType, EpollType, Owned, Rules
  <2> QED BY <1>1, <2>1 DEF Wire
<1>2. ASSUME NEW k \in Conns, FreeFds # {}, fd = LowestFree, Queued(k, files[SockFd]),
             files' = [files EXCEPT ![fd] = k], sock' = [sock EXCEPT ![k].phase = "open"]
      PROVE  /\ Common' /\ fd \in Fds /\ files[fd] = Free /\ files'[fd] \in Conns
             /\ \A f \in Fds : f # fd => files'[f] = files[f]
             /\ \A j \in Conns : \A q : Wire(j, q) => Wire(j, q)'
  <2>1. /\ Kernel' /\ fd \in Fds /\ files[fd] = Free /\ files'[fd] = k
        /\ \A f \in Fds : f # fd => files'[f] = files[f]
        /\ \A j \in Conns : j # k => sock'[j] = sock[j]
        /\ sock[k].phase = "queued" /\ sock'[k] = [sock[k] EXCEPT !.phase = "open"]
    BY <1>2, KernelAccepts DEF Common
  <2>2. sock[k] \in Socket
    BY DEF Common, Kernel, SockType
  <2>3. sock'[k].in = sock[k].in /\ sock'[k].sent = sock[k].sent /\ sock'[k].shut = sock[k].shut
    BY <2>1, <2>2 DEF Socket
  <2>4. \A j \in Conns : /\ sock'[j].in = sock[j].in /\ sock'[j].sent = sock[j].sent /\ sock'[j].shut = sock[j].shut
                         /\ (sock[j].phase = "closed" => sock'[j].phase = "closed")
    BY <2>1, <2>3
  <2>5. \A j \in Conns : \A q : Wire(j, q) => Wire(j, q)'
    BY <2>4, WireSame
  <2> QED BY <2>1, <2>5 DEF Common
<1>3. \/ fd = -1 /\ UNCHANGED <<files, sock>>
      \/ \E k \in Conns : /\ FreeFds # {} /\ fd = LowestFree /\ Queued(k, files[SockFd])
                          /\ files' = [files EXCEPT ![fd] = k] /\ sock' = [sock EXCEPT ![k].phase = "open"]
  BY ThreadCalls DEF Thread!Accepted
<1> QED BY <1>1, <1>2, <1>3, OwnFds

\* A step of one thread that changes no file.
LEMMA ThreadMoves ==
  ASSUME Apart, NEW t \in DOMAIN threads, NEW x \in ThreadRecord, Sane(x),
         threads' = [threads EXCEPT ![t] = x], threads[t].pc # "start",
         UNCHANGED <<files, mode, clientfd, overtaken>>,
         at' \in {at, "killed"}, at # "start", at # "first",
         x.pc # "start", x.fd = threads[t].fd,
         x.in # Free => files[x.fd] = x.in \/ x.in = threads[t].in
  PROVE  Apart' /\ DOMAIN threads' = DOMAIN threads
         /\ threads'[t] = x /\ \A u \in DOMAIN threads \ {t} : threads'[u] = threads[u]
<1>1. /\ threads' \in Seq(ThreadRecord) /\ DOMAIN threads' = DOMAIN threads /\ Len(threads') = Len(threads)
      /\ threads'[t] = x /\ \A u \in DOMAIN threads \ {t} : threads'[u] = threads[u]
  BY OneThread DEF Apart, ThreadType
<1>2. ThreadType'
  BY <1>1 DEF Apart, ThreadType
<1>3. Known'
  BY <1>1 DEF Apart, Known
<1>4. HandedOver'
  BY <1>1 DEF Apart, HandedOver, Starting
<1>5. \A u \in DOMAIN threads :
        Serving(u)' => Serving(u) /\ threads'[u].fd = threads[u].fd
                       /\ (threads'[u].in = threads[u].in \/ threads'[u].in = Free \/ files[threads[u].fd] = threads'[u].in)
  <2>0. threads[t] \in ThreadRecord /\ Sane(threads[t]) /\ Sane(threads'[t])
    BY <1>1 DEF Apart, ThreadType
  <2>1. Serving(t)' => Serving(t)
    BY <1>1, <2>0 DEF Serving, Sane, ThreadRecord
  <2>2. \A u \in DOMAIN threads \ {t} : Serving(u)' <=> Serving(u)
    BY <1>1 DEF Serving
  <2> QED BY <1>1, <2>1, <2>2
<1>6. OwnDescriptor'
  BY <1>1, <1>5 DEF Apart, OwnDescriptor
<1> QED BY <1>1, <1>2, <1>3, <1>4, <1>6 DEF Apart

\* Who holds what stays the same, and so do the bytes.
LEMMA WiresKept ==
  ASSUME ThreadInv, NEW t \in DOMAIN threads, ~Holds(t, files[threads[t].fd]),
         overtaken' = overtaken, UNCHANGED <<files, sock, reply>>, DOMAIN threads' = DOMAIN threads,
         \A u \in DOMAIN threads \ {t} : threads'[u] = threads[u], threads'[t].pc # "send"
  PROVE  ThreadWires'
<1>1. \A u \in DOMAIN threads, k \in Conns : /\ Holds(u, k)' <=> Holds(u, k)
                                             /\ Holds(u, k) => threads'[u] = threads[u]
  BY DEF Holds
<1>2. \A k \in Conns : \A q : Wire(k, q) => Wire(k, q)'
  BY DEF Wire
<1> QED BY <1>1, <1>2 DEF ThreadInv, ThreadWires

-----------------------------------------------------------------------------
(* The steps of a thread. *)

\* The thread takes whatever accept has returned last; unless accept came
\* between, that is the descriptor of its own connection.
LEMMA ThreadReadArg ==
  ASSUME Common, ThreadInv, NEW t \in DOMAIN threads, Thread!ReadArg(t), UNCHANGED <<mode, clientfd, overtaken>>
  PROVE  Common' /\ ThreadInv'
<1>0. clientfd \in Fds \cup {-1} /\ at \notin {"start", "first"}
  BY DEF ThreadInv, Apart, ThreadType, Known
<1> PICK x : x = Thread!Thread("recv", clientfd)
  OBVIOUS
<1>1. x \in ThreadRecord /\ Sane(x) /\ x.pc = "recv" /\ x.fd = clientfd /\ x.in = Free
  BY <1>0, NewThread
<1>2. threads[t].pc = "start" /\ threads' = [threads EXCEPT ![t] = x] /\ UNCHANGED <<files, sock, epoll, events, at, reply>>
  BY DEF Thread!ReadArg, Thread!kernel
<1>3. /\ threads' \in Seq(ThreadRecord) /\ DOMAIN threads' = DOMAIN threads /\ Len(threads') = Len(threads)
      /\ threads'[t] = x /\ \A u \in DOMAIN threads \ {t} : threads'[u] = threads[u]
  BY <1>1, <1>2, OneThread DEF ThreadInv, Apart, ThreadType
<1>4. Common'
  BY <1>2 DEF Common, Kernel, SockType, FileType, EpollType, Owned, Rules
<1>5. ThreadType'
  BY <1>1, <1>2, <1>3 DEF ThreadInv, Apart, ThreadType
<1>6. Known'
  BY <1>1, <1>2, <1>3 DEF ThreadInv, Apart, Known
<1>7. HandedOver'
  BY <1>1, <1>2, <1>3 DEF ThreadInv, Apart, HandedOver, Starting
<1>8. OwnDescriptor'
  <2>1. \A u \in DOMAIN threads \ {t} : Serving(u)' <=> Serving(u)
    BY <1>3 DEF Serving
  <2>2. ~overtaken /\ clientfd # -1 => files[clientfd] \in Conns /\ \A u \in DOMAIN threads : threads[u].fd # clientfd
    BY <1>2 DEF ThreadInv, Apart, HandedOver, Starting
  <2> QED BY <1>1, <1>2, <1>3, <2>1, <2>2 DEF ThreadInv, Apart, OwnDescriptor, Serving
<1>9. ThreadWires'
  BY <1>1, <1>2, <1>3, WiresKept DEF Holds
<1> QED BY <1>4, <1>5, <1>6, <1>7, <1>8, <1>9 DEF ThreadInv, Apart

\* recv holds what the thread's descriptor stands for.
LEMMA ThreadEnterRecv ==
  ASSUME Common, ThreadInv, NEW t \in DOMAIN threads, Thread!EnterRecv(t), UNCHANGED <<mode, clientfd, overtaken>>
  PROVE  Common' /\ ThreadInv'
<1>0. threads[t] \in ThreadRecord /\ at # "start" /\ at # "first"
  BY DEF ThreadInv, Apart, ThreadType, Known
<1> PICK x : x = [threads[t] EXCEPT !.in = files[threads[t].fd]]
  OBVIOUS
<1>1. x \in ThreadRecord /\ x.pc = "recv" /\ x.fd = threads[t].fd /\ x.in = files[threads[t].fd] /\ x.fd # -1
  <2>1. threads[t].pc = "recv" /\ threads[t].fd \in Fds /\ files[threads[t].fd] \in Conns
    BY DEF Thread!EnterRecv, Thread!Fds, Fds
  <2> QED BY <1>0, <2>1, OwnFds DEF ThreadRecord
<1>2. threads' = [threads EXCEPT ![t] = x] /\ threads[t].pc = "recv" /\ Sane(x)
      /\ UNCHANGED <<files, sock, epoll, events, at, reply>>
  BY <1>0, <1>1 DEF Thread!EnterRecv, Thread!kernel, Sane
<1>3. Common'
  BY <1>2 DEF Common, Kernel, SockType, FileType, EpollType, Owned, Rules
<1>4. /\ Apart' /\ DOMAIN threads' = DOMAIN threads
      /\ threads'[t] = x /\ \A u \in DOMAIN threads \ {t} : threads'[u] = threads[u]
  BY <1>0, <1>1, <1>2, ThreadMoves DEF ThreadInv
<1>5. ThreadWires'
  BY <1>1, <1>2, <1>4, WiresKept DEF Holds
<1> QED BY <1>3, <1>4, <1>5 DEF ThreadInv

\* recv leaves descriptors alone; what it takes is in the hand of the thread
\* that has the connection.
LEMMA ThreadRecv ==
  ASSUME Common, ThreadInv, NEW t \in DOMAIN threads, Thread!Recv(t), UNCHANGED <<mode, clientfd, overtaken>>
  PROVE  Common' /\ ThreadInv'
<1>0. threads[t] \in ThreadRecord /\ at # "start" /\ at # "first" /\ Sane(threads[t])
  BY DEF ThreadInv, Apart, ThreadType, Known
<1> PICK k, n : k = threads[t].in /\ n = RecvCount(k, BUFFER_LEN)
  OBVIOUS
<1> PICK q : q = RecvData(k, BUFFER_LEN)
  OBVIOUS
<1> PICK pc : pc = Thread!AfterRecv(n)
  OBVIOUS
<1> PICK x : x = [threads[t] EXCEPT !.in = Free, !.buffer = q, !.pc = pc]
  OBVIOUS
<1>1. /\ threads[t].pc = "recv" /\ k # Free /\ sock' = Received(k, BUFFER_LEN)
      /\ UNCHANGED <<files, epoll, events, reply>> /\ at' \in {at, "killed"}
      /\ threads' = [threads EXCEPT ![t].in = Free, ![t].buffer = q, ![t].pc = pc]
  <2>1. /\ Thread!RecvCount(k, BUFFER_LEN) = n /\ Thread!RecvData(k, BUFFER_LEN) = q
        /\ Thread!Received(k, BUFFER_LEN) = Received(k, BUFFER_LEN)
    BY ThreadCalls
  <2> QED BY <2>1 DEF Thread!Recv
<1>2. k \in Conns /\ threads[t].fd # -1 /\ BUFFER_LEN \in Nat \ {0}
  BY <1>0, <1>1, SocketAssumption DEF ThreadRecord, Sane
<1>3. q \in Seq(Byte) /\ n \in Int /\ (n > 0 => q # <<>>)
  BY <1>2, RecvCounts DEF Common, Kernel
<1>4. pc \in {"send", "close", "recv"} /\ (pc = "send" <=> n > 0)
  BY <1>3 DEF Thread!AfterRecv
<1>5. x \in ThreadRecord /\ x.fd = threads[t].fd /\ x.in = Free /\ x.pc = pc /\ x.buffer = q
  BY <1>0, <1>3, <1>4 DEF ThreadRecord
<1>6. threads' = [threads EXCEPT ![t] = x]
  BY <1>0, <1>1 DEF ThreadRecord
<1>7. Sane(x) /\ x.pc # "start"
  BY <1>2, <1>3, <1>4, <1>5 DEF Sane
<1>8. Kernel' /\ \A j \in Conns : j # k => sock'[j] = sock[j]
  BY <1>1, <1>2, KernelRecv, KernelOne DEF Common
<1>9. Common'
  BY <1>1, <1>8 DEF Common
<1>10. /\ Apart' /\ DOMAIN threads' = DOMAIN threads
       /\ threads'[t] = x /\ \A u \in DOMAIN threads \ {t} : threads'[u] = threads[u]
  BY <1>0, <1>1, <1>2, <1>5, <1>6, <1>7, ThreadMoves DEF ThreadInv
<1>11. ASSUME ~overtaken, NEW j \in Conns
       PROVE  /\ \A u \in DOMAIN threads' : Holds(u, j)' => Wire(j, threads[u].buffer)'
              /\ (\A u \in DOMAIN threads' : ~Holds(u, j)') => Wire(j, <<>>)'
  <2>1. Serving(t) /\ ~Holds(t, j)
    BY <1>1, <1>2 DEF Serving, Holds
  <2>2. files[threads[t].fd] = k /\ \A u \in DOMAIN threads : u # t => ~Holds(u, k)
    BY <1>1, <1>11, <2>1, Alone DEF ThreadInv
  <2>3. \A u \in DOMAIN threads : u # t => (Holds(u, j)' <=> Holds(u, j)) /\ threads'[u] = threads[u]
    BY <1>1, <1>10 DEF Holds
  <2>4. Holds(t, j)' <=> j = k /\ n > 0
    <3>1. threads'[t].pc = pc /\ files'[threads'[t].fd] = k
      BY <1>1, <1>5, <1>10, <2>2
    <3> QED BY <1>4, <3>1 DEF Holds
  <2>5. CASE j = k
    <3>1. Wire(k, <<>>)
      BY <1>11, <2>1, <2>2, <2>5 DEF ThreadInv, ThreadWires
    <3>2. PICK y : y = IF RecvCount(k, BUFFER_LEN) > 0 THEN RecvData(k, BUFFER_LEN) ELSE <<>>
      OBVIOUS
    <3>3. Wire(k, y)'
      BY <1>1, <1>2, <3>1, <3>2, WireRecv
    <3>4. y = IF n > 0 THEN q ELSE <<>>
      BY <3>2
    <3> QED BY <1>5, <1>10, <2>2, <2>3, <2>4, <2>5, <3>3, <3>4, ZenonT(30)
  <2>6. CASE j # k
    <3>1. \A z : Wire(j, z) => Wire(j, z)'
      BY <1>1, <1>8, <2>6, WireSame
    <3> QED BY <1>10, <1>11, <2>1, <2>3, <2>4, <2>6, <3>1 DEF ThreadInv, ThreadWires
  <2> QED BY <2>5, <2>6
<1>12. ThreadWires'
  BY <1>11 DEF ThreadWires
<1> QED BY <1>9, <1>10, <1>12 DEF ThreadInv

\* What a thread sends is what it took from that connection.
LEMMA ThreadSend ==
  ASSUME Common, ThreadInv, NEW t \in DOMAIN threads, Thread!Send(t), UNCHANGED <<mode, clientfd, overtaken>>
  PROVE  Common' /\ ThreadInv'
<1>0. threads[t] \in ThreadRecord /\ at # "start" /\ at # "first" /\ Sane(threads[t]) /\ threads[t].pc = "send"
  BY DEF ThreadInv, Apart, ThreadType, Known, Thread!Send
<1> PICK k : k = files[threads[t].fd]
  OBVIOUS
<1> PICK pc : pc = IF mode = "once" THEN "close" ELSE "recv"
  OBVIOUS
<1> PICK q \in Seq(Byte) : q = threads[t].buffer
  BY <1>0 DEF ThreadRecord
<1> PICK x : x = [threads[t] EXCEPT !.pc = pc, !.buffer = <<>>]
  OBVIOUS
<1>1. /\ \/ k = Free /\ threads' = [threads EXCEPT ![t] = x] /\ UNCHANGED <<sock, at, reply>>
         \/ k # Free /\ SendKills(k) /\ at' = "killed" /\ UNCHANGED <<threads, sock, reply>>
         \/ /\ k # Free /\ ~SendKills(k) /\ threads' = [threads EXCEPT ![t] = x] /\ sock' = SentTo(k, Len(q))
            /\ reply' = IF SendFails(k) THEN reply ELSE [reply EXCEPT ![k] = @ \o q]
            /\ UNCHANGED at
      /\ UNCHANGED <<files, epoll, events>>
  <2>1. /\ (Thread!SendKills(k) <=> SendKills(k)) /\ (Thread!SendFails(k) <=> SendFails(k))
        /\ Thread!SentTo(k, Len(q)) = SentTo(k, Len(q))
    BY ThreadCalls
  <2>2. [threads EXCEPT ![t] = [@ EXCEPT !.pc = pc, !.buffer = <<>>]] = [threads EXCEPT ![t] = x]
    OBVIOUS
  <2> QED BY <2>1, <2>2 DEF Thread!Send
<1>2. threads[t].fd # -1 /\ threads[t].fd \in Fds /\ k \in Conns \cup {Free}
  BY <1>0 DEF ThreadInv, Apart, Known, Sane, ThreadRecord
<1>3. x \in ThreadRecord /\ x.fd = threads[t].fd /\ x.in = threads[t].in /\ x.pc = pc /\ pc \in {"close", "recv"}
  <2>1. <<>> \in Seq(Byte) /\ pc \in {"close", "recv"}
    OBVIOUS
  <2> QED BY <1>0, <2>1 DEF ThreadRecord
<1>4. Sane(x) /\ x.pc # "start" /\ x.pc # "send" /\ threads[t].in = Free
  BY <1>0, <1>2, <1>3 DEF Sane
<1>5. k # Free => k \in Conns /\ sock[k].phase = "open"
  BY <1>2 DEF Common, Kernel, Owned
<1>6. ~overtaken => /\ k \in Conns /\ Wire(k, q)
                    /\ \A u \in DOMAIN threads : u # t => ~Holds(u, k)
  <2>1. Serving(t)
    BY <1>0, <1>2 DEF Serving
  <2>2. ~overtaken => k \in Conns /\ \A u \in DOMAIN threads : u # t => ~Holds(u, k)
    BY <2>1, Alone DEF ThreadInv
  <2>3. Holds(t, k)
    BY <1>0 DEF Holds
  <2> QED BY <2>2, <2>3 DEF ThreadInv, ThreadWires
<1>7. CASE at' = "killed" /\ UNCHANGED <<threads, sock, reply>>
  <2>1. Common'
    BY <1>1, <1>7, CommonSame
  <2>2. Apart'
    <3>1. UNCHANGED <<files, threads>>
      BY <1>0, <1>1, <1>7
    <3>2. ThreadType'
      BY <1>0, <1>7 DEF ThreadInv, Apart, ThreadType
    <3>3. Known' /\ HandedOver'
      BY <1>0, <1>7, <3>1 DEF ThreadInv, Apart, Known, HandedOver, Starting, Serving
    <3>4. OwnDescriptor'
      BY <1>0, <3>1 DEF ThreadInv, Apart, OwnDescriptor, Serving
    <3> QED BY <3>2, <3>3, <3>4 DEF Apart
  <2>3. ThreadWires'
    BY <1>1, <1>7 DEF ThreadInv, ThreadWires, Holds, Wire
  <2> QED BY <2>1, <2>2, <2>3 DEF ThreadInv
<1>8. CASE /\ threads' = [threads EXCEPT ![t] = x] /\ UNCHANGED at
           /\ \/ k = Free /\ UNCHANGED <<sock, reply>>
              \/ /\ k # Free /\ ~SendKills(k) /\ sock' = SentTo(k, Len(q))
                 /\ reply' = IF SendFails(k) THEN reply ELSE [reply EXCEPT ![k] = @ \o q]
  <2>1. /\ Apart' /\ DOMAIN threads' = DOMAIN threads
        /\ threads'[t] = x /\ \A u \in DOMAIN threads \ {t} : threads'[u] = threads[u]
    BY <1>0, <1>1, <1>3, <1>4, <1>8, ThreadMoves DEF ThreadInv
  <2>2. ~Holds(t, k)' /\ \A u \in DOMAIN threads, j \in Conns : u # t => (Holds(u, j)' <=> Holds(u, j)) /\ threads'[u] = threads[u]
    BY <1>1, <1>4, <2>1 DEF Holds
  <2>3. \A j \in Conns : ~Holds(t, j)' /\ (j # k => ~Holds(t, j))
    BY <1>1, <1>4, <2>1 DEF Holds
  <2>4. CASE k = Free /\ UNCHANGED <<sock, reply>>
    <3>1. Common'
      BY <1>1, <2>4 DEF Common, Kernel, SockType, FileType, EpollType, Owned, Rules
    <3>2. overtaken
      BY <1>6, <2>4, Distinct
    <3>3. ThreadWires'
      BY <3>2 DEF ThreadWires
    <3> QED BY <2>1, <3>1, <3>3 DEF ThreadInv
  <2>5. CASE /\ k # Free /\ ~SendKills(k) /\ sock' = SentTo(k, Len(q))
             /\ reply' = IF SendFails(k) THEN reply ELSE [reply EXCEPT ![k] = @ \o q]
    <3>1. Kernel' /\ \A j \in Conns : j # k => sock'[j] = sock[j]
      BY <1>1, <1>5, <2>5, LenNat, KernelSend, KernelOne DEF Common
    <3>2. /\ reply' \in [Conns -> Seq(Byte)]
          /\ \A j \in Conns : j # k => reply'[j] = reply[j]
      BY <1>5, <2>5 DEF Common
    <3>3. ~overtaken => Wire(k, <<>>)'
      BY <1>5, <1>6, <2>5, WireSend
    <3>4. \A j \in Conns : \A z : j # k /\ Wire(j, z) => Wire(j, z)'
      BY <3>1, <3>2, WireSame
    <3>5. ASSUME ~overtaken, NEW j \in Conns
          PROVE  /\ \A u \in DOMAIN threads' : Holds(u, j)' => Wire(j, threads[u].buffer)'
                 /\ (\A u \in DOMAIN threads' : ~Holds(u, j)') => Wire(j, <<>>)'
      <4>1. CASE j = k
        BY <1>6, <2>1, <2>2, <3>3, <3>5, <4>1
      <4>2. CASE j # k
        BY <2>1, <2>2, <2>3, <3>4, <3>5, <4>2 DEF ThreadInv, ThreadWires
      <4> QED BY <4>1, <4>2
    <3>6. ThreadWires'
      BY <3>5 DEF ThreadWires
    <3>7. Common'
      BY <1>1, <3>1, <3>2 DEF Common
    <3> QED BY <2>1, <3>6, <3>7 DEF ThreadInv
  <2> QED BY <1>1, <1>8, <2>4, <2>5
<1> QED BY <1>1, <1>7, <1>8

\* A thread that closes its descriptor no longer has it.
LEMMA ThreadClose ==
  ASSUME Common, ThreadInv, NEW t \in DOMAIN threads, Thread!Close(t), UNCHANGED <<mode, clientfd, overtaken>>
  PROVE  Common' /\ ThreadInv'
<1>0. threads[t] \in ThreadRecord /\ at \notin {"start", "first"} /\ Sane(threads[t]) /\ threads[t].pc = "close"
  BY DEF ThreadInv, Apart, ThreadType, Known, Thread!Close
<1> PICK f : f = threads[t].fd
  OBVIOUS
<1> PICK x : x = Thread!Thread("ended", -1)
  OBVIOUS
<1>1. f \in Fds /\ files[f] \in Conns \cup {Free} /\ f # -1
  BY <1>0 DEF ThreadInv, Apart, Known, Sane, ThreadRecord
<1>2. UNCHANGED <<events, reply>> /\ (files[f] = Free => UNCHANGED <<files, sock, epoll>>)
      /\ (files[f] # Free => CloseFd(f))
  <2>1. Thread!CloseFd(f) <=> CloseFd(f)
    BY ThreadCalls
  <2> QED BY <2>1 DEF Thread!Close
<1>3. /\ Kernel' /\ \A g \in Fds : files'[g] = IF g = f THEN Free ELSE files[g]
      /\ \A j \in Conns : \A z : Wire(j, z) => Wire(j, z)'
  <2>1. CASE files[f] = Free
    <3>1. Kernel'
      BY <1>2, <2>1 DEF Common, Kernel, SockType, FileType, EpollType, Owned, Rules
    <3> QED BY <1>2, <2>1, <3>1 DEF Wire
  <2>2. CASE files[f] # Free
    <3>1. /\ Kernel' /\ files' = [files EXCEPT ![f] = Free]
          /\ \A j \in Conns : j # files[f] => sock'[j] = sock[j]
          /\ sock'[files[f]] = [sock[files[f]] EXCEPT !.phase = "closed"]
      BY <1>1, <1>2, <2>2, KernelCloses DEF Common
    <3>2. \A g \in Fds : files'[g] = IF g = f THEN Free ELSE files[g]
      BY <1>1, <3>1 DEF Common, Kernel, FileType
    <3>3. sock[files[f]] \in Socket
      BY <1>1, <2>2 DEF Common, Kernel, SockType
    <3>4. \A j \in Conns : /\ sock'[j].in = sock[j].in /\ sock'[j].sent = sock[j].sent /\ sock'[j].shut = sock[j].shut
                           /\ (sock[j].phase = "closed" => sock'[j].phase = "closed")
      BY <3>1, <3>3 DEF Socket
    <3>5. \A j \in Conns : \A z : Wire(j, z) => Wire(j, z)'
      BY <1>2, <3>4, WireSame
    <3> QED BY <3>1, <3>2, <3>5
  <2> QED BY <2>1, <2>2
<1>4. x \in ThreadRecord /\ Sane(x) /\ x.pc = "ended" /\ x.fd = -1 /\ x.in = Free
  BY NewThread
<1>5. threads' = [threads EXCEPT ![t] = x]
  BY DEF Thread!Close, Thread!AfterClose
<1>6. /\ threads' \in Seq(ThreadRecord) /\ DOMAIN threads' = DOMAIN threads /\ Len(threads') = Len(threads)
      /\ threads'[t] = x /\ \A u \in DOMAIN threads \ {t} : threads'[u] = threads[u]
  BY <1>4, <1>5, OneThread DEF ThreadInv, Apart, ThreadType
<1>7. at' \in {at, "ended"}
  BY DEF Thread!Close
<1>8. ThreadType'
  BY <1>4, <1>6, <1>7 DEF ThreadInv, Apart, ThreadType
<1>9. \A u \in DOMAIN threads : threads[u].fd \in Fds \cup {-1}
  <2>1. \A u \in DOMAIN threads : threads[u] \in ThreadRecord
    BY DEF ThreadInv, Apart, ThreadType
  <2> QED BY <2>1 DEF ThreadRecord
<1>10. Known'
  BY <1>0, <1>3, <1>4, <1>6, <1>7, <1>9 DEF ThreadInv, Apart, Known, ThreadType
<1>11. HandedOver'
  <2>1. Starting' => Starting
    BY <1>4, <1>6 DEF Starting
  <2>2. clientfd \in Fds \cup {-1}
    BY DEF ThreadInv, Apart, ThreadType
  <2> QED BY <1>0, <1>3, <1>4, <1>6, <1>7, <2>1, <2>2 DEF ThreadInv, Apart, HandedOver, Starting
<1>12. Serving(t) /\ ~Serving(t)' /\ \A u \in DOMAIN threads \ {t} : Serving(u)' <=> Serving(u)
  BY <1>0, <1>1, <1>4, <1>6 DEF Serving
<1>13. OwnDescriptor'
  BY <1>3, <1>6, <1>9, <1>12 DEF ThreadInv, Apart, OwnDescriptor, Serving
<1>14. ASSUME ~overtaken, NEW j \in Conns
       PROVE  /\ \A u \in DOMAIN threads' : Holds(u, j)' => Wire(j, threads[u].buffer)'
              /\ (\A u \in DOMAIN threads' : ~Holds(u, j)') => Wire(j, <<>>)'
  <2>1. \A u \in DOMAIN threads : u # t /\ threads[u].pc = "send" => threads[u].fd # f /\ threads[u].fd \in Fds
    <3>1. \A u \in DOMAIN threads : threads[u].pc = "send" => Serving(u) /\ threads[u].fd \in Fds
      <4>1. \A u \in DOMAIN threads : Sane(threads[u])
        BY DEF ThreadInv, Apart, ThreadType
      <4> QED BY <1>9, <4>1 DEF Sane, Serving
    <3>2. \A u \in DOMAIN threads : u # t => (Serving(u) => threads[u].fd # f)
      BY <1>12, <1>14, Alone DEF ThreadInv
    <3> QED BY <3>1, <3>2
  <2>2. \A u \in DOMAIN threads : u # t => (Holds(u, j)' <=> Holds(u, j)) /\ threads'[u] = threads[u]
    BY <1>3, <1>6, <2>1 DEF Holds
  <2>3. ~Holds(t, j) /\ ~Holds(t, j)'
    BY <1>0, <1>4, <1>6 DEF Holds
  <2> QED BY <1>3, <1>6, <1>14, <2>2, <2>3 DEF ThreadInv, ThreadWires
<1>15. ThreadWires'
  BY <1>14 DEF ThreadWires
<1>16. Common'
  BY <1>2, <1>3 DEF Common
<1> QED BY <1>8, <1>10, <1>11, <1>13, <1>15, <1>16 DEF ThreadInv, Apart

-----------------------------------------------------------------------------
(* The steps of main. *)

LEMMA ThreadStart == ASSUME Common, ThreadInv, Thread!Start PROVE Common' /\ ThreadInv'
<1>1. /\ UNCHANGED <<sock, epoll, events, mode, clientfd, threads, overtaken, reply>> /\ at = "start"
      /\ \/ /\ files' = [files EXCEPT ![SockFd] = CHOOSE p \in Ports : TRUE]
            /\ at' \in {"accept", "first"}
         \/ at' = "ended" /\ UNCHANGED files
  BY ThreadCalls DEF Thread!Start
<1>2. threads = <<>> /\ clientfd = -1 /\ \A f \in Fds : files[f] \in {Free, Other}
  BY <1>1 DEF ThreadInv, Apart, Known
<1>3. PICK p \in Ports : p = CHOOSE y \in Ports : TRUE
  BY SocketAssumption
<1>4. Kernel'
  <2>1. CASE files' = [files EXCEPT ![SockFd] = p]
    <3>1. \A f \in Fds : files'[f] = IF f = SockFd THEN p ELSE files[f]
      BY <2>1, OwnFds DEF Common, Kernel, FileType
    <3>2. files' \in [Fds -> {Free, Other, p}] /\ files'[SockFd] = p
      BY <1>2, <2>1, <3>1, OwnFds DEF Common, Kernel, FileType
    <3>3. \A f \in Fds : files'[f] = p => f = SockFd
      BY <1>2, <3>1, Distinct
    <3> QED BY <1>1, <1>2, <3>2, <3>3, KernelStarts DEF Common
  <2>2. CASE UNCHANGED files
    BY <1>1, <2>2 DEF Common, Kernel, SockType, FileType, EpollType, Owned, Rules
  <2> QED BY <1>1, <1>3, <2>1, <2>2
<1>5. Common'
  BY <1>1, <1>4 DEF Common
<1>6. Apart'
  BY <1>1, <1>2 DEF ThreadInv, Apart, ThreadType, Known, HandedOver, Starting, OwnDescriptor
<1>7. ThreadWires'
  <2>1. \A k \in Conns : \A q : Wire(k, q) => Wire(k, q)'
    BY <1>1 DEF Wire
  <2> QED BY <1>1, <1>2, <2>1 DEF ThreadInv, ThreadWires
<1> QED BY <1>5, <1>6, <1>7 DEF ThreadInv

\* The first connection is served by main, or by nobody.
LEMMA ThreadAcceptFirst == ASSUME Common, ThreadInv, Thread!AcceptFirst PROVE Common' /\ ThreadInv'
<1>1. PICK fd \in Fds \cup {-1} :
        /\ Thread!Accepted(fd)
        /\ threads' = IF mode = "hook" THEN threads ELSE <<Thread!Thread("recv", fd)>>
  BY ThreadCalls DEF Thread!AcceptFirst
<1>2. threads = <<>> /\ clientfd = -1 /\ clientfd' = -1 /\ at' \in {"accept", "serving"}
      /\ UNCHANGED <<epoll, events, mode, overtaken, reply>>
  BY DEF Thread!AcceptFirst, ThreadInv, Apart, Known
<1>3. /\ Common' /\ \A f \in Fds : f # fd => files'[f] = files[f]
      /\ fd # -1 => files[fd] = Free /\ files'[fd] \in Conns
      /\ \A k \in Conns : \A q : Wire(k, q) => Wire(k, q)'
  BY <1>1, <1>2, AcceptedTakes
<1> PICK x : x = Thread!Thread("recv", fd)
  OBVIOUS
<1>4. x \in ThreadRecord /\ Sane(x) /\ x.pc = "recv" /\ x.fd = fd /\ x.in = Free
  BY NewThread
<1>5. /\ threads' \in Seq(ThreadRecord) /\ Len(threads') <= MaxThreads
      /\ \A t \in DOMAIN threads' : threads'[t] = x
      /\ \A t, u \in DOMAIN threads' : t = u
  BY <1>1, <1>2, <1>4, MultiIoAssumption
<1>6. ThreadType'
  BY <1>2, <1>4, <1>5 DEF ThreadInv, Apart, ThreadType
<1>7. Known' /\ HandedOver'
  BY <1>2, <1>3, <1>4, <1>5 DEF Known, HandedOver, Starting
<1>8. OwnDescriptor'
  BY <1>3, <1>4, <1>5 DEF OwnDescriptor, Serving
<1>9. ThreadWires'
  <2>1. \A t \in DOMAIN threads', k \in Conns : ~Holds(t, k)'
    BY <1>4, <1>5 DEF Holds
  <2>2. ~overtaken => \A k \in Conns : Wire(k, <<>>)
    BY <1>2 DEF ThreadInv, ThreadWires
  <2> QED BY <1>2, <1>3, <2>1, <2>2 DEF ThreadWires
<1> QED BY <1>3, <1>6, <1>7, <1>8, <1>9 DEF ThreadInv, Apart

\* accept returns a free descriptor, which no thread has.
LEMMA ThreadAccept == ASSUME Common, ThreadInv, Thread!Accept PROVE Common' /\ ThreadInv'
<1>1. PICK fd \in Fds \cup {-1} : Thread!Accepted(fd) /\ clientfd' = fd
  BY ThreadCalls DEF Thread!Accept
<1>2. /\ overtaken' = (overtaken \/ Starting) /\ at' = "create" /\ at = "accept"
      /\ UNCHANGED <<epoll, events, mode, threads, reply>>
  BY DEF Thread!Accept, Starting
<1>3. /\ Common' /\ \A f \in Fds : f # fd => files'[f] = files[f]
      /\ fd # -1 => files[fd] = Free /\ files'[fd] \in Conns
      /\ \A k \in Conns : \A q : Wire(k, q) => Wire(k, q)'
  BY <1>1, <1>2, AcceptedTakes
<1>4. overtaken' \in BOOLEAN
  BY <1>2, Zenon
<1>5. ThreadType'
  BY <1>1, <1>2, <1>4 DEF ThreadInv, Apart, ThreadType
<1>6. Known'
  <2>1. \A t \in DOMAIN threads : threads[t].fd \in Fds \cup {-1}
    <3>1. \A t \in DOMAIN threads : threads[t] \in ThreadRecord
      BY DEF ThreadInv, Apart, ThreadType
    <3> QED BY <3>1 DEF ThreadRecord
  <2> QED BY <1>1, <1>2, <1>3, <2>1 DEF ThreadInv, Apart, Known
<1>7. ASSUME ~overtaken'
      PROVE  /\ ~overtaken /\ ~Starting /\ ~Starting'
             /\ \A t \in DOMAIN threads : threads[t].fd # -1 =>
                  Serving(t) /\ threads[t].fd \in Fds /\ threads[t].fd # fd /\ files'[threads[t].fd] = files[threads[t].fd]
  <2>1. ~overtaken /\ ~Starting /\ ~Starting'
    BY <1>2, <1>7, Zenon DEF Starting
  <2>2. ASSUME NEW t \in DOMAIN threads, threads[t].fd # -1
        PROVE  Serving(t) /\ threads[t].fd \in Fds /\ threads[t].fd # fd /\ files'[threads[t].fd] = files[threads[t].fd]
    <3>1. threads[t] \in ThreadRecord /\ Sane(threads[t])
      BY DEF ThreadInv, Apart, ThreadType
    <3>2. Serving(t) /\ threads[t].fd \in Fds
      BY <2>2, <3>1 DEF Serving, Sane, ThreadRecord
    <3>3. files[threads[t].fd] \in Conns
      BY <2>1, <3>2 DEF ThreadInv, Apart, OwnDescriptor
    <3> QED BY <1>3, <2>2, <3>2, <3>3, Distinct
  <2> QED BY <2>1, <2>2
<1>8. HandedOver'
  BY <1>1, <1>2, <1>3, <1>7 DEF HandedOver, Starting
<1>9. OwnDescriptor'
  BY <1>2, <1>7 DEF ThreadInv, Apart, OwnDescriptor, Serving
<1>10. ASSUME ~overtaken', NEW k \in Conns
       PROVE  /\ \A t \in DOMAIN threads' : Holds(t, k)' => Wire(k, threads[t].buffer)'
              /\ (\A t \in DOMAIN threads' : ~Holds(t, k)') => Wire(k, <<>>)'
  <2>1. \A t \in DOMAIN threads : threads[t].pc = "send" => threads[t].fd # -1
    BY DEF ThreadInv, Apart, ThreadType, Sane
  <2>2. \A t \in DOMAIN threads : Holds(t, k)' <=> Holds(t, k)
    BY <1>2, <1>7, <1>10, <2>1 DEF Holds
  <2> QED BY <1>2, <1>3, <1>7, <1>10, <2>2 DEF ThreadInv, ThreadWires
<1>11. ThreadWires'
  BY <1>2, <1>10 DEF ThreadWires
<1> QED BY <1>3, <1>5, <1>6, <1>8, <1>9, <1>11 DEF ThreadInv, Apart

\* A thread is made for the descriptor accept returned last.
LEMMA ThreadCreate == ASSUME Common, ThreadInv, Thread!Create PROVE Common' /\ ThreadInv'
<1>1. at = "create" /\ at' = "accept" /\ UNCHANGED <<files, sock, epoll, events, mode, clientfd, overtaken, reply>>
      /\ (UNCHANGED threads \/ (Len(threads) < MaxThreads /\ threads' = Append(threads, Thread!Thread("start", -1))))
  BY DEF Thread!Create, Thread!kernel
<1>2. Common'
  BY <1>1 DEF Common, Kernel, SockType, FileType, EpollType, Owned, Rules
<1>3. \A k \in Conns : \A q : Wire(k, q) => Wire(k, q)'
  BY <1>1 DEF Wire
<1>4. CASE UNCHANGED threads
  <2>1. Apart'
    BY <1>1, <1>4 DEF ThreadInv, Apart, ThreadType, Known, HandedOver, Starting, OwnDescriptor, Serving
  <2>2. ThreadWires'
    BY <1>1, <1>3, <1>4 DEF ThreadInv, ThreadWires, Holds
  <2> QED BY <1>2, <2>1, <2>2 DEF ThreadInv
<1>5. CASE Len(threads) < MaxThreads /\ threads' = Append(threads, Thread!Thread("start", -1))
  <2> PICK x : x = Thread!Thread("start", -1)
    OBVIOUS
  <2>1. x \in ThreadRecord /\ Sane(x) /\ x.pc = "start" /\ x.fd = -1 /\ x.in = Free
    BY NewThread
  <2>2. /\ threads' \in Seq(ThreadRecord) /\ DOMAIN threads' = DOMAIN threads \cup {Len(threads) + 1}
        /\ Len(threads) + 1 \notin DOMAIN threads /\ Len(threads') = Len(threads) + 1 /\ Len(threads) \in Nat
        /\ threads'[Len(threads) + 1] = x /\ \A u \in DOMAIN threads : threads'[u] = threads[u]
    BY <1>5, <2>1, AddThread DEF ThreadInv, Apart, ThreadType
  <2>3. ThreadType'
    <3>1. Len(threads') <= MaxThreads
      BY <1>5, <2>2, MultiIoAssumption
    <3> QED BY <1>1, <2>1, <2>2, <3>1 DEF ThreadInv, Apart, ThreadType
  <2>4. Known' /\ HandedOver'
    BY <1>1, <2>1, <2>2 DEF ThreadInv, Apart, Known, HandedOver, Starting
  <2>5. OwnDescriptor'
    BY <1>1, <2>1, <2>2 DEF ThreadInv, Apart, OwnDescriptor, Serving
  <2>6. ThreadWires'
    <3> PICK m : m = Len(threads) + 1
      OBVIOUS
    <3>1. \A k \in Conns : ~Holds(m, k)' /\ \A t \in DOMAIN threads : Holds(t, k)' <=> Holds(t, k)
      BY <1>1, <2>1, <2>2 DEF Holds
    <3> QED BY <1>1, <1>3, <2>2, <3>1 DEF ThreadInv, ThreadWires
  <2> QED BY <1>2, <2>3, <2>4, <2>5, <2>6 DEF ThreadInv, Apart
<1> QED BY <1>1, <1>4, <1>5

\* Clients do not touch descriptors.
LEMMA ThreadClients ==
  ASSUME Common, ThreadInv, NEW k \in Conns, NEW answered, Client(k, answered),
         UNCHANGED <<mode, at, clientfd, threads, overtaken, reply>>
  PROVE  Common' /\ ThreadInv'
<1>1. Kernel' /\ UNCHANGED <<files, epoll, events>>
  BY KernelClient DEF Common
<1>2. Common'
  BY <1>1 DEF Common
<1>3. Apart'
  BY <1>1 DEF ThreadInv, Apart, ThreadType, Known, HandedOver, Starting, OwnDescriptor, Serving
<1>4. \A j \in Conns, q \in Seq(Byte) : Wire(j, q) => Wire(j, q)'
  BY WireClient
<1>5. <<>> \in Seq(Byte) /\ \A t \in DOMAIN threads : threads[t].buffer \in Seq(Byte)
  <2>1. \A t \in DOMAIN threads : threads[t] \in ThreadRecord
    BY DEF ThreadInv, Apart, ThreadType
  <2> QED BY <2>1, NoBytes DEF ThreadRecord
<1>6. ThreadWires'
  BY <1>1, <1>4, <1>5 DEF ThreadInv, ThreadWires, Holds
<1> QED BY <1>2, <1>3, <1>6 DEF ThreadInv

LEMMA ThreadInit == ASSUME Thread!Init PROVE Common /\ ThreadInv
<1>1. SocketsInit /\ reply = [k \in Conns |-> <<>>]
  BY ThreadCalls DEF Thread!Init
<1>2. Common /\ \A f \in Fds : files[f] \in {Free, Other}
  BY <1>1, InitKernel, NoBytes DEF Common, SocketsInit
<1>3. threads = <<>> /\ threads \in Seq(ThreadRecord) /\ DOMAIN threads = {} /\ Len(threads) = 0
  BY DEF Thread!Init
<1>4. overtaken \in BOOLEAN
  BY Zenon DEF Thread!Init
<1>5. Apart
  BY <1>2, <1>3, <1>4, MultiIoAssumption DEF Thread!Init, Apart, ThreadType, Known, HandedOver, Starting, OwnDescriptor
<1>6. ThreadWires
  <2> SUFFICES ASSUME NEW k \in Conns PROVE Wire(k, <<>>)
    BY <1>3 DEF ThreadWires
  <2>1. sock[k].in = <<>> /\ sock[k].sent = 0 /\ reply[k] = <<>>
    BY <1>1 DEF SocketsInit, NewSocket
  <2> QED BY <2>1, NoBytes DEF Wire, Stream
<1> QED BY <1>2, <1>5, <1>6 DEF ThreadInv

LEMMA ThreadSteps ==
  ASSUME Common, ThreadInv, Thread!Server
  PROVE  Common' /\ ThreadInv'
<1>1. CASE Thread!Main
  BY <1>1, ThreadStart, ThreadAcceptFirst, ThreadAccept, ThreadCreate DEF Thread!Main
<1>2. CASE Thread!Threads
  BY <1>2, ThreadReadArg, ThreadEnterRecv, ThreadRecv, ThreadSend, ThreadClose DEF Thread!Threads
<1> QED BY <1>1, <1>2 DEF Thread!Server

\* The servers with threads keep their promises.
LEMMA ThreadPromises ==
  ASSUME Common, ThreadInv
  PROVE  OwnDescriptor /\ ReadyStaysTrue /\ Echoes
<1>1. OwnDescriptor /\ ReadyStaysTrue /\ mode \notin {"select", "poll", "epoll"}
  BY DEF ThreadInv, Apart, ThreadType, ReadyStaysTrue
<1>2. ASSUME ~overtaken, NEW k \in Conns
      PROVE  /\ reply[k] = SubSeq(Sent(k), 1, Len(reply[k]))
             /\ sock[k].phase = "open" /\ ~sock[k].shut => reply[k] \o InHand(k) \o sock[k].in = Sent(k)
  <2> PICK has : has = {t \in DOMAIN threads : Holds(t, k)}
    OBVIOUS
  <2>1. InHand(k) = IF has = {} THEN <<>> ELSE threads[CHOOSE t \in has : TRUE].buffer
    BY <1>1 DEF InHand, Holds
  <2>2. InHand(k) \in Seq(Byte) /\ Wire(k, InHand(k))
    <3>1. CASE has = {}
      BY <1>2, <2>1, <3>1, NoBytes DEF ThreadInv, ThreadWires
    <3>2. CASE has # {}
      <4>1. PICK t \in has : t = CHOOSE u \in has : TRUE
        BY <3>2
      <4>2. threads[t] \in ThreadRecord /\ Wire(k, threads[t].buffer)
        BY <1>2 DEF ThreadInv, Apart, ThreadType, ThreadWires
      <4> QED BY <2>1, <3>2, <4>1, <4>2 DEF ThreadRecord
    <3> QED BY <3>1, <3>2
  <2> QED BY <2>2, WireEchoes
<1> QED BY <1>1, <1>2 DEF Echoes

-----------------------------------------------------------------------------
(* epoll. *)

EpollTypes ==
  /\ mode = "epoll"
  /\ at \in {"start", "wait", "scan", "send", "ended", "killed", "undefined", "spinning"}
  /\ batch \in Seq(Fds) /\ Len(batch) <= MaxFd + 1 /\ i \in Nat /\ i <= Len(batch)
  /\ buffer \in Seq(Byte) /\ Len(buffer) <= BUFFER_LEN
  /\ at = "send" => i < Len(batch) /\ buffer # <<>>

\* Only sockfd is a listener, and only reading is watched; an event of a batch
\* has its own descriptor, and there are no more than sockets.
Batched ==
  /\ at = "start" => /\ \A f \in Fds : files[f] \in {Free, Other}
                     /\ \A k \in Conns : reply[k] = <<>>
  /\ \A f \in Fds : (f # SockFd => files[f] \notin Ports) /\ epoll[f] # "out"
  /\ \A n, m \in DOMAIN batch : batch[n] = batch[m] => n = m
  /\ IsFiniteSet(Accepted)
  /\ at \in {"scan", "send"} => Len(batch) <= 1 + Cardinality(Accepted)

\* The events that are left are true as long as the program's descriptors are
\* intact and the batch is short.
Event(n) == epoll[batch[n]] = "in" /\ Readable(files[batch[n]])
EventsLeft ==
  at \in {"scan", "send"} /\ OwnIntact /\ Len(batch) <= EpFd + 1 =>
    \A n \in i + 1 .. Len(batch) : (at = "send" /\ n = i + 1) \/ Event(n)

\* Nobody is answered until then.
Silent == OwnIntact /\ Cardinality(Accepted) < Stdio + 2 => \A k \in Conns : reply[k] = <<>>

EpollInv == EpollTypes /\ Batched /\ EventsLeft /\ Silent

\* The descriptor of an event, and the index, are descriptors.
LEMMA BatchFds ==
  ASSUME EpollTypes, i < Len(batch)
  PROVE  i + 1 \in DOMAIN batch /\ batch[i + 1] \in Fds /\ i \in Fds /\ i + 1 \in Nat /\ i + 1 <= Len(batch)
<1>1. Len(batch) \in Nat /\ DOMAIN batch = 1 .. Len(batch) /\ i \in Nat
  BY DEF EpollTypes
<1>2. i + 1 \in DOMAIN batch
  BY <1>1
<1>3. i \in Fds
  BY <1>1, SocketAssumption DEF EpollTypes, Fds
<1> QED BY <1>1, <1>2, <1>3 DEF EpollTypes

\* Who was accepted stays so, whatever else happens to its socket.
LEMMA AcceptedSame ==
  ASSUME \A k \in Conns : sock'[k].phase \in {"open", "closed"} <=> sock[k].phase \in {"open", "closed"}
  PROVE  Accepted' = Accepted
BY DEF Accepted

\* The loop goes on to the next event, or to sending for this one.
LEMMA NextEvent ==
  ASSUME EpollInv, at \in {"scan", "send"}, batch' = batch, OwnIntact' => OwnIntact,
         at' \in {"scan", "send"} => i' = IF at' = "send" THEN i ELSE i + 1,
         \A n \in DOMAIN batch : OwnIntact' /\ Len(batch) <= EpFd + 1 /\ n # i + 1 /\ Event(n) => Event(n)'
  PROVE  EventsLeft'
<1> SUFFICES ASSUME at' \in {"scan", "send"}, OwnIntact', Len(batch) <= EpFd + 1,
                    NEW n \in i' + 1 .. Len(batch), ~(at' = "send" /\ n = i' + 1)
             PROVE  Event(n)'
  BY DEF EventsLeft
<1>1. i \in Nat /\ Len(batch) \in Nat /\ DOMAIN batch = 1 .. Len(batch)
  BY DEF EpollInv, EpollTypes
<1>2. n \in i + 1 .. Len(batch) /\ n # i + 1 /\ n \in DOMAIN batch
  BY <1>1
<1> QED BY <1>2 DEF EpollInv, EventsLeft

\* Steps that leave the sockets and the descriptors alone.
LEMMA EpollQuiet ==
  ASSUME Common, EpollInv, UNCHANGED <<files, sock, epoll, events, reply>>
  PROVE  /\ Common' /\ Accepted' = Accepted /\ (OwnIntact' <=> OwnIntact) /\ Silent'
         /\ \A x : Readable(x)' <=> Readable(x)
<1>1. Common'
  BY CommonSame
<1>2. Accepted' = Accepted /\ (OwnIntact' <=> OwnIntact)
  BY DEF Accepted, OwnIntact
<1>3. Silent'
  BY <1>2 DEF EpollInv, Silent
<1>4. \A x : Readable(x)' <=> Readable(x)
  BY DEF Readable, Queued
<1> QED BY <1>1, <1>2, <1>3, <1>4

LEMMA EpollStart == ASSUME Common, EpollInv, Epoll!Start PROVE Common' /\ EpollInv'
<1>1. /\ UNCHANGED <<sock, events, mode, batch, i, buffer, reply>> /\ at = "start"
      /\ \/ /\ files' = [files EXCEPT ![SockFd] = CHOOSE p \in Ports : TRUE, ![EpFd] = Other]
            /\ epoll' = [epoll EXCEPT ![SockFd] = "in"] /\ at' = "wait"
         \/ at' \in {"ended", "spinning"} /\ UNCHANGED <<files, epoll>>
  BY EpollCalls DEF Epoll!Start
<1>2. \A f \in Fds : files[f] \in {Free, Other}
  BY <1>1 DEF EpollInv, Batched
<1>3. PICK p \in Ports : p = CHOOSE y \in Ports : TRUE
  BY SocketAssumption
<1>4. EpollTypes' /\ EventsLeft'
  BY <1>1 DEF EpollInv, EpollTypes, EventsLeft
<1>5. Accepted' = Accepted /\ Silent'
  BY <1>1 DEF EpollInv, Batched, Silent, Accepted
<1>6. CASE files' = [files EXCEPT ![SockFd] = p, ![EpFd] = Other] /\ epoll' = [epoll EXCEPT ![SockFd] = "in"] /\ at' = "wait"
  <2>1. \A f \in Fds : files'[f] = IF f = EpFd THEN Other ELSE IF f = SockFd THEN p ELSE files[f]
    BY <1>6, OwnFds DEF Common, Kernel, FileType
  <2>2. EpFd # SockFd
    BY OwnFds
  <2>3. DOMAIN files' = Fds /\ files' = [f \in Fds |-> files'[f]]
    BY <1>6 DEF Common, Kernel, FileType
  <2>4. files' \in [Fds -> {Free, Other, p}] /\ files'[SockFd] = p
    BY <1>2, <2>1, <2>2, <2>3, OwnFds
  <2>5. \A f \in Fds : files'[f] = p => f = SockFd
    BY <1>2, <2>1, Distinct
  <2>6. Kernel'
    BY <1>1, <1>2, <1>6, <2>4, <2>5, KernelStarts DEF Common
  <2>7. \A f \in Fds : epoll'[f] # "out"
    BY <1>6 DEF EpollInv, Batched, Common, Kernel, EpollType
  <2>8. \A f \in Fds : f # SockFd => files'[f] \notin Ports
    BY <1>2, <2>1, Distinct
  <2>9. Batched'
    BY <1>1, <1>5, <1>6, <2>7, <2>8 DEF EpollInv, Batched
  <2> QED BY <1>1, <1>4, <1>5, <2>6, <2>9 DEF EpollInv, Common
<1>7. CASE UNCHANGED <<files, epoll>> /\ at' \in {"ended", "spinning"}
  <2>1. Common'
    BY <1>1, <1>7, EpollQuiet
  <2>2. Batched'
    BY <1>1, <1>5, <1>7 DEF EpollInv, Batched
  <2> QED BY <1>4, <1>5, <2>1, <2>2 DEF EpollInv
<1> QED BY <1>1, <1>3, <1>6, <1>7

\* A function on 1 .. c is a sequence.
LEMMA NumberedIsSeq ==
  ASSUME NEW S, NEW c \in Nat, NEW b \in [1 .. c -> S]
  PROVE  b \in Seq(S) /\ Len(b) = c /\ DOMAIN b = 1 .. c
OBVIOUS

\* A batch lists every ready descriptor once, and those are sockets.
LEMMA BatchIs ==
  ASSUME Common, Batched, NEW all, all = {f \in Fds : Ready(f)},
         NEW b \in [1 .. Cardinality(all) -> all], \A f \in all : \E n \in DOMAIN b : b[n] = f
  PROVE  /\ b \in Seq(Fds) /\ Len(b) <= MaxFd + 1 /\ Len(b) <= 1 + Cardinality(Accepted)
         /\ \A n, m \in DOMAIN b : b[n] = b[m] => n = m
         /\ \A n \in DOMAIN b : epoll[b[n]] = "in" /\ Readable(files[b[n]])
<1>1. all \subseteq Fds /\ MaxFd \in Nat /\ Fds = 0 .. MaxFd
  BY SocketAssumption DEF Fds
<1>2. IsFiniteSet(Fds) /\ Cardinality(Fds) = MaxFd + 1
  <2>1. 0 \in Int /\ MaxFd \in Int /\ ~(0 > MaxFd) /\ MaxFd - 0 + 1 = MaxFd + 1
    BY <1>1
  <2> QED BY <1>1, <2>1, FS_Interval
<1>3. IsFiniteSet(all) /\ Cardinality(all) \in Nat /\ Cardinality(all) <= MaxFd + 1
  BY <1>1, <1>2, FS_Subset, FS_CardinalityType
<1> PICK c \in Nat : c = Cardinality(all)
  BY <1>3
<1>4. b \in Seq(Fds) /\ Len(b) = c /\ DOMAIN b = 1 .. c
  <2>1. b \in [1 .. c -> Fds]
    BY <1>1
  <2> QED BY <2>1, NumberedIsSeq, Zenon
<1>5. IsFiniteSet(1 .. c) /\ Cardinality(1 .. c) = c
  <2>1. 1 \in Int /\ c \in Int /\ (1 > c => c = 0) /\ c - 1 + 1 = c
    OBVIOUS
  <2> QED BY <2>1, FS_Interval
<1>6. b \in Surjection(1 .. c, all)
  BY <1>4 DEF Surjection
<1>7. b \in Injection(1 .. c, all)
  BY <1>5, <1>6, FS_Surjection
<1>8. \A n, m \in DOMAIN b : b[n] = b[m] => n = m
  BY <1>4, <1>7 DEF Injection, IsInjective
<1>9. \A n \in DOMAIN b : epoll[b[n]] = "in" /\ Readable(files[b[n]])
  BY <1>1, <1>4 DEF Ready, Batched
<1>10. Cardinality(all) <= 1 + Cardinality(Accepted)
  <2> PICK conns : conns = all \ {SockFd}
    OBVIOUS
  <2> PICK m : m = [f \in conns |-> files[f]]
    OBVIOUS
  <2>1. \A f \in conns : f \in Fds /\ files[f] \in Conns /\ sock[files[f]].phase = "open"
    <3>1. \A f \in conns : f \in Fds /\ f # SockFd /\ epoll[f] # "none"
      BY DEF Ready
    <3>2. \A f \in conns : files[f] \in Conns
      BY <3>1 DEF Batched, Common, Kernel, Owned, FileType
    <3> QED BY <3>1, <3>2 DEF Common, Kernel, Owned
  <2>2. m \in [conns -> Accepted]
    BY <2>1 DEF Accepted
  <2>3. \A f, g \in conns : m[f] = m[g] => f = g
    BY <2>1 DEF Common, Kernel, Owned
  <2>4. m \in Injection(conns, Accepted)
    BY <2>2, <2>3 DEF Injection, IsInjective
  <2>5. IsFiniteSet(conns) /\ Cardinality(conns) <= Cardinality(Accepted)
    BY <2>4, FS_Injection DEF Batched
  <2>6. Cardinality(conns) = IF SockFd \in all THEN Cardinality(all) - 1 ELSE Cardinality(all)
    BY <1>3, FS_RemoveElement
  <2>7. Cardinality(Accepted) \in Nat /\ Cardinality(conns) \in Nat
    BY <2>5, FS_CardinalityType DEF Batched
  <2> PICK d \in Nat, a \in Nat : d = Cardinality(conns) /\ a = Cardinality(Accepted)
    BY <2>7
  <2>8. d <= a /\ d \in {c - 1, c}
    BY <2>5, <2>6
  <2>9. c <= 1 + a
    BY <2>8
  <2> QED BY <2>9
<1> QED BY <1>3, <1>4, <1>8, <1>9, <1>10

LEMMA EpollWaits == ASSUME Common, EpollInv, Epoll!Wait PROVE Common' /\ EpollInv'
<1>1. at = "wait" /\ i' = 0 /\ UNCHANGED <<files, sock, epoll, events, mode, buffer, reply>>
  BY DEF Epoll!Wait, Epoll!kernel
<1>2. /\ Common' /\ Accepted' = Accepted /\ Silent'
      /\ \A x : Readable(x)' <=> Readable(x)
  BY <1>1, EpollQuiet
<1> PICK all : all = {f \in Fds : Ready(f)}
  OBVIOUS
<1>3. \/ at' = "spinning" /\ UNCHANGED batch
      \/ /\ at' = "scan"
         /\ \E b \in [1 .. Cardinality(all) -> all] :
              (\A f \in all : \E n \in DOMAIN b : b[n] = f) /\ batch' = b
  <2>1. {f \in Epoll!Fds : Epoll!Ready(f)} = all
    BY EpollCalls
  <2>2. Epoll!Cardinality(all) = Cardinality(all)
    BY DEF Epoll!Cardinality, Cardinality
  <2> QED BY <2>1, <2>2 DEF Epoll!Wait
<1>4. CASE at' = "spinning" /\ UNCHANGED batch
  <2>1. EpollTypes' /\ EventsLeft'
    BY <1>1, <1>4 DEF EpollInv, EpollTypes, EventsLeft
  <2>2. Batched'
    BY <1>1, <1>2, <1>4 DEF EpollInv, Batched
  <2> QED BY <1>2, <2>1, <2>2 DEF EpollInv
<1>5. ASSUME at' = "scan", NEW b \in [1 .. Cardinality(all) -> all],
             \A f \in all : \E n \in DOMAIN b : b[n] = f, batch' = b
      PROVE  EpollInv'
  <2>1. /\ b \in Seq(Fds) /\ Len(b) <= MaxFd + 1 /\ Len(b) <= 1 + Cardinality(Accepted)
        /\ \A n, m \in DOMAIN b : b[n] = b[m] => n = m
        /\ \A n \in DOMAIN b : epoll[b[n]] = "in" /\ Readable(files[b[n]])
    BY <1>5, BatchIs DEF EpollInv
  <2>2. Len(b) \in Nat /\ DOMAIN b = 1 .. Len(b)
    BY <2>1
  <2>3. EpollTypes'
    BY <1>1, <1>5, <2>1, <2>2 DEF EpollInv, EpollTypes
  <2>4. Batched'
    BY <1>1, <1>2, <1>5, <2>1 DEF EpollInv, Batched
  <2>5. EventsLeft'
    <3>1. \A n \in i' + 1 .. Len(b) : n \in DOMAIN b
      BY <1>1, <2>2
    <3> QED BY <1>1, <1>2, <1>5, <2>1, <3>1 DEF EventsLeft, Event
  <2> QED BY <1>2, <2>3, <2>4, <2>5 DEF EpollInv
<1> QED BY <1>2, <1>3, <1>4, <1>5

LEMMA EpollBatchEnds == ASSUME Common, EpollInv, Epoll!BatchEnds PROVE Common' /\ EpollInv'
<1>1. at = "scan" /\ at' = "wait" /\ UNCHANGED <<files, sock, epoll, events, mode, batch, i, buffer, reply>>
  BY DEF Epoll!BatchEnds, Epoll!kernel
<1>2. Common' /\ Accepted' = Accepted /\ Silent'
  BY <1>1, EpollQuiet
<1>3. EpollTypes' /\ EventsLeft'
  BY <1>1 DEF EpollInv, EpollTypes, EventsLeft
<1>4. Batched'
  BY <1>1, <1>2 DEF EpollInv, Batched
<1> QED BY <1>2, <1>3, <1>4 DEF EpollInv

\* A connection takes a descriptor that no event of the batch is about.
LEMMA EpollAccept ==
  ASSUME Common, EpollInv, at = "scan", i < Len(batch), Epoll!Accept, UNCHANGED <<events, mode, batch, reply>>
  PROVE  Common' /\ EpollInv'
<1>1. /\ batch[i + 1] = SockFd /\ i' = i + 1 /\ UNCHANGED <<at, buffer>>
      /\ \/ UNCHANGED <<files, sock, epoll>>
         \/ \E k \in Conns :
              /\ FreeFds # {} /\ Queued(k, files[SockFd])
              /\ files' = [files EXCEPT ![LowestFree] = k]
              /\ sock' = [sock EXCEPT ![k].phase = "open"]
              /\ epoll' \in {[epoll EXCEPT ![LowestFree] = "in"], epoll}
  BY EpollCalls DEF Epoll!Accept, Epoll!connfd
<1>2. i + 1 \in DOMAIN batch /\ i + 1 \in Nat /\ i + 1 <= Len(batch)
  BY BatchFds DEF EpollInv
<1>3. EpollTypes'
  BY <1>1, <1>2 DEF EpollInv, EpollTypes
<1>4. CASE UNCHANGED <<files, sock, epoll>>
  <2>1. /\ Common' /\ Accepted' = Accepted /\ (OwnIntact' <=> OwnIntact) /\ Silent'
        /\ \A x : Readable(x)' <=> Readable(x)
    BY <1>4, EpollQuiet
  <2>2. Batched'
    BY <1>1, <1>4, <2>1 DEF EpollInv, Batched
  <2>3. EventsLeft'
    <3>1. \A n : Event(n) => Event(n)'
      BY <1>4, <2>1 DEF Event
    <3> QED BY <1>1, <2>1, <3>1, NextEvent
  <2> QED BY <1>3, <2>1, <2>2, <2>3 DEF EpollInv
<1>5. ASSUME NEW k \in Conns, FreeFds # {}, Queued(k, files[SockFd]),
             files' = [files EXCEPT ![LowestFree] = k],
             sock' = [sock EXCEPT ![k].phase = "open"],
             epoll' \in {[epoll EXCEPT ![LowestFree] = "in"], epoll}
      PROVE  Common' /\ EpollInv'
  <2> PICK f : f = LowestFree
    OBVIOUS
  <2>1. /\ Kernel' /\ f \in Fds /\ files[f] = Free /\ files'[f] = k /\ epoll'[f] # "out"
        /\ \A g \in Fds : g # f => files'[g] = files[g] /\ epoll'[g] = epoll[g]
        /\ \A g \in Fds : files[g] # k
        /\ \A j \in Conns : j # k => sock'[j] = sock[j]
        /\ sock[k].phase = "queued" /\ sock'[k] = [sock[k] EXCEPT !.phase = "open"]
        /\ files[SockFd] \in Ports
    BY <1>5, KernelAccepts DEF Common
  <2>2. Common'
    BY <2>1 DEF Common
  <2>3. sock[k] \in Socket
    BY DEF Common, Kernel, SockType
  <2>4. sock'[k].phase = "open"
    BY <2>1, <2>3 DEF Socket
  <2>5. Accepted' = Accepted \cup {k} /\ k \notin Accepted
    <3>1. \A j \in Conns : sock'[j].phase \in {"open", "closed"} <=> sock[j].phase \in {"open", "closed"} \/ j = k
      BY <2>1, <2>4
    <3>2. k \notin Accepted
      BY <2>1 DEF Accepted
    <3> QED BY <3>1, <3>2 DEF Accepted
  <2>6. /\ IsFiniteSet(Accepted') /\ Cardinality(Accepted) \in Nat
        /\ Cardinality(Accepted') = Cardinality(Accepted) + 1
    BY <2>5, FS_AddElement, FS_CardinalityType DEF EpollInv, Batched
  <2>7. Batched'
    <3>1. \A g \in Fds : (g # SockFd => files'[g] \notin Ports) /\ epoll'[g] # "out"
      BY <2>1, Distinct DEF EpollInv, Batched
    <3>2. Len(batch) \in Nat /\ Len(batch) <= 1 + Cardinality(Accepted)
      BY DEF EpollInv, EpollTypes, Batched
    <3>3. Len(batch) <= 1 + Cardinality(Accepted')
      BY <2>6, <3>2
    <3> QED BY <1>1, <2>6, <3>1, <3>3 DEF EpollInv, Batched
  <2>8. OwnIntact' => OwnIntact
    <3>1. OwnIntact' => f # EpFd /\ ~(f < Stdio) /\ f # SockFd
      BY <2>1, OwnFds, Distinct DEF OwnIntact
    <3> QED BY <2>1, <3>1, OwnFds DEF OwnIntact
  <2>9. Silent'
    <3>1. Stdio \in Nat
      BY SocketAssumption
    <3>2. Cardinality(Accepted') < Stdio + 2 => Cardinality(Accepted) < Stdio + 2
      BY <2>6, <3>1
    <3> QED BY <2>8, <3>2 DEF EpollInv, Silent
  <2>10. ASSUME NEW n \in DOMAIN batch, n # i + 1, Event(n) PROVE Event(n)'
    <3> PICK g : g = batch[n]
      OBVIOUS
    <3>1. g \in Fds /\ g # SockFd
      BY <1>1, <1>2, <2>10 DEF EpollInv, EpollTypes, Batched
    <3>2. epoll[g] = "in" /\ g # f /\ files[g] \in Conns
      BY <2>1, <2>10, <3>1 DEF Event, Common, Kernel, Owned, FileType, EpollInv, Batched
    <3>3. files'[g] = files[g] /\ epoll'[g] = "in" /\ sock'[files[g]] = sock[files[g]]
      BY <2>1, <3>1, <3>2
    <3>4. Readable(files[g])' <=> Readable(files[g])
      BY <3>2, <3>3, ReadableSame
    <3> QED BY <2>10, <3>3, <3>4 DEF Event
  <2>11. EventsLeft'
    BY <1>1, <2>8, <2>10, NextEvent
  <2> QED BY <1>3, <2>2, <2>7, <2>9, <2>11 DEF EpollInv
<1> QED BY <1>1, <1>4, <1>5

\* A socket as close leaves it.
LEMMA ClosedSocket ==
  ASSUME NEW s \in Socket, NEW z, z = [s EXCEPT !.phase = "closed"]
  PROVE  /\ z \in Socket /\ z.phase = "closed" /\ z.port = s.port /\ z.peer = s.peer /\ z.sent = s.sent
         /\ z.in = s.in /\ z.out = s.out /\ z.fin = s.fin /\ z.err = s.err /\ z.shut = s.shut /\ z.rst = s.rst
BY DEF Socket

\* close(i) frees a descriptor of the program's own, unless the batch is long.
LEMMA EpollRecvEnd ==
  ASSUME Common, EpollInv, at = "scan", i < Len(batch), Epoll!RecvEnd, UNCHANGED <<events, mode, batch, reply>>
  PROVE  Common' /\ EpollInv'
<1> PICK c : c = batch[i + 1]
  OBVIOUS
<1>1. /\ files' = [files EXCEPT ![i] = Free]
      /\ sock' = [k \in Conns |-> IF files[i] = k THEN [sock[k] EXCEPT !.phase = "closed"] ELSE sock[k]]
      /\ epoll' = [epoll EXCEPT ![i] = "none", ![c] = IF Epoll!EpollOpen THEN "none" ELSE @]
      /\ i' = i + 1 /\ UNCHANGED <<at, buffer>>
  BY DEF Epoll!RecvEnd, Epoll!connfd
<1>2. i + 1 \in DOMAIN batch /\ c \in Fds /\ i \in Fds /\ i + 1 \in Nat /\ i + 1 <= Len(batch)
  BY BatchFds DEF EpollInv
<1>3. /\ files' \in [Fds -> Ports \cup Conns \cup {Free, Other}]
      /\ \A f \in Fds : files'[f] = IF f = i THEN Free ELSE files[f]
  BY <1>1, <1>2 DEF Common, Kernel, FileType
<1>4. /\ epoll' \in [Fds -> {"none", "in", "out"}]
      /\ \A f \in Fds : /\ epoll'[f] \in {"none", epoll[f]}
                        /\ f = i => epoll'[f] = "none"
                        /\ f # i /\ f # c => epoll'[f] = epoll[f]
  <2>1. epoll \in [Fds -> {"none", "in", "out"}]
    BY DEF Common, Kernel, EpollType
  <2>2. CASE Epoll!EpollOpen
    BY <1>1, <1>2, <2>1, <2>2
  <2>3. CASE ~Epoll!EpollOpen
    BY <1>1, <1>2, <2>1, <2>3
  <2> QED BY <2>2, <2>3
<1>5. \A k \in Conns : /\ files[i] # k => sock'[k] = sock[k]
                       /\ files[i] = k => sock'[k] = [sock[k] EXCEPT !.phase = "closed"]
  BY <1>1
<1>6. \A k \in Conns : sock[k] \in Socket /\ (sock[k].fin => sock[k].peer = "closed") /\ Rules(k)
  BY DEF Common, Kernel, SockType
<1>7. SockType' /\ \A k \in Conns : Rules(k)' /\ (files[i] = k => sock'[k].phase = "closed")
  <2>1. ASSUME NEW k \in Conns
        PROVE  /\ sock'[k] \in Socket /\ (sock'[k].fin => sock'[k].peer = "closed") /\ Rules(k)'
               /\ files[i] = k => sock'[k].phase = "closed"
    <3>1. CASE files[i] = k
      <4> PICK s \in Socket : s = sock[k]
        BY <1>6
      <4> PICK z : z = sock'[k]
        OBVIOUS
      <4>1. z = [s EXCEPT !.phase = "closed"]
        BY <1>5, <3>1
      <4>2. /\ z \in Socket /\ z.phase = "closed" /\ z.port = s.port /\ z.peer = s.peer /\ z.sent = s.sent
            /\ z.in = s.in /\ z.out = s.out /\ z.fin = s.fin /\ z.err = s.err /\ z.shut = s.shut /\ z.rst = s.rst
        BY <4>1, ClosedSocket
      <4> QED BY <1>6, <4>2 DEF Rules
    <3>2. CASE files[i] # k
      BY <1>5, <1>6, <3>2 DEF Rules
    <3> QED BY <3>1, <3>2
  <2> QED BY <1>1, <2>1 DEF SockType
<1>8. \A k \in Conns : files[i] # k => sock'[k].phase = sock[k].phase
  BY <1>5
<1>9. \A k \in Conns : files[i] = k => sock'[k].phase = "closed" /\ sock[k].phase = "open"
  BY <1>2, <1>7 DEF Common, Kernel, Owned
<1>10. Owned'
  <2>1. \A f, g \in Fds : files'[f] = files'[g] /\ files'[f] \in Ports \cup Conns => f = g
    BY <1>3, Distinct DEF Common, Kernel, Owned
  <2>2. ASSUME NEW k \in Conns PROVE sock'[k].phase = "open" <=> \E f \in Fds : files'[f] = k
    <3>1. CASE files[i] = k
      <4>1. \A f \in Fds : files'[f] # k
        BY <1>2, <1>3, <3>1, Distinct DEF Common, Kernel, Owned
      <4> QED BY <1>9, <3>1, <4>1
    <3>2. CASE files[i] # k
      <4>1. sock'[k].phase = "open" <=> \E f \in Fds : files[f] = k
        BY <1>8, <3>2 DEF Common, Kernel, Owned
      <4>2. \A f \in Fds : files'[f] = k <=> files[f] = k
        BY <1>3, <3>2, Distinct
      <4> QED BY <4>1, <4>2
    <3> QED BY <3>1, <3>2
  <2>3. \A f \in Fds : files'[f] \in {Free, Other} => epoll'[f] = "none"
    BY <1>3, <1>4 DEF Common, Kernel, Owned
  <2>4. \A f \in Fds : files'[f] \in Ports => epoll'[f] # "out"
    BY <1>3, <1>4, Distinct DEF Common, Kernel, Owned
  <2> QED BY <2>1, <2>2, <2>3, <2>4 DEF Owned
<1>11. Common'
  <2>1. EpollType' /\ FileType'
    BY <1>3, <1>4 DEF Common, Kernel, EpollType, FileType
  <2> QED BY <1>7, <1>10, <2>1 DEF Common, Kernel
<1>12. EpollTypes'
  BY <1>1, <1>2 DEF EpollInv, EpollTypes
<1>13. Accepted' = Accepted
  BY <1>5, <1>9, AcceptedSame
<1>14. Batched'
  BY <1>1, <1>3, <1>4, <1>13, Distinct DEF EpollInv, Batched
<1>15. OwnIntact' => OwnIntact /\ EpFd < i
  <2>1. Stdio \in Nat /\ i \in Nat /\ SockFd = Stdio /\ EpFd = Stdio + 1
    BY <1>2, OwnFds, SocketAssumption DEF SockFd, EpFd
  <2>2. OwnIntact' => ~(i < Stdio) /\ i # EpFd /\ i # SockFd
    BY <1>2, <1>3, OwnFds, Distinct DEF OwnIntact
  <2>3. OwnIntact' => EpFd < i
    BY <2>1, <2>2
  <2>4. OwnIntact' => OwnIntact
    BY <1>3, <2>2, OwnFds DEF OwnIntact
  <2> QED BY <2>3, <2>4
<1>16. Silent'
  BY <1>13, <1>15 DEF EpollInv, Silent
<1>17. EventsLeft'
  <2>1. Len(batch) <= EpFd + 1 => ~(EpFd < i)
    <3>1. i \in Nat /\ EpFd \in Nat /\ Len(batch) \in Nat
      BY <1>2, OwnFds DEF EpollInv, EpollTypes
    <3> QED BY <3>1
  <2> QED BY <1>1, <1>15, <2>1 DEF EventsLeft
<1> QED BY <1>11, <1>12, <1>14, <1>16, <1>17 DEF EpollInv

\* recv leaves the other events true.
LEMMA EpollRecv ==
  ASSUME Common, EpollInv, at = "scan", i < Len(batch), Epoll!RecvError \/ Epoll!RecvData1,
         UNCHANGED <<events, mode, batch, reply>>
  PROVE  Common' /\ EpollInv'
<1> PICK c : c = batch[i + 1]
  OBVIOUS
<1> PICK k : k = files[c]
  OBVIOUS
<1>1. /\ UNCHANGED <<files, epoll>>
      /\ \/ UNCHANGED sock /\ at' # "send"
         \/ k \in Conns /\ sock' = Received(k, BUFFER_LEN)
      /\ \/ at' \in {"scan", "killed", "undefined"} /\ i' = i + 1 /\ UNCHANGED buffer
         \/ /\ at' = "send" /\ i' = i /\ k \in Conns /\ RecvCount(k, BUFFER_LEN) > 0
            /\ buffer' = RecvData(k, BUFFER_LEN)
  BY EpollCalls DEF Epoll!RecvError, Epoll!RecvData1, Epoll!connfd
<1>2. i + 1 \in DOMAIN batch /\ c \in Fds /\ i \in Nat /\ i + 1 \in Nat /\ i + 1 <= Len(batch)
      /\ BUFFER_LEN \in Nat \ {0}
  BY BatchFds, SocketAssumption DEF EpollInv, EpollTypes
<1>3. k \in Conns => /\ RecvData(k, BUFFER_LEN) \in Seq(Byte) /\ Len(RecvData(k, BUFFER_LEN)) <= BUFFER_LEN
                     /\ RecvCount(k, BUFFER_LEN) > 0 => RecvData(k, BUFFER_LEN) # <<>>
  <2> SUFFICES ASSUME k \in Conns
               PROVE  /\ RecvData(k, BUFFER_LEN) \in Seq(Byte) /\ Len(RecvData(k, BUFFER_LEN)) <= BUFFER_LEN
                      /\ RecvCount(k, BUFFER_LEN) > 0 => RecvData(k, BUFFER_LEN) # <<>>
    OBVIOUS
  <2>1. /\ sock[k].in \in Seq(Byte) /\ RecvCount(k, BUFFER_LEN) \in Int /\ RecvCount(k, BUFFER_LEN) >= -1
        /\ RecvCount(k, BUFFER_LEN) <= Len(sock[k].in) /\ RecvCount(k, BUFFER_LEN) <= BUFFER_LEN
        /\ RecvData(k, BUFFER_LEN) \in Seq(Byte)
        /\ RecvCount(k, BUFFER_LEN) > 0 => RecvData(k, BUFFER_LEN) # <<>>
    BY <1>2, RecvCounts DEF Common, Kernel, SockType, Socket
  <2>2. \A q \in Seq(Byte), n \in Int : n >= -1 /\ n <= Len(q) /\ n <= BUFFER_LEN =>
          Len(SubSeq(q, 1, n)) <= BUFFER_LEN
    BY <1>2
  <2> QED BY <2>1, <2>2 DEF RecvData
<1>4. EpollTypes'
  BY <1>1, <1>2, <1>3 DEF EpollInv, EpollTypes
<1>5. /\ Common' /\ Accepted' = Accepted
      /\ \A j \in Conns : j # k => sock'[j] = sock[j]
  <2>1. CASE UNCHANGED sock
    BY <1>1, <2>1, EpollQuiet
  <2>2. CASE k \in Conns /\ sock' = Received(k, BUFFER_LEN)
    <3>1. Kernel' /\ (\A j \in Conns : j # k => sock'[j] = sock[j]) /\ sock'[k].phase = sock[k].phase
      BY <1>1, <1>2, <2>2, KernelRecv, KernelOne DEF Common
    <3>2. Accepted' = Accepted
      BY <3>1, AcceptedSame
    <3> QED BY <3>1, <3>2 DEF Common
  <2> QED BY <1>1, <2>1, <2>2
<1>6. Batched'
  BY <1>1, <1>5 DEF EpollInv, Batched
<1>7. (OwnIntact' <=> OwnIntact) /\ Silent'
  BY <1>1, <1>5 DEF EpollInv, Silent, OwnIntact
<1>8. ASSUME NEW p \in Ports, Readable(p) PROVE Readable(p)'
  <2>1. CASE UNCHANGED sock
    BY <1>8, <2>1 DEF Readable, Queued
  <2>2. CASE k \in Conns /\ sock' = Received(k, BUFFER_LEN)
    <3>1. /\ \A j \in Conns \ {k} : sock'[j] = sock[j]
          /\ sock'[k].phase = sock[k].phase /\ sock'[k].port = sock[k].port
      BY <1>2, <2>2, Receives DEF Common, Kernel
    <3>2. \A j \in Conns : Queued(j, p) => Queued(j, p)'
      BY <3>1 DEF Queued
    <3> QED BY <1>8, <3>2 DEF Readable
  <2> QED BY <1>1, <2>1, <2>2
<1>9. ASSUME NEW n \in DOMAIN batch, n # i + 1, Event(n) PROVE Event(n)'
  <2> PICK g : g = batch[n]
    OBVIOUS
  <2>1. g \in Fds /\ g # c
    BY <1>2, <1>9 DEF EpollInv, EpollTypes, Batched
  <2>2. epoll[g] = "in" /\ files[g] \in Conns \cup Ports
    BY <1>9, <2>1 DEF Event, Common, Kernel, Owned, FileType
  <2>3. CASE files[g] \in Ports
    BY <1>1, <1>8, <1>9, <2>2, <2>3 DEF Event
  <2>4. CASE files[g] \in Conns
    <3>1. files[g] # k
      BY <1>2, <2>1, <2>4 DEF Common, Kernel, Owned
    <3>2. Readable(files[g])' <=> Readable(files[g])
      BY <1>1, <1>5, <2>4, <3>1, ReadableSame
    <3> QED BY <1>1, <1>9, <2>2, <3>2 DEF Event
  <2> QED BY <2>2, <2>3, <2>4
<1>10. EventsLeft'
  BY <1>1, <1>7, <1>9, NextEvent
<1> QED BY <1>4, <1>5, <1>6, <1>7, <1>10 DEF EpollInv

\* What is sent on the index reaches no connection, as long as few were accepted.
LEMMA EpollSend == ASSUME Common, EpollInv, Epoll!Send PROVE Common' /\ EpollInv'
<1> PICK k : k = files[i]
  OBVIOUS
<1>1. /\ at = "send" /\ i' = i + 1 /\ UNCHANGED <<files, epoll, events, mode, batch, buffer>>
      /\ \/ at' \in {"scan", "killed"} /\ UNCHANGED <<sock, reply>>
         \/ /\ k \in Conns /\ at' = "scan" /\ sock' = SentTo(k, Len(buffer))
            /\ reply' = IF SendFails(k) THEN reply ELSE [reply EXCEPT ![k] = @ \o buffer]
  BY EpollCalls DEF Epoll!Send, Epoll!SendTo
<1>2. /\ i + 1 \in DOMAIN batch /\ i \in Fds /\ i \in Nat /\ i + 1 \in Nat /\ i + 1 <= Len(batch)
      /\ buffer \in Seq(Byte) /\ Len(buffer) \in Nat
  BY <1>1, BatchFds, LenNat DEF EpollInv, EpollTypes
<1>3. EpollTypes' /\ (OwnIntact' <=> OwnIntact)
  BY <1>1, <1>2 DEF EpollInv, EpollTypes, OwnIntact
<1>4. CASE UNCHANGED <<sock, reply>>
  <2>1. Common' /\ Accepted' = Accepted /\ Silent' /\ \A x : Readable(x)' <=> Readable(x)
    BY <1>1, <1>4, EpollQuiet
  <2>2. Batched'
    BY <1>1, <2>1 DEF EpollInv, Batched
  <2>3. EventsLeft'
    <3>1. \A n : Event(n) => Event(n)'
      BY <1>1, <2>1 DEF Event
    <3> QED BY <1>1, <1>3, <3>1, NextEvent
  <2> QED BY <1>3, <2>1, <2>2, <2>3 DEF EpollInv
<1>5. CASE /\ k \in Conns /\ at' = "scan" /\ sock' = SentTo(k, Len(buffer))
           /\ reply' = IF SendFails(k) THEN reply ELSE [reply EXCEPT ![k] = @ \o buffer]
  <2>1. Kernel' /\ (\A j \in Conns : j # k => sock'[j] = sock[j]) /\ sock'[k].phase = sock[k].phase
    BY <1>1, <1>2, <1>5, KernelSend, KernelOne DEF Common
  <2>2. reply' \in [Conns -> Seq(Byte)]
    <3>1. reply[k] \o buffer \in Seq(Byte)
      BY <1>2, <1>5 DEF Common
    <3> QED BY <1>5, <3>1 DEF Common
  <2>3. Accepted' = Accepted
    BY <2>1, AcceptedSame
  <2>4. \A j \in Conns : OnlyAdds(j)
    BY <1>2, <1>5, Sends DEF Common, Kernel
  <2>5. Batched'
    BY <1>1, <2>3 DEF EpollInv, Batched
  <2>6. ASSUME NEW n \in DOMAIN batch, Event(n) PROVE Event(n)'
    <3>1. batch[n] \in Fds /\ epoll[batch[n]] = "in" /\ files[batch[n]] \in Conns \cup Ports
      BY <2>6 DEF EpollInv, EpollTypes, Event, Common, Kernel, Owned, FileType
    <3> QED BY <1>1, <2>4, <2>6, <3>1, PortsAdd DEF Event, OnlyAdds
  <2>7. EventsLeft'
    BY <1>1, <1>3, <2>6, NextEvent
  <2>8. ~(OwnIntact /\ Cardinality(Accepted) < Stdio + 2)
    <3> SUFFICES ASSUME OwnIntact, Cardinality(Accepted) < Stdio + 2 PROVE FALSE
      OBVIOUS
    <3>1. Stdio \in Nat /\ SockFd = Stdio /\ EpFd = Stdio + 1
      BY SocketAssumption DEF SockFd, EpFd
    <3>2. Cardinality(Accepted) \in Nat /\ Len(batch) \in Nat /\ Len(batch) <= 1 + Cardinality(Accepted)
      BY <1>1, FS_CardinalityType DEF EpollInv, EpollTypes, Batched
    <3>3. i <= Stdio + 1
      BY <1>2, <3>1, <3>2
    <3>4. i < Stdio \/ i = EpFd \/ i = SockFd
      BY <1>2, <3>1, <3>3
    <3> QED BY <1>2, <1>5, <3>4, Distinct DEF OwnIntact
  <2>9. Silent'
    BY <1>3, <2>3, <2>8 DEF Silent
  <2> QED BY <1>1, <1>3, <2>1, <2>2, <2>5, <2>7, <2>9 DEF EpollInv, Common
<1> QED BY <1>1, <1>4, <1>5

LEMMA EpollClients ==
  ASSUME Common, EpollInv, NEW k \in Conns, NEW answered, Client(k, answered),
         UNCHANGED <<mode, at, batch, i, buffer, reply>>
  PROVE  Common' /\ EpollInv'
<1>1. /\ Kernel' /\ UNCHANGED <<files, epoll, events>>
      /\ \A j \in Conns : j # k => sock'[j] = sock[j]
      /\ \/ sock'[k].phase = sock[k].phase
         \/ sock[k].phase = "new" /\ sock'[k].phase = "queued"
  BY KernelClient DEF Common
<1>2. Common' /\ EpollTypes'
  BY <1>1 DEF Common, EpollInv, EpollTypes
<1>3. Accepted' = Accepted
  BY <1>1, AcceptedSame
<1>4. \A j \in Conns : OnlyAdds(j)
  BY ClientAdds DEF Common, Kernel
<1>5. Batched' /\ Silent'
  BY <1>1, <1>3 DEF EpollInv, Batched, Silent, OwnIntact
<1>6. ASSUME NEW n \in DOMAIN batch, Event(n) PROVE Event(n)'
  <2>1. batch[n] \in Fds /\ epoll[batch[n]] = "in" /\ files[batch[n]] \in Conns \cup Ports
    BY <1>6 DEF EpollInv, EpollTypes, Event, Common, Kernel, Owned, FileType
  <2> QED BY <1>1, <1>4, <1>6, <2>1, PortsAdd DEF Event, OnlyAdds
<1>7. EventsLeft'
  <2>1. \A n \in i + 1 .. Len(batch) : n \in DOMAIN batch
    BY DEF EpollInv, EpollTypes
  <2> QED BY <1>1, <1>6, <2>1 DEF EpollInv, EventsLeft, OwnIntact
<1> QED BY <1>2, <1>5, <1>7 DEF EpollInv

LEMMA EpollInit == ASSUME Epoll!Init PROVE Common /\ EpollInv
<1>1. SocketsInit /\ reply = [k \in Conns |-> <<>>]
  BY EpollCalls DEF Epoll!Init
<1>2. Common /\ (\A f \in Fds : files[f] \in {Free, Other} /\ epoll[f] = "none") /\ \A k \in Conns : sock[k].phase = "new"
  BY <1>1, InitKernel, NoBytes DEF Common, SocketsInit
<1>3. EpollTypes /\ EventsLeft
  BY OwnFds, NoBytes, SocketAssumption DEF Epoll!Init, EpollTypes, EventsLeft
<1>4. Accepted = {}
  BY <1>2 DEF Accepted
<1>5. Batched /\ Silent
  BY <1>1, <1>2, <1>4, FS_EmptySet, Distinct DEF Epoll!Init, Batched, Silent
<1> QED BY <1>2, <1>3, <1>5 DEF EpollInv

LEMMA EpollSteps ==
  ASSUME Common, EpollInv, Epoll!Server
  PROVE  Common' /\ EpollInv'
<1>1. CASE Epoll!Handle
  <2>1. at = "scan" /\ i < Len(batch) /\ UNCHANGED <<events, mode, batch, reply>>
    BY <1>1 DEF Epoll!Handle
  <2>2. Epoll!Accept \/ Epoll!RecvEnd \/ Epoll!RecvError \/ Epoll!RecvData1
    BY <1>1 DEF Epoll!Handle
  <2> QED BY <2>1, <2>2, EpollAccept, EpollRecvEnd, EpollRecv
<1> QED BY <1>1, EpollStart, EpollWaits, EpollBatchEnds, EpollSend DEF Epoll!Server

\* epoll keeps its promises.
LEMMA EpollPromises ==
  ASSUME Common, EpollInv
  PROVE  ReadyStaysTrue /\ Echoes
<1>1. mode = "epoll"
  BY DEF EpollInv, EpollTypes
<1>2. ReadyStaysTrue
  BY <1>1 DEF EpollInv, EventsLeft, Event, ReadyStaysTrue
<1> QED BY <1>1, <1>2 DEF EpollInv, Silent, Echoes

-----------------------------------------------------------------------------
(* The program is one of the three; the variables of the others rest. *)

Others ==
  CASE mode \in {"select", "poll"} -> batch = <<>> /\ ThreadPart
    [] mode = "epoll" -> SelectUnused /\ ThreadPart
    [] OTHER -> SelectUnused /\ batch = <<>> /\ buffer = <<>> /\ i = 0

MInv == Common /\ Others /\ (SelectInv \/ EpollInv \/ ThreadInv)

LEMMA MultiIoInit == ASSUME Init PROVE MInv
<1>1. CASE Select!Init /\ batch = <<>> /\ ThreadsUnused
  BY <1>1, SelectInit DEF Select!Init, MInv, Others, ThreadPart, ThreadsUnused
<1>2. CASE Epoll!Init /\ SelectUnused /\ ThreadsUnused
  BY <1>2, EpollInit DEF Epoll!Init, MInv, Others, ThreadPart, ThreadsUnused
<1>3. CASE Thread!Init /\ SelectUnused /\ batch = <<>> /\ buffer = <<>> /\ i = 0
  BY <1>3, ThreadInit DEF Thread!Init, MInv, Others
<1> QED BY <1>1, <1>2, <1>3 DEF Init

\* Which invariant holds follows from the mode.
LEMMA ByMode ==
  ASSUME MInv
  PROVE  /\ mode \in {"select", "poll"} => SelectInv /\ batch = <<>> /\ ThreadPart
         /\ mode = "epoll" => EpollInv /\ SelectUnused /\ ThreadPart
         /\ mode \in {"thread", "hook", "single", "once"} =>
              ThreadInv /\ SelectUnused /\ batch = <<>> /\ buffer = <<>> /\ i = 0
         /\ mode \in {"select", "poll", "epoll", "thread", "hook", "single", "once"}
BY DEF MInv, Others, SelectInv, SelectType, EpollInv, EpollTypes, ThreadInv, Apart, ThreadType

LEMMA MultiIoStutters == ASSUME MInv, UNCHANGED vars PROVE MInv'
<1>1. UNCHANGED <<files, sock, epoll, events, mode, at, buffer, i, reply, watch, ready, maxfd, nfds, batch,
                  clientfd, threads, overtaken>>
  BY DEF vars, kernel, ofSelect, ofThreads
<1>2. \A x : Readable(x)' <=> Readable(x)
  BY <1>1 DEF Readable, Queued
<1>3. Common' /\ \A k \in Conns : \A q : Wire(k, q)' <=> Wire(k, q)
  BY <1>1 DEF MInv, Common, Kernel, SockType, FileType, EpollType, Owned, Rules, Wire
<1>4. Others'
  BY <1>1 DEF MInv, Others, SelectUnused, ThreadPart
<1>5. SelectInv => SelectInv'
  BY <1>1, <1>2, <1>3 DEF SelectInv, SelectType, Watched, Waiting, Left, Trusted, Unasked, InUse, SelectWires, Taken
<1>6. EpollInv => EpollInv'
  BY <1>1, <1>2 DEF EpollInv, EpollTypes, Batched, EventsLeft, Silent, Event, OwnIntact, Accepted
<1>7. ThreadInv => ThreadInv'
  BY <1>1, <1>3 DEF ThreadInv, Apart, ThreadType, Known, HandedOver, Starting, OwnDescriptor, Serving, ThreadWires, Holds
<1> QED BY <1>3, <1>4, <1>5, <1>6, <1>7 DEF MInv

\* The invariant holds at first and is kept by every step.
THEOREM MultiIoInvariant == Spec => []MInv
<1>1. Init => MInv
  BY MultiIoInit
<1>2. MInv /\ [Next]_vars => MInv'
  <2> SUFFICES ASSUME MInv, [Next]_vars PROVE MInv'
    OBVIOUS
  <2>1. CASE SelectLoop
    <3>1. mode' = mode /\ UNCHANGED <<batch, ofThreads>> /\ Select!Server /\ mode \in {"select", "poll"}
      BY <2>1 DEF SelectLoop, Select!Server, Select!Start, Select!Wait, Select!Accept, Select!ScanEnds, Select!Scan, Select!Send
    <3>2. Common' /\ SelectInv'
      BY <3>1, ByMode, SelectSteps DEF MInv
    <3> QED BY <3>1, <3>2, ByMode DEF MInv, Others, ThreadPart, ofThreads
  <2>2. CASE EpollLoop
    <3>1. mode' = mode /\ UNCHANGED <<ofSelect, ofThreads>> /\ Epoll!Server /\ mode = "epoll"
      BY <2>2 DEF EpollLoop, Epoll!Server, Epoll!Start, Epoll!Wait, Epoll!BatchEnds, Epoll!Handle, Epoll!Send
    <3>2. Common' /\ EpollInv'
      BY <3>1, ByMode, EpollSteps DEF MInv
    <3> QED BY <3>1, <3>2, ByMode DEF MInv, Others, ThreadPart, SelectUnused, ofThreads, ofSelect
  <2>3. CASE ThreadMain \/ ThreadRuns
    <3>1. mode' = mode /\ UNCHANGED <<buffer, i, ofSelect, batch>> /\ Thread!Server
          /\ mode \in {"thread", "hook", "single", "once"}
      BY <2>3 DEF ThreadMain, ThreadRuns, Threaded, Thread!Server, Thread!Main, Thread!Start, Thread!AcceptFirst,
                  Thread!Accept, Thread!Create, Thread!Threads
    <3>2. Common' /\ ThreadInv'
      BY <3>1, ByMode, ThreadSteps DEF MInv
    <3> QED BY <3>1, <3>2, ByMode DEF MInv, Others, SelectUnused, ofSelect
  <2>4. CASE Clients
    <3>1. PICK k \in Conns : Client(k, Len(reply[k]) = sock[k].sent)
      BY <2>4 DEF Clients
    <3>2. UNCHANGED <<mode, at, buffer, i, reply, ofSelect, batch, ofThreads>>
      BY <2>4 DEF Clients
    <3>3. PICK answered : Client(k, answered)
      BY <3>1
    <3>4. UNCHANGED <<clientfd, threads, overtaken>>
      BY <3>2 DEF ofThreads
    <3>5. Others'
      BY <3>2, <3>4 DEF MInv, Others, SelectUnused, ThreadPart, ofSelect
    <3>6. CASE SelectInv
      BY <3>2, <3>3, <3>5, <3>6, SelectClients DEF MInv
    <3>7. CASE EpollInv
      BY <3>2, <3>3, <3>5, <3>7, EpollClients DEF MInv
    <3>8. CASE ThreadInv
      BY <3>2, <3>3, <3>4, <3>5, <3>8, ThreadClients DEF MInv
    <3> QED BY <3>6, <3>7, <3>8 DEF MInv
  <2>5. CASE UNCHANGED vars
    BY <2>5, MultiIoStutters
  <2> QED BY <2>1, <2>2, <2>3, <2>4, <2>5 DEF Next, Server
<1> QED BY <1>1, <1>2, PTL DEF Spec

\* The types of the variables, whichever server runs.
THEOREM MultiIoTypes == Spec => []TypeOK
<1>1. ASSUME MInv PROVE TypeOK
  <2>1. TypeOKSockets
    BY <1>1, KernelTypes DEF MInv, Common
  <2>2. /\ 0 \in Fds /\ 0 \in 0 .. MaxFd + 1 /\ Len(<<>>) <= BUFFER_LEN /\ <<>> \in Seq(Fds)
        /\ Len(<<>>) <= MaxThreads /\ DOMAIN <<>> = {}
    BY SocketAssumption, MultiIoAssumption DEF Fds
  <2>3. CASE mode \in {"select", "poll"}
    <3>1. SelectInv /\ batch = <<>> /\ ThreadPart
      BY <1>1, <2>3, ByMode
    <3> QED BY <2>1, <2>2, <3>1 DEF SelectInv, SelectType, ThreadPart, TypeOK
  <2>4. CASE mode = "epoll"
    <3>1. EpollInv /\ SelectUnused /\ ThreadPart
      BY <1>1, <2>4, ByMode
    <3>2. i \in 0 .. MaxFd + 1
      <4>1. i \in Nat /\ Len(batch) \in Nat /\ i <= Len(batch) /\ Len(batch) <= MaxFd + 1 /\ MaxFd \in Nat
        BY <3>1, OwnFds DEF EpollInv, EpollTypes
      <4> QED BY <4>1
    <3> QED BY <2>1, <2>2, <3>1, <3>2 DEF EpollInv, EpollTypes, SelectUnused, ThreadPart, TypeOK
  <2>5. CASE mode \in {"thread", "hook", "single", "once"}
    <3>1. ThreadInv /\ SelectUnused /\ batch = <<>> /\ buffer = <<>> /\ i = 0
      BY <1>1, <2>5, ByMode
    <3>2. \A t \in DOMAIN threads : threads[t] \in ThreadRecord /\ Sane(threads[t])
      BY <3>1 DEF ThreadInv, Apart, ThreadType
    <3>3. \A t \in DOMAIN threads : /\ threads[t].pc \in {"start", "recv", "send", "close", "ended"}
                                    /\ threads[t].pc = "send" => threads[t].buffer # <<>>
      BY <3>2 DEF ThreadRecord, Sane
    <3> QED BY <2>1, <2>2, <3>1, <3>3 DEF ThreadInv, Apart, ThreadType, SelectUnused, TypeOK
  <2> QED BY <1>1, <2>3, <2>4, <2>5, ByMode
<1> QED BY <1>1, MultiIoInvariant, PTL

\* select, poll and epoll come to no descriptor they take for ready that is not,
\* for any number of connections and descriptors and any word size.
THEOREM ServersReadReady == Spec => []ReadyStaysTrue
<1>1. MInv => ReadyStaysTrue
  BY ByMode, SelectPromises, EpollPromises, ThreadPromises DEF MInv
<1> QED BY <1>1, MultiIoInvariant, PTL

\* No thread closes or reads the connection of another unless accept overtook
\* one, for any number of connections, descriptors and threads.
THEOREM ThreadsKeepApart == Spec => []OwnDescriptor
<1>1. MInv => OwnDescriptor
  <2>1. ThreadPart => OwnDescriptor
    BY DEF ThreadPart, OwnDescriptor
  <2> QED BY <2>1, ByMode, ThreadPromises DEF MInv
<1> QED BY <1>1, MultiIoInvariant, PTL

\* No byte is lost, repeated, reordered or given to another connection, and with
\* epoll nobody is answered before close(i) has hit a descriptor of the program.
THEOREM ServersEcho == Spec => []Echoes
<1>1. MInv => Echoes
  BY ByMode, SelectPromises, EpollPromises, ThreadPromises DEF MInv
<1> QED BY <1>1, MultiIoInvariant, PTL

-----------------------------------------------------------------------------
(* Who serves an open connection: the safety that EveryByteEchoed rests on. *)

\* Of select and poll: whatever is open is in rfds or fds.
OpenIsWatched ==
  mode \in {"select", "poll"} => \A f \in Fds : files[f] \in Ports \cup Conns => f \in watch

LEMMA SelectKeepsWatching ==
  ASSUME MInv, mode \in {"select", "poll"}, OpenIsWatched, Select!Server
  PROVE  OpenIsWatched'
<1>0. SelectInv /\ Common
  BY ByMode DEF MInv
<1>1. CASE Select!Start
  <2>1. CASE files' = [files EXCEPT ![SockFd] = CHOOSE p \in Ports : TRUE] /\ watch' = {SockFd}
    <3>1. at = "start" /\ \A f \in Fds : files[f] \in {Free, Other}
      BY <1>0, <1>1 DEF Select!Start, SelectInv, Watched
    <3>2. \A f \in Fds : f # SockFd => files'[f] = files[f]
      BY <1>0, <2>1 DEF Common, Kernel, FileType
    <3> QED BY <2>1, <3>1, <3>2, Distinct DEF OpenIsWatched
  <2>2. CASE UNCHANGED <<files, watch>>
    BY <1>1, <2>2 DEF OpenIsWatched, Select!Start
  <2> QED BY <1>1, <2>1, <2>2, SelectCalls DEF Select!Start
<1>2. CASE Select!Wait \/ Select!ScanEnds \/ Select!Send
  <2>1. UNCHANGED <<files, watch, mode>>
    BY <1>2 DEF Select!Wait, Select!ScanEnds, Select!Send, Select!kernel
  <2> QED BY <2>1 DEF OpenIsWatched
<1>3. CASE Select!Accept
  <2>1. CASE UNCHANGED <<files, watch>>
    BY <1>3, <2>1 DEF OpenIsWatched, Select!Accept
  <2>2. ASSUME NEW k \in Conns, files' = [files EXCEPT ![LowestFree] = k], watch' = watch \cup {LowestFree}
        PROVE  OpenIsWatched'
    <3>1. \A f \in Fds : f # LowestFree => files'[f] = files[f]
      BY <1>0, <2>2 DEF Common, Kernel, FileType
    <3> QED BY <1>3, <2>2, <3>1 DEF OpenIsWatched, Select!Accept
  <2>3. \/ UNCHANGED <<files, watch>>
        \/ \E k \in Conns : files' = [files EXCEPT ![LowestFree] = k] /\ watch' = watch \cup {LowestFree}
    BY <1>3, SelectCalls DEF Select!Accept, Select!Watch
  <2> QED BY <2>1, <2>2, <2>3
<1>4. CASE Select!Scan
  <2>1. PICK f \in Select!Ahead : Select!ReadFd(f, files[f])
    BY <1>4 DEF Select!Scan
  <2>2. CASE UNCHANGED <<files, watch>>
    BY <1>4, <2>2 DEF OpenIsWatched, Select!Scan
  <2>3. CASE watch' = watch \ {f} /\ CloseFd(f)
    <3>1. files'[f] = Free \/ f \notin Fds
      BY <1>0, <2>3 DEF CloseFd, Common, Kernel, FileType
    <3>2. \A g \in Fds : g # f => files'[g] = files[g]
      BY <1>0, <2>3 DEF CloseFd, Common, Kernel, FileType
    <3> QED BY <1>4, <2>3, <3>1, <3>2, Distinct DEF OpenIsWatched, Select!Scan
  <2>4. UNCHANGED <<files, watch>> \/ (watch' = watch \ {f} /\ CloseFd(f))
    BY <2>1, SelectCalls DEF Select!ReadFd
  <2> QED BY <2>2, <2>3, <2>4
<1> QED BY <1>1, <1>2, <1>3, <1>4 DEF Select!Server

(***************************************************************************)
(* select and poll are asked about every connection that is open, and about*)
(* sockfd: FD_SET and FD_CLR, fds[fd].fd and -1, go with accept and close  *)
(* on every path.  What keeps a connection from being answered is maxfd.   *)
(***************************************************************************)
THEOREM EveryOpenIsWatched == Spec => []OpenIsWatched
<1>1. Init => OpenIsWatched
  <2>1. Select!Init => \A f \in Fds : files[f] \in {Free, Other}
    BY SelectCalls DEF Select!Init, SocketsInit, Fds
  <2> QED BY <2>1, Distinct DEF Init, Epoll!Init, Thread!Init, OpenIsWatched
<1>2. MInv /\ OpenIsWatched /\ [Next]_vars => OpenIsWatched'
  <2> SUFFICES ASSUME MInv, OpenIsWatched, [Next]_vars PROVE OpenIsWatched'
    OBVIOUS
  <2>1. CASE SelectLoop
    BY <2>1, SelectKeepsWatching DEF SelectLoop
  <2>2. CASE EpollLoop
    BY <2>2 DEF EpollLoop, OpenIsWatched, Epoll!Server, Epoll!Start, Epoll!Wait, Epoll!BatchEnds, Epoll!Handle, Epoll!Send
  <2>3. CASE ThreadMain \/ ThreadRuns
    BY <2>3 DEF ThreadMain, ThreadRuns, Threaded, OpenIsWatched, Thread!Main, Thread!Start, Thread!AcceptFirst,
                Thread!Accept, Thread!Create, Thread!Threads
  <2>4. CASE Clients \/ UNCHANGED vars
    <3>1. UNCHANGED <<files, watch, mode>>
      BY <2>4 DEF Clients, Client, vars, kernel, ofSelect
    <3> QED BY <3>1 DEF OpenIsWatched
  <2> QED BY <2>1, <2>2, <2>3, <2>4 DEF Next, Server
<1> QED BY <1>1, <1>2, MultiIoInvariant, PTL DEF Spec

\* Of the servers that block in recv: a thread has the connection, or will read
\* it from clientfd.
Served(f) == \/ clientfd = f /\ (at = "create" \/ Starting)
             \/ \E t \in DOMAIN threads : threads[t].fd = f
Unserved(f) == files[f] \in Conns /\ ~Served(f)
AllCreated == at # "killed" /\ ~overtaken /\ Len(threads) < MaxThreads

OpenHasThread ==
  AllCreated =>
    /\ mode \in {"thread", "single", "once"} => \A f \in Fds : ~Unserved(f)
    /\ mode = "hook" => \A f, g \in Fds : Unserved(f) /\ Unserved(g) => f = g

LEMMA SameThreads ==
  ASSUME ThreadInv, ThreadInv', DOMAIN threads' = DOMAIN threads
  PROVE  Len(threads') = Len(threads)
<1>1. /\ Len(threads) \in Nat /\ DOMAIN threads = 1 .. Len(threads)
      /\ Len(threads') \in Nat /\ DOMAIN threads' = 1 .. Len(threads')
  BY DEF ThreadInv, Apart, ThreadType
<1> QED BY <1>1

\* A thread goes on with its descriptor.
LEMMA GoesOnServing ==
  ASSUME ThreadInv, ThreadInv', NEW t \in DOMAIN threads, threads[t].pc # "start",
         DOMAIN threads' = DOMAIN threads, threads'[t].fd = threads[t].fd,
         \A u \in DOMAIN threads \ {t} : threads'[u] = threads[u],
         UNCHANGED <<files, clientfd, overtaken>>, at' \in {at, "killed"}, AllCreated'
  PROVE  AllCreated /\ \A f \in Fds : Unserved(f)' => Unserved(f)
<1>1. AllCreated /\ at' = at
  BY SameThreads DEF AllCreated
<1>2. Starting => Starting'
  BY DEF Starting
<1>3. ASSUME NEW f \in Fds, \E u \in DOMAIN threads : threads[u].fd = f
      PROVE  \E u \in DOMAIN threads' : threads'[u].fd = f
  BY <1>3
<1> QED BY <1>1, <1>2, <1>3 DEF Unserved, Served

LEMMA ThreadsServe ==
  ASSUME ThreadInv, ThreadInv', Common, Thread!Threads, UNCHANGED <<mode, clientfd, overtaken>>, AllCreated'
  PROVE  AllCreated /\ \A f \in Fds : Unserved(f)' => Unserved(f)
<1> PICK t \in DOMAIN threads :
           Thread!ReadArg(t) \/ Thread!EnterRecv(t) \/ Thread!Recv(t) \/ Thread!Send(t) \/ Thread!Close(t)
  BY DEF Thread!Threads
<1>0. threads \in Seq(ThreadRecord) /\ threads[t] \in ThreadRecord
  BY DEF ThreadInv, Apart, ThreadType
<1>1. CASE Thread!ReadArg(t)
  <2>1. /\ DOMAIN threads' = DOMAIN threads /\ threads'[t].fd = clientfd
        /\ \A u \in DOMAIN threads \ {t} : threads'[u] = threads[u]
        /\ UNCHANGED <<files, at, clientfd>> /\ threads[t].pc = "start" /\ threads[t].fd = -1
    BY <1>0, <1>1 DEF Thread!ReadArg, Thread!Thread, Thread!kernel, ThreadInv, Apart, ThreadType, Sane
  <2>2. AllCreated
    BY <2>1, SameThreads DEF AllCreated
  <2>3. ASSUME NEW f \in Fds, Served(f) PROVE Served(f)'
    <3>1. CASE clientfd = f
      BY <2>1, <3>1 DEF Served
    <3>2. CASE \E u \in DOMAIN threads : threads[u].fd = f
      <4>1. PICK u \in DOMAIN threads : threads[u].fd = f
        BY <3>2
      <4>2. u # t
        BY <2>1, <4>1, OwnFds
      <4> QED BY <2>1, <4>1, <4>2 DEF Served
    <3> QED BY <2>3, <3>1, <3>2 DEF Served
  <2> QED BY <2>1, <2>2, <2>3 DEF Unserved
<1>2. CASE Thread!EnterRecv(t)
  <2>1. /\ DOMAIN threads' = DOMAIN threads /\ threads'[t].fd = threads[t].fd /\ threads[t].pc # "start"
        /\ \A u \in DOMAIN threads \ {t} : threads'[u] = threads[u]
        /\ UNCHANGED <<files, at>>
    BY <1>0, <1>2 DEF Thread!EnterRecv, Thread!kernel, ThreadRecord
  <2> QED BY <2>1, GoesOnServing
<1>3. CASE Thread!Recv(t)
  <2>1. /\ DOMAIN threads' = DOMAIN threads /\ threads'[t].fd = threads[t].fd /\ threads[t].pc # "start"
        /\ \A u \in DOMAIN threads \ {t} : threads'[u] = threads[u]
        /\ UNCHANGED files /\ at' \in {at, "killed"}
    BY <1>0, <1>3 DEF Thread!Recv, ThreadRecord
  <2> QED BY <2>1, GoesOnServing
<1>4. CASE Thread!Send(t)
  <2>1. /\ DOMAIN threads' = DOMAIN threads /\ threads'[t].fd = threads[t].fd /\ threads[t].pc # "start"
        /\ \A u \in DOMAIN threads \ {t} : threads'[u] = threads[u]
        /\ UNCHANGED files /\ at' \in {at, "killed"}
    BY <1>0, <1>4 DEF Thread!Send, ThreadRecord
  <2> QED BY <2>1, GoesOnServing
<1>5. CASE Thread!Close(t)
  <2> PICK c : c = threads[t].fd
    OBVIOUS
  <2>1. /\ DOMAIN threads' = DOMAIN threads /\ threads[t].pc = "close"
        /\ \A u \in DOMAIN threads \ {t} : threads'[u] = threads[u]
        /\ at' = IF at = "serving" THEN "ended" ELSE at
    BY <1>0, <1>5 DEF Thread!Close
  <2>2. /\ c \in Fds => files'[c] = Free
        /\ \A f \in Fds : f # c => files'[f] = files[f]
    <3>1. c \in Fds
      BY <1>0, <2>1 DEF ThreadInv, Apart, ThreadType, Sane, ThreadRecord
    <3>2. (files[c] = Free => UNCHANGED files) /\ (files[c] # Free => CloseFd(c))
      BY <1>5, ThreadCalls DEF Thread!Close
    <3> QED BY <3>1, <3>2 DEF CloseFd, Common, Kernel, FileType
  <2>3. AllCreated
    BY <2>1, SameThreads DEF AllCreated
  <2>4. ASSUME NEW f \in Fds, Served(f), files'[f] \in Conns PROVE Served(f)'
    <3>1. f # c
      BY <2>2, <2>4, Distinct
    <3>2. CASE clientfd = f /\ (at = "create" \/ Starting)
      <4>1. Starting => Starting'
        BY <2>1 DEF Starting
      <4> QED BY <2>1, <3>2, <4>1 DEF Served
    <3>3. CASE \E u \in DOMAIN threads : threads[u].fd = f
      BY <2>1, <3>1, <3>3 DEF Served
    <3> QED BY <2>4, <3>2, <3>3 DEF Served
  <2>5. \A f \in Fds : files'[f] \in Conns => files[f] \in Conns
    BY <2>2, Distinct
  <2> QED BY <2>3, <2>4, <2>5 DEF Unserved
<1> QED BY <1>1, <1>2, <1>3, <1>4, <1>5

\* Until the first accept no connection is open.
NoneOpenYet ==
  mode \in {"thread", "hook", "single", "once"} /\ at \in {"start", "first"} =>
    \A f \in Fds : files[f] \notin Conns

LEMMA MainStarts ==
  ASSUME ThreadInv, Common, Thread!Start
  PROVE  OpenHasThread' /\ NoneOpenYet'
<1>1. \A f \in Fds : files[f] \in {Free, Other}
  BY DEF Thread!Start, ThreadInv, Apart, Known
<1>2. \/ files' = [files EXCEPT ![SockFd] = CHOOSE p \in Ports : TRUE]
      \/ UNCHANGED files
  BY ThreadCalls DEF Thread!Start
<1>3. (CHOOSE p \in Ports : TRUE) \in Ports
  BY SocketAssumption
<1>4. \A f \in Fds : files'[f] \notin Conns
  BY <1>1, <1>2, <1>3, Distinct DEF Common, Kernel, FileType
<1> QED BY <1>4 DEF OpenHasThread, NoneOpenYet, Unserved

LEMMA FirstIsServed ==
  ASSUME ThreadInv, Common, NoneOpenYet, Thread!AcceptFirst
  PROVE  OpenHasThread' /\ NoneOpenYet'
<1>1. PICK fd \in Fds \cup {-1} :
        /\ Thread!Accepted(fd)
        /\ threads' = IF mode = "hook" THEN threads ELSE <<Thread!Thread("recv", fd)>>
  BY ThreadCalls DEF Thread!AcceptFirst
<1>2. UNCHANGED <<epoll, events, mode, reply>> /\ at = "first" /\ at' \in {"accept", "serving"}
  BY DEF Thread!AcceptFirst
<1>3. \A f \in Fds : files'[f] \in Conns => f = fd
  <2>1. \A f \in Fds : f # fd => files'[f] = files[f]
    BY <1>1, <1>2, AcceptedTakes
  <2> QED BY <1>2, <2>1 DEF NoneOpenYet, ThreadInv, Apart, ThreadType
<1>4. mode # "hook" => \E t \in DOMAIN threads' : threads'[t].fd = fd
  <2>1. Thread!Thread("recv", fd).fd = fd
    BY NewThread
  <2> QED BY <1>1, <2>1
<1>5. mode # "hook" => \A f \in Fds : ~Unserved(f)'
  BY <1>3, <1>4 DEF Unserved, Served
<1>6. \A f, g \in Fds : Unserved(f)' /\ Unserved(g)' => f = g
  BY <1>3 DEF Unserved
<1> QED BY <1>2, <1>5, <1>6 DEF OpenHasThread, NoneOpenYet

LEMMA AcceptHandsOver ==
  ASSUME ThreadInv, Common, Thread!Accept, AllCreated'
  PROVE  AllCreated /\ \A f \in Fds : Unserved(f)' => Unserved(f)
<1>1. PICK fd \in Fds \cup {-1} : Thread!Accepted(fd) /\ clientfd' = fd
  BY ThreadCalls DEF Thread!Accept
<1>2. /\ overtaken' = (overtaken \/ Starting) /\ at' = "create" /\ at = "accept"
      /\ UNCHANGED <<epoll, events, mode, threads, reply>>
  BY DEF Thread!Accept, Starting
<1>3. ~overtaken /\ ~Starting
  BY <1>2, Zenon DEF AllCreated
<1>4. \A f \in Fds : f # fd => files'[f] = files[f]
  BY <1>1, <1>2, AcceptedTakes
<1>5. AllCreated
  BY <1>2, <1>3 DEF AllCreated
<1>6. ASSUME NEW f \in Fds, Unserved(f)' PROVE Unserved(f)
  <2>1. f # fd
    BY <1>1, <1>2, <1>6 DEF Unserved, Served
  <2>2. Served(f) => Served(f)'
    BY <1>2, <1>3 DEF Served
  <2> QED BY <1>4, <1>6, <2>1, <2>2 DEF Unserved
<1> QED BY <1>5, <1>6

LEMMA CreateHandsOver ==
  ASSUME ThreadInv, StartMayFail = FALSE, Thread!Create, AllCreated'
  PROVE  AllCreated /\ \A f \in Fds : Unserved(f)' => Unserved(f)
<1>1. at = "create" /\ UNCHANGED <<files, clientfd, overtaken>>
      /\ ((Len(threads) = MaxThreads /\ UNCHANGED threads)
          \/ (Len(threads) < MaxThreads /\ threads' = Append(threads, Thread!Thread("start", -1))))
  BY DEF Thread!Create, Thread!kernel
<1>2. Len(threads) < MaxThreads /\ threads' = Append(threads, Thread!Thread("start", -1))
  BY <1>1, MultiIoAssumption DEF AllCreated
<1> PICK x : x = Thread!Thread("start", -1)
  OBVIOUS
<1>3. x \in ThreadRecord /\ x.pc = "start"
  BY NewThread
<1>4. /\ DOMAIN threads' = DOMAIN threads \cup {Len(threads) + 1}
      /\ threads'[Len(threads) + 1] = x /\ \A u \in DOMAIN threads : threads'[u] = threads[u]
  BY <1>2, <1>3, AddThread DEF ThreadInv, Apart, ThreadType
<1>5. Starting'
  BY <1>3, <1>4 DEF Starting
<1>6. \A f \in Fds : Served(f) => Served(f)'
  BY <1>1, <1>4, <1>5 DEF Served
<1> QED BY <1>1, <1>2, <1>6 DEF AllCreated, Unserved

(***************************************************************************)
(* multi-io.c with threads, and hook.c: every connection that is open has  *)
(* a thread that reads it, or one that has yet to take it from clientfd,   *)
(* as long as pthread_create succeeds and accept never returns before a    *)
(* thread has read clientfd.  hook-pthread.c leaves one connection without,*)
(* the first: the result of the accept before its loop is never used.      *)
(***************************************************************************)
THEOREM EveryOpenHasThread ==
  ASSUME StartMayFail = FALSE
  PROVE  Spec => []OpenHasThread
<1>1. Init => OpenHasThread /\ NoneOpenYet
  <2>1. Thread!Init => \A f \in Fds : files[f] \notin Conns
    BY ThreadCalls, Distinct DEF Thread!Init, SocketsInit, Fds
  <2> QED BY <2>1 DEF Init, Select!Init, Epoll!Init, Thread!Init, OpenHasThread, NoneOpenYet, Unserved
<1>2. MInv /\ MInv' /\ OpenHasThread /\ NoneOpenYet /\ [Next]_vars => OpenHasThread' /\ NoneOpenYet'
  <2> SUFFICES ASSUME MInv, MInv', OpenHasThread, NoneOpenYet, [Next]_vars
               PROVE  OpenHasThread' /\ NoneOpenYet'
    OBVIOUS
  <2>1. CASE SelectLoop
    <3>1. mode' \in {"select", "poll"}
      BY <2>1 DEF SelectLoop, Select!Server, Select!Start, Select!Wait, Select!Accept, Select!ScanEnds, Select!Scan, Select!Send
    <3> QED BY <3>1 DEF OpenHasThread, NoneOpenYet
  <2>2. CASE EpollLoop
    <3>1. mode' = "epoll"
      BY <2>2 DEF EpollLoop, Epoll!Server, Epoll!Start, Epoll!Wait, Epoll!BatchEnds, Epoll!Handle, Epoll!Send
    <3> QED BY <3>1 DEF OpenHasThread, NoneOpenYet
  <2>3. CASE ThreadMain \/ ThreadRuns
    <3>1. mode' = mode /\ mode \in {"thread", "hook", "single", "once"} /\ (Thread!Main \/ Thread!Threads)
      BY <2>3 DEF ThreadMain, ThreadRuns, Threaded, Thread!Main, Thread!Start, Thread!AcceptFirst,
                  Thread!Accept, Thread!Create, Thread!Threads
    <3>2. ThreadInv /\ ThreadInv' /\ Common
      BY <3>1, ByMode DEF MInv, SelectInv, SelectType, EpollInv, EpollTypes
    <3>3. ASSUME Thread!Accept \/ Thread!Create \/ Thread!Threads
          PROVE  NoneOpenYet' /\ (AllCreated' => AllCreated /\ \A f \in Fds : Unserved(f)' => Unserved(f))
      <4>1. AllCreated' => AllCreated /\ \A f \in Fds : Unserved(f)' => Unserved(f)
        BY <3>1, <3>2, <3>3, AcceptHandsOver, CreateHandsOver, ThreadsServe DEF Thread!Threads
      <4>2. Thread!Threads => at \notin {"start", "first"}
        BY <3>2 DEF Thread!Threads, ThreadInv, Apart, Known
      <4>3. at' \notin {"start", "first"}
        BY <3>3, <4>2 DEF Thread!Accept, Thread!Create, Thread!Threads, Thread!ReadArg, Thread!EnterRecv, Thread!Recv,
                          Thread!Send, Thread!Close
      <4> QED BY <4>1, <4>3 DEF NoneOpenYet
    <3>4. CASE Thread!Start
      BY <3>2, <3>4, MainStarts
    <3>5. CASE Thread!AcceptFirst
      BY <3>2, <3>5, FirstIsServed
    <3>6. CASE Thread!Accept \/ Thread!Create \/ Thread!Threads
      BY <3>1, <3>3, <3>6 DEF OpenHasThread
    <3> QED BY <3>1, <3>4, <3>5, <3>6 DEF Thread!Main
  <2>4. CASE Clients \/ UNCHANGED vars
    <3>1. UNCHANGED <<files, mode, at, clientfd, threads, overtaken>>
      BY <2>4 DEF Clients, Client, vars, kernel, ofThreads
    <3> QED BY <3>1 DEF OpenHasThread, NoneOpenYet, AllCreated, Unserved, Served, Starting
  <2> QED BY <2>1, <2>2, <2>3, <2>4 DEF Next, Server
<1> QED BY <1>1, <1>2, MultiIoInvariant, PTL DEF Spec
=============================================================================
