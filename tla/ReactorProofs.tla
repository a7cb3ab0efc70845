--------------------------- MODULE ReactorProofs ---------------------------
(***************************************************************************)
(* The echo server, for every number of ports, connections and descriptors *)
(* and every size of its buffers: its properties follow from one inductive *)
(* invariant, RInv.                                                        *)
(***************************************************************************)
EXTENDS ReactorProps, SocketsProofs

Entry == [callback : {"none", "accept", "recv"}, rbuffer : Seq(Byte), wbuffer : Seq(Byte)]

RType == /\ connlist \in [Fds -> Entry]
         /\ reply \in [Conns -> Seq(Byte)]
         /\ mode \in {"boot", "wait", "dispatch", "ended", "crashed"}

\* What an entry is when its descriptor is used: rbuffer was emptied, the
\* callback is the right one, and what is watched for EPOLLOUT has data.
Entries ==
  \A f \in Fds :
    /\ connlist[f].rbuffer = <<>> /\ Len(connlist[f].wbuffer) <= BUFFER_LEN
    /\ files[f] \in Conns => connlist[f].callback = "recv"
    /\ files[f] \in Ports => connlist[f].callback = "accept"
    /\ epoll[f] = "out" => connlist[f].wbuffer # <<>>

\* What was sent back on a connection; before it is accepted, all waits.
Replies(k) ==
  /\ RunOf(k, 0, reply[k]) /\ Len(reply[k]) <= sock[k].sent
  /\ sock[k].phase \in {"new", "queued"} =>
       reply[k] = <<>> /\ RunOf(k, 0, sock[k].in) /\ Len(sock[k].in) = sock[k].sent

\* The bytes of the connection behind a descriptor: sent back, in its entry,
\* in the socket, one after the other, unless a reset lost some.
Waits(f) == IF epoll[f] = "out" THEN connlist[f].wbuffer ELSE <<>>
Flow(f) ==
  files[f] \in Conns =>
    LET k == files[f] IN
    /\ Len(reply[k]) + Len(Waits(f)) + Len(sock[k].in) <= sock[k].sent
    /\ ~sock[k].shut => /\ RunOf(k, Len(reply[k]), Waits(f))
                        /\ RunOf(k, Len(reply[k]) + Len(Waits(f)), sock[k].in)
                        /\ Len(reply[k]) + Len(Waits(f)) + Len(sock[k].in) = sock[k].sent

Modes == /\ mode = "boot" => Unbound # {}
         /\ mode = "dispatch" <=> events # {} /\ mode # "crashed"

ServerInv == RType /\ Entries /\ Modes /\ OnlyEarlyCloseKills
Bytes == (\A k \in Conns : Replies(k)) /\ (\A f \in Fds : Flow(f))

RInv == Kernel /\ AllLive /\ ServerInv /\ Bytes

-----------------------------------------------------------------------------

LEMMA EmptySeqs == <<>> \in Seq(Byte) /\ Len(<<>>) = 0 /\ \A k, a : RunOf(k, a, <<>>)
BY DEF RunOf

LEMMA AddGroups == \A a, b, c, d \in Nat : b + c = d => a + b + c = a + d
OBVIOUS
LEMMA AddDrops == \A a, b, c, d \in Nat : a + b + c <= d => a + 0 + c <= d
OBVIOUS
LEMMA AddBounds == \A a, b, c, d \in Nat : a + b + c = d => a + b <= d
OBVIOUS
LEMMA AddNat == \A a, b \in Nat : a + b \in Nat /\ a + b + 0 = a + b
OBVIOUS

LEMMA InitRInv ==
  ASSUME Init
  PROVE  RInv
<1>1. /\ Kernel /\ AllLive /\ events = {}
      /\ \A f \in Fds : files[f] \in {Free, Other} /\ epoll[f] = "none"
      /\ \A k \in Conns : sock[k].phase = "new" /\ sock[k].in = <<>> /\ sock[k].sent = 0
  BY InitKernel DEF Init, SocketsInit
<1>2. RType
  BY EmptySeqs DEF Init, NoEntry, Entry, RType
<1>3. Entries
  BY <1>1, EmptySeqs, Distinct, SocketAssumption DEF Init, NoEntry, Entries
<1>4. Unbound # {}
  BY <1>1, Distinct, SocketAssumption DEF Unbound
<1>5. Modes /\ OnlyEarlyCloseKills
  BY <1>1, <1>4 DEF Init, Modes, OnlyEarlyCloseKills
<1>6. \A k \in Conns : Replies(k)
  BY <1>1, EmptySeqs DEF Init, Replies
<1>7. \A f \in Fds : Flow(f)
  BY <1>1, Distinct DEF Flow
<1> QED BY <1>1, <1>2, <1>3, <1>5, <1>6, <1>7 DEF RInv, ServerInv, Bytes

\* What a step leaves alone.
LEMMA FlowSame ==
  ASSUME NEW f \in Fds, Flow(f), files'[f] = files[f], epoll'[f] = epoll[f],
         connlist'[f] = connlist[f], files[f] \in Conns => sock'[files[f]] = sock[files[f]],
         files[f] \in Conns => reply'[files[f]] = reply[files[f]]
  PROVE  Flow(f)'
BY DEF Flow, Waits

LEMMA RepliesSame ==
  ASSUME NEW k \in Conns, Replies(k), sock'[k] = sock[k], reply'[k] = reply[k]
  PROVE  Replies(k)'
BY DEF Replies

\* Undefined behaviour ends the process: before it listens, or for a reason.
LEMMA CrashKeeps ==
  ASSUME RInv, Crash, mode = "boot" \/ \E k \in Conns : sock[k].phase = "open" /\ ClosedEarly(k)
  PROVE  RInv'
<1>1. UNCHANGED <<files, sock, epoll, events, connlist, reply>> /\ mode' = "crashed"
  BY DEF Crash, kernel
<1>2. Kernel' /\ AllLive'
  BY <1>1 DEF RInv, Kernel, AllLive, Live, SockType, FileType, EpollType, Owned, Rules,
              Readable, Writable, Queued
<1>3. RType' /\ Entries' /\ Bytes'
  BY <1>1 DEF RInv, ServerInv, RType, Entries, Bytes, Replies, Flow, Waits
<1>4. Modes'
  BY <1>1 DEF Modes
<1>5. Unbound' = Unbound /\ \A k \in Conns : ClosedEarly(k)' <=> ClosedEarly(k)
  BY <1>1 DEF Unbound, ClosedEarly
<1>6. OnlyEarlyCloseKills'
  BY <1>1, <1>5 DEF OnlyEarlyCloseKills, RInv, ServerInv, Modes
<1> QED BY <1>2, <1>3, <1>4, <1>6 DEF RInv, ServerInv

\* The loop goes on.
LEMMA FinishModes ==
  ASSUME RInv, mode = "dispatch", NEW e \in events, Finish(e)
  PROVE  /\ events' = events \ {e} /\ Modes' /\ OnlyEarlyCloseKills'
         /\ mode' \in {"wait", "dispatch"}
<1>1. events' = events \ {e} /\ mode' = IF events' = {} THEN "wait" ELSE "dispatch"
  BY DEF Finish, Handled
<1> QED BY <1>1 DEF Modes, OnlyEarlyCloseKills

LEMMA InitServerKeeps ==
  ASSUME RInv, NEW p \in Ports, InitServer(p)
  PROVE  RInv'
<1> PICK n : n = LowestFree
  OBVIOUS
<1>0. /\ Kernel /\ events = {} /\ \A f \in Fds : files[f] # p
      /\ FreeFds # {} /\ files' = [files EXCEPT ![n] = p]
      /\ epoll' \in {[epoll EXCEPT ![n] = "in"], epoll}
      /\ UNCHANGED <<sock, events>>
  BY DEF RInv, ServerInv, Modes, InitServer, Unbound, set_event
<1>1. /\ Kernel' /\ AllLive'
      /\ n \in Fds /\ files[n] = Free /\ epoll'[n] # "out"
      /\ \A f \in Fds : f # n => files'[f] = files[f] /\ epoll'[f] = epoll[f]
      /\ files'[n] = p
  BY <1>0, KernelBind
<1>2. /\ connlist' = [connlist EXCEPT ![n].callback = "accept"] /\ reply' = reply
      /\ mode = "boot" /\ mode' = IF Unbound = {p} THEN "wait" ELSE "boot"
      /\ RType /\ Entries
  BY DEF InitServer, RInv, ServerInv
<1>3. /\ connlist'[n] = [connlist[n] EXCEPT !.callback = "accept"]
      /\ \A f \in Fds : f # n => connlist'[f] = connlist[f]
  BY <1>1, <1>2 DEF RType
<1>4. RType'
  <2>1. connlist[n] \in Entry
    BY <1>1, <1>2 DEF RType
  <2>2. [connlist[n] EXCEPT !.callback = "accept"] \in Entry
    BY <2>1 DEF Entry
  <2> QED BY <1>2, <2>2 DEF RType
<1>5. Entries'
  <2>1. ASSUME NEW f \in Fds, f # n
        PROVE  /\ connlist'[f].rbuffer = <<>> /\ Len(connlist'[f].wbuffer) <= BUFFER_LEN
               /\ files'[f] \in Conns => connlist'[f].callback = "recv"
               /\ files'[f] \in Ports => connlist'[f].callback = "accept"
               /\ epoll'[f] = "out" => connlist'[f].wbuffer # <<>>
    BY <1>1, <1>2, <1>3, <2>1 DEF Entries
  <2>2. connlist[n] \in Entry
    BY <1>1, <1>2 DEF RType
  <2>3. /\ connlist'[n].rbuffer = <<>> /\ Len(connlist'[n].wbuffer) <= BUFFER_LEN
        /\ connlist'[n].callback = "accept"
    BY <1>1, <1>2, <1>3, <2>2 DEF Entries, Entry
  <2> QED BY <1>1, <2>1, <2>3, Distinct DEF Entries
<1>6. Modes' /\ OnlyEarlyCloseKills'
  <2>1. Unbound' = Unbound \ {p}
    BY <1>1, Distinct DEF Unbound
  <2>2. p \in Unbound
    BY <1>0 DEF Unbound
  <2>3. mode' = "boot" => Unbound' # {}
    BY <1>2, <2>1, <2>2
  <2> QED BY <1>0, <1>2, <2>3 DEF Modes, OnlyEarlyCloseKills
<1>7. \A k \in Conns : Replies(k)'
  BY <1>0, <1>2, RepliesSame DEF RInv, Bytes
<1>8. \A f \in Fds : Flow(f)'
  <2>1. ASSUME NEW f \in Fds, f # n PROVE Flow(f)'
    BY <1>0, <1>1, <1>2, <1>3, <2>1, FlowSame DEF RInv, Bytes
  <2>2. Flow(n)'
    BY <1>1, Distinct DEF Flow
  <2> QED BY <2>1, <2>2
<1> QED BY <1>1, <1>4, <1>5, <1>6, <1>7, <1>8 DEF RInv, ServerInv, Bytes

LEMMA WaitStepKeeps ==
  ASSUME RInv, Wait
  PROVE  RInv'
<1>1. /\ EpollWait /\ UNCHANGED <<connlist, reply, files, sock, epoll>>
      /\ mode' = "dispatch"
  BY DEF Wait, EpollWait
<1>2. Kernel' /\ AllLive' /\ events' # {}
  BY <1>1, KernelWait DEF RInv
<1>3. RType' /\ Entries' /\ Bytes'
  BY <1>1 DEF RInv, ServerInv, RType, Entries, Bytes, Replies, Flow, Waits
<1>4. Modes' /\ OnlyEarlyCloseKills'
  BY <1>1, <1>2 DEF Modes, OnlyEarlyCloseKills
<1> QED BY <1>2, <1>3, <1>4 DEF RInv, ServerInv

LEMMA AcceptFailsKeeps ==
  ASSUME RInv, mode = "dispatch", NEW e \in events, AcceptFails(e)
  PROVE  RInv'
<1>1. /\ UNCHANGED <<files, sock, epoll, connlist, reply>>
      /\ events' = events \ {e} /\ Modes' /\ OnlyEarlyCloseKills'
      /\ mode' \in {"wait", "dispatch"}
  BY FinishModes DEF AcceptFails
<1>2. Kernel' /\ AllLive'
  BY <1>1 DEF RInv, Kernel, AllLive, Live, SockType, FileType, EpollType, Owned, Rules,
              Readable, Writable, Queued
<1>3. RType' /\ Entries' /\ Bytes'
  BY <1>1 DEF RInv, ServerInv, RType, Entries, Bytes, Replies, Flow, Waits
<1> QED BY <1>1, <1>2, <1>3 DEF RInv, ServerInv

LEMMA AcceptConnKeeps ==
  ASSUME RInv, mode = "dispatch", NEW e \in events, AcceptConn(e)
  PROVE  RInv'
<1> PICK n : n = LowestFree
  OBVIOUS
<1>0. PICK k \in Conns :
        /\ FreeFds # {} /\ Queued(k, files[e.fd])
        /\ files' = [files EXCEPT ![n] = k]
        /\ sock' = [sock EXCEPT ![k].phase = "open"]
        /\ connlist' = [connlist EXCEPT ![n] = NewEntry]
        /\ epoll' \in {[epoll EXCEPT ![n] = "in"], epoll}
        /\ Finish(e) /\ reply' = reply
  BY DEF AcceptConn, set_event
<1>1. /\ events' = events \ {e} /\ Modes' /\ OnlyEarlyCloseKills'
      /\ mode' \in {"wait", "dispatch"}
  BY <1>0, FinishModes
<1>2. /\ Kernel' /\ AllLive'
      /\ n \in Fds /\ files[n] = Free /\ epoll'[n] # "out"
      /\ \A f \in Fds : f # n => files'[f] = files[f] /\ epoll'[f] = epoll[f]
      /\ files'[n] = k
      /\ \A j \in Conns : j # k => sock'[j] = sock[j]
      /\ sock[k].phase = "queued" /\ sock'[k] = [sock[k] EXCEPT !.phase = "open"]
  BY <1>0, <1>1, KernelAccept DEF RInv
<1>3. RType /\ Entries /\ Kernel /\ Replies(k) /\ sock[k] \in Socket
  BY DEF RInv, ServerInv, Bytes, Kernel, SockType
<1>4. connlist'[n] = NewEntry /\ \A f \in Fds : f # n => connlist'[f] = connlist[f]
  BY <1>0, <1>2, <1>3 DEF RType
<1>5. RType'
  BY <1>0, <1>1, <1>3, EmptySeqs DEF RType, Entry, NewEntry
<1>6. Entries'
  <2>1. ASSUME NEW f \in Fds, f # n
        PROVE  /\ connlist'[f].rbuffer = <<>> /\ Len(connlist'[f].wbuffer) <= BUFFER_LEN
               /\ files'[f] \in Conns => connlist'[f].callback = "recv"
               /\ files'[f] \in Ports => connlist'[f].callback = "accept"
               /\ epoll'[f] = "out" => connlist'[f].wbuffer # <<>>
    BY <1>2, <1>3, <1>4, <2>1 DEF Entries
  <2>2. /\ connlist'[n].rbuffer = <<>> /\ Len(connlist'[n].wbuffer) <= BUFFER_LEN
        /\ connlist'[n].callback = "recv"
    BY <1>4, EmptySeqs, SocketAssumption DEF NewEntry
  <2> QED BY <1>2, <2>1, <2>2, Distinct DEF Entries
<1>7. sock'[k].sent = sock[k].sent /\ sock'[k].in = sock[k].in /\ sock'[k].phase = "open"
  BY <1>2, <1>3 DEF Socket
<1>8. ASSUME NEW j \in Conns PROVE Replies(j)'
  <2>1. CASE j = k
    BY <1>0, <1>3, <1>7, <2>1 DEF Replies
  <2>2. CASE j # k
    BY <1>0, <1>2, <2>2, RepliesSame DEF RInv, Bytes
  <2> QED BY <2>1, <2>2
<1>9. ASSUME NEW f \in Fds PROVE Flow(f)'
  <2>1. CASE f = n
    <3>1. reply'[k] = <<>> /\ Waits(n)' = <<>>
      BY <1>0, <1>2, <1>3 DEF Replies, Waits
    <3>2. RunOf(k, 0, sock'[k].in) /\ Len(sock'[k].in) = sock'[k].sent /\ sock'[k].sent \in Nat
      BY <1>2, <1>3, <1>7 DEF Replies, Socket
    <3>3. /\ Len(reply'[k]) = 0 /\ Len(Waits(n)') = 0 /\ RunOf(k, 0, Waits(n)')
          /\ Len(sock'[k].in) \in Nat
      BY <3>1, <3>2, EmptySeqs
    <3>4. /\ Len(reply'[k]) + Len(Waits(n)') = 0
          /\ Len(reply'[k]) + Len(Waits(n)') + Len(sock'[k].in) = sock'[k].sent
      BY <3>2, <3>3
    <3>5. files'[n] = k /\ sock'[k].sent <= sock'[k].sent
      BY <1>2, <3>2
    <3> QED BY <2>1, <3>2, <3>3, <3>4, <3>5 DEF Flow
  <2>2. CASE f # n
    <3>1. files[f] # k
      BY <1>2, <1>3 DEF Kernel, Owned
    <3> QED BY <1>0, <1>2, <1>4, <2>2, <3>1, FlowSame DEF RInv, Bytes
  <2> QED BY <2>1, <2>2
<1> QED BY <1>1, <1>2, <1>5, <1>6, <1>8, <1>9 DEF RInv, ServerInv, Bytes

LEMMA RecvEndKeeps ==
  ASSUME RInv, mode = "dispatch", NEW e \in events, files[e.fd] \in Conns, RecvEnd(e)
  PROVE  RInv'
<1> PICK k \in Conns : k = files[e.fd]
  OBVIOUS
<1>0. /\ CloseFd(e.fd) /\ UNCHANGED <<connlist, reply>> /\ Finish(e)
      /\ Kernel /\ AllLive /\ RType /\ Entries
  BY DEF RecvEnd, RInv, ServerInv
<1>1. /\ events' = events \ {e} /\ Modes' /\ OnlyEarlyCloseKills'
      /\ mode' \in {"wait", "dispatch"}
  BY <1>0, FinishModes
<1>2. /\ Kernel' /\ AllLive'
      /\ files' = [files EXCEPT ![e.fd] = Free]
      /\ \A f \in Fds : f # e.fd => epoll'[f] = epoll[f]
      /\ \A j \in Conns : j # k => sock'[j] = sock[j]
      /\ sock'[k] = [sock[k] EXCEPT !.phase = "closed"]
  BY <1>0, <1>1, KernelClose
<1>3. /\ e.fd \in Fds /\ sock[k] \in Socket /\ sock[k].phase = "open"
      /\ files'[e.fd] = Free /\ \A f \in Fds : f # e.fd => files'[f] = files[f] /\ files[f] # k
  BY <1>0, <1>2, EventOf DEF Kernel, SockType, FileType, Owned
<1>4. RType'
  BY <1>0, <1>1 DEF RType
<1>5. epoll'[e.fd] = "none"
  BY <1>2, <1>3 DEF Kernel, Owned
<1>6. Entries'
  BY <1>0, <1>2, <1>3, <1>5, Distinct DEF Entries
<1>7. sock'[k].sent = sock[k].sent /\ sock'[k].in = sock[k].in /\ sock'[k].phase = "closed"
  BY <1>2, <1>3 DEF Socket
<1>8. ASSUME NEW j \in Conns PROVE Replies(j)'
  <2>1. CASE j = k
    BY <1>0, <1>7, <2>1 DEF Replies, RInv, Bytes
  <2>2. CASE j # k
    BY <1>0, <1>2, <2>2, RepliesSame DEF RInv, Bytes
  <2> QED BY <2>1, <2>2
<1>9. ASSUME NEW f \in Fds PROVE Flow(f)'
  <2>1. CASE f = e.fd
    BY <1>3, <2>1, Distinct DEF Flow
  <2>2. CASE f # e.fd
    BY <1>0, <1>2, <1>3, <2>2, FlowSame DEF RInv, Bytes
  <2> QED BY <2>1, <2>2
<1> QED BY <1>1, <1>2, <1>4, <1>6, <1>8, <1>9 DEF RInv, ServerInv, Bytes

\* A handler that leaves its connection open: what is left to show.
LEMMA CallKeeps ==
  ASSUME RInv, mode = "dispatch", NEW e \in events, NEW k \in Conns, files[e.fd] = k, Finish(e),
         files' = files, NEW v \in {"in", "out"}, epoll' = [epoll EXCEPT ![e.fd] = v],
         SockType', Rules(k)',
         \A j \in Conns : j # k => sock'[j] = sock[j],
         \A j \in Conns : j # k => reply'[j] = reply[j],
         \A f \in Fds : f # e.fd => connlist'[f] = connlist[f],
         sock'[k].phase = sock[k].phase, sock'[k].sent = sock[k].sent,
         connlist' \in [Fds -> Entry], reply' \in [Conns -> Seq(Byte)],
         connlist'[e.fd].callback = connlist[e.fd].callback,
         connlist'[e.fd].rbuffer = <<>>, Len(connlist'[e.fd].wbuffer) <= BUFFER_LEN,
         v = "out" => connlist'[e.fd].wbuffer # <<>>,
         RunOf(k, 0, reply'[k]), Len(reply'[k]) <= sock[k].sent, Flow(e.fd)'
  PROVE  RInv'
<1>0. /\ e.fd \in Fds /\ sock[k].phase = "open" /\ Kernel /\ AllLive /\ Entries
  BY EventOf DEF RInv, ServerInv
<1>1. /\ events' = events \ {e} /\ Modes' /\ OnlyEarlyCloseKills'
      /\ mode' \in {"wait", "dispatch"}
  BY FinishModes
<1>2. /\ epoll' \in [Fds -> {"none", "in", "out"}] /\ epoll'[e.fd] = v
      /\ \A f \in Fds : f # e.fd => epoll'[f] = epoll[f]
  BY <1>0 DEF Kernel, EpollType
<1>3. Kernel' /\ AllLive'
  <2>1. files[e.fd] \in Conns /\ Rules(files[e.fd])'
    OBVIOUS
  <2> QED BY <1>0, <1>1, <1>2, <2>1, KernelHandler
<1>4. RType'
  BY <1>1 DEF RType
<1>5. Entries'
  BY <1>0, <1>2, Distinct DEF Entries
<1>6. \A j \in Conns : Replies(j)'
  <2>1. Replies(k)'
    BY <1>0 DEF Replies
  <2>2. ASSUME NEW j \in Conns, j # k PROVE Replies(j)'
    BY <2>2, RepliesSame DEF RInv, Bytes
  <2> QED BY <2>1, <2>2
<1>7. ASSUME NEW f \in Fds, f # e.fd PROVE Flow(f)'
  <2>1. files[f] # k
    BY <1>0, <1>7 DEF Kernel, Owned
  <2> QED BY <1>2, <1>7, <2>1, FlowSame DEF RInv, Bytes
<1> QED BY <1>1, <1>3, <1>4, <1>5, <1>6, <1>7 DEF RInv, ServerInv, Bytes

LEMMA RecvEchoKeeps ==
  ASSUME RInv, mode = "dispatch", NEW e \in events, files[e.fd] \in Conns, e.ev = "in", RecvEcho(e)
  PROVE  RInv'
<1> PICK k \in Conns : k = files[e.fd]
  OBVIOUS
<1>0. /\ Kernel /\ AllLive /\ RType /\ Entries /\ Flow(e.fd) /\ Replies(k)
      /\ e.fd \in Fds /\ epoll[e.fd] = "in" /\ sock[k] \in Socket /\ connlist[e.fd] \in Entry
  BY EventOf DEF RInv, ServerInv, Bytes, Kernel, SockType, RType
<1>1. connlist[e.fd].rbuffer = <<>> /\ Space(e.fd) = BUFFER_LEN /\ BUFFER_LEN \in Nat \ {0}
  BY <1>0, EmptySeqs, SocketAssumption DEF Entries, Space
<1> PICK c : c = RecvCount(k, BUFFER_LEN)
  OBVIOUS
<1> PICK got : got = RecvData(k, BUFFER_LEN)
  OBVIOUS
<1>2. got \in Seq(Byte) /\ <<>> \o got = got
  BY <1>0, <1>1, RecvCounts DEF Kernel
<1>3. /\ c > 0
      /\ connlist' = [connlist EXCEPT ![e.fd].wbuffer = got, ![e.fd].rbuffer = <<>>]
      /\ sock' = Received(k, BUFFER_LEN) /\ epoll' = [epoll EXCEPT ![e.fd] = "out"]
      /\ Finish(e) /\ files' = files /\ reply' = reply
  BY <1>1, <1>2 DEF RecvEcho, Keep, AfterRecv, set_event
<1>4. /\ SockType' /\ Rules(k)'
      /\ \A j \in Conns : j # k => sock'[j] = sock[j]
      /\ sock'[k].phase = sock[k].phase /\ sock'[k].shut = sock[k].shut
      /\ sock'[k].sent = sock[k].sent
      /\ sock'[k].in = SubSeq(sock[k].in, c + 1, Len(sock[k].in))
  BY <1>0, <1>1, <1>3, KernelRecv
<1>5. /\ c \in 0 .. Len(sock[k].in) /\ c <= BUFFER_LEN /\ got = SubSeq(sock[k].in, 1, c)
      /\ sock[k].in \in Seq(Byte) /\ sock[k].sent \in Nat /\ reply[k] \in Seq(Byte)
  BY <1>0, <1>1, <1>3, RecvCounts DEF Kernel, RecvData, Socket, RType
<1>6. Len(got) = c /\ Len(sock'[k].in) = Len(sock[k].in) - c /\ c \in Nat /\ Len(sock[k].in) \in Nat
  <2>1. Len(sock[k].in) \in Nat /\ c \in Nat
    BY <1>5
  <2> PICK q : q = sock[k].in
    OBVIOUS
  <2>2. q \in Seq(Byte) /\ c \in 0 .. Len(q)
    BY <1>5
  <2>3. Len(SubSeq(q, 1, c)) = c /\ Len(SubSeq(q, c + 1, Len(q))) = Len(q) - c
    BY <2>1, <2>2
  <2> QED BY <1>4, <1>5, <2>1, <2>3
<1>7. /\ connlist'[e.fd] = [connlist[e.fd] EXCEPT !.wbuffer = got, !.rbuffer = <<>>]
      /\ connlist' = [connlist EXCEPT ![e.fd] = [connlist[e.fd] EXCEPT !.wbuffer = got, !.rbuffer = <<>>]]
  BY <1>0, <1>3 DEF RType, Entry
<1>8. /\ connlist'[e.fd].wbuffer = got /\ connlist'[e.fd].rbuffer = <<>>
      /\ connlist'[e.fd].callback = connlist[e.fd].callback
      /\ \A f \in Fds : f # e.fd => connlist'[f] = connlist[f]
      /\ connlist' \in [Fds -> Entry]
  <2>1. [connlist[e.fd] EXCEPT !.wbuffer = got, !.rbuffer = <<>>] \in Entry
    BY <1>0, <1>2, EmptySeqs DEF Entry
  <2> QED BY <1>0, <1>7, <2>1 DEF RType, Entry
<1>9. Flow(e.fd)'
  <2>0. Len(reply[k]) \in Nat /\ Len(reply[k]) + 0 = Len(reply[k]) /\ Waits(e.fd) = <<>>
    BY <1>0, <1>5 DEF Waits
  <2>1. /\ Len(reply[k]) + Len(sock[k].in) <= sock[k].sent
        /\ ~sock[k].shut => /\ RunOf(k, Len(reply[k]), sock[k].in)
                            /\ Len(reply[k]) + Len(sock[k].in) = sock[k].sent
    BY <1>0, <2>0, EmptySeqs DEF Flow
  <2>2. Waits(e.fd)' = got
    BY <1>0, <1>3, <1>8 DEF Waits, Kernel, EpollType
  <2>4. /\ Len(reply[k]) + Len(got) + Len(sock'[k].in) <= sock[k].sent
        /\ ~sock[k].shut => Len(reply[k]) + Len(got) + Len(sock'[k].in) = sock[k].sent
    <3>1. Len(got) + Len(sock'[k].in) = Len(sock[k].in)
      BY <1>6
    <3>2. Len(reply[k]) + Len(got) + Len(sock'[k].in) = Len(reply[k]) + Len(sock[k].in)
      <4>1. Len(reply[k]) \in Nat /\ Len(got) \in Nat /\ Len(sock'[k].in) \in Nat
            /\ Len(sock[k].in) \in Nat
        BY <1>5, <1>6, <2>0
      <4>2. PICK a \in Nat, b \in Nat, x \in Nat, d \in Nat :
              a = Len(reply[k]) /\ b = Len(got) /\ x = Len(sock'[k].in) /\ d = Len(sock[k].in)
        BY <4>1, Zenon
      <4>3. b + x = d
        BY <3>1, <4>2, Zenon
      <4>4. a + b + x = a + d
        BY <4>3
      <4> QED BY <4>2, <4>4, Zenon
    <3> QED BY <2>1, <3>2
  <2>5. ASSUME ~sock[k].shut
        PROVE  RunOf(k, Len(reply[k]), got) /\ RunOf(k, Len(reply[k]) + Len(got), sock'[k].in)
    <3>1. RunOf(k, Len(reply[k]), sock[k].in)
      BY <2>1, <2>5
    <3>2. /\ RunOf(k, Len(reply[k]), SubSeq(sock[k].in, 1, c))
          /\ RunOf(k, Len(reply[k]) + c, SubSeq(sock[k].in, c + 1, Len(sock[k].in)))
      BY <1>5, <2>0, <3>1, RunCut
    <3> QED BY <1>4, <1>5, <1>6, <3>2, Zenon
  <2>6. files'[e.fd] = k /\ reply'[k] = reply[k]
    BY <1>3
  <2> QED BY <1>4, <2>2, <2>4, <2>5, <2>6 DEF Flow
<1>10. got # <<>> /\ Len(got) <= BUFFER_LEN
  BY <1>3, <1>5, <1>6, EmptySeqs
<1>11. reply' \in [Conns -> Seq(Byte)] /\ RunOf(k, 0, reply'[k]) /\ Len(reply'[k]) <= sock[k].sent
  BY <1>0, <1>3 DEF RType, Replies
<1> QED BY <1>3, <1>4, <1>8, <1>9, <1>10, <1>11, CallKeeps, ZenonT(30)

LEMMA SendBufferKeeps ==
  ASSUME RInv, mode = "dispatch", NEW e \in events, e.ev = "out", SendBuffer(e)
  PROVE  RInv'
<1>a. files[e.fd] \in Conns
  BY EventOf DEF RInv
<1> PICK k \in Conns : k = files[e.fd]
  BY <1>a
<1> PICK data : data = connlist[e.fd].wbuffer
  OBVIOUS
<1>0. /\ Kernel /\ AllLive /\ RType /\ Entries /\ Flow(e.fd) /\ Replies(k)
      /\ e.fd \in Fds /\ epoll[e.fd] = "out" /\ sock[k] \in Socket /\ connlist[e.fd] \in Entry
  BY EventOf DEF RInv, ServerInv, Bytes, Kernel, SockType, RType
<1>1. /\ data \in Seq(Byte) /\ data # <<>> /\ Len(data) \in Nat /\ Waits(e.fd) = data
      /\ reply[k] \in Seq(Byte) /\ sock[k].in \in Seq(Byte) /\ sock[k].sent \in Nat
      /\ Len(reply[k]) \in Nat /\ Len(sock[k].in) \in Nat
  BY <1>0 DEF Entries, Entry, Waits, RType, Socket
<1>2. /\ ~SendKills(k) /\ sock' = SentTo(k, Len(data))
      /\ reply' = IF SendFails(k) THEN reply ELSE [reply EXCEPT ![k] = @ \o data]
      /\ epoll' = [epoll EXCEPT ![e.fd] = "in"]
      /\ Finish(e) /\ files' = files /\ connlist' = connlist
  BY DEF SendBuffer, AfterSend, set_event
<1>3. /\ SockType' /\ Rules(k)'
      /\ \A j \in Conns : j # k => sock'[j] = sock[j]
      /\ sock'[k].phase = sock[k].phase /\ sock'[k].shut = sock[k].shut
      /\ sock'[k].sent = sock[k].sent /\ sock'[k].in = sock[k].in
  BY <1>0, <1>1, <1>2, KernelSend
<1>4. sock[k].shut <=> SendFails(k)
  BY <1>0, <1>2 DEF SendKills, SendFails, Kernel, Rules, Socket
<1>5. /\ Len(reply[k]) + Len(data) + Len(sock[k].in) <= sock[k].sent
      /\ ~sock[k].shut => /\ RunOf(k, Len(reply[k]), data)
                          /\ RunOf(k, Len(reply[k]) + Len(data), sock[k].in)
                          /\ Len(reply[k]) + Len(data) + Len(sock[k].in) = sock[k].sent
  BY <1>0, <1>1 DEF Flow
<1>6. Waits(e.fd)' = <<>> /\ files'[e.fd] = k
  BY <1>0, <1>2 DEF Waits, Kernel, EpollType
<1>7. /\ connlist' \in [Fds -> Entry] /\ connlist'[e.fd].rbuffer = <<>>
      /\ Len(connlist'[e.fd].wbuffer) <= BUFFER_LEN
  BY <1>0, <1>2 DEF RType, Entries
<1>8. CASE sock[k].shut
  <2>1. reply' = reply
    BY <1>2, <1>4, <1>8
  <2>2. Flow(e.fd)'
    <3>1. Len(reply'[k]) + Len(Waits(e.fd)') + Len(sock'[k].in) <= sock'[k].sent
      <4>1. Len(reply[k]) + 0 + Len(sock[k].in) <= sock[k].sent
        <5>1. Len(reply[k]) + Len(data) + Len(sock[k].in) <= sock[k].sent
          BY <1>5
        <5> QED BY <1>1, <5>1, AddDrops, Zenon
      <4> QED BY <1>3, <1>6, <2>1, <4>1, EmptySeqs, Zenon
    <3> QED BY <1>3, <1>6, <1>8, <3>1 DEF Flow
  <2>3. /\ reply' \in [Conns -> Seq(Byte)] /\ RunOf(k, 0, reply'[k])
        /\ Len(reply'[k]) <= sock[k].sent
    BY <1>0, <2>1 DEF RType, Replies
  <2> QED BY <1>2, <1>3, <1>7, <2>1, <2>2, <2>3, CallKeeps
<1>9. CASE ~sock[k].shut
  <2>1. reply' = [reply EXCEPT ![k] = @ \o data]
    BY <1>2, <1>4, <1>9
  <2>2. /\ reply'[k] = reply[k] \o data /\ \A j \in Conns : j # k => reply'[j] = reply[j]
    BY <1>0, <2>1 DEF RType
  <2>a. 0 + Len(reply[k]) = Len(reply[k])
    BY <1>1
  <2>3. RunOf(k, 0, reply[k]) /\ RunOf(k, 0 + Len(reply[k]), data)
    BY <1>0, <1>5, <1>9, <2>a DEF Replies
  <2>4. /\ reply'[k] \in Seq(Byte) /\ Len(reply'[k]) = Len(reply[k]) + Len(data)
        /\ RunOf(k, 0, reply'[k])
    BY <1>1, <2>2, <2>3, RunJoin
  <2>5. reply' \in [Conns -> Seq(Byte)]
    BY <1>0, <2>1, <2>4 DEF RType
  <2>b. Len(reply'[k]) \in Nat /\ Len(reply'[k]) + 0 = Len(reply'[k])
    <3>1. /\ Len(reply[k]) + Len(data) \in Nat
          /\ Len(reply[k]) + Len(data) + 0 = Len(reply[k]) + Len(data)
      BY <1>1, AddNat, Zenon
    <3> QED BY <2>4, <3>1, Zenon
  <2>6. /\ Len(reply'[k]) + Len(sock[k].in) = sock[k].sent /\ Len(reply'[k]) <= sock[k].sent
        /\ RunOf(k, Len(reply'[k]), sock[k].in)
    <3>1. RunOf(k, Len(reply[k]) + Len(data), sock[k].in)
      BY <1>5, <1>9
    <3>2. Len(reply[k]) + Len(data) + Len(sock[k].in) = sock[k].sent
      BY <1>5, <1>9
    <3>3. Len(reply[k]) + Len(data) <= sock[k].sent
      BY <1>1, <3>2, AddBounds, Zenon
    <3> QED BY <2>4, <3>1, <3>2, <3>3, Zenon
  <2>7. Flow(e.fd)'
    <3>1. /\ Len(Waits(e.fd)') = 0 /\ RunOf(k, Len(reply'[k]), Waits(e.fd)')
      BY <1>6, EmptySeqs
    <3>2. /\ Len(reply'[k]) + Len(Waits(e.fd)') + Len(sock'[k].in) = sock'[k].sent
          /\ RunOf(k, Len(reply'[k]) + Len(Waits(e.fd)'), sock'[k].in)
      BY <1>3, <2>b, <2>6, <3>1
    <3>3. sock'[k].sent <= sock'[k].sent
      BY <1>1, <1>3
    <3> QED BY <1>6, <3>1, <3>2, <3>3 DEF Flow
  <2> QED BY <1>2, <1>3, <1>7, <2>2, <2>4, <2>5, <2>6, <2>7, CallKeeps
<1> QED BY <1>8, <1>9

-----------------------------------------------------------------------------

\* An error of recv, and a signal of send, are the doing of a client that has
\* closed with an answer unread, or before its answer.
LEMMA RecvErrorKeeps ==
  ASSUME RInv, mode = "dispatch", NEW e \in events, files[e.fd] \in Conns, RecvError(e)
  PROVE  RInv'
<1> PICK k \in Conns : k = files[e.fd]
  OBVIOUS
<1>0. /\ Kernel /\ Entries /\ e.fd \in Fds /\ sock[k].phase = "open" /\ sock[k] \in Socket
  BY EventOf DEF RInv, ServerInv, Kernel, SockType
<1>1. Space(e.fd) = BUFFER_LEN /\ BUFFER_LEN \in Nat \ {0}
  BY <1>0, EmptySeqs, SocketAssumption DEF Entries, Space
<1>2. RecvCount(k, BUFFER_LEN) = -1 /\ Crash
  BY <1>1 DEF RecvError
<1>3. sock[k].err # "none" /\ ~sock[k].fin
  <2>1. sock[k].in # <<>> => Len(sock[k].in) \in Nat
    BY <1>0 DEF Socket
  <2> QED BY <1>1, <1>2, <2>1 DEF RecvCount
<1>4. ClosedEarly(k)
  BY <1>0, <1>3 DEF Kernel, Rules, ClosedEarly
<1> QED BY <1>0, <1>2, <1>4, CrashKeeps

LEMMA SendSignalKeeps ==
  ASSUME RInv, mode = "dispatch", NEW e \in events, e.ev = "out", SendSignal(e)
  PROVE  RInv'
<1>a. files[e.fd] \in Conns
  BY EventOf DEF RInv
<1> PICK k \in Conns : k = files[e.fd]
  BY <1>a
<1>0. /\ Kernel /\ RType /\ Entries /\ Flow(e.fd) /\ e.fd \in Fds /\ epoll[e.fd] = "out"
      /\ sock[k].phase = "open" /\ sock[k] \in Socket /\ connlist[e.fd] \in Entry
  BY EventOf DEF RInv, ServerInv, Bytes, Kernel, SockType, RType
<1>1. SendKills(k) /\ Crash
  BY DEF SendSignal
<1>2. sock[k].peer = "closed"
  BY <1>0, <1>1 DEF SendKills, Kernel, Rules
<1>3. /\ Waits(e.fd) # <<>> /\ Waits(e.fd) \in Seq(Byte)
      /\ Len(reply[k]) + Len(Waits(e.fd)) + Len(sock[k].in) <= sock[k].sent
      /\ reply[k] \in Seq(Byte) /\ sock[k].in \in Seq(Byte) /\ sock[k].sent \in Nat
  BY <1>0 DEF Entries, Entry, Waits, RType, Socket, Flow
<1>4. /\ Len(reply[k]) \in Nat /\ Len(Waits(e.fd)) \in Nat \ {0} /\ Len(sock[k].in) \in Nat
  BY <1>3
<1>5. \A a, c, d \in Nat, b \in Nat \ {0} : a + b + c <= d => a < d
  OBVIOUS
<1>6. Len(reply[k]) < sock[k].sent
  BY <1>3, <1>4, <1>5, Zenon
<1>7. ClosedEarly(k)
  BY <1>2, <1>6 DEF ClosedEarly
<1> QED BY <1>0, <1>1, <1>7, CrashKeeps

\* The callback an event leads to is the one for what the descriptor is.
LEMMA DispatchKeeps ==
  ASSUME RInv, Dispatch
  PROVE  RInv'
<1>1. PICK e \in events :
        \/ e.ev = "in" /\ connlist[e.fd].callback = "accept" /\ accept_cb(e)
        \/ e.ev = "in" /\ connlist[e.fd].callback = "recv" /\ recv_cb(e)
        \/ e.ev = "out" /\ send_cb(e)
  BY DEF Dispatch
<1>2. /\ mode = "dispatch" /\ e.fd \in Fds /\ files[e.fd] \in Ports \cup Conns
      /\ files[e.fd] \in Conns => connlist[e.fd].callback = "recv"
      /\ files[e.fd] \in Ports => connlist[e.fd].callback = "accept"
  BY EventOf DEF Dispatch, RInv, ServerInv, Entries
<1>3. CASE AcceptFails(e)
  BY <1>2, <1>3, AcceptFailsKeeps
<1>4. CASE AcceptConn(e)
  BY <1>2, <1>4, AcceptConnKeeps
<1>5. CASE e.ev = "in" /\ connlist[e.fd].callback = "recv" /\ recv_cb(e)
  <2>1. files[e.fd] \in Conns
    BY <1>2, <1>5
  <2> QED BY <1>2, <1>5, <2>1, RecvEndKeeps, RecvErrorKeeps, RecvEchoKeeps DEF recv_cb
<1>6. CASE e.ev = "out" /\ send_cb(e)
  BY <1>2, <1>6, SendBufferKeeps, SendSignalKeeps DEF send_cb
<1> QED BY <1>1, <1>3, <1>4, <1>5, <1>6 DEF accept_cb

LEMMA CreateFailsKeeps ==
  ASSUME RInv, CreateFails
  PROVE  RInv'
<1>1. UNCHANGED <<files, sock, epoll, events, connlist, reply>> /\ mode = "boot" /\ mode' = "ended"
  BY DEF CreateFails, kernel
<1>2. Kernel' /\ AllLive'
  BY <1>1 DEF RInv, Kernel, AllLive, Live, SockType, FileType, EpollType, Owned, Rules,
              Readable, Writable, Queued
<1>3. RType' /\ Entries' /\ Bytes'
  BY <1>1 DEF RInv, ServerInv, RType, Entries, Bytes, Replies, Flow, Waits
<1>4. Modes' /\ OnlyEarlyCloseKills'
  BY <1>1 DEF RInv, ServerInv, Modes, OnlyEarlyCloseKills
<1> QED BY <1>2, <1>3, <1>4 DEF RInv, ServerInv

LEMMA ClientsKeep ==
  ASSUME RInv, Clients
  PROVE  RInv'
<1>1. PICK k \in Conns : Client(k, Answered(k))
  BY DEF Clients
<1>2. /\ Kernel' /\ AllLive' /\ UNCHANGED <<files, epoll, events, connlist, mode, reply>>
      /\ \A j \in Conns : j # k => sock'[j] = sock[j]
      /\ \/ sock'[k].phase = sock[k].phase
         \/ sock[k].phase = "new" /\ sock'[k].phase = "queued"
      /\ \/ sock'[k].in = sock[k].in /\ sock'[k].sent = sock[k].sent
         \/ /\ sock[k].peer = "open" /\ sock[k].phase # "new"
            /\ sock'[k].in = Append(sock[k].in, <<k, sock[k].sent + 1>>)
            /\ sock'[k].sent = sock[k].sent + 1
      /\ sock[k].shut => sock'[k].shut
      /\ sock[k].peer = "closed" => sock'[k].peer = "closed" /\ sock'[k].out = sock[k].out
  BY <1>1, KernelClient DEF RInv, Clients
<1>3. /\ RType /\ Entries /\ Modes /\ OnlyEarlyCloseKills /\ Bytes
      /\ sock[k] \in Socket /\ Rules(k)
  BY DEF RInv, ServerInv, Kernel, SockType
<1>4. /\ sock[k].in \in Seq(Byte) /\ sock[k].sent \in Nat /\ reply[k] \in Seq(Byte)
      /\ Len(sock[k].in) \in Nat /\ Len(reply[k]) \in Nat
  BY <1>3 DEF Socket, RType
<1>5. RType' /\ Entries' /\ Modes'
  BY <1>2, <1>3 DEF RType, Entries, Modes, Unbound
<1>6. OnlyEarlyCloseKills'
  <2>1. ASSUME NEW j \in Conns, sock[j].phase = "open", ClosedEarly(j)
        PROVE  sock'[j].phase = "open" /\ ClosedEarly(j)'
    BY <1>2, <2>1 DEF ClosedEarly
  <2>2. Unbound' = Unbound
    BY <1>2 DEF Unbound
  <2> QED BY <1>2, <1>3, <2>1, <2>2 DEF OnlyEarlyCloseKills
<1>7. CASE sock'[k].in = sock[k].in /\ sock'[k].sent = sock[k].sent
  <2>1. ASSUME NEW j \in Conns PROVE Replies(j)'
    BY <1>2, <1>3, <1>7 DEF Bytes, Replies
  <2>2. ASSUME NEW f \in Fds PROVE Flow(f)'
    <3>1. CASE files[f] = k
      BY <1>2, <1>3, <1>7, <3>1 DEF Bytes, Flow, Waits
    <3>2. CASE files[f] # k
      BY <1>2, <1>3, <3>2, FlowSame DEF Bytes
    <3> QED BY <3>1, <3>2
  <2> QED BY <1>2, <1>3, <1>5, <1>6, <2>1, <2>2 DEF RInv, ServerInv, Bytes
<1>8. CASE /\ sock[k].peer = "open" /\ sock[k].phase # "new"
           /\ sock'[k].in = Append(sock[k].in, <<k, sock[k].sent + 1>>)
           /\ sock'[k].sent = sock[k].sent + 1
  <2>0. \A a \in Nat : RunOf(k, a, sock[k].in) /\ a + Len(sock[k].in) = sock[k].sent =>
          /\ RunOf(k, a, sock'[k].in) /\ Len(sock'[k].in) = Len(sock[k].in) + 1
    <3> TAKE a \in Nat
    <3> HAVE RunOf(k, a, sock[k].in) /\ a + Len(sock[k].in) = sock[k].sent
    <3> QED BY <1>4, <1>8, RunAppend
  <2>a. Len(sock'[k].in) = Len(sock[k].in) + 1
    BY <1>4, <1>8
  <2>1. ASSUME NEW j \in Conns PROVE Replies(j)'
    <3>1. CASE j = k
      <4>1. RunOf(k, 0, reply'[k]) /\ Len(reply'[k]) <= sock'[k].sent
        BY <1>2, <1>3, <1>4, <1>8 DEF Bytes, Replies
      <4>2. ASSUME sock'[k].phase \in {"new", "queued"}
            PROVE  /\ reply'[k] = <<>> /\ RunOf(k, 0, sock'[k].in)
                   /\ Len(sock'[k].in) = sock'[k].sent
        <5>1. reply[k] = <<>> /\ RunOf(k, 0, sock[k].in) /\ Len(sock[k].in) = sock[k].sent
          BY <1>2, <1>3, <4>2 DEF Bytes, Replies
        <5>2. 0 + Len(sock[k].in) = sock[k].sent
          BY <1>4, <5>1
        <5> QED BY <1>2, <1>8, <2>0, <2>a, <5>1, <5>2
      <4> QED BY <3>1, <4>1, <4>2 DEF Replies
    <3>2. CASE j # k
      BY <1>2, <1>3, <3>2, RepliesSame DEF Bytes
    <3> QED BY <3>1, <3>2
  <2>2. ASSUME NEW f \in Fds PROVE Flow(f)'
    <3>1. CASE files[f] = k
      <4>1. /\ Waits(f)' = Waits(f) /\ files'[f] = k /\ reply'[k] = reply[k]
            /\ connlist[f] \in Entry
        BY <1>2, <1>3, <3>1 DEF Waits, RType
      <4>2. Len(Waits(f)) \in Nat
        BY <4>1, EmptySeqs DEF Waits, Entry
      <4>3. /\ Len(reply[k]) + Len(Waits(f)) + Len(sock[k].in) <= sock[k].sent
            /\ ~sock[k].shut => /\ RunOf(k, Len(reply[k]), Waits(f))
                                /\ RunOf(k, Len(reply[k]) + Len(Waits(f)), sock[k].in)
                                /\ Len(reply[k]) + Len(Waits(f)) + Len(sock[k].in) = sock[k].sent
        BY <1>3, <3>1 DEF Bytes, Flow
      <4>4. \A a, b, c, d \in Nat : /\ a + b + c <= d => a + b + (c + 1) <= d + 1
                                    /\ a + b + c = d => a + b + (c + 1) = d + 1
        OBVIOUS
      <4>5. Len(reply[k]) + Len(Waits(f)) + Len(sock'[k].in) <= sock'[k].sent
        <5>1. Len(reply[k]) + Len(Waits(f)) + (Len(sock[k].in) + 1) <= sock[k].sent + 1
          BY <1>4, <4>2, <4>3, <4>4, Zenon
        <5> QED BY <1>8, <2>a, <5>1, Zenon
      <4>6. ASSUME ~sock[k].shut
            PROVE  /\ RunOf(k, Len(reply[k]) + Len(Waits(f)), sock'[k].in)
                   /\ Len(reply[k]) + Len(Waits(f)) + Len(sock'[k].in) = sock'[k].sent
        <5>1. /\ RunOf(k, Len(reply[k]) + Len(Waits(f)), sock[k].in)
              /\ Len(reply[k]) + Len(Waits(f)) + Len(sock[k].in) = sock[k].sent
          BY <4>3, <4>6
        <5>2. Len(reply[k]) + Len(Waits(f)) \in Nat
          BY <1>4, <4>2, AddNat, Zenon
        <5>3. RunOf(k, Len(reply[k]) + Len(Waits(f)), sock'[k].in)
          BY <2>0, <5>1, <5>2, Zenon
        <5>4. Len(reply[k]) + Len(Waits(f)) + Len(sock'[k].in) = sock'[k].sent
          <6>1. PICK a \in Nat, b \in Nat, c \in Nat, d \in Nat :
                  /\ a = Len(reply[k]) /\ b = Len(Waits(f)) /\ c = Len(sock[k].in)
                  /\ d = sock[k].sent
            BY <1>4, <4>2, Zenon
          <6>2. a + b + c = d
            BY <5>1, <6>1, Zenon
          <6>3. a + b + (c + 1) = d + 1
            BY <6>2
          <6> QED BY <1>8, <2>a, <6>1, <6>3, Zenon
        <5> QED BY <5>3, <5>4
      <4> QED BY <1>2, <4>1, <4>3, <4>5, <4>6 DEF Flow
    <3>2. CASE files[f] # k
      BY <1>2, <1>3, <3>2, FlowSame DEF Bytes
    <3> QED BY <3>1, <3>2
  <2> QED BY <1>2, <1>3, <1>5, <1>6, <2>1, <2>2 DEF RInv, ServerInv, Bytes
<1> QED BY <1>2, <1>7, <1>8

LEMMA NextKeeps ==
  ASSUME RInv, [Next]_vars
  PROVE  RInv'
<1>1. CASE Server
  BY <1>1, InitServerKeeps, CreateFailsKeeps, WaitStepKeeps, DispatchKeeps, CrashKeeps
  DEF Server, InitServerFails
<1>2. CASE Clients
  BY <1>2, ClientsKeep
<1>3. CASE UNCHANGED vars
  <2>1. UNCHANGED <<files, sock, epoll, events, connlist, mode, reply>>
    BY <1>3 DEF vars, kernel
  <2>2. Kernel' /\ AllLive'
    BY <2>1 DEF RInv, Kernel, AllLive, Live, SockType, FileType, EpollType, Owned, Rules,
                Readable, Writable, Queued
  <2>3. RType' /\ Entries' /\ Bytes'
    BY <2>1 DEF RInv, ServerInv, RType, Entries, Bytes, Replies, Flow, Waits
  <2>4. Modes' /\ OnlyEarlyCloseKills'
    BY <2>1 DEF RInv, ServerInv, Modes, OnlyEarlyCloseKills, Unbound, ClosedEarly
  <2> QED BY <2>2, <2>3, <2>4 DEF RInv, ServerInv
<1> QED BY <1>1, <1>2, <1>3 DEF Next

LEMMA Invariance == Spec => []RInv
BY InitRInv, NextKeeps, PTL DEF Spec

-----------------------------------------------------------------------------
(***************************************************************************)
(* Every variable keeps its type and no buffer of connlist is overrun,     *)
(* whatever arrives while an entry is filled or emptied.                   *)
(***************************************************************************)
THEOREM TypeCorrect == Spec => []TypeOK
<1>1. ASSUME RInv PROVE TypeOK
  <2>1. TypeOKSockets
    BY <1>1, KernelTypes DEF RInv
  <2>2. ASSUME NEW f \in Fds
        PROVE  /\ connlist[f].callback \in {"none", "accept", "recv"}
               /\ Len(connlist[f].rbuffer) <= BUFFER_LEN
               /\ Len(connlist[f].wbuffer) <= BUFFER_LEN
    <3>1. connlist[f] \in Entry
      BY <1>1 DEF RInv, ServerInv, RType
    <3> QED BY <1>1, <3>1, EmptySeqs, SocketAssumption DEF RInv, ServerInv, Entries, Entry
  <2> QED BY <1>1, <2>1, <2>2 DEF RInv, ServerInv, RType, Modes, TypeOK
<1> QED BY <1>1, Invariance, PTL

(***************************************************************************)
(* The events of a batch stay true until the loop comes to them: accept_cb,*)
(* recv_cb and send_cb, and the clients meanwhile, leave the other         *)
(* descriptors of the batch with their connections, their event and what   *)
(* made it true.                                                           *)
(***************************************************************************)
THEOREM BatchStaysTrue == Spec => []EventsStayTrue
<1>1. ASSUME RInv PROVE EventsStayTrue
  BY <1>1 DEF RInv, AllLive, Live, EventsStayTrue
<1> QED BY <1>1, Invariance, PTL

(***************************************************************************)
(* What recv_cb and send_cb echo is what the client sent, in order, once,  *)
(* and on its own connection.                                              *)
(***************************************************************************)
THEOREM EchoesInOrder == Spec => []Echoes
<1>1. ASSUME RInv, NEW k \in Conns
      PROVE  /\ reply[k] = SubSeq(Sent(k), 1, Len(reply[k]))
             /\ sock[k].phase = "open" /\ ~sock[k].shut =>
                  reply[k] \o Pending(k) \o sock[k].in = Sent(k)
  <2>1. SockType /\ reply[k] \in Seq(Byte) /\ Replies(k) /\ sock[k].in \in Seq(Byte)
    BY <1>1 DEF RInv, ServerInv, Bytes, Kernel, SockType, RType, Socket
  <2>2. reply[k] = SubSeq(Sent(k), 1, Len(reply[k]))
    BY <2>1, RunSent DEF Replies
  <2>3. ASSUME sock[k].phase = "open", ~sock[k].shut
        PROVE  reply[k] \o Pending(k) \o sock[k].in = Sent(k)
    <3>1. PICK f \in Fds : files[f] = k
      BY <1>1, <2>3 DEF RInv, Kernel, Owned
    <3>2. \A g \in Fds : files[g] = k => g = f
      BY <1>1, <3>1 DEF RInv, Kernel, Owned
    <3>3. (CHOOSE g \in Fds : files[g] = k) = f
      BY <3>1, <3>2
    <3>4. Pending(k) = Waits(f)
      BY <3>1, <3>2, <3>3 DEF Pending, Waits
    <3>5. Waits(f) \in Seq(Byte)
      BY <1>1, EmptySeqs DEF RInv, ServerInv, RType, Entry, Waits
    <3>6. /\ RunOf(k, Len(reply[k]), Waits(f))
          /\ RunOf(k, Len(reply[k]) + Len(Waits(f)), sock[k].in)
          /\ Len(reply[k]) + Len(Waits(f)) + Len(sock[k].in) = sock[k].sent
      BY <1>1, <2>3, <3>1 DEF RInv, Bytes, Flow
    <3> DEFINE p == reply[k] \o Waits(f)
               q == p \o sock[k].in
    <3>7. 0 + Len(reply[k]) = Len(reply[k]) /\ RunOf(k, 0, reply[k])
      BY <2>1 DEF Replies
    <3>8. p \in Seq(Byte) /\ Len(p) = Len(reply[k]) + Len(Waits(f)) /\ RunOf(k, 0, p)
      BY <2>1, <3>5, <3>6, <3>7, RunJoin
    <3>9. 0 + Len(p) = Len(p)
      BY <3>8
    <3> HIDE DEF p
    <3>10. q \in Seq(Byte) /\ Len(q) = Len(p) + Len(sock[k].in) /\ RunOf(k, 0, q)
      <4>1. RunOf(k, 0 + Len(p), sock[k].in)
        BY <3>6, <3>8, <3>9, Zenon
      <4> QED BY <2>1, <3>8, <4>1, RunJoin
    <3>11. Len(q) = sock[k].sent
      BY <3>6, <3>8, <3>10, Zenon
    <3> HIDE DEF q
    <3>12. q = Sent(k)
      BY <2>1, <3>10, <3>11, RunSent
    <3> QED BY <3>4, <3>12, Zenon DEF p, q
  <2> QED BY <2>2, <2>3
<1>2. ASSUME RInv PROVE Echoes
  BY <1>1, <1>2 DEF Echoes
<1> QED BY <1>2, Invariance, PTL

(***************************************************************************)
(* Of all clients, only one that closes before it has had and read its     *)
(* answer makes recv fail in recv_cb or send raise SIGPIPE in send_cb.     *)
(***************************************************************************)
THEOREM OthersDoNoHarm == Spec => []OnlyEarlyCloseKills
<1>1. ASSUME RInv PROVE OnlyEarlyCloseKills
  BY <1>1 DEF RInv, ServerInv
<1> QED BY <1>1, Invariance, PTL

\* A descriptor that was opened is watched until it is closed.
Watched == \A f \in Fds : files[f] \in Ports \cup Conns => epoll[f] # "none"

LEMMA WatchedKeeps ==
  ASSUME AddMayFail = FALSE, RInv, Watched, [Next]_vars
  PROVE  Watched'
<1>0. \A e \in events : e.fd \in Fds
  BY EventOf DEF RInv
<1>1. /\ files \in [Fds -> Ports \cup Conns \cup {Free, Other}]
      /\ epoll \in [Fds -> {"none", "in", "out"}]
  BY DEF RInv, Kernel, FileType, EpollType
<1>2. ASSUME FreeFds # {}, NEW x, files' = [files EXCEPT ![LowestFree] = x],
             epoll' = [epoll EXCEPT ![LowestFree] = "in"]
      PROVE  Watched'
  BY <1>1, <1>2, Lowest DEF Watched, FreeFds
<1>3. ASSUME NEW e \in events, NEW v \in {"in", "out"}, files' = files,
             epoll' = [epoll EXCEPT ![e.fd] = v]
      PROVE  Watched'
  BY <1>0, <1>1, <1>3 DEF Watched
<1>4. ASSUME UNCHANGED <<files, epoll>> PROVE Watched'
  BY <1>4 DEF Watched
<1>5. ASSUME NEW p \in Ports, InitServer(p) PROVE Watched'
  BY <1>2, <1>5 DEF InitServer, set_event
<1>6. ASSUME Dispatch PROVE Watched'
  <2>1. PICK e \in events : accept_cb(e) \/ recv_cb(e) \/ send_cb(e)
    BY <1>6 DEF Dispatch
  <2>2. CASE AcceptFails(e) \/ RecvError(e) \/ SendSignal(e)
    BY <1>4, <2>2 DEF AcceptFails, RecvError, SendSignal, Crash, kernel
  <2>3. CASE AcceptConn(e)
    BY <1>2, <2>3 DEF AcceptConn, set_event
  <2>4. CASE RecvEnd(e)
    BY <1>0, <1>1, <2>4, Distinct DEF RecvEnd, CloseFd, Watched
  <2>5. CASE RecvEcho(e)
    BY <1>3, <2>5 DEF RecvEcho, set_event, AfterRecv
  <2>6. CASE SendBuffer(e)
    BY <1>3, <2>6 DEF SendBuffer, set_event, AfterSend
  <2> QED BY <2>1, <2>2, <2>3, <2>4, <2>5, <2>6 DEF accept_cb, recv_cb, send_cb
<1>7. CASE CreateFails \/ InitServerFails \/ Wait \/ Clients \/ UNCHANGED vars
  BY <1>4, <1>7 DEF CreateFails, InitServerFails, Crash, Wait, EpollWait, Clients, Client,
                    vars, kernel
<1> QED BY <1>5, <1>6, <1>7 DEF Next, Server

\* What is watched leads to the callback for what the descriptor stands for.
RightCallback ==
  \A f \in Fds :
    /\ files[f] \in Conns => epoll[f] # "none" /\ connlist[f].callback = "recv"
    /\ files[f] \in Ports => epoll[f] = "in" /\ connlist[f].callback = "accept"

(***************************************************************************)
(* When no EPOLL_CTL_ADD fails, main loses no descriptor: each that was    *)
(* opened is watched until it is closed, and its events lead to recv_cb    *)
(* when it is a connection's and to accept_cb when it listens.             *)
(***************************************************************************)
THEOREM OpenIsWatched ==
  ASSUME AddMayFail = FALSE
  PROVE  Spec => []RightCallback
<1>1. Init => Watched
  BY InitKernel, Distinct DEF Init, Watched
<1>2. RInv /\ Watched /\ [Next]_vars => Watched'
  BY WatchedKeeps
<1>3. RInv /\ Watched => RightCallback
  BY Distinct DEF RInv, ServerInv, Kernel, EpollType, Owned, Entries, Watched, RightCallback
<1> QED BY <1>1, <1>2, <1>3, Invariance, PTL DEF Spec

-----------------------------------------------------------------------------
(* Patient clients: one that has closed had all of its echo. *)

Content == \A k \in Conns : sock[k].peer = "closed" =>
             sock[k].out = 0 /\ Len(reply[k]) = sock[k].sent

LEMMA ServerSettles ==
  ASSUME RInv, RInv', Content, \A k \in Conns : Settled(k),
         \A k \in Conns : Len(reply[k]) <= Len(reply'[k])
  PROVE  Content'
<1> SUFFICES ASSUME NEW k \in Conns, sock'[k].peer = "closed"
             PROVE  sock'[k].out = 0 /\ Len(reply'[k]) = sock'[k].sent
  BY DEF Content
<1>1. /\ sock[k].out = 0 /\ Len(reply[k]) = sock[k].sent
      /\ sock'[k].out = 0 /\ sock'[k].sent = sock[k].sent
  BY DEF Content, Settled
<1>2. Len(reply'[k]) <= sock'[k].sent /\ reply'[k] \in Seq(Byte) /\ reply[k] \in Seq(Byte)
  BY DEF RInv, Bytes, Replies, ServerInv, RType
<1>3. Len(reply'[k]) \in Nat /\ Len(reply[k]) \in Nat
  BY <1>2
<1> QED BY <1>1, <1>2, <1>3

LEMMA ContentKeeps ==
  ASSUME Hasty = FALSE, RInv, Content, [Next]_vars
  PROVE  Content'
<1>0. RInv' /\ SockType /\ \A k \in Conns : reply[k] \in Seq(Byte) /\ Len(reply[k]) \in Nat
  BY NextKeeps DEF RInv, ServerInv, RType, Kernel
<1>1. ASSUME \A k \in Conns : Settled(k), reply' = reply PROVE Content'
  BY <1>0, <1>1, ServerSettles
<1>2. CASE Clients
  <2>1. PICK k \in Conns : Client(k, Answered(k)) /\ reply' = reply
    BY <1>2 DEF Clients
  <2>2. \A j \in Conns : j # k => sock'[j] = sock[j]
    BY <1>0, <2>1, PatientCloses
  <2>3. sock'[k].peer = "closed" => sock'[k].out = 0 /\ Len(reply'[k]) = sock'[k].sent
    BY <1>0, <2>1, PatientCloses DEF Content, Answered
  <2> QED BY <2>1, <2>2, <2>3 DEF Content
<1>3. CASE Dispatch
  <2>1. PICK e \in events :
          \/ e.ev = "in" /\ connlist[e.fd].callback = "accept" /\ accept_cb(e)
          \/ e.ev = "in" /\ connlist[e.fd].callback = "recv" /\ recv_cb(e)
          \/ e.ev = "out" /\ send_cb(e)
    BY <1>3 DEF Dispatch
  <2>2. CASE AcceptFails(e) \/ RecvError(e) \/ SendSignal(e)
    BY <1>0, <1>1, <2>2 DEF AcceptFails, RecvError, SendSignal, Crash, kernel, Settled
  <2>3. CASE AcceptConn(e)
    BY <1>0, <1>1, <2>3, CallsSettle DEF AcceptConn
  <2>4. CASE connlist[e.fd].callback = "recv" /\ (RecvEnd(e) \/ RecvEcho(e))
    <3>1. files[e.fd] \in Conns
      BY <2>4, EventOf DEF RInv, ServerInv, Entries
    <3> QED BY <1>0, <1>1, <2>4, <3>1, CallsSettle DEF RecvEnd, RecvEcho, CloseFd
  <2>5. CASE e.ev = "out" /\ SendBuffer(e)
    <3>1. PICK k \in Conns : k = files[e.fd]
      BY <2>5, EventOf DEF RInv
    <3>2. PICK data \in Seq(Byte) : data = connlist[e.fd].wbuffer
      BY EventOf DEF RInv, ServerInv, RType, Entry
    <3>3. sock' = SentTo(k, Len(data)) /\ (reply' = reply \/ reply' = [reply EXCEPT ![k] = @ \o data])
      BY <2>5, <3>1, <3>2 DEF SendBuffer
    <3>4. Len(reply[k] \o data) = Len(reply[k]) + Len(data) /\ Len(data) \in Nat
      BY <1>0, <3>2
    <3>5. ASSUME NEW j \in Conns PROVE Len(reply[j]) <= Len(reply'[j])
      <4>1. reply \in [Conns -> Seq(Byte)]
        BY DEF RInv, ServerInv, RType
      <4>2. reply'[j] = reply[j] \/ (j = k /\ reply'[j] = reply[j] \o data)
        BY <3>3, <4>1
      <4> QED BY <1>0, <3>4, <4>2
    <3> QED BY <1>0, <3>3, <3>5, CallsSettle, ServerSettles
  <2> QED BY <2>1, <2>2, <2>3, <2>4, <2>5 DEF accept_cb, recv_cb, send_cb
<1>4. CASE UNCHANGED <<sock, reply>>
  BY <1>0, <1>1, <1>4 DEF Settled
<1>5. ASSUME NEW p \in Ports, InitServer(p) PROVE UNCHANGED <<sock, reply>>
  BY <1>5 DEF InitServer
<1>6. CreateFails \/ InitServerFails \/ Wait \/ UNCHANGED vars => UNCHANGED <<sock, reply>>
  BY DEF CreateFails, InitServerFails, Crash, Wait, EpollWait, vars, kernel
<1> QED BY <1>2, <1>3, <1>4, <1>5, <1>6 DEF Next, Server

(***************************************************************************)
(* Once it listens, a server whose clients wait for their echo before they *)
(* close is not brought down: recv_cb never fails and send_cb raises no    *)
(* SIGPIPE, however connections come, go and take over descriptors.        *)
(***************************************************************************)
THEOREM PatientClientsDoNoHarm ==
  ASSUME Hasty = FALSE
  PROVE  Spec => [](mode = "crashed" => Unbound # {})
<1>1. Init => Content
  BY DEF Init, SocketsInit, NewSocket, Content
<1>2. RInv /\ Content /\ [Next]_vars => Content'
  BY ContentKeeps
<1>3. RInv /\ Content => (mode = "crashed" => Unbound # {})
  <2> SUFFICES ASSUME RInv, Content, mode = "crashed", Unbound = {} PROVE FALSE
    OBVIOUS
  <2>1. PICK k \in Conns : ClosedEarly(k)
    BY DEF RInv, ServerInv, OnlyEarlyCloseKills
  <2>2. sock[k].out = 0 /\ Len(reply[k]) = sock[k].sent /\ sock[k].sent \in Nat
    BY <2>1 DEF ClosedEarly, Content, RInv, Kernel, SockType, Socket
  <2> QED BY <2>1, <2>2 DEF ClosedEarly
<1> QED BY <1>1, <1>2, <1>3, Invariance, PTL DEF Spec
=============================================================================
