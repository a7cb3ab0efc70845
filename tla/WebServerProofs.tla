-------------------------- MODULE WebServerProofs --------------------------
(***************************************************************************)
(* The object-oriented server, for every number of ports, connections and  *)
(* descriptors: its pointers lead to the right objects (WInv), and with    *)
(* that it implements the server in C step for step.                       *)
(***************************************************************************)
EXTENDS WebServerProps, SocketsProofs

Object == [class : {"none", "ConnItemListen", "ConnItemRecv"}, fd : Fds \cup {-1},
           rbuffer : Seq(Byte), wbuffer : Seq(Byte)]

WType == /\ connList \in [Fds -> Ports \cup Conns \cup {Free}]
         /\ object \in [Ports \cup Conns -> Object]
         /\ mode \in {"boot", "wait", "dispatch", "ended", "crashed"}

\* The pointer at a descriptor: null, its own listening object, or the object of
\* a connection that was accepted at it and may be closed by now.
Leads(f) ==
  LET x == connList[f] IN
  /\ x # Free => object[x].fd = f
  /\ x \in Ports => files[f] = x /\ object[x].class = "ConnItemListen"
  /\ x \in Conns => sock[x].phase \in {"open", "closed"} /\ object[x].class = "ConnItemRecv"
  /\ files[f] \in Ports \cup Conns => x = files[f]

Emptied == \A x \in Ports \cup Conns : object[x].rbuffer = <<>>
Booting == mode = "boot" => events = {} /\ \A f \in Fds : connList[f] \notin Conns

WInv == /\ Kernel /\ AllLive /\ WType /\ Emptied /\ Booting
        /\ \A f \in Fds : Leads(f)

-----------------------------------------------------------------------------
(* Init and every step keep the invariant. *)

LEMMA NoBytes == <<>> \in Seq(Byte) /\ Len(<<>>) = 0
OBVIOUS

LEMMA NewObject ==
  ASSUME NEW f \in Fds, NEW class \in {"ConnItemListen", "ConnItemRecv"}
  PROVE  /\ New(class, f) \in Object /\ New(class, f).class = class /\ New(class, f).fd = f
         /\ New(class, f).rbuffer = <<>> /\ New(class, f).wbuffer = <<>>
BY NoBytes DEF New, Object

LEMMA InitWInv ==
  ASSUME Init
  PROVE  WInv
<1>1. /\ Kernel /\ AllLive /\ events = {}
      /\ \A f \in Fds : files[f] \in {Free, Other}
  BY InitKernel DEF Init, SocketsInit
<1>2. NoObject \in Object /\ NoObject.rbuffer = <<>>
  BY NoBytes DEF NoObject, Object
<1>3. WType /\ Emptied
  BY <1>2 DEF Init, WType, Emptied
<1>4. Booting
  BY <1>1, Distinct DEF Init, Booting
<1>5. \A f \in Fds : Leads(f)
  BY <1>1, Distinct DEF Init, Leads
<1> QED BY <1>1, <1>3, <1>4, <1>5 DEF WInv

\* What a step leaves alone.
LEMMA LeadsSame ==
  ASSUME NEW f \in Fds, Leads(f), files'[f] = files[f], connList'[f] = connList[f],
         connList[f] # Free => /\ object'[connList[f]].fd = object[connList[f]].fd
                               /\ object'[connList[f]].class = object[connList[f]].class,
         connList[f] \in Conns => sock'[connList[f]].phase \in {sock[connList[f]].phase, "closed"}
  PROVE  Leads(f)'
BY Distinct DEF Leads

\* A step that leaves descriptors, sockets and objects alone.
LEMMA QuietKeeps ==
  ASSUME WInv, UNCHANGED <<files, sock, epoll, connList, object>>, Kernel', AllLive',
         mode' \in {"wait", "dispatch", "ended", "crashed"}
  PROVE  WInv'
<1>1. WType' /\ Emptied' /\ Booting'
  BY DEF WInv, WType, Emptied, Booting
<1>2. \A f \in Fds : Leads(f)'
  BY LeadsSame DEF WInv
<1> QED BY <1>1, <1>2 DEF WInv

LEMMA KernelSame ==
  ASSUME WInv, UNCHANGED <<files, sock, epoll>>, events' \subseteq events
  PROVE  Kernel' /\ AllLive'
BY DEF WInv, Kernel, AllLive, Live, SockType, FileType, EpollType, Owned, Rules, Readable, Writable,
       Queued

LEMMA CrashKeeps ==
  ASSUME WInv, Crash
  PROVE  WInv'
<1>1. UNCHANGED <<files, sock, epoll, events, connList, object>> /\ mode' = "crashed"
  BY DEF Crash, kernel
<1> QED BY <1>1, KernelSame, QuietKeeps

LEMMA FinishEvents ==
  ASSUME NEW e \in events, Finish(e)
  PROVE  events' = events \ {e} /\ mode' \in {"wait", "dispatch"}
BY DEF Finish

\* A new object at the descriptor that was free.
LEMMA PlacedKeeps ==
  ASSUME WInv, NEW x \in Ports \cup Conns, NEW n \in Fds, files[n] = Free,
         NEW class \in {"ConnItemListen", "ConnItemRecv"},
         x \in Ports <=> class = "ConnItemListen", x \in Ports <=> x \notin Conns,
         \A f \in Fds : connList[f] # x,
         files'[n] = x, \A f \in Fds : f # n => files'[f] = files[f],
         object' = [object EXCEPT ![x] = New(class, n)],
         connList' = [connList EXCEPT ![n] = x],
         \A j \in Conns : sock'[j].phase = sock[j].phase \/ sock'[j].phase = "closed" \/ j = x,
         x \in Conns => sock'[x].phase = "open"
  PROVE  (\A f \in Fds : Leads(f)') /\ Emptied' /\ connList' \in [Fds -> Ports \cup Conns \cup {Free}]
         /\ object' \in [Ports \cup Conns -> Object]
<1>1. WType /\ Emptied /\ \A f \in Fds : Leads(f)
  BY DEF WInv
<1>2. /\ New(class, n) \in Object /\ New(class, n).class = class /\ New(class, n).fd = n
      /\ New(class, n).rbuffer = <<>>
  BY NewObject
<1>3. /\ object'[x] = New(class, n)
      /\ \A y \in Ports \cup Conns : y # x => object'[y] = object[y]
  BY <1>1 DEF WType
<1>4. connList'[n] = x /\ \A f \in Fds : f # n => connList'[f] = connList[f]
  BY <1>1 DEF WType
<1>5. Leads(n)'
  BY <1>2, <1>3, <1>4, Distinct DEF Leads
<1>6. ASSUME NEW f \in Fds, f # n PROVE Leads(f)'
  <2>1. connList[f] \in Ports \cup Conns \cup {Free} /\ connList[f] # x
    BY <1>1 DEF WType
  <2>2. connList[f] # Free => object'[connList[f]] = object[connList[f]]
    BY <1>3, <2>1
  <2> QED BY <1>1, <1>4, <1>6, <2>1, <2>2, LeadsSame
<1>7. Emptied'
  BY <1>1, <1>2, <1>3 DEF Emptied
<1>8. connList' \in [Fds -> Ports \cup Conns \cup {Free}] /\ object' \in [Ports \cup Conns -> Object]
  BY <1>1, <1>2 DEF WType
<1> QED BY <1>5, <1>6, <1>7, <1>8

LEMMA InitServerKeeps ==
  ASSUME WInv, NEW p \in Ports, InitServer(p)
  PROVE  WInv'
<1> PICK n : n = LowestFree
  OBVIOUS
<1>0. /\ mode = "boot" /\ events = {} /\ \A f \in Fds : files[f] # p
      /\ FreeFds # {} /\ files' = [files EXCEPT ![n] = p]
      /\ epoll' \in {[epoll EXCEPT ![n] = "in"], epoll}
      /\ object' = [object EXCEPT ![p] = New("ConnItemListen", n)]
      /\ connList' = [connList EXCEPT ![n] = p]
      /\ mode' \in {"wait", "boot"} /\ UNCHANGED <<sock, events>>
  BY DEF WInv, Booting, InitServer, Unbound, set_event
<1>1. /\ Kernel' /\ AllLive' /\ n \in Fds /\ files[n] = Free
      /\ \A f \in Fds : f # n => files'[f] = files[f]
      /\ files'[n] = p
  BY <1>0, KernelBind DEF WInv
<1>2. \A f \in Fds : connList[f] # p
  BY <1>0 DEF WInv, Leads
<1>3. /\ (\A f \in Fds : Leads(f)') /\ Emptied'
      /\ connList' \in [Fds -> Ports \cup Conns \cup {Free}]
      /\ object' \in [Ports \cup Conns -> Object]
  BY <1>0, <1>1, <1>2, Distinct, PlacedKeeps, ZenonT(30)
<1>4. Booting'
  <2>1. WType
    BY DEF WInv
  <2>2. \A f \in Fds : connList'[f] = IF f = n THEN p ELSE connList[f]
    BY <1>0, <2>1 DEF WType
  <2> QED BY <1>0, <2>2, Distinct DEF WInv, Booting
<1> QED BY <1>0, <1>1, <1>3, <1>4 DEF WInv, WType

\* The object of an event is the one of its port or connection.
LEMMA ObjectOf ==
  ASSUME WInv, NEW e \in events
  PROVE  /\ e.fd \in Fds /\ connList[e.fd] = files[e.fd] /\ files[e.fd] \in Ports \cup Conns
         /\ object[files[e.fd]] \in Object /\ object[files[e.fd]].fd = e.fd
         /\ object[files[e.fd]].rbuffer = <<>>
         /\ files[e.fd] \in Ports <=> object[files[e.fd]].class = "ConnItemListen"
         /\ files[e.fd] \in Conns <=> object[files[e.fd]].class = "ConnItemRecv"
         /\ e.ev = "out" => files[e.fd] \in Conns
<1>1. /\ e.fd \in Fds /\ files[e.fd] \in Ports \cup Conns
      /\ e.ev = "out" => files[e.fd] \in Conns
  BY EventOf DEF WInv
<1>2. connList[e.fd] = files[e.fd] /\ Leads(e.fd)
  BY <1>1 DEF WInv, Leads
<1>3. object[files[e.fd]] \in Object /\ object[files[e.fd]].rbuffer = <<>>
  BY <1>1 DEF WInv, WType, Emptied
<1> QED BY <1>1, <1>2, <1>3, Distinct DEF Leads

LEMMA AcceptConnKeeps ==
  ASSUME WInv, NEW e \in events, AcceptConn(e)
  PROVE  WInv'
<1> PICK n : n = LowestFree
  OBVIOUS
<1>0. object[connList[e.fd]].fd = e.fd
  BY ObjectOf
<1>1. PICK k \in Conns :
        /\ FreeFds # {} /\ Queued(k, files[e.fd])
        /\ files' = [files EXCEPT ![n] = k]
        /\ sock' = [sock EXCEPT ![k].phase = "open"]
        /\ object' = [object EXCEPT ![k] = New("ConnItemRecv", n)]
        /\ connList' = [connList EXCEPT ![n] = k]
        /\ epoll' \in {[epoll EXCEPT ![n] = "in"], epoll}
        /\ Finish(e)
  BY <1>0 DEF AcceptConn, PlaceObject, set_event
<1>2. events' = events \ {e} /\ mode' \in {"wait", "dispatch"}
  BY <1>1, FinishEvents
<1>3. /\ Kernel' /\ AllLive' /\ n \in Fds /\ files[n] = Free
      /\ \A f \in Fds : f # n => files'[f] = files[f]
      /\ files'[n] = k
      /\ \A j \in Conns : j # k => sock'[j] = sock[j]
      /\ sock[k].phase = "queued" /\ sock'[k] = [sock[k] EXCEPT !.phase = "open"]
  BY <1>1, <1>2, KernelAccept DEF WInv
<1>4. sock'[k].phase = "open"
  <2>1. sock[k] \in Socket
    BY DEF WInv, Kernel, SockType
  <2> QED BY <1>3, <2>1 DEF Socket
<1>5. \A f \in Fds : connList[f] # k
  BY <1>3 DEF WInv, Leads
<1>6. /\ (\A f \in Fds : Leads(f)') /\ Emptied'
      /\ connList' \in [Fds -> Ports \cup Conns \cup {Free}]
      /\ object' \in [Ports \cup Conns -> Object]
  <2>1. /\ k \in Ports <=> "ConnItemRecv" = "ConnItemListen"
        /\ k \in Ports <=> k \notin Conns
        /\ k \in Ports \cup Conns
    BY Distinct
  <2>2. \A j \in Conns : sock'[j].phase = sock[j].phase \/ sock'[j].phase = "closed" \/ j = k
    BY <1>3
  <2> QED BY <1>1, <1>3, <1>4, <1>5, <2>1, <2>2, PlacedKeeps, ZenonT(30)
<1> QED BY <1>2, <1>3, <1>6 DEF WInv, WType, Booting

LEMMA AcceptFailsKeeps ==
  ASSUME WInv, NEW e \in events, AcceptFails(e)
  PROVE  WInv'
BY KernelSame, FinishEvents, QuietKeeps DEF AcceptFails

LEMMA RecvEndKeeps ==
  ASSUME WInv, NEW e \in events, files[e.fd] \in Conns, RecvEnd(e, files[e.fd])
  PROVE  WInv'
<1> PICK k \in Conns : k = files[e.fd]
  OBVIOUS
<1>1. /\ CloseFd(e.fd) /\ events' = events \ {e} /\ mode' \in {"wait", "dispatch"}
      /\ UNCHANGED <<connList, object>> /\ e.fd \in Fds
  BY ObjectOf, FinishEvents DEF RecvEnd
<1>2. /\ Kernel' /\ AllLive' /\ files' = [files EXCEPT ![e.fd] = Free]
      /\ \A j \in Conns : j # k => sock'[j] = sock[j]
      /\ sock'[k] = [sock[k] EXCEPT !.phase = "closed"]
  BY <1>1, KernelClose DEF WInv
<1>3. sock[k] \in Socket /\ FileType /\ \A f \in Fds : Leads(f)
  BY DEF WInv, Kernel, SockType
<1>4. \A j \in Conns : sock'[j].phase \in {sock[j].phase, "closed"}
  BY <1>2, <1>3 DEF Socket
<1>5. ASSUME NEW f \in Fds PROVE Leads(f)'
  <2>1. CASE f # e.fd
    <3>1. files'[f] = files[f]
      BY <1>1, <1>2, <1>3, <2>1 DEF FileType
    <3> QED BY <1>1, <1>3, <1>4, <3>1, LeadsSame
  <2>2. CASE f = e.fd
    <3>1. files'[f] = Free /\ connList'[f] = k /\ connList[f] = k
      BY <1>1, <1>2, <1>3, <2>2, ObjectOf DEF FileType
    <3>2. sock[k].phase \in {"open", "closed"} /\ object[k].class = "ConnItemRecv" /\ object[k].fd = f
      BY <1>3, <3>1 , Distinct DEF Leads
    <3> QED BY <1>1, <1>4, <3>1, <3>2, Distinct DEF Leads
  <2> QED BY <2>1, <2>2
<1> QED BY <1>1, <1>2, <1>5 DEF WInv, WType, Emptied, Booting

\* A handler that leaves its connection open and its object in place.
LEMMA CallKeeps ==
  ASSUME WInv, NEW e \in events, NEW k \in Conns, files[e.fd] = k, Finish(e),
         files' = files, connList' = connList,
         NEW v \in {"in", "out"}, epoll' = [epoll EXCEPT ![e.fd] = v],
         SockType', Rules(k)', \A j \in Conns : j # k => sock'[j] = sock[j],
         sock'[k].phase = sock[k].phase,
         object' \in [Ports \cup Conns -> Object], Emptied',
         \A x \in Ports \cup Conns : object'[x].fd = object[x].fd /\ object'[x].class = object[x].class
  PROVE  WInv'
<1>1. /\ events' = events \ {e} /\ mode' \in {"wait", "dispatch"}
  BY FinishEvents
<1>2. Kernel' /\ AllLive'
  <2>1. /\ epoll' \in [Fds -> {"none", "in", "out"}]
        /\ \A f \in Fds : f # e.fd => epoll'[f] = epoll[f]
    BY ObjectOf DEF WInv, Kernel, EpollType
  <2> QED BY <1>1, <2>1, KernelHandler DEF WInv
<1>3. ASSUME NEW f \in Fds PROVE Leads(f)'
  <2>1. connList[f] \in Ports \cup Conns \cup {Free}
    BY DEF WInv, WType
  <2> QED BY <2>1, LeadsSame DEF WInv
<1> QED BY <1>1, <1>2, <1>3 DEF WInv, WType, Booting

LEMMA RecvEchoKeeps ==
  ASSUME WInv, NEW e \in events, files[e.fd] \in Conns, RecvEcho(e, files[e.fd])
  PROVE  WInv'
<1> PICK k \in Conns : k = files[e.fd]
  OBVIOUS
<1> PICK n : n = Space(k)
  OBVIOUS
<1> PICK got : got = object[k].rbuffer \o RecvData(k, n)
  OBVIOUS
<1>0. n \in Nat \ {0}
  <2>1. Len(object[k].rbuffer) = 0
    BY ObjectOf, NoBytes
  <2>2. BUFFER_LEN - 0 \in Nat \ {0}
    BY SocketAssumption
  <2> QED BY <2>1, <2>2 DEF Space
<1>1. /\ object' = [object EXCEPT ![k].wbuffer = got, ![k].rbuffer = <<>>]
      /\ sock' = Received(k, n) /\ epoll' = [epoll EXCEPT ![e.fd] = "out"]
      /\ Finish(e) /\ files' = files /\ connList' = connList
  BY ObjectOf DEF RecvEcho, set_event, Keep
<1>2. /\ SockType' /\ Rules(k)' /\ \A j \in Conns : j # k => sock'[j] = sock[j]
      /\ sock'[k].phase = sock[k].phase
  BY <1>0, <1>1, KernelRecv DEF WInv
<1>3. got \in Seq(Byte)
  <2>1. RecvData(k, n) \in Seq(Byte)
    BY <1>0, RecvCounts DEF WInv, Kernel
  <2>2. object[k].rbuffer \in Seq(Byte)
    BY ObjectOf DEF Object
  <2> QED BY <2>1, <2>2, SMTT(30)
<1>4. /\ object[k] \in Object /\ object \in [Ports \cup Conns -> Object] /\ Emptied
  BY ObjectOf DEF WInv, WType
<1>5. /\ object'[k] = [object[k] EXCEPT !.wbuffer = got, !.rbuffer = <<>>]
      /\ \A x \in Ports \cup Conns : x # k => object'[x] = object[x]
  BY <1>1, <1>4
<1>6. /\ object'[k] \in Object /\ object'[k].fd = object[k].fd
      /\ object'[k].class = object[k].class /\ object'[k].rbuffer = <<>>
  BY <1>3, <1>4, <1>5, NoBytes DEF Object
<1>7. object' \in [Ports \cup Conns -> Object]
  <2>1. \A x \in Ports \cup Conns : object'[x] \in Object
    BY <1>4, <1>5, <1>6
  <2>2. object' = [x \in Ports \cup Conns |-> object'[x]]
    BY <1>1, <1>4
  <2> QED BY <2>1, <2>2
<1>8. Emptied'
  BY <1>4, <1>5, <1>6 DEF Emptied
<1> QED BY <1>1, <1>2, <1>5, <1>6, <1>7, <1>8, CallKeeps

LEMMA SendBufferKeeps ==
  ASSUME WInv, NEW e \in events, files[e.fd] \in Conns, SendBuffer(e, files[e.fd])
  PROVE  WInv'
<1> PICK k \in Conns : k = files[e.fd]
  OBVIOUS
<1> PICK n : n = Len(object[k].wbuffer)
  OBVIOUS
<1>1. n \in Nat
  BY ObjectOf DEF Object
<1>2. /\ sock' = SentTo(k, n) /\ epoll' = [epoll EXCEPT ![e.fd] = "in"]
      /\ Finish(e) /\ UNCHANGED <<files, connList, object>>
  BY ObjectOf DEF SendBuffer, set_event
<1>3. /\ SockType' /\ Rules(k)' /\ \A j \in Conns : j # k => sock'[j] = sock[j]
      /\ sock'[k].phase = sock[k].phase
  BY <1>1, <1>2, KernelSend DEF WInv
<1> QED BY <1>2, <1>3, CallKeeps DEF WInv, WType, Emptied

LEMMA DispatchKeeps ==
  ASSUME WInv, Dispatch
  PROVE  WInv'
<1>1. PICK e \in events :
        \/ AcceptFails(e) \/ AcceptConn(e) \/ RecvError(files[e.fd]) \/ SendSignal(files[e.fd])
        \/ files[e.fd] \in Conns /\ (RecvEnd(e, files[e.fd]) \/ RecvEcho(e, files[e.fd])
                                       \/ SendBuffer(e, files[e.fd]))
  BY ObjectOf DEF Dispatch
<1> QED BY <1>1, AcceptFailsKeeps, AcceptConnKeeps, RecvEndKeeps, RecvEchoKeeps, SendBufferKeeps,
           CrashKeeps DEF RecvError, SendSignal

LEMMA ClientsKeep ==
  ASSUME WInv, Clients
  PROVE  WInv'
<1>1. PICK k \in Conns : Client(k, Len(reply[k]) = sock[k].sent)
  BY DEF Clients
<1>2. /\ Kernel' /\ AllLive' /\ UNCHANGED <<files, events, connList, object, mode>>
      /\ \A j \in Conns : \/ sock'[j].phase = sock[j].phase
                          \/ sock[j].phase = "new" /\ sock'[j].phase = "queued"
  BY <1>1, KernelClient DEF WInv, Clients
<1> QED BY <1>2 DEF WInv, WType, Emptied, Booting, Leads

LEMMA NextKeeps ==
  ASSUME WInv, [Next]_vars
  PROVE  WInv'
<1>1. CASE CreateFails
  <2>1. UNCHANGED <<files, sock, epoll, events, connList, object>> /\ mode' = "ended"
    BY <1>1 DEF CreateFails, kernel
  <2> QED BY <2>1, KernelSame, QuietKeeps
<1>2. CASE Wait
  <2>1. EpollWait /\ UNCHANGED <<files, sock, epoll, connList, object>> /\ mode' = "dispatch"
    BY <1>2 DEF Wait, EpollWait
  <2> QED BY <2>1, KernelWait, QuietKeeps DEF WInv
<1>3. CASE UNCHANGED vars
  BY <1>3, KernelSame DEF vars, kernel, WInv, WType, Emptied, Booting, Leads
<1> QED BY <1>1, <1>2, <1>3, InitServerKeeps, CrashKeeps, DispatchKeeps, ClientsKeep
        DEF Next, Server, InitServerFails

LEMMA Invariance == Spec => []WInv
BY InitWInv, NextKeeps, PTL DEF Spec

(***************************************************************************)
(* Every variable keeps its type, and the pointer at a descriptor leads to *)
(* the object that was created for what the descriptor stands for:         *)
(* Server::run may call it without looking at whose it is.                 *)
(***************************************************************************)
THEOREM PointersLeadRight == Spec => []TypeOK
<1>1. ASSUME WInv PROVE TypeOK
  BY <1>1, KernelTypes DEF WInv, WType, Leads, TypeOK
<1> QED BY <1>1, Invariance, PTL

-----------------------------------------------------------------------------
(* The mapping to the server in C: both use the same calls of Sockets. *)

LEMMA SameCalls ==
  /\ CReactor!Fds = Fds /\ CReactor!FreeFds = FreeFds /\ CReactor!LowestFree = LowestFree
  /\ CReactor!Unbound = Unbound
  /\ \A k, x : CReactor!Queued(k, x) <=> Queued(k, x)
  /\ \A k, n : /\ CReactor!RecvCount(k, n) = RecvCount(k, n)
               /\ CReactor!RecvData(k, n) = RecvData(k, n)
               /\ CReactor!Received(k, n) = Received(k, n)
               /\ CReactor!SentTo(k, n) = SentTo(k, n)
  /\ \A k : (CReactor!SendFails(k) <=> SendFails(k)) /\ (CReactor!SendKills(k) <=> SendKills(k))
<1>1. CReactor!Fds = Fds /\ CReactor!FreeFds = FreeFds
  BY DEF Fds, CReactor!Fds, FreeFds, CReactor!FreeFds
<1>2. CReactor!LowestFree = LowestFree
  BY <1>1 DEF LowestFree, CReactor!LowestFree
<1>3. CReactor!Unbound = Unbound
  BY <1>1 DEF Unbound, CReactor!Unbound
<1>4. \A k, x : CReactor!Queued(k, x) <=> Queued(k, x)
  BY DEF Queued, CReactor!Queued
<1>5. \A k, n : CReactor!RecvCount(k, n) = RecvCount(k, n)
  BY DEF RecvCount, CReactor!RecvCount
<1>6. \A k, n : CReactor!RecvData(k, n) = RecvData(k, n)
  BY <1>5 DEF RecvData, CReactor!RecvData
<1>7. \A k, n : CReactor!Received(k, n) = Received(k, n)
  BY <1>5 DEF Received, CReactor!Received
<1>8. \A k, n : CReactor!SentTo(k, n) = SentTo(k, n)
  BY DEF SentTo, CReactor!SentTo
<1>9. \A k : (CReactor!SendFails(k) <=> SendFails(k)) /\ (CReactor!SendKills(k) <=> SendKills(k))
  BY DEF SendFails, CReactor!SendFails, SendKills, CReactor!SendKills
<1> QED BY <1>1, <1>2, <1>3, <1>4, <1>5, <1>6, <1>7, <1>8, <1>9

LEMMA SameSteps ==
  /\ CReactor!SocketsInit <=> SocketsInit
  /\ CReactor!EpollWait <=> EpollWait
  /\ \A f : CReactor!CloseFd(f) <=> CloseFd(f)
  /\ \A f, op, v : CReactor!set_event(f, op, v) <=> set_event(f, op, v)
  /\ \A k, a : CReactor!Client(k, a) <=> Client(k, a)
  /\ \A e \in events : CReactor!Finish(e) <=> Finish(e)
<1>1. CReactor!SocketsInit <=> SocketsInit
  BY SameCalls DEF SocketsInit, CReactor!SocketsInit, NewSocket, CReactor!NewSocket
<1>2. CReactor!EpollWait <=> EpollWait
  BY SameCalls DEF EpollWait, CReactor!EpollWait, Ready, CReactor!Ready, Readable, CReactor!Readable,
                   Writable, CReactor!Writable
<1>3. \A f : CReactor!CloseFd(f) <=> CloseFd(f)
  BY DEF CloseFd, CReactor!CloseFd
<1>4. \A f, op, v : CReactor!set_event(f, op, v) <=> set_event(f, op, v)
  BY DEF set_event, CReactor!set_event
<1>5. \A k, a : CReactor!Client(k, a) <=> Client(k, a)
  BY SameCalls DEF Client, CReactor!Client, Connect, CReactor!Connect, Connected, CReactor!Connected,
                   ClientSend, CReactor!ClientSend, ClientRead, CReactor!ClientRead,
                   ClientClose, CReactor!ClientClose, ResetArrives, CReactor!ResetArrives
<1>6. \A e \in events : CReactor!Finish(e) <=> Finish(e)
  BY DEF Finish, CReactor!Finish, CReactor!Handled
<1> QED BY <1>1, <1>2, <1>3, <1>4, <1>5, <1>6

\* The entries of the C server that the pointers stand for.
Mapped == [f \in Fds |-> Entry(f)]

LEMMA MappedInit == Init => CReactor!Init
<1> SUFFICES ASSUME Init PROVE CReactor!Init
  OBVIOUS
<1>1. \A f \in Fds : Entry(f) = CReactor!NoEntry
  BY DEF Init, Entry, CReactor!NoEntry
<1>2. Mapped = [f \in Fds |-> CReactor!NoEntry]
  BY <1>1 DEF Mapped
<1> QED BY <1>2, SameCalls, SameSteps DEF Init, Mapped, CReactor!Init

LEMMA MappedSame ==
  ASSUME UNCHANGED <<connList, object>>
  PROVE  Mapped' = Mapped
BY DEF Mapped, Entry, Callback

\* One pointer is set to a new object, or one object is written.
LEMMA MappedOne ==
  ASSUME WInv, NEW x \in Ports \cup Conns, NEW n \in Fds,
         \A f \in Fds : f # n => connList'[f] = connList[f] /\ connList[f] # x,
         \A y \in Ports \cup Conns : y # x => object'[y] = object[y]
  PROVE  Mapped' = [Mapped EXCEPT ![n] = Entry(n)']
<1>1. \A f \in Fds : connList[f] \in Ports \cup Conns \cup {Free}
  BY DEF WInv, WType
<1>2. ASSUME NEW f \in Fds, f # n PROVE Entry(f)' = Entry(f)
  BY <1>1, <1>2 DEF Entry, Callback
<1>3. Mapped' = [f \in Fds |-> IF f = n THEN Entry(n)' ELSE Mapped[f]]
  BY <1>2 DEF Mapped
<1>4. Mapped = [f \in Fds |-> Mapped[f]]
  BY DEF Mapped
<1> QED BY <1>3, <1>4

LEMMA MappedInitServer ==
  ASSUME WInv, NEW p \in Ports, InitServer(p)
  PROVE  CReactor!InitServer(p)
<1> PICK n : n = LowestFree
  OBVIOUS
<1>0. /\ mode = "boot" /\ \A f \in Fds : files[f] # p
      /\ FreeFds # {} /\ object' = [object EXCEPT ![p] = New("ConnItemListen", n)]
      /\ connList' = [connList EXCEPT ![n] = p]
  BY DEF InitServer, Unbound
<1>1. n \in Fds /\ files[n] = Free /\ WType
  BY <1>0, Lowest DEF FreeFds, WInv
<1>2. /\ connList'[n] = p /\ object'[p] = New("ConnItemListen", n)
      /\ \A f \in Fds : f # n => connList'[f] = connList[f]
      /\ \A y \in Ports \cup Conns : y # p => object'[y] = object[y]
  BY <1>0, <1>1 DEF WType
<1>3. \A f \in Fds : connList[f] # p
  BY <1>0 DEF WInv, Leads
<1>4. connList[n] = Free
  BY <1>0, <1>1, Distinct DEF WType, WInv, Booting, Leads
<1>5. Entry(n)' = [callback |-> "accept", rbuffer |-> <<>>, wbuffer |-> <<>>]
  BY <1>2, Distinct DEF Entry, Callback, New
<1>6. Mapped[n] = [callback |-> "none", rbuffer |-> <<>>, wbuffer |-> <<>>]
  BY <1>1, <1>4 DEF Mapped, Entry
<1>7. Mapped' = [Mapped EXCEPT ![n].callback = "accept"]
  <2>1. \A f \in Fds : f # n => connList'[f] = connList[f] /\ connList[f] # p
    BY <1>2, <1>3
  <2>2. Mapped' = [Mapped EXCEPT ![n] = Entry(n)']
    BY <1>1, <1>2, <2>1, MappedOne
  <2>3. [Mapped[n] EXCEPT !.callback = "accept"] = Entry(n)'
    BY <1>5, <1>6
  <2> QED BY <2>2, <2>3
<1> QED BY <1>7, SameCalls, SameSteps DEF InitServer, Mapped, CReactor!InitServer

LEMMA MappedCrash == Crash => CReactor!Crash
BY MappedSame DEF Crash, CReactor!Crash, kernel, CReactor!kernel, Mapped

LEMMA MappedQuiet ==
  /\ CreateFails => CReactor!CreateFails
  /\ InitServerFails => CReactor!InitServerFails
  /\ Wait => CReactor!Wait
<1>1. CreateFails => CReactor!CreateFails
  BY SameCalls, MappedSame DEF CreateFails, CReactor!CreateFails, kernel, CReactor!kernel, Mapped
<1>2. InitServerFails => CReactor!InitServerFails
  BY SameCalls, MappedCrash DEF InitServerFails, CReactor!InitServerFails
<1>3. Wait => CReactor!Wait
  BY SameSteps, MappedSame DEF Wait, CReactor!Wait, Mapped
<1> QED BY <1>1, <1>2, <1>3

\* What the pointer of an event's descriptor stands for.
LEMMA MappedEvent ==
  ASSUME WInv, NEW e \in events
  PROVE  /\ Mapped[e.fd] = [callback |-> IF files[e.fd] \in Ports THEN "accept" ELSE "recv",
                            rbuffer |-> object[files[e.fd]].rbuffer,
                            wbuffer |-> object[files[e.fd]].wbuffer]
         /\ CReactor!Space(e.fd) = Space(files[e.fd])
<1>1. Mapped[e.fd] = [callback |-> IF files[e.fd] \in Ports THEN "accept" ELSE "recv",
                      rbuffer |-> object[files[e.fd]].rbuffer,
                      wbuffer |-> object[files[e.fd]].wbuffer]
  BY ObjectOf, Distinct DEF Mapped, Entry, Callback
<1> QED BY <1>1 DEF Space, CReactor!Space, Mapped

LEMMA MappedAccept ==
  ASSUME WInv, NEW e \in events, AcceptConn(e)
  PROVE  CReactor!AcceptConn(e)
<1> PICK n : n = LowestFree
  OBVIOUS
<1>0. object[connList[e.fd]].fd = e.fd
  BY ObjectOf
<1>1. PICK k \in Conns :
        /\ FreeFds # {}
        /\ Queued(k, files[e.fd])
        /\ files' = [files EXCEPT ![n] = k]
        /\ sock' = [sock EXCEPT ![k].phase = "open"]
        /\ object' = [object EXCEPT ![k] = New("ConnItemRecv", n)]
        /\ connList' = [connList EXCEPT ![n] = k]
        /\ set_event(n, "ADD", "in")
        /\ Finish(e)
        /\ UNCHANGED reply
  BY <1>0 DEF AcceptConn, PlaceObject
<1>2. n \in Fds /\ WType
  BY <1>1, Lowest DEF FreeFds, WInv
<1>3. /\ connList'[n] = k /\ object'[k] = New("ConnItemRecv", n)
      /\ \A f \in Fds : f # n => connList'[f] = connList[f]
      /\ \A y \in Ports \cup Conns : y # k => object'[y] = object[y]
  BY <1>1, <1>2 DEF WType
<1>4. \A f \in Fds : connList[f] # k
  BY <1>1 DEF WInv, Leads, Queued
<1>5. Entry(n)' = CReactor!NewEntry
  BY <1>3, Distinct DEF Entry, Callback, New, CReactor!NewEntry
<1>6. Mapped' = [Mapped EXCEPT ![n] = CReactor!NewEntry]
  <2>1. \A f \in Fds : f # n => connList'[f] = connList[f] /\ connList[f] # k
    BY <1>3, <1>4
  <2>2. Mapped' = [Mapped EXCEPT ![n] = Entry(n)']
    BY <1>2, <1>3, <2>1, MappedOne
  <2> QED BY <1>5, <2>2
<1> QED BY <1>1, <1>6, SameCalls, SameSteps DEF Mapped, CReactor!AcceptConn

\* What is written to the two buffers of an entry.
LEMMA WriteWbuffer ==
  ASSUME NEW a, NEW b, NEW m, m = [callback |-> "recv", rbuffer |-> a, wbuffer |-> b],
         NEW z, NEW r, r = [m EXCEPT !.wbuffer = z]
  PROVE  r = [callback |-> "recv", rbuffer |-> a, wbuffer |-> z]
OBVIOUS

LEMMA WriteRbuffer ==
  ASSUME NEW a, NEW b, NEW m, m = [callback |-> "recv", rbuffer |-> a, wbuffer |-> b],
         NEW z, NEW r, r = [m EXCEPT !.rbuffer = z]
  PROVE  r = [callback |-> "recv", rbuffer |-> z, wbuffer |-> b]
OBVIOUS

LEMMA MappedRecvEcho ==
  ASSUME WInv, NEW e \in events, files[e.fd] \in Conns, RecvEcho(e, files[e.fd])
  PROVE  CReactor!RecvEcho(e)
<1> PICK k \in Conns : k = files[e.fd]
  OBVIOUS
<1> PICK got : got = object[k].rbuffer \o RecvData(k, Space(k))
  OBVIOUS
<1>0. /\ RecvCount(k, Space(k)) > 0
      /\ object' = [object EXCEPT ![k].wbuffer = got, ![k].rbuffer = <<>>]
      /\ sock' = Received(k, Space(k))
      /\ set_event(e.fd, "MOD", "out")
      /\ Finish(e)
      /\ UNCHANGED <<files, connList, reply>>
  BY ObjectOf DEF RecvEcho, Keep
<1>1. /\ e.fd \in Fds /\ connList[e.fd] = k /\ k # Free /\ object[k] \in Object /\ WType
      /\ Mapped[e.fd] = [callback |-> "recv", rbuffer |-> object[k].rbuffer,
                         wbuffer |-> object[k].wbuffer]
      /\ CReactor!Space(e.fd) = Space(k) /\ object[k].class = "ConnItemRecv"
  BY ObjectOf, MappedEvent, Distinct DEF WInv
<1>2. \A f \in Fds : f # e.fd => connList[f] # k
  <2>1. object[k].fd = e.fd
    BY ObjectOf
  <2> QED BY <1>1, <2>1 DEF WInv, Leads
<1>3. /\ object'[k] = [object[k] EXCEPT !.wbuffer = got, !.rbuffer = <<>>]
      /\ \A y \in Ports \cup Conns : y # k => object'[y] = object[y]
  BY <1>0, <1>1 DEF WType
<1>4. /\ object'[k].class = "ConnItemRecv" /\ object'[k].wbuffer = got
      /\ object'[k].rbuffer = <<>>
  BY <1>1, <1>3 DEF Object
<1>5. Entry(e.fd)' = [callback |-> "recv", rbuffer |-> <<>>, wbuffer |-> got]
  BY <1>0, <1>1, <1>4, Distinct DEF Entry, Callback
<1>6. Mapped' = [Mapped EXCEPT ![e.fd].wbuffer = got, ![e.fd].rbuffer = <<>>]
  <2>1. \A f \in Fds : f # e.fd => connList'[f] = connList[f] /\ connList[f] # k
    BY <1>0, <1>2
  <2>2. Mapped' = [Mapped EXCEPT ![e.fd] = Entry(e.fd)']
    BY <1>1, <1>3, <2>1, MappedOne, ZenonT(30)
  <2>3. [Mapped[e.fd] EXCEPT !.wbuffer = got, !.rbuffer = <<>>] = Entry(e.fd)'
    <3>1. PICK m, a, b : m = Mapped[e.fd] /\ a = object[k].rbuffer /\ b = object[k].wbuffer
      BY Zenon
    <3>2. m = [callback |-> "recv", rbuffer |-> a, wbuffer |-> b]
      BY <1>1, <3>1, Zenon
    <3>3. PICK w : w = [m EXCEPT !.wbuffer = got]
      OBVIOUS
    <3>4. PICK z, r : z = <<>> /\ r = [w EXCEPT !.rbuffer = z]
      OBVIOUS
    <3>5. r = [callback |-> "recv", rbuffer |-> z, wbuffer |-> got]
      <4>1. w = [callback |-> "recv", rbuffer |-> a, wbuffer |-> got]
        BY <3>2, <3>3, WriteWbuffer
      <4> QED BY <3>4, <4>1, WriteRbuffer
    <3>6. [m EXCEPT !.wbuffer = got, !.rbuffer = <<>>] = r
      BY <3>3, <3>4
    <3> QED BY <1>5, <3>1, <3>4, <3>5, <3>6, Zenon
  <2>4. [Mapped EXCEPT ![e.fd].wbuffer = got, ![e.fd].rbuffer = <<>>]
          = [Mapped EXCEPT ![e.fd] = [Mapped[e.fd] EXCEPT !.wbuffer = got, !.rbuffer = <<>>]]
    BY <1>1 DEF Mapped
  <2> QED BY <2>2, <2>3, <2>4
<1>7. Mapped[e.fd].rbuffer = object[k].rbuffer
  <2>1. PICK m, a, b : m = Mapped[e.fd] /\ a = object[k].rbuffer /\ b = object[k].wbuffer
    BY Zenon
  <2>2. m = [callback |-> "recv", rbuffer |-> a, wbuffer |-> b]
    BY <1>1, <2>1, Zenon
  <2>3. m.rbuffer = a
    BY <2>2
  <2> QED BY <2>1, <2>3, Zenon
<1> QED BY <1>0, <1>1, <1>6, <1>7, SameCalls, SameSteps
        DEF Mapped, CReactor!RecvEcho, CReactor!Keep, CReactor!AfterRecv

LEMMA MappedDispatch ==
  ASSUME WInv, Dispatch
  PROVE  CReactor!Dispatch
<1>1. PICK e \in events :
        /\ mode = "dispatch"
        /\ \/ e.ev = "in" /\ files[e.fd] \in Ports /\ (AcceptFails(e) \/ AcceptConn(e))
           \/ /\ e.ev = "in" /\ files[e.fd] \in Conns
              /\ \/ RecvEnd(e, files[e.fd]) \/ RecvError(files[e.fd]) \/ RecvEcho(e, files[e.fd])
           \/ /\ e.ev = "out" /\ files[e.fd] \in Conns
              /\ SendBuffer(e, files[e.fd]) \/ SendSignal(files[e.fd])
  BY ObjectOf DEF Dispatch
<1>2. /\ e.fd \in Fds /\ object[files[e.fd]].fd = e.fd
      /\ Mapped[e.fd].callback = IF files[e.fd] \in Ports THEN "accept" ELSE "recv"
      /\ Mapped[e.fd].wbuffer = object[files[e.fd]].wbuffer
      /\ CReactor!Space(e.fd) = Space(files[e.fd])
      /\ files[e.fd] \in Conns => files[e.fd] \notin Ports
  <2>1. Mapped[e.fd] = [callback |-> IF files[e.fd] \in Ports THEN "accept" ELSE "recv",
                        rbuffer |-> object[files[e.fd]].rbuffer,
                        wbuffer |-> object[files[e.fd]].wbuffer]
        /\ CReactor!Space(e.fd) = Space(files[e.fd])
    BY MappedEvent
  <2>2. /\ e.fd \in Fds /\ object[files[e.fd]].fd = e.fd
        /\ files[e.fd] \in Conns => files[e.fd] \notin Ports
    BY ObjectOf, Distinct
  <2>3. /\ Mapped[e.fd].callback = IF files[e.fd] \in Ports THEN "accept" ELSE "recv"
        /\ Mapped[e.fd].wbuffer = object[files[e.fd]].wbuffer
    BY <2>1
  <2> QED BY <2>1, <2>2, <2>3
<1>3. AcceptFails(e) => CReactor!AcceptFails(e)
  BY SameCalls, SameSteps, MappedSame DEF AcceptFails, CReactor!AcceptFails, Mapped
<1>4. AcceptConn(e) => CReactor!AcceptConn(e)
  BY MappedAccept
<1>5. RecvEnd(e, files[e.fd]) => CReactor!RecvEnd(e)
  BY <1>2, SameCalls, SameSteps, MappedSame DEF RecvEnd, CReactor!RecvEnd, Mapped
<1>6. RecvError(files[e.fd]) => CReactor!RecvError(e)
  BY <1>2, SameCalls, MappedCrash DEF RecvError, CReactor!RecvError
<1>7. files[e.fd] \in Conns /\ RecvEcho(e, files[e.fd]) => CReactor!RecvEcho(e)
  BY MappedRecvEcho
<1>8. SendBuffer(e, files[e.fd]) => CReactor!SendBuffer(e)
  BY <1>2, SameCalls, SameSteps, MappedSame
  DEF SendBuffer, CReactor!SendBuffer, CReactor!AfterSend, Mapped
<1>9. SendSignal(files[e.fd]) => CReactor!SendSignal(e)
  BY <1>2, SameCalls, MappedCrash DEF SendSignal, CReactor!SendSignal
<1> QED BY <1>1, <1>2, <1>3, <1>4, <1>5, <1>6, <1>7, <1>8, <1>9
        DEF Mapped, CReactor!Dispatch, CReactor!accept_cb, CReactor!recv_cb, CReactor!send_cb

LEMMA MappedClients == Clients => CReactor!Clients
BY SameSteps, MappedSame DEF Clients, CReactor!Clients, CReactor!Answered, Mapped

(***************************************************************************)
(* The server of WebServerDemo implements the server in C: every step of   *)
(* it is one of reactor.c or changes nothing there, whatever descriptors   *)
(* are reused and whatever objects are left behind.                        *)
(***************************************************************************)
THEOREM ObjectsImplementEntries == Spec => ImplementsReactor
<1>1. ASSUME WInv, [Next]_vars
      PROVE  [CReactor!Next]_(CReactor!vars)
  <2>1. UNCHANGED vars => UNCHANGED CReactor!vars
    BY MappedSame DEF vars, CReactor!vars, kernel, CReactor!kernel, Mapped
  <2>2. Server => CReactor!Server
    BY <1>1, MappedInitServer, MappedQuiet, MappedDispatch DEF Server, CReactor!Server
  <2> QED BY <1>1, <2>1, <2>2, MappedClients DEF Next, CReactor!Next
<1> QED BY <1>1, Invariance, MappedInit, PTL DEF Spec, ImplementsReactor, CReactor!Spec

-----------------------------------------------------------------------------
(***************************************************************************)
(* What is proved of the server in C holds of the objects: ReactorProofs,  *)
(* about the entries that the pointers stand for.                          *)
(***************************************************************************)
Proved == INSTANCE ReactorProofs WITH connlist <- [f \in Fds |-> Entry(f)]

LEMMA SameSpec == CReactor!Spec => Proved!Spec
BY DEF CReactor!kernel, Proved!kernel, CReactor!Fds, Proved!Fds, CReactor!FreeFds,
       Proved!FreeFds, CReactor!LowestFree, Proved!LowestFree, CReactor!Events, Proved!Events,
       CReactor!NewSocket, Proved!NewSocket, CReactor!Queued, Proved!Queued, CReactor!Readable,
       Proved!Readable, CReactor!Writable, Proved!Writable, CReactor!RecvCount,
       Proved!RecvCount, CReactor!RecvData, Proved!RecvData, CReactor!Received, Proved!Received,
       CReactor!SendFails, Proved!SendFails, CReactor!SendKills, Proved!SendKills,
       CReactor!SentTo, Proved!SentTo, CReactor!SendReturns, Proved!SendReturns,
       CReactor!CloseFd, Proved!CloseFd, CReactor!Ready, Proved!Ready, CReactor!EpollWait,
       Proved!EpollWait, CReactor!Connect, Proved!Connect, CReactor!Connected, Proved!Connected,
       CReactor!ClientSend, Proved!ClientSend, CReactor!ClientRead, Proved!ClientRead,
       CReactor!ClientClose, Proved!ClientClose, CReactor!ResetArrives, Proved!ResetArrives,
       CReactor!Client, Proved!Client, CReactor!SocketsInit, Proved!SocketsInit, CReactor!vars,
       Proved!vars, CReactor!NoEntry, Proved!NoEntry, CReactor!NewEntry, Proved!NewEntry,
       CReactor!Init, Proved!Init, CReactor!Crash, Proved!Crash, CReactor!set_event,
       Proved!set_event, CReactor!Unbound, Proved!Unbound, CReactor!CreateFails,
       Proved!CreateFails, CReactor!InitServer, Proved!InitServer, CReactor!InitServerFails,
       Proved!InitServerFails, CReactor!Wait, Proved!Wait, CReactor!Handled, Proved!Handled,
       CReactor!Finish, Proved!Finish, CReactor!AcceptFails, Proved!AcceptFails,
       CReactor!AcceptConn, Proved!AcceptConn, CReactor!accept_cb, Proved!accept_cb,
       CReactor!Space, Proved!Space, CReactor!RecvEnd, Proved!RecvEnd, CReactor!RecvError,
       Proved!RecvError, CReactor!Keep, Proved!Keep, CReactor!AfterRecv, Proved!AfterRecv,
       CReactor!RecvEcho, Proved!RecvEcho, CReactor!recv_cb, Proved!recv_cb, CReactor!AfterSend,
       Proved!AfterSend, CReactor!SendBuffer, Proved!SendBuffer, CReactor!SendSignal,
       Proved!SendSignal, CReactor!send_cb, Proved!send_cb, CReactor!Dispatch, Proved!Dispatch,
       CReactor!Server, Proved!Server, CReactor!Answered, Proved!Answered, CReactor!Clients,
       Proved!Clients, CReactor!Next, Proved!Next, CReactor!Spec, Proved!Spec

LEMMA ImplementsProved == Spec => Proved!Spec
BY ObjectsImplementEntries, SameSpec DEF ImplementsReactor

(***************************************************************************)
(* No byte is lost, repeated, reordered or sent from another connection's  *)
(* object: ConnItemRecv::epollInCallBack and ConnItem::epollOutCallBack,   *)
(* through pointers that are overwritten whenever a descriptor is reused.  *)
(***************************************************************************)
THEOREM ObjectsEcho == Spec => []Echoes
<1>1. ASSUME WInv, Proved!Echoes PROVE Echoes
  <2>1. ASSUME NEW k \in Conns PROVE Proved!Pending(k) = Pending(k)
    <3>1. CASE ~\E f \in Fds : files[f] = k /\ epoll[f] = "out"
      BY <3>1 DEF Pending, Proved!Pending, Fds, Proved!Fds
    <3>2. CASE \E f \in Fds : files[f] = k /\ epoll[f] = "out"
      <4> DEFINE g == CHOOSE f \in Fds : files[f] = k
      <4>1. g \in Fds /\ files[g] = k
        BY <3>2
      <4>2. connList[g] = k /\ k # Free
        BY <1>1, <2>1, <4>1, SocketAssumption DEF WInv, Leads
      <4>3. Entry(g).wbuffer = object[k].wbuffer
        BY <4>2 DEF Entry
      <4> QED BY <3>2, <4>1, <4>3 DEF Pending, Proved!Pending, Fds, Proved!Fds
    <3> QED BY <3>1, <3>2
  <2> QED BY <1>1, <2>1 DEF Echoes, Proved!Echoes, Sent, Proved!Sent
<1>2. Spec => []Proved!Echoes
  BY ImplementsProved, Proved!EchoesInOrder, SocketAssumption
<1> QED BY <1>1, <1>2, Invariance, PTL

(***************************************************************************)
(* An event of a batch is still true when Server::run comes to it, whatever*)
(* the virtual callbacks before it closed and accepted.                    *)
(***************************************************************************)
THEOREM ObjectsSeeTrueEvents == Spec => []EventsStayTrue
<1>1. Proved!EventsStayTrue => EventsStayTrue
  BY DEF EventsStayTrue, CReactor!EventsStayTrue, Proved!EventsStayTrue,
         CReactor!Readable, Proved!Readable, CReactor!Queued, Proved!Queued,
         CReactor!Writable, Proved!Writable
<1>2. Spec => []Proved!EventsStayTrue
  BY ImplementsProved, Proved!BatchStaysTrue, SocketAssumption
<1> QED BY <1>1, <1>2, PTL

(***************************************************************************)
(* Once it listens, only a client that closes before it has read all of its*)
(* answer brings the server down.                                          *)
(***************************************************************************)
THEOREM ObjectsOutliveOthers == Spec => []OnlyEarlyCloseKills
<1>1. Proved!OnlyEarlyCloseKills => OnlyEarlyCloseKills
  BY DEF OnlyEarlyCloseKills, CReactor!OnlyEarlyCloseKills, Proved!OnlyEarlyCloseKills,
         CReactor!Unbound, Proved!Unbound, CReactor!Fds, Proved!Fds,
         CReactor!ClosedEarly, Proved!ClosedEarly
<1>2. Spec => []Proved!OnlyEarlyCloseKills
  BY ImplementsProved, Proved!OthersDoNoHarm, SocketAssumption
<1> QED BY <1>1, <1>2, PTL

\* A server whose clients wait for their echo is not brought down.
THEOREM PatientClientsDoNoHarm ==
  ASSUME Hasty = FALSE
  PROVE  Spec => [](mode = "crashed" => Unbound # {})
<1>1. Proved!Unbound = Unbound
  BY DEF Unbound, Proved!Unbound, Fds, Proved!Fds
<1>2. Proved!Spec => [](mode = "crashed" => Proved!Unbound # {})
  BY Proved!PatientClientsDoNoHarm, SocketAssumption
<1>3. (mode = "crashed" => Proved!Unbound # {}) => (mode = "crashed" => Unbound # {})
  BY <1>1
<1> QED BY <1>2, <1>3, ImplementsProved, PTL

\* What is open is watched, and its pointer leads to its own object.
OpenReachesItsObject ==
  \A f \in Fds : files[f] \in Ports \cup Conns =>
    /\ epoll[f] # "none"
    /\ connList[f] = files[f] /\ object[files[f]].fd = f
    /\ object[files[f]].class = IF files[f] \in Ports THEN "ConnItemListen" ELSE "ConnItemRecv"

(***************************************************************************)
(* When no EPOLL_CTL_ADD fails, Server::run loses no descriptor: whatever  *)
(* is open is watched, and its events reach the object made for it and     *)
(* nobody else's, ConnItemListen's accept or ConnItemRecv's recv.          *)
(***************************************************************************)
THEOREM ObjectsAreReached ==
  ASSUME AddMayFail = FALSE
  PROVE  Spec => []OpenReachesItsObject
<1>1. ASSUME WInv, Proved!RightCallback PROVE OpenReachesItsObject
  <2> SUFFICES ASSUME NEW f \in Fds, files[f] \in Ports \cup Conns
               PROVE  /\ epoll[f] # "none"
                      /\ connList[f] = files[f] /\ object[files[f]].fd = f
                      /\ object[files[f]].class = IF files[f] \in Ports THEN "ConnItemListen" ELSE "ConnItemRecv"
    BY DEF OpenReachesItsObject
  <2>1. epoll[f] # "none"
    BY <1>1 DEF Proved!RightCallback, Proved!Fds, Fds
  <2>2. connList[f] = files[f] /\ files[f] # Free
    BY <1>1, SocketAssumption DEF WInv, Leads
  <2>3. object[files[f]].fd = f
    BY <1>1, <2>2 DEF WInv, Leads
  <2>4. object[files[f]].class = IF files[f] \in Ports THEN "ConnItemListen" ELSE "ConnItemRecv"
    BY <1>1, <2>2, SocketAssumption DEF WInv, Leads
  <2> QED BY <2>1, <2>2, <2>3, <2>4
<1>2. Proved!Spec => []Proved!RightCallback
  BY Proved!OpenIsWatched, SocketAssumption
<1> QED BY <1>1, <1>2, ImplementsProved, Invariance, PTL
=============================================================================
