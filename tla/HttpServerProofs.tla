-------------------------- MODULE HttpServerProofs --------------------------
(***************************************************************************)
(* The HTTP server, for every number of connections and descriptors and    *)
(* every buffer size: its properties follow from one inductive invariant,  *)
(* HInv.                                                                   *)
(***************************************************************************)
EXTENDS HttpServerProps, SocketsProofs

Entry == [callback : {"none", "accept", "recv"}, rlen : 0 .. BUFFER_LEN, wlen : {0, 1}]

HType == /\ conn_list \in [Fds -> Entry]
         /\ requests \in [Conns -> Nat] /\ responses \in [Conns -> Nat]
         /\ failed \subseteq Conns
         /\ mode \in {"start", "wait", "dispatch", "ended", "killed"}

\* Before it is accepted, nothing of a connection was received or answered.
Waiting(k) ==
  sock[k].phase \in {"new", "queued"} =>
    Len(sock[k].in) = sock[k].sent /\ requests[k] = 0 /\ responses[k] = 0

\* The entry of a connection that is watched is its own: rlen counts what it
\* sent, each request took a byte of it, and only a filled wbuffer is sent.
Served(f) ==
  Watched(f) =>
    LET k == files[f] IN
    /\ conn_list[f].callback = "recv"
    /\ conn_list[f].rlen + Len(sock[k].in) = sock[k].sent
    /\ requests[k] <= conn_list[f].rlen
    /\ epoll[f] = "out" => conn_list[f].wlen = 1
    /\ k \notin failed => requests[k] = responses[k] + IF epoll[f] = "out" THEN 1 ELSE 0

Listening == \A f \in Fds : files[f] \in Ports => conn_list[f].callback = "accept"
NotYet == mode = "start" =>
            events = {} /\ \A f \in Fds : files[f] = IF f < Stdio THEN Other ELSE Free

HInv == /\ Kernel /\ AllLive /\ HType /\ Listening /\ NotYet /\ OnlyEarlyCloseKills
        /\ (\A k \in Conns : Waiting(k)) /\ (\A f \in Fds : Served(f))

-----------------------------------------------------------------------------

LEMMA NewIsEntry == UnsetEntry \in Entry /\ \A old : NewEntry(old) \in Entry
BY SocketAssumption DEF UnsetEntry, NewEntry, Entry

LEMMA InitHInv ==
  ASSUME Init
  PROVE  HInv
<1>1. /\ Kernel /\ AllLive /\ events = {}
      /\ \A f \in Fds : files[f] \in {Free, Other} /\ epoll[f] = "none"
      /\ \A k \in Conns : sock[k].phase = "new" /\ sock[k].in = <<>> /\ sock[k].sent = 0
  BY InitKernel DEF Init, SocketsInit
<1>2. HType
  BY NewIsEntry DEF Init, HType
<1>3. Listening /\ \A f \in Fds : Served(f)
  BY <1>1, Distinct DEF Listening, Served, Watched
<1>4. NotYet /\ OnlyEarlyCloseKills
  BY DEF Init, SocketsInit, NotYet, OnlyEarlyCloseKills
<1>5. \A k \in Conns : Waiting(k)
  BY <1>1 DEF Init, Waiting
<1> QED BY <1>1, <1>2, <1>3, <1>4, <1>5 DEF HInv

\* What a step leaves alone.
LEMMA WaitingSame ==
  ASSUME NEW k \in Conns, Waiting(k), sock'[k] = sock[k], requests'[k] = requests[k],
         responses'[k] = responses[k]
  PROVE  Waiting(k)'
BY DEF Waiting

LEMMA ServedSame ==
  ASSUME NEW f \in Fds, Served(f), files'[f] = files[f], epoll'[f] = epoll[f],
         conn_list'[f] = conn_list[f], failed \subseteq failed',
         files[f] \in Conns => /\ sock'[files[f]] = sock[files[f]]
                               /\ requests'[files[f]] = requests[files[f]]
                               /\ responses'[files[f]] = responses[files[f]]
  PROVE  Served(f)'
BY DEF Served, Watched

\* A step that leaves everything but the mode and the batch alone.
LEMMA QuietKeeps ==
  ASSUME HInv, UNCHANGED <<files, sock, epoll, conn_list, history>>,
         Kernel', AllLive', mode' \in {"wait", "dispatch", "ended", "killed"},
         mode' = "killed" => \E k \in Conns : sock[k].phase = "open" /\ ClosedEarly(k)
  PROVE  HInv'
<1>1. UNCHANGED <<requests, responses, failed>>
  BY DEF history
<1>2. HType' /\ Listening' /\ NotYet'
  BY <1>1 DEF HInv, HType, Listening, NotYet
<1>3. \A k \in Conns : Waiting(k)'
  BY <1>1, WaitingSame DEF HInv
<1>4. \A f \in Fds : Served(f)'
  BY <1>1, ServedSame DEF HInv
<1>5. OnlyEarlyCloseKills'
  BY <1>1 DEF OnlyEarlyCloseKills, ClosedEarly
<1> QED BY <1>2, <1>3, <1>4, <1>5 DEF HInv

LEMMA KernelSame ==
  ASSUME HInv, UNCHANGED <<files, sock, epoll>>, events' \subseteq events
  PROVE  Kernel' /\ AllLive'
BY DEF HInv, Kernel, AllLive, Live, SockType, FileType, EpollType, Owned, Rules, Readable, Writable,
       Queued

LEMMA StartKeeps ==
  ASSUME HInv, NEW p \in Ports, Start(p)
  PROVE  HInv'
<1> PICK n : n = LowestFree
  OBVIOUS
<1>0. /\ files' = [files EXCEPT ![n] = p] /\ epoll' = [epoll EXCEPT ![n] = "in"]
      /\ conn_list' = [conn_list EXCEPT ![n].callback = "accept"] /\ mode' = "wait"
      /\ UNCHANGED <<sock, events, requests, responses, failed>>
      /\ mode = "start"
  BY DEF Start, history
<1>1. /\ events = {} /\ FreeFds # {} /\ \A f \in Fds : files[f] # p /\ files[f] \notin Conns
  <2>1. \A f \in Fds : files[f] = IF f < Stdio THEN Other ELSE Free
    BY <1>0 DEF HInv, NotYet
  <2>2. Stdio \in Fds
    BY SocketAssumption DEF Fds
  <2>3. files[Stdio] = Free
    BY <2>1, <2>2, SocketAssumption
  <2>4. events = {}
    BY <1>0 DEF HInv, NotYet
  <2> QED BY <2>1, <2>2, <2>3, <2>4, Distinct DEF FreeFds
<1>2. /\ Kernel' /\ AllLive' /\ n \in Fds
      /\ \A f \in Fds : f # n => files'[f] = files[f] /\ epoll'[f] = epoll[f]
      /\ files'[n] = p
  BY <1>0, <1>1, KernelBind DEF HInv
<1>3. HType'
  <2>1. conn_list[n] \in Entry
    BY <1>2 DEF HInv, HType
  <2>2. [conn_list[n] EXCEPT !.callback = "accept"] \in Entry
    BY <2>1 DEF Entry
  <2> QED BY <1>0, <2>2 DEF HInv, HType
<1>4. Listening' /\ NotYet'
  <2>1. conn_list[n] \in Entry
    BY <1>2 DEF HInv, HType
  <2>2. conn_list'[n].callback = "accept" /\ \A f \in Fds : f # n => conn_list'[f] = conn_list[f]
    BY <1>0, <1>2, <2>1 DEF HInv, HType, Entry
  <2> QED BY <1>0, <1>2, <2>2 DEF HInv, Listening, NotYet
<1>5. \A k \in Conns : Waiting(k)'
  BY <1>0, WaitingSame DEF HInv
<1>6. \A f \in Fds : Served(f)'
  BY <1>1, <1>2, Distinct DEF Served, Watched
<1>7. OnlyEarlyCloseKills'
  BY <1>0 DEF OnlyEarlyCloseKills
<1> QED BY <1>2, <1>3, <1>4, <1>5, <1>6, <1>7 DEF HInv

LEMMA WaitStepKeeps ==
  ASSUME HInv, Wait
  PROVE  HInv'
<1>1. EpollWait /\ UNCHANGED <<conn_list, history, files, sock, epoll>> /\ mode' = "dispatch"
  BY DEF Wait, EpollWait
<1>2. Kernel' /\ AllLive'
  BY <1>1, KernelWait DEF HInv
<1> QED BY <1>1, <1>2, QuietKeeps

\* The loop goes on.
LEMMA FinishModes ==
  ASSUME HInv, NEW e \in events, Finish(e)
  PROVE  /\ events' = events \ {e} /\ NotYet' /\ OnlyEarlyCloseKills'
         /\ mode' \in {"wait", "dispatch"}
BY DEF Finish, Handled, NotYet, OnlyEarlyCloseKills

LEMMA AcceptFailsKeeps ==
  ASSUME HInv, NEW e \in events, AcceptFails(e)
  PROVE  HInv'
<1>1. /\ UNCHANGED <<files, sock, epoll, conn_list, history>>
      /\ events' = events \ {e} /\ mode' \in {"wait", "dispatch"}
  BY FinishModes DEF AcceptFails
<1> QED BY <1>1, KernelSame, QuietKeeps

LEMMA AcceptConnKeeps ==
  ASSUME HInv, NEW e \in events, AcceptConn(e)
  PROVE  HInv'
<1> PICK n : n = LowestFree
  OBVIOUS
<1>0. PICK k \in Conns :
        /\ FreeFds # {} /\ Queued(k, files[e.fd])
        /\ files' = [files EXCEPT ![n] = k]
        /\ sock' = [sock EXCEPT ![k].phase = "open"]
        /\ \/ /\ epoll' = [epoll EXCEPT ![n] = "in"] /\ failed' = failed
              /\ conn_list' = [conn_list EXCEPT ![n] = NewEntry(@)]
           \/ epoll' = epoll /\ failed' = failed \cup {k} /\ conn_list' = conn_list
        /\ Finish(e) /\ UNCHANGED <<requests, responses>>
  BY DEF AcceptConn, set_event
<1>1. events' = events \ {e} /\ NotYet' /\ OnlyEarlyCloseKills' /\ mode' \in {"wait", "dispatch"}
  BY <1>0, FinishModes
<1>2. /\ Kernel' /\ AllLive'
      /\ n \in Fds /\ files[n] = Free
      /\ \A f \in Fds : f # n => files'[f] = files[f] /\ epoll'[f] = epoll[f]
      /\ files'[n] = k
      /\ \A j \in Conns : j # k => sock'[j] = sock[j]
      /\ sock[k].phase = "queued" /\ sock'[k] = [sock[k] EXCEPT !.phase = "open"]
  BY <1>0, <1>1, KernelAccept DEF HInv
<1>3. HType /\ Listening /\ Kernel /\ Waiting(k) /\ sock[k] \in Socket
  BY DEF HInv, Kernel, SockType
<1>4. \A f \in Fds : f # n => conn_list'[f] = conn_list[f]
  BY <1>0, <1>2, <1>3 DEF HType
<1>5. HType'
  <2>1. \A old : NewEntry(old) \in Entry
    BY NewIsEntry
  <2> QED BY <1>0, <1>1, <1>3, <2>1 DEF HType
<1>6. Listening'
  BY <1>2, <1>3, <1>4, Distinct DEF Listening
<1>7. /\ sock'[k].sent = sock[k].sent /\ sock'[k].in = sock[k].in /\ sock'[k].phase = "open"
      /\ sock[k].sent \in Nat
  BY <1>2, <1>3 DEF Socket
<1>8. ASSUME NEW j \in Conns PROVE Waiting(j)'
  <2>1. CASE j = k
    BY <1>7, <2>1 DEF Waiting
  <2>2. CASE j # k
    BY <1>0, <1>2, <2>2, WaitingSame DEF HInv
  <2> QED BY <2>1, <2>2
<1>9. ASSUME NEW f \in Fds PROVE Served(f)'
  <2>1. CASE f = n /\ epoll' = epoll
    <3>1. epoll[n] = "none"
      BY <1>2, <1>3 DEF Kernel, Owned
    <3> QED BY <2>1, <3>1 DEF Served, Watched
  <2>2. CASE f = n /\ epoll' = [epoll EXCEPT ![n] = "in"] /\ conn_list' = [conn_list EXCEPT ![n] = NewEntry(@)]
    <3>1. epoll'[n] = "in" /\ conn_list'[n] = [callback |-> "recv", rlen |-> 0, wlen |-> 0]
      BY <1>2, <1>3, <2>2 DEF NewEntry, HType, Kernel, EpollType
    <3>2. Len(sock'[k].in) = sock'[k].sent /\ requests'[k] = 0 /\ responses'[k] = 0
      BY <1>0, <1>2, <1>3, <1>7 DEF Waiting
    <3>3. 0 + Len(sock'[k].in) = sock'[k].sent /\ 0 + 0 = 0 /\ 0 <= 0
      BY <1>7, <3>2
    <3>4. conn_list'[n].callback = "recv" /\ conn_list'[n].rlen = 0 /\ epoll'[n] # "out" /\ files'[n] = k
      BY <1>2, <3>1
    <3>5. Served(n)'
      BY <3>2, <3>3, <3>4 DEF Served
    <3> QED BY <2>2, <3>5
  <2>3. CASE f # n
    <3>1. files[f] # k
      BY <1>2, <1>3 DEF Kernel, Owned
    <3> QED BY <1>0, <1>2, <1>4, <2>3, <3>1, ServedSame DEF HInv
  <2> QED BY <1>0, <2>1, <2>2, <2>3
<1> QED BY <1>1, <1>2, <1>5, <1>6, <1>8, <1>9 DEF HInv

LEMMA RecvEndKeeps ==
  ASSUME HInv, NEW e \in events, files[e.fd] \in Conns, RecvEnd(e)
  PROVE  HInv'
<1> PICK k \in Conns : k = files[e.fd]
  OBVIOUS
<1>0. /\ CloseFd(e.fd) /\ UNCHANGED <<conn_list, requests, responses, failed>> /\ Finish(e)
      /\ Kernel /\ AllLive /\ HType /\ Listening
  BY DEF RecvEnd, HInv, history
<1>1. events' = events \ {e} /\ NotYet' /\ OnlyEarlyCloseKills' /\ mode' \in {"wait", "dispatch"}
  BY <1>0, FinishModes
<1>2. /\ Kernel' /\ AllLive'
      /\ files' = [files EXCEPT ![e.fd] = Free]
      /\ \A f \in Fds : f # e.fd => epoll'[f] = epoll[f]
      /\ \A j \in Conns : j # k => sock'[j] = sock[j]
      /\ sock'[k] = [sock[k] EXCEPT !.phase = "closed"]
  BY <1>0, <1>1, KernelClose
<1>3. /\ e.fd \in Fds /\ sock[k] \in Socket /\ files'[e.fd] = Free
      /\ \A f \in Fds : f # e.fd => files'[f] = files[f] /\ files[f] # k
  BY <1>0, <1>2, EventOf DEF Kernel, SockType, FileType, Owned
<1>4. HType' /\ Listening'
  BY <1>0, <1>1, <1>3, Distinct DEF HType, Listening
<1>5. sock'[k].phase = "closed"
  BY <1>2, <1>3 DEF Socket
<1>6. ASSUME NEW j \in Conns PROVE Waiting(j)'
  <2>1. CASE j = k
    BY <1>5, <2>1 DEF Waiting
  <2>2. CASE j # k
    BY <1>0, <1>2, <2>2, WaitingSame DEF HInv
  <2> QED BY <2>1, <2>2
<1>7. ASSUME NEW f \in Fds PROVE Served(f)'
  <2>1. CASE f = e.fd
    BY <1>3, <2>1, Distinct DEF Served, Watched
  <2>2. CASE f # e.fd
    BY <1>0, <1>2, <1>3, <2>2, ServedSame DEF HInv
  <2> QED BY <2>1, <2>2
<1> QED BY <1>1, <1>2, <1>4, <1>6, <1>7 DEF HInv

\* A callback that leaves its connection open: what is left to show.
LEMMA CallKeeps ==
  ASSUME HInv, NEW e \in events, NEW k \in Conns, files[e.fd] = k, Finish(e), files' = files,
         epoll' \in [Fds -> {"none", "in", "out"}],
         \A f \in Fds : f # e.fd => epoll'[f] = epoll[f],
         SockType', Rules(k)',
         \A j \in Conns : j # k => sock'[j] = sock[j],
         sock'[k].phase = sock[k].phase, failed \subseteq failed', failed' \subseteq Conns,
         conn_list' \in [Fds -> Entry], \A f \in Fds : f # e.fd => conn_list'[f] = conn_list[f],
         requests' \in [Conns -> Nat], \A j \in Conns : j # k => requests'[j] = requests[j],
         responses' \in [Conns -> Nat], \A j \in Conns : j # k => responses'[j] = responses[j],
         Served(e.fd)'
  PROVE  HInv'
<1>0. /\ e.fd \in Fds /\ sock[k].phase = "open" /\ Kernel /\ AllLive /\ HType /\ Listening
  BY EventOf DEF HInv
<1>1. events' = events \ {e} /\ NotYet' /\ OnlyEarlyCloseKills' /\ mode' \in {"wait", "dispatch"}
  BY FinishModes
<1>2. Kernel' /\ AllLive'
  <2>1. files[e.fd] \in Conns /\ Rules(files[e.fd])'
    OBVIOUS
  <2> QED BY <1>0, <1>1, <2>1, KernelHandler
<1>3. HType' /\ Listening'
  BY <1>0, <1>1, Distinct DEF HType, Listening
<1>4. \A j \in Conns : Waiting(j)'
  <2>1. Waiting(k)'
    BY <1>0 DEF Waiting
  <2>2. ASSUME NEW j \in Conns, j # k PROVE Waiting(j)'
    BY <2>2, WaitingSame DEF HInv
  <2> QED BY <2>1, <2>2
<1>5. ASSUME NEW f \in Fds, f # e.fd PROVE Served(f)'
  <2>1. files[f] # k
    BY <1>0, <1>5 DEF Kernel, Owned
  <2> QED BY <1>5, <2>1, ServedSame DEF HInv
<1> QED BY <1>1, <1>2, <1>3, <1>4, <1>5 DEF HInv

\* A request takes at least a byte and at most what rbuffer has room for.
LEMMA RecvRequestKeeps ==
  ASSUME HInv, NEW e \in events, files[e.fd] \in Conns, e.ev = "in", RecvRequest(e)
  PROVE  HInv'
<1> PICK k \in Conns : k = files[e.fd]
  OBVIOUS
<1> PICK n : n = Space(e.fd)
  OBVIOUS
<1> PICK c : c = RecvCount(k, n)
  OBVIOUS
<1> PICK old : old = conn_list[e.fd]
  OBVIOUS
<1>0. /\ Kernel /\ AllLive /\ HType /\ Served(e.fd)
      /\ e.fd \in Fds /\ epoll[e.fd] = "in" /\ sock[k] \in Socket /\ old \in Entry
      /\ BUFFER_LEN \in Nat
  BY EventOf, SocketAssumption DEF HInv, Kernel, SockType, HType
<1>1. PICK item : /\ item = [[old EXCEPT !.rlen = old.rlen + c] EXCEPT !.wlen = 1]
                  /\ conn_list' = [conn_list EXCEPT ![e.fd] = item]
  <2>1. conn_list' = [conn_list EXCEPT ![e.fd] =
                        [[conn_list[e.fd] EXCEPT !.rlen = conn_list[e.fd].rlen + RecvCount(files[e.fd], Space(e.fd))]
                         EXCEPT !.wlen = 1]]
    BY DEF RecvRequest, http_request, http_response
  <2> QED BY <2>1, Zenon
<1>2. /\ c > 0 /\ sock' = Received(k, n) /\ Finish(e) /\ files' = files /\ responses' = responses
      /\ requests' = [requests EXCEPT ![k] = @ + 1]
      /\ \/ epoll' = [epoll EXCEPT ![e.fd] = "out"] /\ failed' = failed
         \/ epoll' = epoll /\ failed' = failed \cup {k}
  BY DEF RecvRequest, set_event, AfterRecv
<1>3. n \in Nat \ {0}
  <2>1. n \in Nat
    BY <1>0 DEF Space, Entry
  <2>2. n # 0
    BY <1>2 DEF RecvCount
  <2> QED BY <2>1, <2>2
<1>4. /\ SockType' /\ Rules(k)'
      /\ \A j \in Conns : j # k => sock'[j] = sock[j]
      /\ sock'[k].phase = sock[k].phase /\ sock'[k].shut = sock[k].shut
      /\ sock'[k].sent = sock[k].sent
      /\ sock'[k].in = SubSeq(sock[k].in, c + 1, Len(sock[k].in))
  BY <1>0, <1>2, <1>3, KernelRecv
<1>5. /\ c \in Nat \ {0} /\ c <= Len(sock[k].in) /\ c <= n /\ sock[k].in \in Seq(Byte)
      /\ Len(sock[k].in) \in Nat /\ sock[k].sent \in Nat
  BY <1>0, <1>2, <1>3, RecvCounts DEF Kernel, Socket
<1>6. Len(sock'[k].in) = Len(sock[k].in) - c
  BY <1>4, <1>5
<1>7. item.callback = old.callback /\ item.rlen = old.rlen + c /\ item.wlen = 1 /\ item \in Entry
  <2>1. item.callback = old.callback /\ item.rlen = old.rlen + c /\ item.wlen = 1
        /\ item = [callback |-> old.callback, rlen |-> old.rlen + c, wlen |-> 1]
    BY <1>0, <1>1 DEF Entry
  <2>2. old.rlen \in 0 .. BUFFER_LEN /\ old.callback \in {"none", "accept", "recv"}
        /\ n = BUFFER_LEN - old.rlen
    BY <1>0 DEF Entry, Space
  <2>3. old.rlen + c \in 0 .. BUFFER_LEN
    BY <1>0, <1>3, <1>5, <2>2, SMT
  <2> QED BY <2>1, <2>2, <2>3, SMT DEF Entry
<1>8. /\ conn_list' \in [Fds -> Entry] /\ conn_list'[e.fd] = item
      /\ \A f \in Fds : f # e.fd => conn_list'[f] = conn_list[f]
  BY <1>0, <1>1, <1>7 DEF HType
<1>9. /\ epoll' \in [Fds -> {"none", "in", "out"}] /\ \A f \in Fds : f # e.fd => epoll'[f] = epoll[f]
      /\ failed \subseteq failed' /\ failed' \subseteq Conns
      /\ epoll'[e.fd] = "out" \/ k \in failed'
  BY <1>0, <1>2 DEF Kernel, EpollType, HType
<1>10. /\ requests' \in [Conns -> Nat] /\ requests'[k] = requests[k] + 1 /\ requests[k] \in Nat
       /\ \A j \in Conns : j # k => requests'[j] = requests[j]
       /\ responses \in [Conns -> Nat]
  BY <1>0, <1>2 DEF HType
<1>11. Served(e.fd)'
  <2>1. /\ old.callback = "recv" /\ old.rlen + Len(sock[k].in) = sock[k].sent /\ requests[k] <= old.rlen
        /\ k \notin failed => requests[k] = responses[k] + 0
        /\ old.rlen \in Nat
    BY <1>0 DEF Served, Watched, Entry
  <2>2. item.rlen + Len(sock'[k].in) = sock'[k].sent /\ requests'[k] <= item.rlen
    <3>1. PICK a, i, t, q \in Nat : a = old.rlen /\ i = Len(sock[k].in) /\ t = sock[k].sent /\ q = requests[k]
      BY <1>5, <1>10, <2>1, Zenon
    <3>2. a + i = t /\ q <= a
      BY <2>1, <3>1, Zenon
    <3>3. a + c + (i - c) = t /\ q + 1 <= a + c
      BY <1>5, <3>2, SMT
    <3> QED BY <1>4, <1>6, <1>7, <1>10, <3>1, <3>3, Zenon
  <2>3. k \notin failed' => epoll'[e.fd] = "out" /\ requests'[k] = responses'[k] + 1
    <3>1. responses'[k] = responses[k] /\ responses[k] \in Nat
      BY <1>2, <1>10
    <3>2. ASSUME k \notin failed' PROVE requests[k] = responses[k] + 0 /\ epoll'[e.fd] = "out"
      BY <1>9, <2>1, <3>2, Zenon
    <3>3. ASSUME k \notin failed' PROVE requests'[k] = responses'[k] + 1
      <4>1. PICK a, b \in Nat : a = requests[k] /\ b = responses[k]
        BY <1>10, <3>1, Zenon
      <4>2. a = b + 0
        BY <3>2, <3>3, <4>1, Zenon
      <4>3. a + 1 = b + 1
        BY <4>2, SMT
      <4> QED BY <1>10, <3>1, <4>1, <4>3, Zenon
    <3> QED BY <3>1, <3>2, <3>3, Zenon
  <2>4. files'[e.fd] = k
    BY <1>2
  <2> QED BY <1>7, <1>8, <2>1, <2>2, <2>3, <2>4 DEF Served
<1>12. responses' \in [Conns -> Nat] /\ \A j \in Conns : responses'[j] = responses[j]
  BY <1>2, <1>10
<1>13. /\ Finish(e) /\ files' = files
       /\ conn_list' \in [Fds -> Entry] /\ \A f \in Fds : f # e.fd => conn_list'[f] = conn_list[f]
  BY <1>2, <1>8
<1> QED BY <1>4, <1>9, <1>10, <1>11, <1>12, <1>13, CallKeeps

\* There are fewer responses than their history is counted to.
LEMMA CountKeeps ==
  ASSUME NEW a \in Nat, a + 1 <= MaxBytes
  PROVE  Count(a + 1) = a + 1
BY SocketAssumption DEF Count, MaxResponses

LEMMA CountType == ASSUME NEW a \in Nat PROVE Count(a) \in Nat
BY SocketAssumption DEF Count, MaxResponses

LEMMA SendResponseKeeps ==
  ASSUME HInv, NEW e \in events, e.ev = "out", SendResponse(e)
  PROVE  HInv'
<1>a. files[e.fd] \in Conns
  BY EventOf DEF HInv
<1> PICK k \in Conns : k = files[e.fd]
  BY <1>a
<1>0. /\ Kernel /\ AllLive /\ HType /\ Served(e.fd)
      /\ e.fd \in Fds /\ epoll[e.fd] = "out" /\ sock[k] \in Socket /\ conn_list[e.fd] \in Entry
  BY EventOf DEF HInv, Kernel, SockType, HType
<1>1. /\ conn_list[e.fd].wlen = 1 /\ conn_list[e.fd].callback = "recv"
      /\ conn_list[e.fd].rlen + Len(sock[k].in) = sock[k].sent /\ requests[k] <= conn_list[e.fd].rlen
      /\ k \notin failed => requests[k] = responses[k] + 1
      /\ conn_list[e.fd].rlen \in Nat /\ Len(sock[k].in) \in Nat /\ sock[k].sent \in Nat
      /\ requests[k] \in Nat /\ responses[k] \in Nat
  BY <1>0 DEF Served, Watched, Entry, Socket, HType
<1>2. /\ sock' = SentTo(k, 1) /\ Finish(e) /\ files' = files /\ conn_list' = conn_list
      /\ requests' = requests /\ responses' = [responses EXCEPT ![k] = Count(@ + 1)]
      /\ \/ epoll' = [epoll EXCEPT ![e.fd] = "in"] /\ failed' = failed
         \/ epoll' = epoll /\ failed' = failed \cup {k}
  BY <1>1 DEF SendResponse, AfterSend, set_event
<1>3. /\ SockType' /\ Rules(k)'
      /\ \A j \in Conns : j # k => sock'[j] = sock[j]
      /\ sock'[k].phase = sock[k].phase /\ sock'[k].shut = sock[k].shut
      /\ sock'[k].sent = sock[k].sent /\ sock'[k].in = sock[k].in
  BY <1>0, <1>2, KernelSend
<1>4. /\ epoll' \in [Fds -> {"none", "in", "out"}] /\ \A f \in Fds : f # e.fd => epoll'[f] = epoll[f]
      /\ failed \subseteq failed' /\ failed' \subseteq Conns
      /\ epoll'[e.fd] = "in" \/ k \in failed'
  BY <1>0, <1>2 DEF Kernel, EpollType, HType
<1>5. /\ responses' \in [Conns -> Nat] /\ responses'[k] = Count(responses[k] + 1)
      /\ \A j \in Conns : j # k => responses'[j] = responses[j]
  <2>1. Count(responses[k] + 1) \in Nat
    <3>1. PICK a \in Nat : a = responses[k] + 1
      BY <1>1
    <3> QED BY <3>1, CountType
  <2> QED BY <1>0, <1>2, <2>1 DEF HType
<1>6. Served(e.fd)'
  <2>1. ASSUME k \notin failed PROVE Count(responses[k] + 1) = requests[k]
    <3>1. responses[k] + 1 <= MaxBytes
      <4>1. sock[k].sent <= MaxBytes /\ MaxBytes \in Nat
        BY <1>0, SocketAssumption DEF Kernel, Rules
      <4> QED BY <1>1, <2>1, <4>1, SMTT(30)
    <3> QED BY <1>1, <2>1, <3>1, CountKeeps
  <2>2. files'[e.fd] = k
    BY <1>2
  <2>3. k \notin failed' => epoll'[e.fd] = "in" /\ requests'[k] = responses'[k] + 0
    BY <1>1, <1>2, <1>3, <1>4, <1>5, <2>1
  <2> QED BY <1>1, <1>2, <1>3, <2>2, <2>3 DEF Served
<1> QED BY <1>0, <1>2, <1>3, <1>4, <1>5, <1>6, CallKeeps DEF HType

\* An error is reported on a connection that was reset.
LEMMA SendErrorKeeps ==
  ASSUME HInv, NEW e \in events, e.ev = "out", SendError(e)
  PROVE  HInv'
<1>a. files[e.fd] \in Conns
  BY EventOf DEF HInv
<1> PICK k \in Conns : k = files[e.fd]
  BY <1>a
<1> PICK w : w = conn_list[e.fd].wlen
  OBVIOUS
<1>0. /\ Kernel /\ AllLive /\ HType /\ Served(e.fd) /\ w \in Nat
      /\ e.fd \in Fds /\ epoll[e.fd] = "out" /\ conn_list[e.fd] \in Entry
  BY EventOf DEF HInv, HType, Entry
<1>1. /\ SendFails(k) /\ sock' = SentTo(k, w) /\ Finish(e)
      /\ UNCHANGED <<files, epoll, conn_list, requests, responses, failed>>
  BY DEF SendError, history
<1>2. /\ SockType' /\ Rules(k)'
      /\ \A j \in Conns : j # k => sock'[j] = sock[j]
      /\ sock'[k].phase = sock[k].phase /\ sock'[k].shut = sock[k].shut
      /\ sock'[k].sent = sock[k].sent /\ sock'[k].in = sock[k].in
  BY <1>0, <1>1, KernelSend
<1>3. Served(e.fd)'
  BY <1>0, <1>1, <1>2 DEF Served, Watched
<1> QED BY <1>0, <1>1, <1>2, <1>3, CallKeeps DEF HType, Kernel, EpollType

\* The callback an event leads to is the one for what the descriptor is.
LEMMA DispatchKeeps ==
  ASSUME HInv, Dispatch
  PROVE  HInv'
<1>1. PICK e \in events :
        \/ e.ev = "in" /\ conn_list[e.fd].callback = "accept" /\ accept_cb(e)
        \/ e.ev = "in" /\ conn_list[e.fd].callback = "recv" /\ recv_cb(e)
        \/ e.ev = "out" /\ send_cb(e)
  BY DEF Dispatch
<1>2. /\ e.fd \in Fds /\ files[e.fd] \in Ports \cup Conns /\ epoll[e.fd] \in {"in", "out"}
      /\ files[e.fd] \in Ports => conn_list[e.fd].callback = "accept"
  BY EventOf DEF HInv, Listening
<1>3. CASE AcceptFails(e)
  BY <1>3, AcceptFailsKeeps
<1>4. CASE AcceptConn(e)
  BY <1>4, AcceptConnKeeps
<1>5. CASE e.ev = "in" /\ conn_list[e.fd].callback = "recv" /\ recv_cb(e)
  <2>1. files[e.fd] \in Conns
    BY <1>2, <1>5
  <2> QED BY <1>5, <2>1, RecvEndKeeps, RecvRequestKeeps DEF recv_cb
<1>6. CASE e.ev = "out" /\ send_cb(e)
  <2>1. CASE SendSignal(e)
    <3>1. UNCHANGED <<files, sock, epoll, events, conn_list, history>> /\ mode' = "killed"
      BY <2>1 DEF SendSignal, kernel
    <3>2. PICK k \in Conns : k = files[e.fd]
      BY <1>6, EventOf DEF HInv
    <3>3. sock[k].phase = "open" /\ epoll[e.fd] = "out" /\ Kernel /\ HType /\ Served(e.fd)
      BY <1>6, <3>2, EventOf DEF HInv
    <3>4. sock[k].peer = "closed"
      BY <2>1, <3>2, <3>3 DEF SendSignal, SendKills, Kernel, Rules
    <3>5. k \in failed \/ requests[k] = responses[k] + 1
      BY <1>2, <3>2, <3>3 DEF Served, Watched
    <3>6. responses[k] < requests[k] \/ k \in failed
      BY <3>3, <3>5 DEF HType
    <3> QED BY <3>1, <3>3, <3>4, <3>6, KernelSame, QuietKeeps DEF ClosedEarly
  <2> QED BY <1>6, <2>1, SendResponseKeeps, SendErrorKeeps DEF send_cb
<1> QED BY <1>1, <1>3, <1>4, <1>5, <1>6 DEF accept_cb

\* A client adds to what it sent and to what waits in its socket alike.
LEMMA ClientsKeep ==
  ASSUME HInv, Clients
  PROVE  HInv'
<1>1. PICK k \in Conns : Client(k, Answered(k))
  BY DEF Clients
<1>2. /\ Kernel' /\ AllLive'
      /\ UNCHANGED <<files, epoll, events, conn_list, mode, requests, responses, failed>>
      /\ \A j \in Conns : j # k => sock'[j] = sock[j]
      /\ \/ sock'[k].phase = sock[k].phase
         \/ sock[k].phase = "new" /\ sock'[k].phase = "queued"
      /\ \/ sock'[k].in = sock[k].in /\ sock'[k].sent = sock[k].sent
         \/ /\ sock'[k].in = Append(sock[k].in, <<k, sock[k].sent + 1>>)
            /\ sock'[k].sent = sock[k].sent + 1
      /\ sock[k].peer = "closed" => sock'[k].peer = "closed" /\ sock'[k].out = sock[k].out
  BY <1>1, KernelClient DEF HInv, Clients, history
<1>3. /\ HType /\ sock[k] \in Socket /\ Waiting(k)
  BY DEF HInv, Kernel, SockType
<1>4. /\ Len(sock[k].in) \in Nat /\ sock[k].sent \in Nat
      /\ \/ Len(sock'[k].in) = Len(sock[k].in) /\ sock'[k].sent = sock[k].sent
         \/ Len(sock'[k].in) = Len(sock[k].in) + 1 /\ sock'[k].sent = sock[k].sent + 1
  BY <1>2, <1>3 DEF Socket
<1>5. HType' /\ Listening' /\ NotYet'
  BY <1>2 DEF HInv, HType, Listening, NotYet
<1>6. ASSUME NEW j \in Conns PROVE Waiting(j)'
  <2>1. CASE j = k
    BY <1>2, <1>3, <1>4, <2>1 DEF Waiting
  <2>2. CASE j # k
    BY <1>2, <2>2, WaitingSame DEF HInv
  <2> QED BY <2>1, <2>2
<1>7. ASSUME NEW f \in Fds PROVE Served(f)'
  <2>1. CASE files[f] = k
    <3>1. conn_list[f].rlen \in Nat
      BY <1>3 DEF HType, Entry
    <3>2. conn_list[f].rlen + Len(sock[k].in) = sock[k].sent =>
            conn_list[f].rlen + Len(sock'[k].in) = sock'[k].sent
      BY <1>4, <3>1, SMTT(30)
    <3> QED BY <1>2, <2>1, <3>2 DEF HInv, Served, Watched
  <2>2. CASE files[f] # k
    BY <1>2, <2>2, ServedSame DEF HInv
  <2> QED BY <2>1, <2>2
<1>8. OnlyEarlyCloseKills'
  <2>1. ASSUME NEW j \in Conns, sock[j].phase = "open", ClosedEarly(j)
        PROVE  sock'[j].phase = "open" /\ ClosedEarly(j)'
    BY <1>2, <2>1 DEF ClosedEarly
  <2> QED BY <1>2, <2>1 DEF HInv, OnlyEarlyCloseKills
<1> QED BY <1>2, <1>5, <1>6, <1>7, <1>8 DEF HInv

\* The invariant holds at first and is kept by every step.
LEMMA Invariance == Spec => []HInv
<1>1. HInv /\ [Next]_vars => HInv'
  <2> SUFFICES ASSUME HInv, [Next]_vars PROVE HInv'
    OBVIOUS
  <2>1. CASE StartFails \/ UNCHANGED vars
    <3>1. /\ UNCHANGED <<files, sock, epoll, events, conn_list, requests, responses, failed>>
          /\ mode' \in {mode, "ended"}
      BY <2>1 DEF StartFails, vars, kernel, history
    <3>2. Kernel' /\ AllLive'
      BY <3>1, KernelSame
    <3>3. HType' /\ Listening' /\ NotYet'
      BY <3>1 DEF HInv, HType, Listening, NotYet
    <3>4. (\A k \in Conns : Waiting(k)') /\ (\A f \in Fds : Served(f)')
      BY <3>1, WaitingSame, ServedSame DEF HInv
    <3>5. OnlyEarlyCloseKills'
      BY <3>1 DEF HInv, OnlyEarlyCloseKills, ClosedEarly
    <3> QED BY <3>2, <3>3, <3>4, <3>5 DEF HInv
  <2> QED BY <2>1, StartKeeps, WaitStepKeeps, DispatchKeeps, ClientsKeep DEF Next, Server
<1> QED BY <1>1, InitHInv, PTL DEF Spec

-----------------------------------------------------------------------------
(***************************************************************************)
(* Every variable keeps its type, and rlen stays within rbuffer although   *)
(* recv_cb never sets it back: what is left of the buffer is all that recv *)
(* is offered.                                                             *)
(***************************************************************************)
THEOREM TypeCorrect == Spec => []TypeOK
<1>1. HInv => TypeOK
  BY KernelTypes DEF HInv, HType, Entry, TypeOK
<1> QED BY <1>1, Invariance, PTL

(***************************************************************************)
(* The events of a batch stay true until main comes to them, although the  *)
(* callbacks before close and reuse descriptors and epoll_ctl may fail.    *)
(***************************************************************************)
THEOREM BatchStaysTrue == Spec => []EventsStayTrue
<1>1. HInv => EventsStayTrue
  BY DEF HInv, AllLive, Live, EventsStayTrue
<1> QED BY <1>1, Invariance, PTL

(***************************************************************************)
(* What recv_cb counts in rlen is what this client sent and the socket no  *)
(* longer holds: accept_cb resets the entry that a descriptor comes with.  *)
(***************************************************************************)
THEOREM BufferHoldsRequest == Spec => []RequestInBuffer
<1>1. HInv => RequestInBuffer
  BY DEF HInv, Served, RequestInBuffer
<1> QED BY <1>1, Invariance, PTL

(***************************************************************************)
(* recv_cb and send_cb take turns: one response for every request, unless  *)
(* an epoll_ctl of the connection failed.                                  *)
(***************************************************************************)
THEOREM RequestsAreAnswered == Spec => []OneResponseEach
<1>1. HInv => OneResponseEach
  BY DEF HInv, Served, OneResponseEach
<1> QED BY <1>1, Invariance, PTL

(***************************************************************************)
(* Of all clients, only one that closes before it has had and read its     *)
(* response makes a send of send_cb raise SIGPIPE, as long as epoll_ctl    *)
(* does what it is asked for that connection.                              *)
(***************************************************************************)
THEOREM OthersDoNoHarm == Spec => []OnlyEarlyCloseKills
<1>1. HInv => OnlyEarlyCloseKills
  BY DEF HInv
<1> QED BY <1>1, Invariance, PTL

-----------------------------------------------------------------------------
(* Patient clients: one that has closed had a response to all it sent. *)

Content == \A k \in Conns : sock[k].peer = "closed" =>
             sock[k].in = <<>> /\ sock[k].out = 0 /\ responses[k] = requests[k]
Calm == Content /\ failed = {}

LEMMA CalmKeeps ==
  ASSUME Hasty = FALSE, CtlMayFail = FALSE, HInv, Calm, [Next]_vars
  PROVE  Calm'
<1>0. HType /\ SockType /\ Kernel /\ sock \in [Conns -> Socket]
  BY DEF HInv, Kernel, SockType
<1>1. ASSUME \A k \in Conns : Settled(k) /\ (sock[k].in = <<>> => sock'[k].in = <<>>),
             UNCHANGED <<requests, responses, failed>>
      PROVE  Calm'
  BY <1>1 DEF Calm, Content, Settled
<1>2. CASE Clients
  <2>1. PICK k \in Conns : Client(k, Answered(k)) /\ UNCHANGED <<requests, responses, failed>>
    BY <1>2 DEF Clients, history
  <2>2. \A j \in Conns : j # k => sock'[j] = sock[j]
    BY <1>0, <2>1, PatientCloses
  <2>3. sock'[k].peer = "closed" => sock'[k].in = <<>> /\ sock'[k].out = 0 /\ responses[k] = requests[k]
    BY <1>0, <2>1, PatientCloses DEF Calm, Content, Answered
  <2> QED BY <2>1, <2>2, <2>3 DEF Calm, Content
<1>3. CASE Dispatch
  <2>1. PICK e \in events :
          \/ e.ev = "in" /\ conn_list[e.fd].callback = "accept" /\ accept_cb(e)
          \/ e.ev = "in" /\ conn_list[e.fd].callback = "recv" /\ recv_cb(e)
          \/ e.ev = "out" /\ send_cb(e)
    BY <1>3 DEF Dispatch
  <2>2. CASE AcceptFails(e) \/ SendSignal(e)
    BY <1>1, <2>2 DEF AcceptFails, SendSignal, kernel, history, Settled
  <2>3. CASE AcceptConn(e)
    <3>1. PICK k \in Conns : /\ sock' = [sock EXCEPT ![k].phase = "open"]
                             /\ UNCHANGED <<requests, responses, failed>>
      BY <2>3 DEF AcceptConn, set_event
    <3>2. \A j \in Conns : sock'[j].in = sock[j].in
      BY <1>0, <3>1 DEF Socket
    <3> QED BY <1>0, <1>1, <3>1, <3>2, CallsSettle
  <2>4. CASE e.ev = "in" /\ conn_list[e.fd].callback = "recv" /\ recv_cb(e)
    <3>1. PICK k \in Conns : k = files[e.fd]
      BY <2>4, EventOf DEF HInv, Listening
    <3>2. CASE RecvEnd(e)
      <4>1. sock' = [sock EXCEPT ![k].phase = "closed"] /\ UNCHANGED <<requests, responses, failed>>
        BY <3>1, <3>2 DEF RecvEnd, CloseFd, history
      <4>2. \A j \in Conns : sock'[j].in = sock[j].in
        BY <1>0, <4>1 DEF Socket
      <4> QED BY <1>0, <1>1, <4>1, <4>2, CallsSettle
    <3>3. CASE RecvRequest(e)
      <4>1. PICK n : n = Space(e.fd)
        OBVIOUS
      <4>2. /\ RecvCount(k, n) > 0 /\ sock' = Received(k, n) /\ responses' = responses
            /\ requests' = [requests EXCEPT ![k] = @ + 1] /\ failed' = failed
        BY <3>1, <3>3, <4>1 DEF RecvRequest, set_event
      <4>3. sock[k].in # <<>>
        BY <4>2 DEF RecvCount
      <4>4. sock[k].peer # "closed"
        BY <4>3 DEF Calm, Content
      <4>5. \A j \in Conns : Settled(j) /\ (j # k => sock'[j] = sock[j] /\ requests'[j] = requests[j])
        BY <1>0, <4>2, CallsSettle DEF Received, HType
      <4> QED BY <4>2, <4>4, <4>5 DEF Calm, Content, Settled
    <3> QED BY <2>4, <3>2, <3>3 DEF recv_cb
  <2>5. CASE e.ev = "out" /\ send_cb(e)
    <3>1. PICK k \in Conns : k = files[e.fd]
      BY <2>5, EventOf DEF HInv
    <3>2. epoll[e.fd] = "out" /\ e.fd \in Fds /\ Served(e.fd)
      BY <2>5, EventOf DEF HInv
    <3>3. requests[k] = responses[k] + 1 /\ requests[k] \in Nat /\ responses[k] \in Nat
      BY <1>0, <3>1, <3>2 DEF Served, Watched, Calm, HType
    <3>4. sock[k].peer # "closed"
      BY <3>3 DEF Calm, Content
    <3>5. CASE SendResponse(e) \/ SendError(e)
      <4>1. PICK n : n = conn_list[e.fd].wlen
        OBVIOUS
      <4>2. sock' = SentTo(k, n) /\ requests' = requests /\ failed' = failed
            /\ \A j \in Conns : j # k => responses'[j] = responses[j]
        BY <1>0, <3>1, <3>5, <4>1 DEF SendResponse, SendError, set_event, history, HType
      <4>3. \A j \in Conns : Settled(j) /\ (j # k => sock'[j] = sock[j])
        BY <1>0, <4>2, CallsSettle DEF SentTo
      <4> QED BY <3>4, <4>2, <4>3 DEF Calm, Content, Settled
    <3> QED BY <2>2, <2>5, <3>5 DEF send_cb
  <2> QED BY <2>1, <2>2, <2>3, <2>4, <2>5 DEF accept_cb
<1>4. CASE UNCHANGED <<sock, requests, responses, failed>>
  BY <1>1, <1>4 DEF Settled
<1>5. ASSUME NEW p \in Ports, Start(p) PROVE UNCHANGED <<sock, requests, responses, failed>>
  BY <1>5 DEF Start, history
<1>6. StartFails \/ Wait \/ UNCHANGED vars => UNCHANGED <<sock, requests, responses, failed>>
  BY DEF StartFails, Wait, EpollWait, vars, kernel, history
<1> QED BY <1>2, <1>3, <1>4, <1>5, <1>6 DEF Next, Server

(***************************************************************************)
(* A server whose clients wait for their responses before they close, and  *)
(* whose epoll_ctl does not fail, is not killed: no send of send_cb finds  *)
(* its connection gone.                                                    *)
(***************************************************************************)
THEOREM PatientClientsDoNoHarm ==
  ASSUME Hasty = FALSE, CtlMayFail = FALSE
  PROVE  Spec => [](mode # "killed")
<1>1. Init => Calm
  BY DEF Init, SocketsInit, NewSocket, Calm, Content
<1>2. HInv /\ Calm /\ [Next]_vars => Calm'
  BY CalmKeeps
<1>3. HInv /\ Calm => mode # "killed"
  <2> SUFFICES ASSUME HInv, Calm, mode = "killed" PROVE FALSE
    OBVIOUS
  <2>1. PICK k \in Conns : ClosedEarly(k)
    BY DEF HInv, OnlyEarlyCloseKills
  <2>2. sock[k].out = 0 /\ responses[k] = requests[k] /\ requests[k] \in Nat /\ failed = {}
    BY <2>1 DEF ClosedEarly, Calm, Content, HInv, HType
  <2> QED BY <2>1, <2>2 DEF ClosedEarly
<1> QED BY <1>1, <1>2, <1>3, Invariance, PTL DEF Spec

-----------------------------------------------------------------------------
\* A descriptor that was opened is watched until it is closed, unless the
\* epoll_ctl of its connection failed.
Kept == \A f \in Fds : files[f] \in Ports \cup (Conns \ failed) => epoll[f] # "none"

LEMMA KeptKeeps ==
  ASSUME HInv, Kept, [Next]_vars
  PROVE  Kept'
<1>0. \A e \in events : e.fd \in Fds /\ files[e.fd] \in Ports \cup Conns
  BY EventOf DEF HInv
<1>1. /\ files \in [Fds -> Ports \cup Conns \cup {Free, Other}]
      /\ epoll \in [Fds -> {"none", "in", "out"}]
  BY DEF HInv, Kernel, FileType, EpollType
<1>2. ASSUME FreeFds # {}, NEW x, files' = [files EXCEPT ![LowestFree] = x], failed \subseteq failed',
             \/ epoll' = [epoll EXCEPT ![LowestFree] = "in"]
             \/ UNCHANGED epoll /\ x \in Conns /\ x \in failed'
      PROVE  Kept'
  <2>1. LowestFree \in Fds
    BY <1>2, Lowest DEF FreeFds
  <2>2. \A f \in Fds : f # LowestFree => files'[f] = files[f] /\ epoll'[f] = epoll[f]
    BY <1>1, <1>2, <2>1
  <2>3. files'[LowestFree] = x /\ (epoll'[LowestFree] = "in" \/ (x \in Conns /\ x \in failed'))
    BY <1>1, <1>2, <2>1
  <2> QED BY <1>2, <2>2, <2>3, Distinct DEF Kept
<1>3. ASSUME NEW e \in events, NEW k, NEW v \in {"in", "out"}, NEW done \in BOOLEAN, files' = files,
             set_event(e.fd, k, v, done)
      PROVE  Kept'
  BY <1>0, <1>1, <1>3 DEF Kept, set_event
<1>4. ASSUME UNCHANGED <<files, epoll, failed>> PROVE Kept'
  BY <1>4 DEF Kept
<1>5. ASSUME NEW p \in Ports, Start(p) PROVE Kept'
  <2>1. FreeFds # {}
    BY <1>5, SocketAssumption DEF Start, HInv, NotYet, FreeFds, Fds
  <2> QED BY <1>2, <1>5, <2>1 DEF Start, history
<1>6. ASSUME Dispatch PROVE Kept'
  <2>1. PICK e \in events : accept_cb(e) \/ recv_cb(e) \/ send_cb(e)
    BY <1>6 DEF Dispatch
  <2>2. CASE AcceptFails(e) \/ SendError(e) \/ SendSignal(e)
    BY <1>4, <2>2 DEF AcceptFails, SendError, SendSignal, kernel, history
  <2>3. CASE AcceptConn(e)
    BY <1>2, <2>3 DEF AcceptConn, set_event
  <2>4. CASE RecvEnd(e)
    BY <1>0, <1>1, <2>4, Distinct DEF RecvEnd, CloseFd, Kept, history
  <2>5. CASE RecvRequest(e)
    BY <1>3, <2>5 DEF RecvRequest, AfterRecv
  <2>6. CASE SendResponse(e)
    BY <1>3, <2>6 DEF SendResponse, AfterSend
  <2> QED BY <2>1, <2>2, <2>3, <2>4, <2>5, <2>6 DEF accept_cb, recv_cb, send_cb
<1>7. CASE StartFails \/ Wait \/ Clients \/ UNCHANGED vars
  BY <1>4, <1>7 DEF StartFails, Wait, EpollWait, Clients, Client, vars, kernel, history
<1> QED BY <1>5, <1>6, <1>7 DEF Next, Server

\* What is open leads to the callback for what it stands for.
OpenReachesCallback ==
  \A f \in Fds :
    /\ files[f] \in Ports => epoll[f] = "in" /\ conn_list[f].callback = "accept"
    /\ files[f] \in Conns \ failed => epoll[f] # "none" /\ conn_list[f].callback = "recv"

(***************************************************************************)
(* main loses no descriptor but by a failed epoll_ctl: the listener, and   *)
(* every open connection that none failed for, is watched until it is      *)
(* closed, and its events lead to accept_cb or to recv_cb and send_cb.     *)
(***************************************************************************)
THEOREM OpenIsWatched == Spec => []OpenReachesCallback
<1>1. Init => Kept
  BY InitKernel, Distinct DEF Init, Kept
<1>2. HInv /\ Kept /\ [Next]_vars => Kept'
  BY KeptKeeps
<1>3. HInv /\ Kept => OpenReachesCallback
  BY Distinct DEF HInv, Kernel, EpollType, Owned, Listening, Served, Watched, Kept, OpenReachesCallback
<1> QED BY <1>1, <1>2, <1>3, Invariance, PTL DEF Spec
=============================================================================
