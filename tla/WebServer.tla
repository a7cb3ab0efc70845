----------------------------- MODULE WebServer -----------------------------
(***************************************************************************)
(* The server of WebServerDemo: the echo server with an object per         *)
(* listening socket (ConnItemListen) and per connection (ConnItemRecv)     *)
(* behind the pointers of connList.                                        *)
(*                                                                         *)
(* An object is identified with the port or connection it was created for; *)
(* Free in connList is the null pointer.  No object is ever deleted.       *)
(***************************************************************************)
EXTENDS Sockets

CONSTANTS StartMayFail,  \* whether epoll_create or init_server may fail
          AddMayFail     \* whether EPOLL_CTL_ADD may fail

VARIABLES connList,  \* descriptor -> object or null
          object,    \* object -> class and fields, once it was created
          mode,      \* boot, wait (in epoll_wait), dispatch, ended, crashed
          reply      \* history: the bytes sent on each connection

vars == <<kernel, connList, object, mode, reply>>

NoObject == [class |-> "none", fd |-> -1, rbuffer |-> <<>>, wbuffer |-> <<>>]
New(class, fd) == [class |-> class, fd |-> fd, rbuffer |-> <<>>, wbuffer |-> <<>>]

Init == /\ SocketsInit
        /\ connList = [f \in Fds |-> Free]
        /\ object = [x \in Ports \cup Conns |-> NoObject]
        /\ mode = "boot"
        /\ reply = [k \in Conns |-> <<>>]

\* Undefined behaviour or a fatal signal: the process is gone.
Crash == /\ mode' = "crashed"
         /\ UNCHANGED <<kernel, connList, object, reply>>

\* set_event, of Server and of ConnItem: epoll_ctl, whose ADD may fail;
\* every caller ignores the result.
set_event(fd, op, event) == \/ epoll' = [epoll EXCEPT ![fd] = event]
                            \/ op = "ADD" /\ AddMayFail /\ UNCHANGED epoll

-----------------------------------------------------------------------------
(* Server::run *)

Unbound == {p \in Ports : \A f \in Fds : files[f] # p}

\* epoll_create returned -1, and so does run.
CreateFails == /\ mode = "boot"
               /\ Unbound = Ports
               /\ StartMayFail
               /\ mode' = "ended"
               /\ UNCHANGED <<kernel, connList, object, reply>>

\* One round of the loop over the ports: init_server, an object, EPOLLIN.
InitServer(p) ==
  /\ mode = "boot"
  /\ p \in Unbound
  /\ FreeFds # {}
  /\ files' = [files EXCEPT ![LowestFree] = p]
  /\ object' = [object EXCEPT ![p] = New("ConnItemListen", LowestFree)]
  /\ connList' = [connList EXCEPT ![LowestFree] = p]
  /\ set_event(LowestFree, "ADD", "in")
  /\ mode' = IF Unbound = {p} THEN "wait" ELSE "boot"
  /\ UNCHANGED <<sock, events, reply>>

\* init_server returned -1, and run writes connList[-1].
InitServerFails == /\ mode = "boot"
                   /\ StartMayFail \/ FreeFds = {}
                   /\ Crash

Wait == /\ mode = "wait"
        /\ EpollWait
        /\ mode' = "dispatch"
        /\ UNCHANGED <<connList, object, reply>>

Finish(e) == /\ events' = events \ {e}
             /\ mode' = IF events = {e} THEN "wait" ELSE "dispatch"

-----------------------------------------------------------------------------
(* ConnItemListen::epollInCallBack *)

AcceptFails(e) ==
  /\ FreeFds = {}
  /\ Finish(e)
  /\ UNCHANGED <<files, sock, epoll, connList, object, reply>>

\* Where the object of a new connection goes; the one that was there leaks.
StaleObject(old, k) == IF old = Free THEN k ELSE old   \* wrong variant: it is kept
PlaceObject(old, k) == k

AcceptConn(e) ==
  \E k \in Conns :
    /\ FreeFds # {}
    /\ Queued(k, files[object[connList[e.fd]].fd])
    /\ files' = [files EXCEPT ![LowestFree] = k]
    /\ sock' = [sock EXCEPT ![k].phase = "open"]
    /\ object' = [object EXCEPT ![k] = New("ConnItemRecv", LowestFree)]
    /\ connList' = [connList EXCEPT ![LowestFree] = PlaceObject(@, k)]
    /\ set_event(LowestFree, "ADD", "in")
    /\ Finish(e)
    /\ UNCHANGED reply

-----------------------------------------------------------------------------
(* ConnItemRecv::epollInCallBack; o is the object it is called on. *)

Space(o) == BUFFER_LEN - Len(object[o].rbuffer)

RecvEnd(e, o) ==
  /\ RecvCount(files[object[o].fd], Space(o)) = 0
  /\ CloseFd(object[o].fd)
  /\ Finish(e)
  /\ UNCHANGED <<connList, object, reply>>

\* rlen becomes -1 and memcpy is asked for (size_t)-1 bytes.
RecvError(o) ==
  /\ RecvCount(files[object[o].fd], Space(o)) = -1
  /\ Crash

\* What rbuffer keeps: rlen is set back to 0.
KeepAll(got) == got   \* wrong variant: rlen is not reset
Keep(got) == <<>>

RecvEcho(e, o) ==
  LET k == files[object[o].fd]
      got == object[o].rbuffer \o RecvData(k, Space(o))
  IN /\ RecvCount(k, Space(o)) > 0
     /\ object' = [object EXCEPT ![o].wbuffer = got, ![o].rbuffer = Keep(got)]
     /\ sock' = Received(k, Space(o))
     /\ set_event(object[o].fd, "MOD", "out")
     /\ Finish(e)
     /\ UNCHANGED <<files, connList, reply>>

-----------------------------------------------------------------------------
(* ConnItem::epollOutCallBack *)

SendBuffer(e, o) ==
  LET k == files[object[o].fd]
      data == object[o].wbuffer
  IN /\ ~SendKills(k)
     /\ sock' = SentTo(k, Len(data))
     /\ reply' = IF SendFails(k) THEN reply ELSE [reply EXCEPT ![k] = @ \o data]
     /\ set_event(object[o].fd, "MOD", "in")
     /\ Finish(e)
     /\ UNCHANGED <<files, connList, object>>

SendSignal(o) == SendKills(files[object[o].fd]) /\ Crash

\* The virtual call: the class of the object decides.
Dispatch ==
  /\ mode = "dispatch"
  /\ \E e \in events :
       LET o == connList[e.fd] IN
       \/ /\ e.ev = "in" /\ object[o].class = "ConnItemListen"
          /\ AcceptFails(e) \/ AcceptConn(e)
       \/ /\ e.ev = "in" /\ object[o].class = "ConnItemRecv"
          /\ RecvEnd(e, o) \/ RecvError(o) \/ RecvEcho(e, o)
       \/ e.ev = "out" /\ (SendBuffer(e, o) \/ SendSignal(o))

Server == (\E p \in Ports : InitServer(p)) \/ CreateFails \/ InitServerFails \/ Wait \/ Dispatch

Clients == /\ \E k \in Conns : Client(k, Len(reply[k]) = sock[k].sent)
           /\ UNCHANGED <<connList, object, mode, reply>>

Next == Server \/ Clients

Spec == Init /\ [][Next]_vars

=============================================================================
