------------------------------ MODULE Reactor ------------------------------
(***************************************************************************)
(* The echo server of 2.1.1-multi-io/reactor.c: one thread, epoll, and per *)
(* descriptor an entry of connlist with its buffers and callbacks.         *)
(*                                                                         *)
(* A handler is one step: the server is single-threaded, and what clients  *)
(* do between two calls of a handler could as well happen after it.  The   *)
(* first rlen bytes of rbuffer are the field rbuffer, the first wlen bytes *)
(* of wbuffer the field wbuffer.                                           *)
(***************************************************************************)
EXTENDS Sockets

CONSTANTS StartMayFail,  \* whether epoll_create or init_server may fail
          AddMayFail     \* whether EPOLL_CTL_ADD may fail

VARIABLES connlist,  \* descriptor -> its entry
          mode,      \* boot, wait (in epoll_wait), dispatch, ended, crashed
          reply      \* history: the bytes sent on each connection

vars == <<kernel, connlist, mode, reply>>

NoEntry == [callback |-> "none", rbuffer |-> <<>>, wbuffer |-> <<>>]
NewEntry == [callback |-> "recv", rbuffer |-> <<>>, wbuffer |-> <<>>]

Init == /\ SocketsInit
        /\ connlist = [f \in Fds |-> NoEntry]
        /\ mode = "boot"
        /\ reply = [k \in Conns |-> <<>>]

\* Undefined behaviour or a fatal signal: the process is gone.
Crash == /\ mode' = "crashed"
         /\ UNCHANGED <<kernel, connlist, reply>>

\* set_event: epoll_ctl, whose ADD may fail; every caller ignores the result.
set_event(fd, op, event) == \/ epoll' = [epoll EXCEPT ![fd] = event]
                            \/ op = "ADD" /\ AddMayFail /\ UNCHANGED epoll

-----------------------------------------------------------------------------
(* main() *)

Unbound == {p \in Ports : \A f \in Fds : files[f] # p}

\* epoll_create returned -1, and so does main.
CreateFails == /\ mode = "boot"
               /\ Unbound = Ports
               /\ StartMayFail
               /\ mode' = "ended"
               /\ UNCHANGED <<kernel, connlist, reply>>

\* One round of the loop over the ports: init_server, an entry, EPOLLIN.
InitServer(p) ==
  /\ mode = "boot"
  /\ p \in Unbound
  /\ FreeFds # {}
  /\ files' = [files EXCEPT ![LowestFree] = p]
  /\ connlist' = [connlist EXCEPT ![LowestFree].callback = "accept"]
  /\ set_event(LowestFree, "ADD", "in")
  /\ mode' = IF Unbound = {p} THEN "wait" ELSE "boot"
  /\ UNCHANGED <<sock, events, reply>>

\* init_server returned -1, and main writes connlist[-1].
InitServerFails == /\ mode = "boot"
                   /\ StartMayFail \/ FreeFds = {}
                   /\ Crash

Wait == /\ mode = "wait"
        /\ EpollWait
        /\ mode' = "dispatch"
        /\ UNCHANGED <<connlist, reply>>

\* The loop over the events goes on with the others, then back to epoll_wait.
HandledTwice(e) == events   \* wrong variant: the event is handled again
Handled(e) == events \ {e}
Finish(e) == /\ events' = Handled(e)
             /\ mode' = IF Handled(e) = {} THEN "wait" ELSE "dispatch"

-----------------------------------------------------------------------------
(* The callbacks. *)

\* accept_cb: no descriptor left and accept returns -1.
AcceptFails(e) ==
  /\ FreeFds = {}
  /\ Finish(e)
  /\ UNCHANGED <<files, sock, epoll, connlist, reply>>

AcceptConn(e) ==
  \E k \in Conns :
    /\ FreeFds # {}
    /\ Queued(k, files[e.fd])
    /\ files' = [files EXCEPT ![LowestFree] = k]
    /\ sock' = [sock EXCEPT ![k].phase = "open"]
    /\ connlist' = [connlist EXCEPT ![LowestFree] = NewEntry]
    /\ set_event(LowestFree, "ADD", "in")
    /\ Finish(e)
    /\ UNCHANGED reply

accept_cb(e) == AcceptFails(e) \/ AcceptConn(e)

\* The room that recv is offered: what is left of rbuffer.
SpaceOneMore(fd) == BUFFER_LEN + 1 - Len(connlist[fd].rbuffer)   \* wrong variant
Space(fd) == BUFFER_LEN - Len(connlist[fd].rbuffer)

RecvEnd(e) ==
  /\ RecvCount(files[e.fd], Space(e.fd)) = 0
  /\ CloseFd(e.fd)
  /\ Finish(e)
  /\ UNCHANGED <<connlist, reply>>

\* rlen becomes rlen - 1 = -1 and memcpy is asked for (size_t)-1 bytes.
RecvError(e) ==
  /\ RecvCount(files[e.fd], Space(e.fd)) = -1
  /\ Crash

\* The buffer that is sent back, and what rbuffer keeps: rlen is set back to 0.
KeepAll(fd, got) == got   \* wrong variant: rlen is not reset
Keep(fd, got) == <<>>

\* What epoll watches a connection for once its buffer was filled.
AfterRecvIn == "in"   \* wrong variant: the event is not changed
AfterRecv == "out"

RecvEcho(e) ==
  LET fd == e.fd
      k == files[fd]
      got == connlist[fd].rbuffer \o RecvData(k, Space(fd))
  IN /\ RecvCount(k, Space(fd)) > 0
     /\ connlist' = [connlist EXCEPT ![fd].wbuffer = got, ![fd].rbuffer = Keep(fd, got)]
     /\ sock' = Received(k, Space(fd))
     /\ set_event(fd, "MOD", AfterRecv)
     /\ Finish(e)
     /\ UNCHANGED <<files, reply>>

recv_cb(e) == RecvEnd(e) \/ RecvError(e) \/ RecvEcho(e)

\* What epoll watches it for once its buffer was sent.
AfterSendOut == "out"   \* wrong variant: the event is not changed back
AfterSend == "in"

\* The count send returns is ignored.
SendBuffer(e) ==
  LET k == files[e.fd]
      data == connlist[e.fd].wbuffer
  IN /\ ~SendKills(k)
     /\ sock' = SentTo(k, Len(data))
     /\ reply' = IF SendFails(k) THEN reply ELSE [reply EXCEPT ![k] = @ \o data]
     /\ set_event(e.fd, "MOD", AfterSend)
     /\ Finish(e)
     /\ UNCHANGED <<files, connlist>>

\* SIGPIPE is not caught.
SendSignal(e) == SendKills(files[e.fd]) /\ Crash

send_cb(e) == SendBuffer(e) \/ SendSignal(e)

\* recv_t is a union: the IN callback is whatever the entry holds.
Dispatch ==
  /\ mode = "dispatch"
  /\ \E e \in events :
       \/ e.ev = "in" /\ connlist[e.fd].callback = "accept" /\ accept_cb(e)
       \/ e.ev = "in" /\ connlist[e.fd].callback = "recv" /\ recv_cb(e)
       \/ e.ev = "out" /\ send_cb(e)

Server == (\E p \in Ports : InitServer(p)) \/ CreateFails \/ InitServerFails \/ Wait \/ Dispatch

\* A connection was answered when all its bytes were sent back.
Answered(k) == Len(reply[k]) = sock[k].sent

Clients == /\ \E k \in Conns : Client(k, Answered(k))
           /\ UNCHANGED <<connlist, mode, reply>>

Next == Server \/ Clients

Spec == Init /\ [][Next]_vars

\* The server runs, and clients read their answers.
FairSpec == /\ Spec
            /\ WF_vars(Server)
            /\ \A k \in Conns :
                 WF_vars(ClientRead(k) /\ UNCHANGED <<files, epoll, events, connlist, mode, reply>>)
=============================================================================
