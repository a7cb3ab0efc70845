----------------------------- MODULE HttpServer -----------------------------
(***************************************************************************)
(* The server of 2.1.1-multi-io/http-server.c: the reactor again, but what *)
(* arrives is kept in rbuffer and answered with one fixed response.        *)
(*                                                                         *)
(* http_request is empty, so of rbuffer only rlen matters; http_response   *)
(* fills wbuffer with the same text every time, so of wbuffer it matters   *)
(* only whether it is filled.  A response counts as one unit of the send   *)
(* buffer.                                                                 *)
(***************************************************************************)
EXTENDS Sockets

CONSTANTS StartMayFail,  \* whether socket, bind, epoll_create may fail
          CtlMayFail     \* whether epoll_ctl may fail for a connection

VARIABLES conn_list,  \* descriptor -> its entry
          mode,       \* start, wait, dispatch, ended (main returned), killed
          requests,   \* history: successful recv calls per connection
          responses,  \* history: responses sent per connection
          failed      \* history: connections for which epoll_ctl failed

history == <<requests, responses, failed>>
vars == <<kernel, conn_list, mode, history>>

UnsetEntry == [callback |-> "none", rlen |-> 0, wlen |-> 0]

Init == /\ SocketsInit
        /\ conn_list = [f \in Fds |-> UnsetEntry]
        /\ mode = "start"
        /\ requests = [k \in Conns |-> 0]
        /\ responses = [k \in Conns |-> 0]
        /\ failed = {}

\* set_event for a connection, and whether it returned 1.
set_event(fd, k, event, done) ==
  /\ done \/ CtlMayFail
  /\ epoll' = IF done THEN [epoll EXCEPT ![fd] = event] ELSE epoll
  /\ failed' = IF done THEN failed ELSE failed \cup {k}

-----------------------------------------------------------------------------
(* main() *)

Start(p) ==
  /\ mode = "start"
  /\ files' = [files EXCEPT ![LowestFree] = p]
  /\ conn_list' = [conn_list EXCEPT ![LowestFree].callback = "accept"]
  /\ epoll' = [epoll EXCEPT ![LowestFree] = "in"]
  /\ mode' = "wait"
  /\ UNCHANGED <<sock, events, history>>

\* Each call before the loop is checked, and main returns.
StartFails == /\ mode = "start"
              /\ StartMayFail
              /\ mode' = "ended"
              /\ UNCHANGED <<kernel, conn_list, history>>

Wait == /\ mode = "wait"
        /\ EpollWait
        /\ mode' = "dispatch"
        /\ UNCHANGED <<conn_list, history>>

HandledTwice(e) == events   \* wrong variant: the event is handled again
Handled(e) == events \ {e}
Finish(e) == /\ events' = Handled(e)
             /\ mode' = IF Handled(e) = {} THEN "wait" ELSE "dispatch"

-----------------------------------------------------------------------------
(* The callbacks. *)

\* The entry of a new connection, from whatever the entry held before.
KeepEntry(old) == [old EXCEPT !.callback = "recv"]   \* wrong variant: rlen is not reset
NewEntry(old) == [callback |-> "recv", rlen |-> 0, wlen |-> 0]

AcceptFails(e) ==
  /\ FreeFds = {}
  /\ Finish(e)
  /\ UNCHANGED <<files, sock, epoll, conn_list, history>>

\* epoll first, then the entry: when ADD fails the descriptor stays open,
\* unwatched, with the entry of an earlier connection.
AcceptConn(e) ==
  \E k \in Conns :
    /\ FreeFds # {}
    /\ Queued(k, files[e.fd])
    /\ files' = [files EXCEPT ![LowestFree] = k]
    /\ sock' = [sock EXCEPT ![k].phase = "open"]
    /\ \/ /\ set_event(LowestFree, k, "in", TRUE)
          /\ conn_list' = [conn_list EXCEPT ![LowestFree] = NewEntry(@)]
       \/ /\ set_event(LowestFree, k, "in", FALSE)
          /\ UNCHANGED conn_list
    /\ Finish(e)
    /\ UNCHANGED <<requests, responses>>

accept_cb(e) == AcceptFails(e) \/ AcceptConn(e)

\* The room that recv is offered: what is left of rbuffer.
SpaceFull(fd) == BUFFER_LEN   \* wrong variant: rlen is forgotten
Space(fd) == BUFFER_LEN - conn_list[fd].rlen

\* recv returns 0, or an error, for whatever reason: the connection is closed.
RecvEnd(e) ==
  LET k == files[e.fd] IN
  /\ RecvCount(k, Space(e.fd)) <= 0
  /\ CloseFd(e.fd)
  /\ Finish(e)
  /\ UNCHANGED <<conn_list, history>>

\* What epoll watches a connection for once its request was answered.
AfterRecvIn == "in"   \* wrong variant: the event is not changed
AfterRecv == "out"

\* http_request looks at nothing; http_response fills wbuffer.
http_request(item) == item
http_response(item) == [item EXCEPT !.wlen = 1]

\* rlen grows and is never set back.
RecvRequest(e) ==
  LET fd == e.fd
      k == files[fd]
      cnt == RecvCount(k, Space(fd))
  IN /\ cnt > 0
     /\ conn_list' = [conn_list EXCEPT ![fd] =
                        http_response(http_request([conn_list[fd] EXCEPT !.rlen = conn_list[fd].rlen + cnt]))]
     /\ sock' = Received(k, Space(fd))
     /\ \E done \in BOOLEAN : set_event(fd, k, AfterRecv, done)
     /\ requests' = [requests EXCEPT ![k] = @ + 1]
     /\ Finish(e)
     /\ UNCHANGED <<files, responses>>

recv_cb(e) == RecvEnd(e) \/ RecvRequest(e)

\* A response is sent again and again while the MOD fails: its history is
\* counted up to one more than there can be requests.
MaxResponses == MaxBytes + 1
Count(n) == IF n > MaxResponses THEN MaxResponses ELSE n

\* What epoll watches a connection for once it was sent its response.
AfterSendOut == "out"   \* wrong variant: the event is not changed back
AfterSend == "in"

SendResponse(e) ==
  LET k == files[e.fd] IN
  /\ ~SendFails(k) /\ ~SendKills(k)
  /\ sock' = SentTo(k, conn_list[e.fd].wlen)
  /\ responses' = [responses EXCEPT ![k] = Count(@ + conn_list[e.fd].wlen)]
  /\ \E done \in BOOLEAN : set_event(e.fd, k, AfterSend, done)
  /\ Finish(e)
  /\ UNCHANGED <<files, conn_list, requests>>

\* On -1 the callback returns and leaves the connection watched for EPOLLOUT.
SendError(e) ==
  LET k == files[e.fd] IN
  /\ SendFails(k)
  /\ sock' = SentTo(k, conn_list[e.fd].wlen)
  /\ Finish(e)
  /\ UNCHANGED <<files, epoll, conn_list, history>>

\* SIGPIPE is not caught.
SendSignal(e) == /\ SendKills(files[e.fd])
                 /\ mode' = "killed"
                 /\ UNCHANGED <<kernel, conn_list, history>>

send_cb(e) == SendResponse(e) \/ SendError(e) \/ SendSignal(e)

Dispatch ==
  /\ mode = "dispatch"
  /\ \E e \in events :
       \/ e.ev = "in" /\ conn_list[e.fd].callback = "accept" /\ accept_cb(e)
       \/ e.ev = "in" /\ conn_list[e.fd].callback = "recv" /\ recv_cb(e)
       \/ e.ev = "out" /\ send_cb(e)

Server == (\E p \in Ports : Start(p)) \/ StartFails \/ Wait \/ Dispatch

\* A client was answered when all it sent was received and responded to.
Answered(k) == requests[k] > 0 /\ responses[k] = requests[k]

Clients == /\ \E k \in Conns : Client(k, Answered(k))
           /\ UNCHANGED <<conn_list, mode, history>>

Next == Server \/ Clients

Spec == Init /\ [][Next]_vars
=============================================================================
