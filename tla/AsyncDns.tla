------------------------------ MODULE AsyncDns ------------------------------
(***************************************************************************)
(* The asynchronous resolver of 2.3.1-Coroutine/                           *)
(* async_dns_client_noblock.c: main commits one query after the other,     *)
(* each on a UDP socket of its own, and the thread dns_async_client_proc   *)
(* waits for the replies, calls back and releases what the query used.     *)
(*                                                                         *)
(* The two threads share the descriptors of the process and the epoll set; *)
(* there is no lock.  A query is identified with the index of its domain;  *)
(* its struct ep_arg is allocated while the query is in heap.              *)
(***************************************************************************)
EXTENDS Integers, FiniteSets

CONSTANTS Count,       \* the number of domains that main asks for
          MaxFd,       \* descriptors of the sockets are 0 .. MaxFd
          Lossy,       \* whether datagrams may be lost
          Refused,     \* whether the answer may be an ICMP error
          MayFail      \* whether socket, calloc, pthread_create and epoll_ctl may fail

ASSUME DnsAssumption ==
  /\ {Count, MaxFd} \subseteq Nat
  /\ {Lossy, Refused, MayFail} \subseteq BOOLEAN

VARIABLES
  main,      \* where main is
  i,         \* the query that main commits: its loop variable
  files,     \* descriptor -> query whose socket it is, or NoQuery
  inbox,     \* query -> what its socket holds: nothing, a reply or an error
  network,   \* query -> datagrams in flight: at most one request or replies
  watched,   \* descriptor -> the ep_arg epoll reports for it, or NoQuery
  names,     \* queries whose question.qname is allocated
  heap,      \* ep_args that are allocated
  sockfd,    \* ep_arg -> its field sockfd
  proc,      \* where the thread is
  batch,     \* ep_args of the events it has not come to yet
  data,      \* the ep_arg it handles
  called     \* query -> what its callback was given, one entry per call

mainVars == <<main, i>>
procVars == <<proc, batch, data, called>>
vars == <<mainVars, procVars, files, inbox, network, watched, names, heap, sockfd>>

Queries == 0 .. Count - 1
NoQuery == -1
Fds == 0 .. MaxFd
FreeFds == {f \in Fds : files[f] = NoQuery}
LowestFree == CHOOSE f \in FreeFds : \A g \in FreeFds : f <= g
FdOf(q) == CHOOSE f \in Fds : files[f] = q

MainPC == {"init", "commit", "send", "alloc", "add", "exited"}
ProcPC == {"none", "wait", "next", "recv", "delete", "close", "free", "broken"}

\* What a second reply to the same request adds is not seen: the socket is
\* closed after the first.
MaxReplies == 2

Init ==
  /\ main = "init" /\ i = 0
  /\ files = [f \in Fds |-> NoQuery]
  /\ inbox = [q \in Queries |-> {}]
  /\ network = [q \in Queries |-> [request |-> 0, reply |-> 0]]
  /\ watched = [f \in Fds |-> NoQuery]
  /\ names = {} /\ heap = {}
  /\ sockfd = [q \in Queries |-> 0]
  /\ proc = "none" /\ batch = {} /\ data = NoQuery
  /\ called = [q \in Queries |-> {}]

-----------------------------------------------------------------------------
(* main, dns_async_client_init and dns_async_client_commit *)

\* epoll_create and pthread_create; main returns when one of them failed.
InitClient ==
  /\ main = "init"
  /\ \/ main' = "commit" /\ proc' = "wait"
     \/ MayFail /\ main' = "exited" /\ UNCHANGED proc
  /\ UNCHANGED <<i, files, inbox, network, watched, names, heap, sockfd, batch, data, called>>

\* socket(); the program exits when there is none.
OpenSocket ==
  /\ main = "commit"
  /\ i < Count
  /\ \/ /\ FreeFds # {}
        /\ files' = [files EXCEPT ![LowestFree] = i]
        /\ main' = "send"
     \/ /\ FreeFds = {} \/ MayFail
        /\ main' = "exited"
        /\ UNCHANGED files
  /\ UNCHANGED <<i, inbox, network, watched, names, heap, sockfd, procVars>>

\* The request goes out before the socket is watched.  The name of its question
\* is allocated, and freed nowhere.  A malloc that fails leaves one name less,
\* and the request goes out without a question; that case is left out.
SendRequest ==
  /\ main = "send"
  /\ names' = names \cup {i}
  /\ network' = [network EXCEPT ![i].request = 1]
  /\ main' = "alloc"
  /\ UNCHANGED <<i, files, inbox, watched, heap, sockfd, procVars>>

\* When calloc fails commit returns -1, which main ignores: the socket stays.
AllocArg ==
  /\ main = "alloc"
  /\ \/ /\ heap' = heap \cup {i}
        /\ sockfd' = [sockfd EXCEPT ![i] = FdOf(i)]
        /\ main' = "add"
        /\ UNCHANGED i
     \/ /\ MayFail
        /\ main' = "commit"
        /\ i' = i + 1
        /\ UNCHANGED <<heap, sockfd>>
  /\ UNCHANGED <<files, inbox, network, watched, names, procVars>>

\* The result of EPOLL_CTL_ADD is ignored as well.
AddEvent ==
  /\ main = "add"
  /\ \/ watched' = [watched EXCEPT ![FdOf(i)] = i]
     \/ MayFail /\ UNCHANGED watched
  /\ main' = "commit"
  /\ i' = i + 1
  /\ UNCHANGED <<files, inbox, network, names, heap, sockfd, procVars>>

\* After the last query main waits in getchar(); when it returns all is over.
Exit ==
  /\ main = "commit"
  /\ i = Count
  /\ main' = "exited"
  /\ UNCHANGED <<i, files, inbox, network, watched, names, heap, sockfd, procVars>>

Main == InitClient \/ OpenSocket \/ SendRequest \/ AllocArg \/ AddEvent

-----------------------------------------------------------------------------
(* The resolver at the other end, over UDP. *)

SocketOpen(q) == \E f \in Fds : files[f] = q

Respond(q) ==
  /\ network[q].request = 1
  /\ \E n \in 1 .. MaxReplies :
       network' = [network EXCEPT ![q] = [request |-> 0, reply |-> n]]
  /\ UNCHANGED inbox

Refuse(q) ==
  /\ Refused
  /\ network[q].request = 1
  /\ network' = [network EXCEPT ![q].request = 0]
  /\ inbox' = IF SocketOpen(q) THEN [inbox EXCEPT ![q] = @ \cup {"error"}] ELSE inbox

Arrive(q) ==
  /\ network[q].reply > 0
  /\ network' = [network EXCEPT ![q].reply = @ - 1]
  /\ inbox' = IF SocketOpen(q) THEN [inbox EXCEPT ![q] = @ \cup {"reply"}] ELSE inbox

Lose(q) ==
  /\ Lossy
  /\ network[q] # [request |-> 0, reply |-> 0]
  /\ network' = [network EXCEPT ![q] = [request |-> 0, reply |-> 0]]
  /\ UNCHANGED inbox

Network(q) == /\ Respond(q) \/ Refuse(q) \/ Arrive(q) \/ Lose(q)
              /\ UNCHANGED <<mainVars, procVars, files, watched, names, heap, sockfd>>

-----------------------------------------------------------------------------
(* dns_async_client_proc *)

Running == main # "exited"

ReadyArgs == {watched[f] : f \in {g \in Fds : watched[g] # NoQuery /\ inbox[files[g]] # {}}}

Wait ==
  /\ Running
  /\ proc = "wait"
  /\ ReadyArgs # {}
  /\ batch' = ReadyArgs
  /\ proc' = "next"
  /\ UNCHANGED <<mainVars, files, inbox, network, watched, names, heap, sockfd, data, called>>

\* An error other than EINTR or EAGAIN ends the loop, and with it the thread.
WaitFails ==
  /\ Running
  /\ proc = "wait"
  /\ MayFail
  /\ proc' = "broken"
  /\ UNCHANGED <<mainVars, files, inbox, network, watched, names, heap, sockfd, batch, data, called>>

\* The events the loop may come to.
UnseenPastEnd == batch \cup {NoQuery}   \* wrong variant: the entry after the last, a null pointer
Unseen == batch

NextEvent ==
  /\ Running
  /\ proc = "next"
  /\ \/ /\ batch # {}
        /\ data' \in Unseen
        /\ batch' = batch \ {data'}
        /\ proc' = "recv"
     \/ /\ batch = {}
        /\ proc' = "wait"
        /\ UNCHANGED <<batch, data>>
  /\ UNCHANGED <<mainVars, files, inbox, network, watched, names, heap, sockfd, called>>

\* recvfrom, dns_parse_response and the callback.  The count recvfrom returns is
\* ignored: what failed is parsed as a buffer of zeros, a list of no addresses.
RecvAndCall ==
  LET q == files[sockfd[data]] IN
  /\ Running
  /\ proc = "recv"
  /\ \E m \in inbox[q] : /\ inbox' = [inbox EXCEPT ![q] = @ \ {m}]
                         /\ called' = [called EXCEPT ![data] = @ \cup {<<Cardinality(@), q, m>>}]
  /\ proc' = "delete"
  /\ UNCHANGED <<mainVars, files, network, watched, names, heap, sockfd, batch, data>>

\* Closing releases the descriptor, what its socket held and its place in epoll.
Close(fd) == /\ files' = [files EXCEPT ![fd] = NoQuery]
             /\ watched' = [watched EXCEPT ![fd] = NoQuery]
             /\ inbox' = IF files[fd] = NoQuery THEN inbox ELSE [inbox EXCEPT ![files[fd]] = {}]

Delete(fd) == /\ watched' = [watched EXCEPT ![fd] = NoQuery]
              /\ UNCHANGED <<files, inbox>>

\* Wrong variants: close first, then delete whatever the descriptor is by then;
\* release nothing.
ReleaseCloseFirst ==
  \/ proc = "delete" /\ Close(sockfd[data]) /\ proc' = "close"
  \/ proc = "close" /\ Delete(sockfd[data]) /\ proc' = "free"
ReleaseNot == /\ proc = "delete" /\ proc' = "free"
              /\ UNCHANGED <<files, watched, inbox>>

\* EPOLL_CTL_DEL comes before close, while the descriptor cannot be reused.
Release ==
  \/ proc = "delete" /\ Delete(sockfd[data]) /\ proc' = "close"
  \/ proc = "close" /\ Close(sockfd[data]) /\ proc' = "free"

DeleteAndClose ==
  /\ Running
  /\ Release
  /\ UNCHANGED <<mainVars, network, names, heap, sockfd, batch, data, called>>

FreeNothing == heap   \* wrong variant: the ep_arg leaks
FreeArg == heap \ {data}

FreeData ==
  /\ Running
  /\ proc = "free"
  /\ heap' = FreeArg
  /\ proc' = "next"
  /\ UNCHANGED <<mainVars, files, inbox, network, watched, names, sockfd, batch, data, called>>

Proc == Wait \/ NextEvent \/ RecvAndCall \/ DeleteAndClose \/ FreeData

-----------------------------------------------------------------------------
Next == Main \/ Exit \/ Proc \/ WaitFails \/ \E q \in Queries : Network(q)

Spec == Init /\ [][Next]_vars

\* The two threads run, and the network delivers what it does not lose.  Nothing
\* obliges epoll_wait to fail, or main to exit.
FairSpec == /\ Spec /\ WF_vars(Main) /\ WF_vars(Proc)
            /\ \A q \in Queries : WF_vars(Network(q))
=============================================================================
