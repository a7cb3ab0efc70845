------------------------------ MODULE MultiIo ------------------------------
(***************************************************************************)
(* The servers of multi-io.c, hook-pthread.c and hook.c side by side: mode *)
(* says which of them was built.  They share the socket layer; what a      *)
(* server does not use keeps its first value.                              *)
(***************************************************************************)
EXTENDS MultiIoState

CONSTANTS Closers,      \* bound: the connections that their clients may close
          ThreadConns   \* bound: connections made to the servers with threads

ASSUME MultiIoBounds == ThreadConns \in Nat /\ Conns \subseteq Nat /\ Closers \subseteq Conns

ofSelect == <<watch, ready, maxfd, nfds>>
ofThreads == <<clientfd, threads, overtaken>>
vars == <<kernel, mode, at, buffer, i, reply, ofSelect, batch, ofThreads>>

Select == INSTANCE SelectServer
Epoll == INSTANCE EpollServer
Thread == INSTANCE ThreadServer

SelectUnused == watch = {} /\ ready = {} /\ maxfd = 0 /\ nfds = 0
ThreadsUnused == clientfd = -1 /\ threads = <<>> /\ overtaken = FALSE

Init == \/ Select!Init /\ batch = <<>> /\ ThreadsUnused
        \/ Epoll!Init /\ SelectUnused /\ ThreadsUnused
        \/ Thread!Init /\ SelectUnused /\ batch = <<>> /\ buffer = <<>> /\ i = 0

SelectLoop == mode \in {"select", "poll"} /\ Select!Server /\ UNCHANGED <<batch, ofThreads>>
EpollLoop == mode = "epoll" /\ Epoll!Server /\ UNCHANGED <<ofSelect, ofThreads>>
Threaded == mode \in {"thread", "hook", "single", "once"} /\ UNCHANGED <<buffer, i, ofSelect, batch>>
ThreadMain == Threaded /\ Thread!Main
ThreadRuns == Threaded /\ Thread!Threads

Server == SelectLoop \/ EpollLoop \/ ThreadMain \/ ThreadRuns

\* The connections are numbered in the order in which they are made.
InOrder(k) ==
  sock[k].phase = "new" => /\ mode \in {"select", "poll", "epoll"} \/ k <= ThreadConns
                           /\ \A j \in Conns : j < k => sock[j].phase # "new"

Clients == /\ \E k \in Conns : /\ InOrder(k) /\ Client(k, Len(reply[k]) = sock[k].sent)
                               /\ k \in Closers \/ sock'[k].peer = "open"
           /\ UNCHANGED <<mode, at, buffer, i, reply, ofSelect, batch, ofThreads>>

Next == Server \/ Clients

Spec == Init /\ [][Next]_vars

\* The loop runs, some thread that can run does, and some client that has
\* something to read reads it.
Loop == SelectLoop \/ EpollLoop \/ ThreadMain
AnswerRead == /\ \E k \in Conns : ClientRead(k)
              /\ UNCHANGED <<files, epoll, events, mode, at, buffer, i, reply, ofSelect, batch, ofThreads>>
FairSpec == Spec /\ WF_vars(Loop) /\ WF_vars(ThreadRuns) /\ WF_vars(AnswerRead)
=============================================================================
