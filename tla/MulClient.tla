----------------------------- MODULE MulClient -----------------------------
(***************************************************************************)
(* mul_port_client_epoll.c: a client that opens connections to a range of  *)
(* ports in turn until it has Limit, and looks at their events now and     *)
(* then.  The events of clientfd are answered on sockfd, the connection    *)
(* opened in the same round of the loop, or 0 when none was.  isContinue is*)
(* never anything but 0, and one port is like another.                     *)
(*                                                                         *)
(* The server at the other end is external: it sends, reads, ends or       *)
(* resets.  Connections are named by their descriptors, 1 .. MaxSock; 0 is *)
(* the terminal.                                                           *)
(***************************************************************************)
EXTENDS MulClientState

mvars == <<phase, sockfd, connections, conn, pending, idle, lost>>

\* in is what recv finds: nothing, data, the end, a reset, or
\* what a reset leaves once it was reported; room is what send finds.
NoConn == [open |-> FALSE, in |-> "nothing", room |-> 0]
FreeSocks == Socks \ Open

Init == /\ phase = "open" /\ sockfd = 0 /\ connections = 0
        /\ conn = [f \in Socks |-> NoConn]
        /\ pending = {} /\ idle = FALSE /\ lost = 0

\* What the server does to a connection; an end becomes a reset when it is sent to.
Remote == /\ phase \in {"open", "poll", "events"}
          /\ \E f \in Open :
               \/ /\ conn[f].in = "nothing"
                  /\ \E x \in {"data", "end", "reset"} : conn' = [conn EXCEPT ![f].in = x]
               \/ /\ conn[f].in = "end"
                  /\ conn' = [conn EXCEPT ![f].in = "reset"]
               \/ /\ conn[f].room < Room /\ conn[f].in \notin {"reset", "broken"}
                  /\ conn' = [conn EXCEPT ![f].room = Room]
          /\ UNCHANGED <<phase, sockfd, connections, pending, idle, lost>>

Writable(f) == conn[f].room > 0 \/ conn[f].in \in {"reset", "broken"}
Readable(f) == conn[f].in # "nothing"

\* The loop polls when it has opened a batch, or has as many as it wants.
PollNow(n) == n % Batch = Batch - 1 \/ n >= Limit

\* A new connection, which is sent a greeting, if it wants more.
\* When socket or connect fails the program ends.
Round ==
  /\ phase = "open"
  /\ \/ /\ connections < Limit
        /\ \/ \E f \in FreeSocks :
                /\ \A g \in FreeSocks : f <= g
                /\ sockfd' = f
                /\ conn' = [conn EXCEPT ![f] = [open |-> TRUE, in |-> "nothing", room |-> Room - 1]]
                /\ connections' = connections + 1
                /\ phase' = IF PollNow(connections + 1) THEN "poll" ELSE "open"
           \/ phase' = "ended" /\ sockfd' = 0 /\ UNCHANGED <<conn, connections>>
     \/ /\ connections >= Limit
        /\ sockfd' = 0
        /\ phase' = IF PollNow(connections) THEN "poll" ELSE "open"
        /\ UNCHANGED <<conn, connections>>
  /\ idle' = (idle \/ (sockfd' = 0 /\ phase' # "ended"))
  /\ UNCHANGED <<pending, lost>>

\* epoll_wait for at most "connections" events, which may be more than there is
\* room for.
Poll ==
  /\ phase = "poll"
  /\ LET all == {f \in Open : Writable(f) \/ Readable(f)} IN
     \E ready \in SUBSET all :
       /\ Cardinality(ready) = IF Cardinality(all) < connections THEN Cardinality(all) ELSE connections
       /\ pending' = {[fd |-> f, out |-> Writable(f)] : f \in ready}
       /\ phase' = IF ready = {} THEN "open" ELSE IF Cardinality(ready) > MAX_EPOLLSIZE THEN "undefined" ELSE "events"
  /\ UNCHANGED <<sockfd, connections, conn, idle, lost>>

Rest(e) == /\ pending' = pending \ {e}
           /\ phase' = IF pending = {e} THEN "open" ELSE "events"

\* EPOLLOUT comes first: a message is sent on sockfd.  It is refused by the
\* terminal, a closed descriptor or a full socket; a reset is reported once,
\* then SIGPIPE.
Answer(e) ==
  /\ e.out
  /\ IF sockfd \in Open /\ conn[sockfd].in = "broken"
     THEN phase' = "killed" /\ UNCHANGED <<conn, pending>>
     ELSE /\ Rest(e)
          /\ conn' = IF sockfd \notin Open THEN conn
                     ELSE IF conn[sockfd].in = "reset" THEN [conn EXCEPT ![sockfd].in = "broken"]
                     ELSE IF conn[sockfd].room > 0 THEN [conn EXCEPT ![sockfd].room = @ - 1] ELSE conn
  /\ UNCHANGED <<connections, lost>>

\* recv on sockfd: what it returns, and leaves.
RecvResult == IF sockfd \notin Open \/ conn[sockfd].in \in {"nothing", "reset"} THEN "error"
              ELSE IF conn[sockfd].in \in {"end", "broken"} THEN "end" ELSE conn[sockfd].in
Left == IF sockfd \notin Open THEN conn
        ELSE IF conn[sockfd].in = "reset" THEN [conn EXCEPT ![sockfd].in = "broken"]
        ELSE IF conn[sockfd].in = "data" THEN [conn EXCEPT ![sockfd].in = "nothing"] ELSE conn

\* connections after the end of one, and after an error: not counted down.
EndedUncounted == connections   \* wrong variant
Ended == connections - 1

\* Otherwise a message is taken from sockfd, but it is clientfd that is closed.
Take(e) ==
  /\ ~e.out
  /\ \/ /\ RecvResult = "data"
        /\ conn' = Left
        /\ UNCHANGED <<connections, lost>>
     \/ /\ RecvResult = "end"
        /\ conn' = [Left EXCEPT ![e.fd] = NoConn] /\ connections' = Ended
        /\ UNCHANGED lost
     \/ /\ RecvResult = "error"
        /\ conn' = [Left EXCEPT ![e.fd] = NoConn] /\ lost' = lost + 1
        /\ UNCHANGED connections
  /\ Rest(e)

Event == /\ phase = "events"
         /\ \E e \in pending : Answer(e) \/ Take(e)
         /\ UNCHANGED <<sockfd, idle>>

Next == Round \/ Poll \/ Event \/ Remote

Spec == Init /\ [][Next]_mvars
=============================================================================
