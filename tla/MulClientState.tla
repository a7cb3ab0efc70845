--------------------------- MODULE MulClientState ---------------------------
(***************************************************************************)
(* The state of mul_port_client_epoll.c (module MulClient), and what has to*)
(* hold of it.                                                             *)
(***************************************************************************)
EXTENDS Integers, FiniteSets

CONSTANTS Limit,          \* connections it wants (500000)
          Batch,          \* it polls when connections % Batch = Batch - 1 (1000)
          MAX_EPOLLSIZE,  \* room for events (384 * 1024)
          MaxSock,        \* the descriptors there are
          Room            \* what the socket takes before send fails with EAGAIN

ASSUME MulClientAssumption == {Limit, Batch, MAX_EPOLLSIZE, MaxSock, Room} \subseteq Nat \ {0}

VARIABLES phase,        \* open, poll, events; ended, killed, undefined
          sockfd, connections,
          conn,         \* descriptor -> the connection
          pending,      \* the events of the batch: descriptor and mask
          idle,         \* history: a round opened nothing
          lost          \* history: connections closed and still counted

Socks == 1 .. MaxSock
Open == {f \in Socks : conn[f].open}

(***************************************************************************)
(* connections counts the open connections and the ones that were closed   *)
(* after an error, none of them twice although events of one descriptor    *)
(* close another's.  And once a round found the limit reached, it never    *)
(* moves again, whatever ends or fails: every recv is then one on the      *)
(* terminal, whose errors are not counted, and nothing is ever reopened.   *)
(***************************************************************************)
SocketsCounted ==
  /\ connections = Cardinality(Open) + lost
  /\ idle => connections = Limit
=============================================================================
