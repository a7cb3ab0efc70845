------------------------------ MODULE P2PState ------------------------------
(***************************************************************************)
(* The state of two peers that run P2P_P1.c (module P2P), and what has to  *)
(* hold of it.                                                             *)
(***************************************************************************)
EXTENDS Integers

CONSTANTS Peers,      \* the two peers
          MaxLines    \* bound on the lines typed at a peer

ASSUME PeersAssumption == (\E p, q \in Peers : p # q /\ Peers = {p, q}) /\ MaxLines \in Nat

VARIABLES main,      \* start, retry, connecting, poll; unbound, ended
          sender,    \* none, typing, quit: client_thread
          typed,     \* lines typed and sent
          read,      \* lines main has received
          link,      \* whether the connection was made
          gone       \* why the socket of a peer is closed: no, fin, reset

Other(p) == CHOOSE q \in Peers : q # p

(***************************************************************************)
(* When one peer has ended, killed while the other was still in connect or *)
(* in the midst of lines, with a FIN or with a reset, the other leaves its *)
(* loop as well: it is not left waiting for a peer that is gone.           *)
(***************************************************************************)
FollowsTheOther == \A p \in Peers : main[p] = "ended" ~> main[Other(p)] = "ended"
=============================================================================
