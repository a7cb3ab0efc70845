------------------------------ MODULE Programs ------------------------------
(***************************************************************************)
(* The small programs of the repository that do not share the socket layer *)
(* of the servers, side by side: program says which of them runs, and the  *)
(* variables of the others are "unused".                                   *)
(***************************************************************************)
EXTENDS UstackState, MulClientState, P2PState, CoroutinesState

CONSTANTS Hostnames, Chains, Junk   \* of DnsName

VARIABLES program,
          host, state, chain, reply, parsed

Dns == INSTANCE DnsName
Stack == INSTANCE Ustack
Load == INSTANCE MulClient
Peer == INSTANCE P2P
Co == INSTANCE Coroutines

ofDns == <<host, state, chain, reply, parsed>>
ofStack == <<pool, frame, rxq, burst, txq, pc, tx, arrived>>
ofLoad == <<phase, sockfd, connections, conn, pending, idle, lost>>
ofPeer == <<main, sender, typed, read, link, gone>>
ofCo == <<running, current, count, ctx, buffer>>
vars == <<program, ofDns, ofStack, ofLoad, ofPeer, ofCo>>

Init == /\ program \in {"dns", "ustack", "mulclient", "p2p", "ucontext"}
        /\ IF program = "dns" THEN Dns!Init
           ELSE host = <<>> /\ state = "ask" /\ chain = <<>> /\ reply = <<>> /\ parsed = Dns!Nothing
        /\ Stack!Init /\ Load!Init /\ Peer!Init /\ Co!Init

Next == \/ program = "dns" /\ Dns!Next /\ UNCHANGED <<program, ofStack, ofLoad, ofPeer, ofCo>>
        \/ program = "ustack" /\ Stack!Next /\ UNCHANGED <<program, ofDns, ofLoad, ofPeer, ofCo>>
        \/ program = "mulclient" /\ Load!Next /\ UNCHANGED <<program, ofDns, ofStack, ofPeer, ofCo>>
        \/ program = "p2p" /\ Peer!Next /\ UNCHANGED <<program, ofDns, ofStack, ofLoad, ofCo>>
        \/ program = "ucontext" /\ Co!Next /\ UNCHANGED <<program, ofDns, ofStack, ofLoad, ofPeer>>

Spec == Init /\ [][Next]_vars

\* The threads of the peers that poll the socket run.  Nobody has to type, to
\* quit or to kill a process, and attempts to connect need not meet.
FairSpec ==
  /\ Spec
  /\ \A p \in Peers : WF_vars(program = "p2p" /\ Peer!Loop(p) /\ UNCHANGED <<program, ofDns, ofStack, ofLoad, ofCo>>)

-----------------------------------------------------------------------------
\* A name in normal form is asked for as it is, and the answer's addresses are
\* found (explained in DnsName).
NameSurvives == Dns!NameSurvives
=============================================================================
