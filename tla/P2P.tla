-------------------------------- MODULE P2P --------------------------------
(***************************************************************************)
(* P2P_P1.c: two peers that bind a port and connect to each other at the   *)
(* same time, without a server.  An attempt succeeds only while both are in*)
(* one (a simultaneous open); otherwise it is refused and made again.      *)
(* Then a thread sends what is typed, and main receives until the other    *)
(* end closes.                                                             *)
(*                                                                         *)
(* The network is external: a SYN may be lost, and is sent again.          *)
(***************************************************************************)
EXTENDS P2PState

pvars == <<main, sender, typed, read, link, gone>>

Init == /\ main = [p \in Peers |-> "start"]
        /\ sender = [p \in Peers |-> "none"]
        /\ typed = [p \in Peers |-> 0] /\ read = [p \in Peers |-> 0]
        /\ link = FALSE
        /\ gone = [p \in Peers |-> "no"]

\* bind_localaddr; its -1 is passed to connect, which fails for ever.
Bind(p) == /\ main[p] = "start"
           /\ \E x \in {"retry", "unbound"} : main' = [main EXCEPT ![p] = x]
           /\ UNCHANGED <<sender, typed, read, link, gone>>

\* connect_tcpserver: a SYN, on its way or sent again.
Connect(p) == /\ main[p] = "retry"
              /\ main' = [main EXCEPT ![p] = "connecting"]
              /\ UNCHANGED <<sender, typed, read, link, gone>>

\* The SYN meets a port that does not connect, or nobody answers in time.
Refused(p) == /\ main[p] = "connecting" /\ ~link
              /\ main' = [main EXCEPT ![p] = "retry"]
              /\ UNCHANGED <<sender, typed, read, link, gone>>

\* The SYNs cross: connect returns at both ends.
Meet == /\ ~link /\ \A p \in Peers : main[p] = "connecting"
        /\ link' = TRUE
        /\ UNCHANGED <<main, sender, typed, read, gone>>

Connected(p) == /\ main[p] = "connecting" /\ link
                /\ main' = [main EXCEPT ![p] = "poll"]
                /\ sender' = [sender EXCEPT ![p] = "typing"]
                /\ UNCHANGED <<typed, read, link, gone>>

\* client_thread: "quit" ends the thread and nothing else.
Quit(p) == /\ main[p] = "poll" /\ sender[p] = "typing"
           /\ sender' = [sender EXCEPT ![p] = "quit"]
           /\ UNCHANGED <<main, typed, read, link, gone>>

\* send: to a peer that has closed, a first one is answered with a RST and one
\* after that raises SIGPIPE.
Exit(p) == /\ main' = [main EXCEPT ![p] = "ended"]
           /\ gone' = [gone EXCEPT ![p] = IF read[p] < typed[Other(p)] THEN "reset" ELSE "fin"]

Type(p) == /\ main[p] = "poll" /\ sender[p] = "typing" /\ typed[p] < MaxLines
           /\ \/ /\ gone[Other(p)] = "no" /\ typed' = [typed EXCEPT ![p] = @ + 1]
                 /\ UNCHANGED <<main, gone>>
              \/ /\ gone[Other(p)] = "fin" /\ gone' = [gone EXCEPT ![Other(p)] = "reset"]
                 /\ UNCHANGED <<main, typed>>
              \/ gone[Other(p)] = "reset" /\ Exit(p) /\ UNCHANGED typed
           /\ UNCHANGED <<sender, read, link>>

\* main: poll, and recv of what has come (all of it: a stream has no lines).
Receive(p) == /\ main[p] = "poll"
              /\ read[p] < typed[Other(p)]
              /\ read' = [read EXCEPT ![p] = typed[Other(p)]]
              /\ UNCHANGED <<main, sender, typed, link, gone>>

\* recv finds the end: of a FIN after everything else; after a reset it returns
\* an error first, which is printed as a count, and then the end.
EndOfFin(p) == gone[Other(p)] = "fin" /\ read[p] = typed[Other(p)]   \* wrong variant: not after an error
End(p) == EndOfFin(p) \/ gone[Other(p)] = "reset"

HangUp(p) == /\ main[p] = "poll"
             /\ End(p)
             /\ Exit(p)
             /\ UNCHANGED <<sender, typed, read, link>>

\* The process is killed from outside.
Kill(p) == /\ main[p] = "poll"
           /\ Exit(p)
           /\ UNCHANGED <<sender, typed, read, link>>

\* What main does of itself once the connection is made.
Loop(p) == Connected(p) \/ Receive(p) \/ HangUp(p)

Step(p) == Bind(p) \/ Connect(p) \/ Refused(p) \/ Quit(p) \/ Type(p) \/ Loop(p) \/ Kill(p)

Next == (\E p \in Peers : Step(p)) \/ Meet

Spec == Init /\ [][Next]_pvars
=============================================================================
