------------------------------- MODULE Ustack -------------------------------
(***************************************************************************)
(* ustack.c: one loop that takes bursts of frames from a port and sends the*)
(* payload of every UDP datagram back.  The subject is who owns a buffer   *)
(* (mbuf): the pool, the port's receive queue, the loop, or the driver     *)
(* until it has transmitted it.  The port and its driver are external.     *)
(*                                                                         *)
(* A buffer that is freed twice is in the pool twice.  A frame is a kind,  *)
(* its two ends, and the UDP length it claims; lengths are 16-bit.         *)
(***************************************************************************)
EXTENDS UstackState

uvars == <<pool, frame, rxq, burst, txq, pc, tx, arrived>>

U16(n) == n % 65536

InPool == {m \in Mbufs : pool[m] > 0}
Take(m) == [pool EXCEPT ![m] = @ - 1]
rte_pktmbuf_free(m) == [pool EXCEPT ![m] = @ + 1]

Init == /\ pool = [m \in Mbufs |-> 1]
        /\ frame = [m \in Mbufs |-> CHOOSE f \in Frames : TRUE]
        /\ rxq = <<>> /\ burst = <<>> /\ txq = <<>>
        /\ pc = "poll" /\ tx = {}
        /\ arrived = 0

-----------------------------------------------------------------------------
(* The port, as long as the process is there. *)

Gone == pc \in {"exited", "undefined"}

Arrive == \E m \in InPool, f \in Frames :
            /\ ~Gone /\ arrived < MaxFrames
            /\ pool' = Take(m) /\ frame' = [frame EXCEPT ![m] = f]
            /\ rxq' = Append(rxq, m) /\ arrived' = arrived + 1
            /\ UNCHANGED <<burst, txq, pc, tx>>

\* The driver gives a buffer back to the pool once it has been transmitted.
Transmitted == /\ ~Gone /\ txq # <<>>
               /\ pool' = rte_pktmbuf_free(Head(txq)) /\ txq' = Tail(txq)
               /\ UNCHANGED <<frame, rxq, burst, pc, tx, arrived>>

-----------------------------------------------------------------------------
(* The lengths of ustack_send and ustack_encode_udp_pkt for a datagram that *)
(* claims dgram bytes: 14, 20 and 8 are the sizes of the headers.           *)

length(dgram) == U16(dgram - 8)
total_length(dgram) == length(dgram) + 14 + 20 + 8
udplen(dgram) == U16(U16(total_length(dgram)) - 14 - 20)
Copied(dgram) == udplen(dgram) - 8   \* as a size_t: huge when negative

\* What is sent back: the ends change places.
ReplyBack(f) == [f EXCEPT !.len = udplen(f.len)]   \* wrong variant: they do not
Reply(f) == [kind |-> "udp", src |-> f.dst, dst |-> f.src, len |-> udplen(f.len)]

-----------------------------------------------------------------------------
(* main *)

RxBurst == /\ pc = "poll" /\ rxq # <<>>
           /\ \E n \in 1 .. Len(rxq) :
                /\ n <= BurstLen
                /\ burst' = SubSeq(rxq, 1, n) /\ rxq' = SubSeq(rxq, n + 1, Len(rxq))
           /\ pc' = "scan"
           /\ UNCHANGED <<pool, frame, txq, tx, arrived>>

ScanEnds == /\ pc = "scan" /\ burst = <<>>
            /\ pc' = "poll"
            /\ UNCHANGED <<pool, frame, rxq, burst, txq, tx, arrived>>

\* What is not IPv4 or not UDP is passed over; its buffer is not given back.
Skip == /\ pc = "scan" /\ burst # <<>> /\ frame[Head(burst)].kind # "udp"
        /\ burst' = Tail(burst)
        /\ UNCHANGED <<pool, frame, rxq, txq, pc, tx, arrived>>

\* ustack_send: no buffer ends the program.
Alloc == /\ pc = "scan" /\ burst # <<>> /\ frame[Head(burst)].kind = "udp"
         /\ \/ InPool = {} /\ pc' = "exited" /\ UNCHANGED <<pool, tx>>
            \/ \E m \in InPool : pool' = Take(m) /\ tx' = {m} /\ pc' = "encode"
         /\ UNCHANGED <<frame, rxq, burst, txq, arrived>>

\* The reply is written into the buffer; then rte_eth_tx_burst, whose result is
\* ignored: the driver takes the buffer, or its queue is full.
Encode == /\ pc = "encode"
          /\ \E m \in tx :
               LET f == frame[Head(burst)] IN
               IF Copied(f.len) < 0 \/ 42 + Copied(f.len) > DataRoom
               THEN pc' = "undefined" /\ UNCHANGED <<frame, txq>>
               ELSE /\ frame' = [frame EXCEPT ![m] = Reply(f)]
                    /\ pc' = "free"
                    /\ txq' \in {txq, Append(txq, m)}
          /\ UNCHANGED <<pool, rxq, burst, tx, arrived>>

\* tx_buf and mbufs[i] are freed, the first although the driver may have it.
FreedReply(m, n) == rte_pktmbuf_free(m)   \* wrong variant: mbufs[i] is not
Freed(m, n) == [rte_pktmbuf_free(m) EXCEPT ![n] = @ + 1]

Free == /\ pc = "free"
        /\ \E m \in tx : pool' = Freed(m, Head(burst))
        /\ burst' = Tail(burst) /\ tx' = {} /\ pc' = "scan"
        /\ UNCHANGED <<frame, rxq, txq, arrived>>

Next == Arrive \/ Transmitted \/ RxBurst \/ ScanEnds \/ Skip \/ Alloc \/ Encode \/ Free

Spec == Init /\ [][Next]_uvars
=============================================================================
