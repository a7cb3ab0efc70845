---------------------------- MODULE UstackState -----------------------------
(***************************************************************************)
(* The state of ustack.c (module Ustack), and what has to hold of it.      *)
(***************************************************************************)
EXTENDS Integers, Sequences, FiniteSets

CONSTANTS Mbufs,      \* the buffers of the pool (2048 in the program)
          BurstLen,   \* BURST_LEN
          DataRoom,   \* bytes in a buffer: RTE_MBUF_DEFAULT_BUF_SIZE without headroom
          Frames,     \* the frames that arrive
          MaxFrames   \* bound on how many do

ASSUME UstackAssumption ==
  /\ IsFiniteSet(Mbufs) /\ BurstLen \in Nat \ {0}
  /\ DataRoom \in Nat /\ DataRoom >= 42 /\ MaxFrames \in Nat
  /\ Frames # {} /\ \A f \in Frames : f.len \in Nat /\ f.len < 65536   \* a 16-bit field

VARIABLES pool,       \* buffer -> how many times it is in the pool
          frame,      \* buffer -> the frame it holds
          rxq,        \* buffers the port has filled
          burst,      \* mbufs[i ..]: the buffers of the burst still to be looked at
          txq,        \* buffers the driver still has to transmit
          pc,         \* poll, scan, encode, free; exited, undefined
          tx,         \* tx_buf, when there is one
          arrived     \* history: how many frames have

-----------------------------------------------------------------------------
(***************************************************************************)
(* No buffer is lost with a datagram or with a reply: what is neither in   *)
(* the pool, with the port, in the burst or in hand, nor with the driver,  *)
(* holds a frame that is not UDP and was passed over.                      *)
(***************************************************************************)
In(s, m) == \E n \in DOMAIN s : s[n] = m
Lost == {m \in Mbufs : pool[m] = 0 /\ m \notin tx /\ ~In(rxq, m) /\ ~In(burst, m) /\ ~In(txq, m)}
OnlyFilteredLost == \A m \in Lost : frame[m].kind # "udp"

(***************************************************************************)
(* The reply in hand has the payload's own length and goes to the sender of*)
(* the datagram it answers, as long as neither buffer is anywhere else as  *)
(* well: one that was freed twice can be taken for a new frame meanwhile.  *)
(***************************************************************************)
Alone(m) == pool[m] + Cardinality({n \in DOMAIN (rxq \o burst) : (rxq \o burst)[n] = m}) + Cardinality(tx \cap {m}) = 1
RepliesToSender ==
  pc = "free" =>
    \A m \in tx :
      LET f == frame[Head(burst)] IN
      Alone(m) /\ Alone(Head(burst)) => frame[m] = [kind |-> "udp", src |-> f.dst, dst |-> f.src, len |-> f.len]
=============================================================================
