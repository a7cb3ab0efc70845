--------------------------- MODULE ProgramsProofs ---------------------------
(***************************************************************************)
(* What holds of the four programs of Programs that can be proved about,   *)
(* for every value of their constants: what the load client counts, that   *)
(* a peer is in time to see the other end, that no coroutine is resumed    *)
(* after it returned, and who owns the buffers of the UDP stack.           *)
(***************************************************************************)
EXTENDS Programs, FiniteSetTheorems, SequenceTheorems, TLAPS

-----------------------------------------------------------------------------
(* The load client. *)

ConnType == [open : BOOLEAN, in : {"nothing", "data", "end", "reset", "broken"}, room : Nat]

LType == /\ sockfd \in 0 .. MaxSock /\ connections \in Int /\ lost \in Nat /\ idle \in BOOLEAN
         /\ conn \in [Load!Socks -> ConnType]

\* The events of a batch are of different connections, all of them open until
\* they are handled.
PendingOpen == /\ \A e \in pending : e.fd \in Load!Open
               /\ \A d, e \in pending : d.fd = e.fd => d = e

LInv == /\ LType /\ PendingOpen
        /\ connections = Cardinality(Load!Open) + lost
        /\ connections <= Limit
        /\ idle => connections = Limit /\ sockfd = 0

USE MulClientAssumption

\* The open connections can be counted.
LEMMA OpenFinite == IsFiniteSet(Load!Open) /\ Cardinality(Load!Open) \in Nat
<1>1. IsFiniteSet(Load!Socks)
  BY FS_Interval, SMT DEF Load!Socks
<1> QED BY <1>1, FS_Subset, FS_CardinalityType DEF Load!Open

\* What recv leaves: the same connections are open.
LEMMA LeftType ==
  ASSUME LType
  PROVE  Load!Left \in [Load!Socks -> ConnType] /\ \A f \in Load!Socks : Load!Left[f].open = conn[f].open
<1>1. CASE sockfd \notin Load!Open
  BY <1>1 DEF Load!Left, LType
<1>2. CASE sockfd \in Load!Open /\ conn[sockfd].in = "reset"
  <2>1. Load!Left = [conn EXCEPT ![sockfd].in = "broken"]
    BY <1>2 DEF Load!Left
  <2> QED BY <1>2, <2>1 DEF LType, ConnType, Load!Open
<1>3. CASE sockfd \in Load!Open /\ conn[sockfd].in = "data"
  <2>1. Load!Left = [conn EXCEPT ![sockfd].in = "nothing"]
    BY <1>3 DEF Load!Left
  <2> QED BY <1>3, <2>1 DEF LType, ConnType, Load!Open
<1>4. CASE sockfd \in Load!Open /\ conn[sockfd].in \notin {"reset", "data"}
  <2>1. Load!Left = conn
    BY <1>4 DEF Load!Left
  <2> QED BY <2>1 DEF LType
<1> QED BY <1>1, <1>2, <1>3, <1>4

\* The connection of an event is closed, and nothing else.
LEMMA Closes ==
  ASSUME LInv, NEW e \in pending, conn' = [Load!Left EXCEPT ![e.fd] = Load!NoConn]
  PROVE  /\ conn' \in [Load!Socks -> ConnType]
         /\ Load!Open' = Load!Open \ {e.fd}
         /\ Cardinality(Load!Open') = Cardinality(Load!Open) - 1
<1>1. e.fd \in Load!Open /\ e.fd \in Load!Socks
  BY DEF LInv, PendingOpen, Load!Open
<1>2. conn' \in [Load!Socks -> ConnType]
  BY <1>1, LeftType DEF LInv, Load!NoConn, ConnType
<1>3. \A f \in Load!Socks : conn'[f].open = IF f = e.fd THEN FALSE ELSE conn[f].open
  BY <1>1, LeftType DEF LInv, Load!NoConn
<1>4. Load!Open' = Load!Open \ {e.fd}
  BY <1>3 DEF Load!Open, Load!Socks
<1>5. Cardinality(Load!Open \ {e.fd}) = Cardinality(Load!Open) - 1
  BY <1>1, OpenFinite, FS_RemoveElement
<1> QED BY <1>2, <1>4, <1>5

\* A step that opens and closes nothing, and counts nothing.
LEMMA Unopened ==
  ASSUME LInv, conn' \in [Load!Socks -> ConnType], \A f \in Load!Socks : conn'[f].open = conn[f].open,
         sockfd' = sockfd, idle' = idle, connections' = connections, lost' = lost,
         pending' \subseteq pending
  PROVE  LInv'
<1>1. Load!Open' = Load!Open
  BY DEF Load!Open, Load!Socks
<1>2. PendingOpen'
  BY <1>1 DEF LInv, PendingOpen
<1> QED BY <1>1, <1>2 DEF LInv, LType

\* A round opens the lowest free descriptor or finds the limit reached.
LEMMA RoundKeeps == ASSUME LInv, Load!Round PROVE LInv'
<1>1. ASSUME NEW f \in Load!FreeSocks, connections < Limit, sockfd' = f, connections' = connections + 1,
             conn' = [conn EXCEPT ![f] = [open |-> TRUE, in |-> "nothing", room |-> Room - 1]]
      PROVE  LInv'
  <2>1. f \in Load!Socks /\ f \notin Load!Open /\ f # 0 /\ f \in 0 .. MaxSock
    BY <1>1 DEF Load!FreeSocks, Load!Socks
  <2>2. conn' \in [Load!Socks -> ConnType]
    BY <1>1, <2>1 DEF LInv, LType, ConnType
  <2>3. Load!Open' = Load!Open \cup {f}
    BY <1>1, <2>1 DEF Load!Open, LInv, LType, Load!Socks
  <2>4. Cardinality(Load!Open') = Cardinality(Load!Open) + 1
    BY <2>1, <2>3, OpenFinite, FS_AddElement
  <2>5. ~idle /\ ~idle'
    BY <1>1, <2>1 DEF LInv, LType, Load!Round
  <2>6. PendingOpen'
    BY <2>3 DEF LInv, PendingOpen, Load!Round
  <2>7. LType'
    BY <1>1, <2>1, <2>2 DEF LInv, LType, Load!Round
  <2>8. connections' = Cardinality(Load!Open') + lost' /\ connections' <= Limit
    BY <1>1, <2>4, OpenFinite DEF LInv, LType, Load!Round
  <2> QED BY <2>5, <2>6, <2>7, <2>8 DEF LInv
<1>2. ASSUME sockfd' = 0, UNCHANGED <<conn, connections>>,
             phase' # "ended" => connections >= Limit
      PROVE  LInv'
  <2>1. idle' => idle \/ connections = Limit
    BY <1>2 DEF Load!Round, LInv, LType
  <2>2. Load!Open' = Load!Open
    BY <1>2 DEF Load!Open, Load!Socks
  <2> QED BY <1>2, <2>1, <2>2 DEF LInv, LType, PendingOpen, Load!Round
<1> QED BY <1>1, <1>2 DEF Load!Round

\* An event that is answered changes neither connections nor counters.
LEMMA AnswerKeeps ==
  ASSUME LInv, NEW e \in pending, Load!Answer(e), UNCHANGED <<sockfd, idle>>
  PROVE  LInv'
<1>1. pending' \subseteq pending
  BY DEF Load!Answer, Load!Rest
<1>2. conn' \in [Load!Socks -> ConnType] /\ \A f \in Load!Socks : conn'[f].open = conn[f].open
  BY DEF Load!Answer, LInv, LType, ConnType, Load!Open
<1> QED BY <1>1, <1>2, Unopened DEF Load!Answer

\* An event that is taken closes at most its own connection, and is counted.
LEMMA TakeKeeps ==
  ASSUME LInv, NEW e \in pending, Load!Take(e), UNCHANGED <<sockfd, idle>>
  PROVE  LInv'
<1>1. pending' = pending \ {e}
  BY DEF Load!Take, Load!Rest
<1>2. CASE conn' = Load!Left /\ UNCHANGED <<connections, lost>>
  BY <1>1, <1>2, LeftType, Unopened DEF LInv
<1>3. CASE /\ Load!RecvResult = "end" /\ conn' = [Load!Left EXCEPT ![e.fd] = Load!NoConn]
           /\ connections' = connections - 1 /\ lost' = lost
  <2>0. /\ conn' \in [Load!Socks -> ConnType] /\ Load!Open' = Load!Open \ {e.fd}
        /\ Cardinality(Load!Open') = Cardinality(Load!Open) - 1
    BY <1>3, Closes
  <2>1. PendingOpen'
    BY <1>1, <2>0 DEF LInv, PendingOpen
  <2>2. connections' = Cardinality(Load!Open') + lost'
    BY <1>3, <2>0, OpenFinite DEF LInv, LType
  <2>3. ~idle
    BY <1>3 DEF Load!RecvResult, LInv, LType, Load!Open, Load!Socks
  <2>4. LType'
    BY <1>3, <2>0 DEF LInv, LType
  <2> QED BY <1>3, <2>1, <2>2, <2>3, <2>4 DEF LInv, LType
<1>4. CASE /\ conn' = [Load!Left EXCEPT ![e.fd] = Load!NoConn]
           /\ connections' = connections /\ lost' = lost + 1
  <2>0. /\ conn' \in [Load!Socks -> ConnType] /\ Load!Open' = Load!Open \ {e.fd}
        /\ Cardinality(Load!Open') = Cardinality(Load!Open) - 1
    BY <1>4, Closes
  <2>1. PendingOpen'
    BY <1>1, <2>0 DEF LInv, PendingOpen
  <2>2. connections' = Cardinality(Load!Open') + lost'
    BY <1>4, <2>0, OpenFinite DEF LInv, LType
  <2>3. LType'
    BY <1>4, <2>0 DEF LInv, LType
  <2> QED BY <1>4, <2>1, <2>2, <2>3 DEF LInv, LType
<1> QED BY <1>2, <1>3, <1>4 DEF Load!Take, Load!Ended

\* The invariant holds at first and is kept by every step.
LEMMA CounterInvariant == Load!Spec => []LInv
<1>1. Load!Init => LInv
  <2> SUFFICES ASSUME Load!Init PROVE LInv
    OBVIOUS
  <2>1. Load!Open = {}
    BY DEF Load!Init, Load!Open, Load!NoConn
  <2>2. Cardinality(Load!Open) = 0
    BY <2>1, FS_EmptySet
  <2>3. Load!NoConn \in ConnType
    BY DEF Load!NoConn, ConnType
  <2>4. MaxSock \in Nat /\ Limit \in Nat
    OBVIOUS
  <2>5. conn \in [Load!Socks -> ConnType] /\ idle \in BOOLEAN
    BY <2>3, Zenon DEF Load!Init
  <2>6. LType
    BY <2>4, <2>5, SMT DEF Load!Init, LType
  <2> QED BY <2>2, <2>4, <2>6 DEF Load!Init, LInv, LType, PendingOpen
<1>2. LInv /\ [Load!Next]_Load!mvars => LInv'
  <2> SUFFICES ASSUME LInv, [Load!Next]_Load!mvars PROVE LInv'
    OBVIOUS
  <2>1. CASE Load!Round
    BY <2>1, RoundKeeps
  <2>2. CASE Load!Poll
    <3>1. PendingOpen'
      BY <2>2 DEF Load!Poll, PendingOpen, Load!Open
    <3>2. Load!Open' = Load!Open
      BY <2>2 DEF Load!Poll, Load!Open
    <3> QED BY <2>2, <3>1, <3>2 DEF Load!Poll, LInv, LType
  <2>3. CASE Load!Event
    BY <2>3, AnswerKeeps, TakeKeeps DEF Load!Event
  <2>4. CASE Load!Remote
    <3>1. conn' \in [Load!Socks -> ConnType] /\ \A f \in Load!Socks : conn'[f].open = conn[f].open
      BY <2>4 DEF Load!Remote, LInv, LType, ConnType, Load!Open
    <3> QED BY <2>4, <3>1, Unopened DEF Load!Remote
  <2>5. CASE UNCHANGED Load!mvars
    BY <2>5 DEF Load!mvars, LInv, LType, PendingOpen, Load!Open
  <2> QED BY <2>1, <2>2, <2>3, <2>4, <2>5 DEF Load!Next
<1> QED BY <1>1, <1>2, PTL DEF Load!Spec
-----------------------------------------------------------------------------
(* The peers. *)

\* Every peer has one other.
LEMMA OtherPeer ==
  /\ \A p \in Peers : Peer!Other(p) \in Peers /\ Peer!Other(p) # p /\ Peer!Other(Peer!Other(p)) = p
<1>1. PICK a, b \in Peers : a # b /\ Peers = {a, b}
  BY PeersAssumption
<1>2. Peer!Other(a) = b /\ Peer!Other(b) = a
  BY <1>1 DEF Peer!Other
<1> QED BY <1>1, <1>2

\* Nobody is in the loop before the connection is made, and from then on both
\* are in connect, in the loop or at their end.
PInv == /\ main \in [Peers -> {"start", "retry", "connecting", "poll", "unbound", "ended"}]
        /\ gone \in [Peers -> {"no", "fin", "reset"}]
        /\ typed \in [Peers -> Nat] /\ read \in [Peers -> Nat] /\ link \in BOOLEAN
        /\ \A p \in Peers : main[p] = "ended" <=> gone[p] # "no"
        /\ link => \A p \in Peers : main[p] \in {"connecting", "poll", "ended"}
        /\ ~link => \A p \in Peers : main[p] \notin {"poll", "ended"}
        /\ \A p \in Peers : read[p] <= typed[Peer!Other(p)]

\* A process that exits leaves a FIN or a reset.
LEMMA ExitKeeps ==
  ASSUME PInv, NEW p \in Peers, main[p] = "poll", Peer!Exit(p), UNCHANGED <<typed, read, link>>
  PROVE  PInv'
BY OtherPeer DEF PInv, Peer!Exit

\* The invariant holds at first and is kept by every step.
LEMMA PeersKeep == Peer!Spec => []PInv
<1>1. Peer!Init => PInv
  <2> SUFFICES ASSUME Peer!Init PROVE PInv
    OBVIOUS
  <2>1. \A p \in Peers : main[p] = "start" /\ gone[p] = "no" /\ read[p] = 0 /\ typed[Peer!Other(p)] = 0
    BY OtherPeer DEF Peer!Init
  <2>2. /\ main \in [Peers -> {"start", "retry", "connecting", "poll", "unbound", "ended"}]
        /\ gone \in [Peers -> {"no", "fin", "reset"}]
        /\ typed \in [Peers -> Nat] /\ read \in [Peers -> Nat] /\ link = FALSE
    BY DEF Peer!Init
  <2>3. /\ \A p \in Peers : main[p] = "ended" <=> gone[p] # "no"
        /\ \A p \in Peers : main[p] \notin {"poll", "ended"}
    BY <2>1
  <2>4. \A p \in Peers : read[p] <= typed[Peer!Other(p)]
    BY <2>1
  <2> QED BY <2>2, <2>3, <2>4 DEF PInv
<1>2. PInv /\ [Peer!Next]_Peer!pvars => PInv'
  <2> SUFFICES ASSUME PInv, [Peer!Next]_Peer!pvars PROVE PInv'
    OBVIOUS
  <2>1. ASSUME NEW p \in Peers, Peer!Step(p) PROVE PInv'
    <3>1. CASE Peer!Bind(p)
      BY <3>1, <2>1 DEF PInv, Peer!Bind
    <3>2. CASE Peer!Connect(p) \/ Peer!Refused(p) \/ Peer!Connected(p)
      BY <3>2, <2>1 DEF PInv, Peer!Connect, Peer!Refused, Peer!Connected
    <3>3. CASE Peer!Quit(p)
      BY <3>3, <2>1 DEF PInv, Peer!Quit
    <3>4. CASE Peer!Type(p)
      <4>1. CASE gone[Peer!Other(p)] = "no" /\ typed' = [typed EXCEPT ![p] = @ + 1] /\ UNCHANGED <<main, gone, read, link>>
        BY <4>1, <3>4, <2>1, OtherPeer DEF PInv, Peer!Type
      <4>2. CASE gone[Peer!Other(p)] = "fin" /\ gone' = [gone EXCEPT ![Peer!Other(p)] = "reset"] /\ UNCHANGED <<main, typed, read, link>>
        BY <4>2, <3>4, <2>1, OtherPeer DEF PInv, Peer!Type
      <4>3. CASE gone[Peer!Other(p)] = "reset" /\ Peer!Exit(p) /\ UNCHANGED <<typed, read, link>>
        BY <4>3, <3>4, <2>1, OtherPeer, ExitKeeps DEF PInv, Peer!Type
      <4> QED BY <3>4, <4>1, <4>2, <4>3 DEF Peer!Type
    <3>5. CASE Peer!Receive(p)
      BY <3>5, <2>1, OtherPeer DEF PInv, Peer!Receive
    <3>6. CASE Peer!HangUp(p)
      BY <3>6, <2>1, OtherPeer, ExitKeeps DEF PInv, Peer!HangUp
    <3>7. CASE Peer!Kill(p)
      BY <3>7, ExitKeeps DEF Peer!Kill
    <3> QED BY <2>1, <3>1, <3>2, <3>3, <3>4, <3>5, <3>6, <3>7 DEF Peer!Step, Peer!Loop
  <2>2. CASE Peer!Meet
    BY <2>2 DEF PInv, Peer!Meet
  <2>3. CASE UNCHANGED Peer!pvars
    BY <2>3 DEF PInv, Peer!pvars
  <2> QED BY <2>1, <2>2, <2>3 DEF Peer!Next
<1> QED BY <1>1, <1>2, PTL DEF Peer!Spec
-----------------------------------------------------------------------------
(* The coroutines. *)

\* The count says whether a coroutine has returned, and main looks at it before
\* each switch: one returns only when it finds N, which leaves N + 1.
IInv == /\ running \in {"file", "main", "coroutine", "ended"}
        /\ current \in Co!Ctx /\ count \in Nat
        /\ ctx \in [Co!Ctx -> {"fresh", "yielded", "returned"}]
        /\ \A c \in Co!Ctx : ctx[c] = "returned" => count > N
        /\ running = "coroutine" => count <= N

\* The index main computes is that of a context.
LEMMA IndexInRange == ASSUME NEW n \in Nat PROVE n % K \in Co!Ctx
<1>1. n % K \in Int /\ 0 <= n % K /\ n % K < K
  BY CoroutineAssumption, SMT
<1> QED BY <1>1, CoroutineAssumption, SMT DEF Co!Ctx

\* The invariant holds at first and is kept by every step.
LEMMA CountTells == Co!Spec => []IInv
<1>1. Co!Init => IInv
  BY CoroutineAssumption, SMT DEF Co!Init, IInv, Co!Ctx
<1>2. IInv /\ [Co!Next]_Co!cvars => IInv'
  <2> SUFFICES ASSUME IInv, [Co!Next]_Co!cvars PROVE IInv'
    OBVIOUS
  <2>1. CASE Co!File
    BY <2>1 DEF IInv, Co!File
  <2>2. CASE Co!Schedule
    <3>1. count % K \in Co!Ctx
      BY IndexInRange DEF IInv
    <3> QED BY <2>2, <3>1, CoroutineAssumption DEF IInv, Co!Schedule
  <2>3. CASE Co!Coroutine
    <3>1. count' \in Nat /\ current' \in Co!Ctx /\ running' = "main"
      BY <2>3 DEF IInv, Co!Coroutine
    <3>2. ctx' \in [Co!Ctx -> {"fresh", "yielded", "returned"}]
      BY <2>3 DEF IInv, Co!Coroutine, Co!Counting
    <3>3. ASSUME NEW c \in Co!Ctx, ctx'[c] = "returned" PROVE count' > N
      BY <2>3, <3>3, CoroutineAssumption DEF IInv, Co!Coroutine, Co!Counting
    <3> QED BY <3>1, <3>2, <3>3 DEF IInv
  <2>4. CASE UNCHANGED Co!cvars
    BY <2>4 DEF IInv, Co!cvars
  <2> QED BY <2>1, <2>2, <2>3, <2>4 DEF Co!Next
<1> QED BY <1>1, <1>2, PTL DEF Co!Spec

-----------------------------------------------------------------------------
(* The UDP stack. *)

HIDE MulClientAssumption

\* What a 16-bit field holds.
LEMMA Kept == ASSUME NEW x \in Int, 0 <= x, x < 65536 PROVE Stack!U16(x) = x
BY SMT DEF Stack!U16
LEMMA Under == ASSUME NEW x \in Int, 0 <= x + 65536, x < 0 PROVE Stack!U16(x) = x + 65536
BY SMT DEF Stack!U16
LEMMA Over == ASSUME NEW x \in Int, 65536 <= x, x < 131072 PROVE Stack!U16(x) = x - 65536
BY SMT DEF Stack!U16

\* The length that is put together and taken apart again, 16 bits wide, comes
\* out as it went in.
LEMMA LengthKept ==
  ASSUME NEW n \in Nat, n < 65536
  PROVE  Stack!udplen(n) = n
<1>1. PICK l \in Int : l = IF n < 8 THEN n + 65528 ELSE n - 8
  BY SMT
<1>2. Stack!U16(n - 8) = l
  <2>1. PICK x \in Int : x = n - 8
    BY SMT
  <2>2. CASE n < 8
    <3>1. Stack!U16(x) = x + 65536
      <4>1. 0 <= x + 65536 /\ x < 0
        BY <2>1, <2>2
      <4> QED BY <4>1, Under, SMT
    <3> QED BY <1>1, <2>1, <2>2, <3>1
  <2>3. CASE ~(n < 8)
    <3>1. Stack!U16(x) = x
      <4>1. 0 <= x /\ x < 65536
        BY <2>1, <2>3
      <4> QED BY <4>1, Kept, SMT
    <3> QED BY <1>1, <2>1, <2>3, <3>1
  <2> QED BY <2>2, <2>3
<1>3. PICK t \in Int : t = IF n < 65502 THEN n + 34 ELSE n - 65502
  BY SMT
<1>4. PICK s \in Int : s = l + 14 + 20 + 8
  BY SMT
<1>5. Stack!U16(s) = t
  <2>1. CASE 0 <= s /\ s < 65536
    <3>1. Stack!U16(s) = s
      BY <2>1, Kept, SMT
    <3>2. s = t
      BY <1>1, <1>3, <1>4, <2>1
    <3> QED BY <3>1, <3>2
  <2>2. CASE 65536 <= s
    <3>1. s < 131072 /\ t = s - 65536
      BY <1>1, <1>3, <1>4, <2>2
    <3>2. Stack!U16(s) = s - 65536
      BY <2>2, <3>1, Over, SMT
    <3> QED BY <3>1, <3>2
  <2>3. 0 <= s
    BY <1>1, <1>4
  <2> QED BY <2>1, <2>2, <2>3
<1>6. PICK r \in Int : r = t - 14 - 20
  BY SMT
<1>7. Stack!U16(r) = n
  <2>1. CASE n < 65502
    <3>1. 0 <= r /\ r < 65536 /\ r = n
      BY <1>3, <1>6, <2>1
    <3>2. Stack!U16(r) = r
      BY <3>1, Kept, SMT
    <3> QED BY <3>1, <3>2
  <2>2. CASE ~(n < 65502)
    <3>1. 0 <= r + 65536 /\ r < 0 /\ r + 65536 = n
      BY <1>3, <1>6, <2>2
    <3>2. Stack!U16(r) = r + 65536
      BY <3>1, Under, SMT
    <3> QED BY <3>1, <3>2
  <2> QED BY <2>1, <2>2
<1>8. Stack!total_length(n) = s
  BY <1>2, <1>4, SMT DEF Stack!total_length, Stack!length
<1> QED BY <1>5, <1>6, <1>7, <1>8, SMT DEF Stack!udplen

\* The buffers are where the program has them.
Lengths == {n \in Nat : n < 65536}
StackType ==
  /\ pool \in [Mbufs -> Nat]
  /\ DOMAIN frame = Mbufs /\ \A m \in Mbufs : frame[m].len \in Lengths
  /\ rxq \in Seq(Mbufs) /\ burst \in Seq(Mbufs) /\ txq \in Seq(Mbufs)
  /\ pc \in {"poll", "scan", "encode", "free", "exited", "undefined"}
  /\ tx = {} \/ \E m \in Mbufs : tx = {m}
  /\ pc \in {"encode", "free"} => burst # <<>> /\ tx # {}
  /\ pc \in {"poll", "scan", "exited"} => tx = {}
  /\ pc = "poll" => burst = <<>>

\* The reply is there, unless one of the two buffers was taken for a new frame
\* since it was written, or both are the same.
Retaken(m) == \E n \in 1 .. Len(rxq) : rxq[n] = m
ReplyTo(f) == [kind |-> "udp", src |-> f.dst, dst |-> f.src, len |-> f.len]
ReplyStands ==
  pc = "free" => \A m \in tx : \/ Retaken(m) \/ Retaken(Head(burst)) \/ m = Head(burst)
                               \/ frame[m] = ReplyTo(frame[Head(burst)])

StackInv == StackType /\ OnlyFilteredLost /\ ReplyStands

HIDE DEF Lengths

\* A buffer that is in none of the places is lost, and one that is lost is in
\* none of them.
LEMMA LostOrThere ==
  ASSUME NEW m \in Mbufs
  PROVE  m \in Lost <=> pool[m] = 0 /\ m \notin tx /\ ~In(rxq, m) /\ ~In(burst, m) /\ ~In(txq, m)
BY DEF Lost

\* What is in a sequence that grows or shrinks at an end.
LEMMA InAppend ==
  ASSUME NEW s \in Seq(Mbufs), NEW m \in Mbufs
  PROVE  /\ In(Append(s, m), m)
         /\ \A x : In(s, x) => In(Append(s, m), x)
<1>1. /\ Append(s, m) \in Seq(Mbufs) /\ Len(s) \in Nat /\ Len(Append(s, m)) = Len(s) + 1
      /\ Append(s, m)[Len(s) + 1] = m
      /\ \A n \in 1 .. Len(s) : Append(s, m)[n] = s[n]
  BY AppendProperties
<1>2. DOMAIN s = 1 .. Len(s) /\ DOMAIN Append(s, m) = 1 .. Len(s) + 1
  BY <1>1
<1> QED BY <1>1, <1>2, SMT DEF In

LEMMA InTail ==
  ASSUME NEW s \in Seq(Mbufs), s # <<>>, NEW x, In(s, x), x # Head(s)
  PROVE  In(Tail(s), x)
<1>1. PICK n \in 1 .. Len(s) : s[n] = x
  BY DEF In
<1>2. Len(s) \in Nat /\ Head(s) = s[1] /\ Len(Tail(s)) = Len(s) - 1 /\ Tail(s) \in Seq(Mbufs)
      /\ \A k \in 1 .. Len(Tail(s)) : Tail(s)[k] = s[k + 1]
  BY HeadTailProperties
<1>3. n - 1 \in 1 .. Len(Tail(s)) /\ (n - 1) + 1 = n
  BY <1>1, <1>2
<1>4. Tail(s)[n - 1] = x
  BY <1>1, <1>2, <1>3
<1>5. n - 1 \in DOMAIN Tail(s)
  BY <1>2, <1>3
<1> QED BY <1>4, <1>5 DEF In

\* A step that loses nothing new, and touches only frames that are not lost.
LEMMA NoMoreLost ==
  ASSUME OnlyFilteredLost,
         \A m \in Mbufs : m \in Lost' => m \in Lost /\ frame'[m] = frame[m]
  PROVE  OnlyFilteredLost'
BY DEF OnlyFilteredLost, Lost

\* A frame that arrives takes a buffer out of the pool.
LEMMA ArriveKeeps == ASSUME StackInv, Stack!Arrive PROVE StackInv'
<1>1. PICK m \in Mbufs, f \in Frames :
        /\ pool[m] > 0 /\ pool' = [pool EXCEPT ![m] = @ - 1] /\ frame' = [frame EXCEPT ![m] = f]
        /\ rxq' = Append(rxq, m)
        /\ UNCHANGED <<burst, txq, pc, tx>>
  BY DEF Stack!Arrive, Stack!InPool, Stack!Take
<1>2. rxq' \in Seq(Mbufs) /\ Len(rxq') = Len(rxq) + 1 /\ rxq'[Len(rxq) + 1] = m
      /\ \A n \in 1 .. Len(rxq) : rxq'[n] = rxq[n]
  <2>1. rxq \in Seq(Mbufs)
    BY DEF StackInv, StackType
  <2> QED BY <1>1, <2>1, AppendProperties
<1>3. pool' \in [Mbufs -> Nat] /\ \A x \in Mbufs : x # m => pool'[x] = pool[x]
  BY <1>1 DEF StackInv, StackType
<1>4. StackType'
  <2>1. f.len \in Lengths
    BY UstackAssumption DEF Lengths
  <2>2. DOMAIN frame' = Mbufs /\ \A x \in Mbufs : frame'[x].len \in Lengths
    BY <1>1, <2>1 DEF StackInv, StackType
  <2> QED BY <1>1, <1>2, <1>3, <2>2 DEF StackInv, StackType
<1>5. OnlyFilteredLost'
  <2>1. In(rxq', m) /\ \A x : In(rxq, x) => In(rxq', x)
    BY <1>1, InAppend DEF StackInv, StackType
  <2>2. ASSUME NEW x \in Mbufs, x \in Lost' PROVE x \in Lost /\ frame'[x] = frame[x]
    <3>1. pool'[x] = 0 /\ x \notin tx' /\ ~In(rxq', x) /\ ~In(burst', x) /\ ~In(txq', x)
      BY <2>2 DEF Lost
    <3>2. x # m /\ ~In(rxq, x)
      BY <2>1, <3>1
    <3>3. pool[x] = 0 /\ x \notin tx /\ ~In(burst, x) /\ ~In(txq, x) /\ frame'[x] = frame[x]
      BY <1>1, <1>3, <3>1, <3>2, Zenon DEF In, StackInv, StackType
    <3> QED BY <3>2, <3>3, LostOrThere
  <2> QED BY <2>2, NoMoreLost DEF StackInv
<1>6. ReplyStands'
  <2> SUFFICES ASSUME pc = "free", NEW x \in tx
               PROVE  \/ Retaken(x)' \/ Retaken(Head(burst))' \/ x = Head(burst)
                      \/ frame'[x] = ReplyTo(frame'[Head(burst)])
    BY <1>1 DEF ReplyStands
  <2>1. Len(rxq) \in Nat
    BY DEF StackInv, StackType
  <2>2. ASSUME NEW y, Retaken(y) PROVE Retaken(y)'
    BY <1>2, <2>1, <2>2 DEF Retaken
  <2>3. Retaken(m)'
    BY <1>2, <2>1 DEF Retaken
  <2>4. CASE x = m \/ Head(burst) = m
    <3>1. burst' = burst
      BY <1>1
    <3> QED BY <2>3, <2>4, <3>1, Zenon DEF Retaken
  <2>5. CASE x # m /\ Head(burst) # m
    <3>1. x \in Mbufs /\ Head(burst) \in Mbufs
      BY HeadTailProperties DEF StackInv, StackType
    <3>2. frame'[x] = frame[x] /\ frame'[Head(burst)] = frame[Head(burst)]
      BY <1>1, <2>5, <3>1 DEF StackInv, StackType
    <3>3. Retaken(x) \/ Retaken(Head(burst)) \/ x = Head(burst)
          \/ frame[x] = ReplyTo(frame[Head(burst)])
      BY DEF StackInv, ReplyStands
    <3>4. burst' = burst
      BY <1>1
    <3>5. Retaken(x) => Retaken(x)'
      BY <2>2
    <3>6. Retaken(Head(burst)) => Retaken(Head(burst))'
      BY <2>2, <3>4, Zenon DEF Retaken
    <3> QED BY <3>2, <3>3, <3>5, <3>6, Zenon
  <2> QED BY <2>4, <2>5
<1> QED BY <1>4, <1>5, <1>6 DEF StackInv

\* A buffer that was transmitted comes back to the pool.
LEMMA TransmittedKeeps == ASSUME StackInv, Stack!Transmitted PROVE StackInv'
<1>1. PICK m \in Mbufs : m = Head(txq) /\ pool' = [pool EXCEPT ![m] = @ + 1]
  BY HeadTailProperties DEF StackInv, StackType, Stack!Transmitted, Stack!rte_pktmbuf_free
<1>2. UNCHANGED <<frame, rxq, burst, pc, tx>> /\ txq' = Tail(txq) /\ txq # <<>>
  BY DEF Stack!Transmitted
<1>3. StackType'
  <2>1. txq' \in Seq(Mbufs) /\ pool' \in [Mbufs -> Nat]
    BY <1>1, <1>2, HeadTailProperties DEF StackInv, StackType
  <2>2. UNCHANGED <<frame, rxq, burst, pc, tx>>
    BY <1>2
  <2> QED BY <2>1, <2>2, SMT DEF StackInv, StackType
<1>4. OnlyFilteredLost'
  <2>1. ASSUME NEW x \in Mbufs, x \in Lost' PROVE x \in Lost /\ frame'[x] = frame[x]
    <3>1. pool'[x] = 0 /\ x \notin tx' /\ ~In(rxq', x) /\ ~In(burst', x) /\ ~In(txq', x)
      BY <2>1 DEF Lost
    <3>2. x # m /\ pool[x] = 0
      BY <1>1, <3>1 DEF StackInv, StackType
    <3>3. ~In(txq, x)
      BY <1>1, <1>2, <3>1, <3>2, InTail DEF StackInv, StackType
    <3>4. x \notin tx /\ ~In(rxq, x) /\ ~In(burst, x) /\ frame'[x] = frame[x]
      BY <1>2, <3>1, Zenon DEF In
    <3> QED BY <3>2, <3>3, <3>4, LostOrThere
  <2> QED BY <2>1, NoMoreLost DEF StackInv
<1>5. ReplyStands'
  BY DEF StackInv, ReplyStands, Retaken, Stack!Transmitted
<1> QED BY <1>3, <1>4, <1>5 DEF StackInv

\* A burst is taken off the receive queue.
LEMMA RxBurstKeeps == ASSUME StackInv, Stack!RxBurst PROVE StackInv'
<1>0. rxq \in Seq(Mbufs) /\ Len(rxq) \in Nat /\ tx = {} /\ pc = "poll" /\ pc' = "scan" /\ burst = <<>>
  BY DEF StackInv, StackType, Stack!RxBurst
<1>1. PICK n \in 1 .. Len(rxq) : burst' = SubSeq(rxq, 1, n) /\ rxq' = SubSeq(rxq, n + 1, Len(rxq))
  BY DEF Stack!RxBurst
<1>2. burst' \in Seq(Mbufs) /\ Len(burst') = n /\ \A k \in 1 .. n : burst'[k] = rxq[k]
  <2>1. \A k \in 1 .. n : rxq[k] \in Mbufs
    BY <1>0
  <2>2. 1 \in Int /\ n \in Int /\ 1 <= n /\ n - 1 + 1 = n
    BY <1>0
  <2> QED BY <1>1, <2>1, <2>2, SubSeqProperties
<1>3. /\ rxq' \in Seq(Mbufs) /\ Len(rxq') = Len(rxq) - n
      /\ \A k \in 1 .. Len(rxq) - n : rxq'[k] = rxq[n + k]
  <2>1. \A k \in n + 1 .. Len(rxq) : rxq[k] \in Mbufs
    BY <1>0
  <2>2. n + 1 \in Int /\ Len(rxq) \in Int
        /\ (IF n + 1 <= Len(rxq) THEN Len(rxq) - (n + 1) + 1 ELSE 0) = Len(rxq) - n
    BY <1>0
  <2> QED BY <1>1, <2>1, <2>2, SubSeqProperties
<1>5. UNCHANGED <<pool, frame, txq, tx>>
  BY DEF Stack!RxBurst
<1>6. StackType'
  BY <1>0, <1>2, <1>3, <1>5, SMT DEF StackInv, StackType
<1>7. OnlyFilteredLost'
  <2>1. ASSUME NEW x, In(rxq, x) PROVE In(burst', x) \/ In(rxq', x)
    <3>1. PICK k \in 1 .. Len(rxq) : rxq[k] = x
      BY <1>0, <2>1 DEF In
    <3>2. CASE k <= n
      <4>1. k \in DOMAIN burst' /\ burst'[k] = x
        BY <1>2, <3>1, <3>2
      <4> QED BY <4>1 DEF In
    <3>3. CASE k > n
      <4>1. k - n \in 1 .. Len(rxq) - n /\ n + (k - n) = k
        BY <1>0, <3>1, <3>3
      <4>2. k - n \in DOMAIN rxq' /\ rxq'[k - n] = x
        BY <1>3, <3>1, <4>1
      <4> QED BY <4>2 DEF In
    <3> QED BY <3>2, <3>3
  <2>2. ASSUME NEW x \in Mbufs, x \in Lost' PROVE x \in Lost /\ frame'[x] = frame[x]
    <3>1. pool'[x] = 0 /\ x \notin tx' /\ ~In(rxq', x) /\ ~In(burst', x) /\ ~In(txq', x)
      BY <2>2 DEF Lost
    <3>2. ~In(burst, x)
      BY <1>0 DEF In
    <3>3. pool[x] = 0 /\ x \notin tx /\ ~In(txq, x) /\ frame'[x] = frame[x]
      BY <1>5, <3>1, Zenon DEF In
    <3> QED BY <2>1, <3>1, <3>2, <3>3, LostOrThere
  <2> QED BY <2>2, NoMoreLost DEF StackInv
<1> QED BY <1>0, <1>6, <1>7 DEF StackInv, ReplyStands

\* The end of a burst leaves everything where it is.
LEMMA ScanEndsKeeps == ASSUME StackInv, Stack!ScanEnds PROVE StackInv'
<1>1. UNCHANGED <<pool, frame, rxq, burst, txq, tx>> /\ pc = "scan" /\ pc' = "poll" /\ burst = <<>>
  BY DEF Stack!ScanEnds
<1>2. StackType'
  BY <1>1 DEF StackInv, StackType
<1>3. OnlyFilteredLost'
  BY <1>1 DEF StackInv, OnlyFilteredLost, Lost, In
<1> QED BY <1>1, <1>2, <1>3 DEF StackInv, ReplyStands

\* A frame that is not UDP is passed over: this is how a buffer is lost.
LEMMA SkipKeeps == ASSUME StackInv, Stack!Skip PROVE StackInv'
<1>1. UNCHANGED <<pool, frame, rxq, txq, pc, tx>> /\ pc = "scan" /\ burst # <<>>
      /\ burst' = Tail(burst) /\ frame[Head(burst)].kind # "udp"
  BY DEF Stack!Skip
<1>2. burst' \in Seq(Mbufs)
  BY <1>1, HeadTailProperties DEF StackInv, StackType
<1>3. StackType'
  BY <1>1, <1>2, SMT DEF StackInv, StackType
<1>4. OnlyFilteredLost'
  <2>1. ASSUME NEW x \in Mbufs, x \in Lost' PROVE frame'[x].kind # "udp"
    <3>1. pool'[x] = 0 /\ x \notin tx' /\ ~In(rxq', x) /\ ~In(burst', x) /\ ~In(txq', x)
      BY <2>1 DEF Lost
    <3>2. CASE x = Head(burst)
      BY <1>1, <3>2
    <3>3. CASE x # Head(burst)
      <4>1. ~In(burst, x)
        BY <1>1, <3>1, <3>3, InTail DEF StackInv, StackType
      <4>2. x \in Lost
        BY <1>1, <3>1, <4>1, LostOrThere, Zenon DEF In
      <4> QED BY <1>1, <4>2 DEF StackInv, OnlyFilteredLost
    <3> QED BY <3>2, <3>3
  <2> QED BY <2>1 DEF OnlyFilteredLost, Lost
<1> QED BY <1>1, <1>3, <1>4 DEF StackInv, ReplyStands

\* A buffer is taken for the reply, or there is none.
LEMMA AllocKeeps == ASSUME StackInv, Stack!Alloc PROVE StackInv'
<1>1. UNCHANGED <<frame, rxq, burst, txq>> /\ pc = "scan" /\ burst # <<>> /\ tx = {}
  BY DEF StackInv, StackType, Stack!Alloc
<1>2. CASE Stack!InPool = {} /\ pc' = "exited" /\ UNCHANGED <<pool, tx>>
  <2>1. StackType'
    BY <1>1, <1>2, SMT DEF StackInv, StackType
  <2>2. OnlyFilteredLost'
    BY <1>1, <1>2 DEF StackInv, OnlyFilteredLost, Lost, In
  <2> QED BY <1>2, <2>1, <2>2 DEF StackInv, ReplyStands
<1>3. ASSUME NEW m \in Stack!InPool, pool' = Stack!Take(m), tx' = {m}, pc' = "encode" PROVE StackInv'
  <2>1. m \in Mbufs /\ pool[m] > 0 /\ pool' = [pool EXCEPT ![m] = @ - 1]
    BY <1>3 DEF Stack!InPool, Stack!Take
  <2>2. pool' \in [Mbufs -> Nat] /\ \A x \in Mbufs : x # m => pool'[x] = pool[x]
    BY <2>1 DEF StackInv, StackType
  <2>3. StackType'
    BY <1>1, <1>3, <2>1, <2>2, SMT DEF StackInv, StackType
  <2>4. OnlyFilteredLost'
    <3>1. ASSUME NEW x \in Mbufs, x \in Lost' PROVE x \in Lost /\ frame'[x] = frame[x]
      <4>1. pool'[x] = 0 /\ x \notin tx' /\ ~In(rxq', x) /\ ~In(burst', x) /\ ~In(txq', x)
        BY <3>1 DEF Lost
      <4>2. x # m /\ pool[x] = 0
        BY <1>3, <2>2, <4>1
      <4>3. x \notin tx /\ ~In(rxq, x) /\ ~In(burst, x) /\ ~In(txq, x) /\ frame'[x] = frame[x]
        BY <1>1, <4>1, Zenon DEF In
      <4> QED BY <4>2, <4>3, LostOrThere
    <3> QED BY <3>1, NoMoreLost DEF StackInv
  <2> QED BY <1>3, <2>3, <2>4 DEF StackInv, ReplyStands
<1> QED BY <1>2, <1>3 DEF Stack!Alloc

\* The reply is written: it has the payload's length and the ends changed over.
LEMMA EncodeKeeps == ASSUME StackInv, Stack!Encode PROVE StackInv'
<1>1. UNCHANGED <<pool, rxq, burst, tx>> /\ pc = "encode"
  BY DEF Stack!Encode
<1>2. PICK m \in Mbufs : tx = {m}
  BY <1>1 DEF StackInv, StackType
<1>3. Head(burst) \in Mbufs
  BY <1>1, HeadTailProperties DEF StackInv, StackType
<1>4. CASE pc' = "undefined" /\ UNCHANGED <<frame, txq>>
  <2>1. StackType'
    BY <1>1, <1>4, SMT DEF StackInv, StackType
  <2>2. OnlyFilteredLost'
    BY <1>1, <1>4 DEF StackInv, OnlyFilteredLost, Lost, In
  <2> QED BY <1>4, <2>1, <2>2 DEF StackInv, ReplyStands
<1>5. CASE /\ frame' = [frame EXCEPT ![m] = Stack!Reply(frame[Head(burst)])]
           /\ pc' = "free" /\ txq' \in {txq, Append(txq, m)}
  <2>1. PICK f : f = frame[Head(burst)]
    OBVIOUS
  <2>2. f.len \in Lengths
    BY <1>3, <2>1 DEF StackInv, StackType
  <2>3. Stack!Reply(f) = ReplyTo(f)
    <3>1. Stack!udplen(f.len) = f.len
      BY <2>2, LengthKept DEF Lengths
    <3> QED BY <3>1, Zenon DEF Stack!Reply, ReplyTo
  <2>4. frame' = [frame EXCEPT ![m] = ReplyTo(f)]
    BY <1>5, <2>1, <2>3, Zenon
  <2>5. /\ DOMAIN frame' = Mbufs /\ \A x \in Mbufs : frame'[x].len \in Lengths
        /\ frame'[m] = ReplyTo(f) /\ \A x \in Mbufs : x # m => frame'[x] = frame[x]
    BY <2>2, <2>4 DEF StackInv, StackType, ReplyTo
  <2>6. txq' \in Seq(Mbufs)
    <3>1. txq \in Seq(Mbufs)
      BY DEF StackInv, StackType
    <3>2. Append(txq, m) \in Seq(Mbufs)
      BY <3>1, AppendProperties, Zenon
    <3> QED BY <1>5, <3>1, <3>2
  <2>7. StackType'
    <3>1. tx # {} /\ burst # <<>>
      BY <1>1 DEF StackInv, StackType
    <3> QED BY <1>1, <1>5, <2>5, <2>6, <3>1, SMT DEF StackInv, StackType
  <2>8. OnlyFilteredLost'
    <3>1. \A x : In(txq, x) => In(txq', x)
      <4>1. CASE txq' = txq
        BY <4>1, Zenon DEF In
      <4>2. CASE txq' = Append(txq, m)
        <5>1. txq \in Seq(Mbufs)
          BY DEF StackInv, StackType
        <5> QED BY <4>2, <5>1, InAppend, Zenon
      <4> QED BY <1>5, <4>1, <4>2
    <3>2. ASSUME NEW x \in Mbufs, x \in Lost' PROVE x \in Lost /\ frame'[x] = frame[x]
      <4>1. pool'[x] = 0 /\ x \notin tx' /\ ~In(rxq', x) /\ ~In(burst', x) /\ ~In(txq', x)
        BY <3>2 DEF Lost
      <4>2. x # m /\ ~In(txq, x)
        BY <1>1, <1>2, <3>1, <4>1
      <4>3. pool[x] = 0 /\ x \notin tx /\ ~In(rxq, x) /\ ~In(burst, x) /\ frame'[x] = frame[x]
        BY <1>1, <2>5, <4>1, <4>2, Zenon DEF In
      <4> QED BY <4>2, <4>3, LostOrThere
    <3> QED BY <3>2, NoMoreLost DEF StackInv
  <2>9. ReplyStands'
    <3>1. m = Head(burst) \/ frame'[m] = ReplyTo(frame'[Head(burst)])
      BY <1>3, <2>1, <2>5, Zenon
    <3> QED BY <1>1, <1>2, <3>1 DEF ReplyStands
  <2> QED BY <2>7, <2>8, <2>9 DEF StackInv
<1> QED BY <1>2, <1>4, <1>5 DEF Stack!Encode

\* The buffer of the reply and that of the datagram go to the pool, whatever
\* the driver has.
LEMMA FreeKeeps == ASSUME StackInv, Stack!Free PROVE StackInv'
<1>1. UNCHANGED <<frame, rxq, txq>> /\ pc = "free" /\ pc' = "scan" /\ tx' = {}
      /\ burst' = Tail(burst) /\ burst # <<>>
  BY DEF StackInv, StackType, Stack!Free
<1>2. PICK m \in Mbufs : tx = {m} /\ pool' = [[pool EXCEPT ![m] = @ + 1] EXCEPT ![Head(burst)] = @ + 1]
  BY DEF StackInv, StackType, Stack!Free, Stack!Freed, Stack!rte_pktmbuf_free
<1>3. Head(burst) \in Mbufs /\ burst' \in Seq(Mbufs)
  BY <1>1, HeadTailProperties DEF StackInv, StackType
<1>4. /\ pool' \in [Mbufs -> Nat] /\ pool'[m] > 0 /\ pool'[Head(burst)] > 0
      /\ \A x \in Mbufs : pool'[x] >= pool[x] /\ pool[x] \in Nat
  <2>1. PICK h \in Mbufs : h = Head(burst)
    BY <1>3
  <2>2. pool \in [Mbufs -> Nat]
    BY DEF StackInv, StackType
  <2>3. PICK between : between = [pool EXCEPT ![m] = @ + 1]
    OBVIOUS
  <2>4. between \in [Mbufs -> Nat] /\ between[m] > 0 /\ \A x \in Mbufs : between[x] >= pool[x]
    BY <2>2, <2>3
  <2>5. pool' = [between EXCEPT ![h] = @ + 1]
    BY <1>2, <2>1, <2>3
  <2>6. pool' \in [Mbufs -> Nat] /\ pool'[h] > 0 /\ \A x \in Mbufs : pool'[x] >= between[x]
    BY <2>4, <2>5
  <2>7. pool'[m] > 0 /\ \A x \in Mbufs : pool'[x] >= pool[x]
    BY <2>2, <2>4, <2>6
  <2> QED BY <2>1, <2>2, <2>6, <2>7
<1>5. StackType'
  BY <1>1, <1>3, <1>4, SMT DEF StackInv, StackType
<1>6. OnlyFilteredLost'
  <2>1. ASSUME NEW x \in Mbufs, x \in Lost' PROVE x \in Lost /\ frame'[x] = frame[x]
    <3>1. pool'[x] = 0 /\ x \notin tx' /\ ~In(rxq', x) /\ ~In(burst', x) /\ ~In(txq', x)
      BY <2>1 DEF Lost
    <3>2. pool[x] = 0 /\ x # m /\ x # Head(burst)
      BY <1>4, <3>1
    <3>3. ~In(burst, x)
      BY <1>1, <3>1, <3>2, InTail DEF StackInv, StackType
    <3>4. x \notin tx /\ ~In(rxq, x) /\ ~In(txq, x) /\ frame'[x] = frame[x]
      BY <1>1, <1>2, <3>1, <3>2, Zenon DEF In
    <3> QED BY <3>2, <3>3, <3>4, LostOrThere
  <2> QED BY <2>1, NoMoreLost DEF StackInv
<1> QED BY <1>1, <1>5, <1>6 DEF StackInv, ReplyStands

\* All buffers are in the pool at first, once.
LEMMA StackStarts == ASSUME Stack!Init PROVE StackInv
<1>1. StackType
  <2>1. (CHOOSE f \in Frames : TRUE) \in Frames
    BY UstackAssumption
  <2>2. \A f \in Frames : f.len \in Lengths
    BY UstackAssumption DEF Lengths
  <2>3. DOMAIN frame = Mbufs /\ \A m \in Mbufs : frame[m].len \in Lengths
    BY <2>1, <2>2, Zenon DEF Stack!Init
  <2>4. rxq \in Seq(Mbufs) /\ burst \in Seq(Mbufs) /\ txq \in Seq(Mbufs)
    BY DEF Stack!Init
  <2> QED BY <2>3, <2>4 DEF Stack!Init, StackType
<1>2. OnlyFilteredLost
  BY DEF Stack!Init, OnlyFilteredLost, Lost
<1> QED BY <1>1, <1>2 DEF StackInv, ReplyStands, Stack!Init

\* The invariant holds at first and is kept by every step.
LEMMA StackInvariant == Stack!Spec => []StackInv
<1>1. StackInv /\ [Stack!Next]_Stack!uvars => StackInv'
  <2>1. StackInv /\ UNCHANGED Stack!uvars => StackInv'
    BY DEF Stack!uvars, StackInv, StackType, OnlyFilteredLost, Lost, In, ReplyStands, Retaken
  <2> QED BY <2>1, ArriveKeeps, TransmittedKeeps, RxBurstKeeps, ScanEndsKeeps, SkipKeeps, AllocKeeps,
             EncodeKeeps, FreeKeeps DEF Stack!Next
<1> QED BY <1>1, StackStarts, PTL DEF Stack!Spec

\* Where m is with the port or in the burst.
Places(m) == {n \in DOMAIN (rxq \o burst) : (rxq \o burst)[n] = m}

LEMMA PlacesOf ==
  ASSUME StackType
  PROVE  /\ \A m : IsFiniteSet(Places(m))
         /\ \A m : Retaken(m) => \E n \in Places(m) : n <= Len(rxq)
         /\ burst # <<>> => Len(rxq) + 1 \in Places(Head(burst))
<1>1. DOMAIN (rxq \o burst) = 1 .. Len(rxq) + Len(burst)
      /\ Len(rxq) \in Nat /\ Len(burst) \in Nat
  BY DEF StackType
<1>2. ASSUME NEW m PROVE IsFiniteSet(Places(m))
  <2>1. IsFiniteSet(1 .. Len(rxq) + Len(burst))
    BY <1>1, FS_Interval
  <2>2. Places(m) \subseteq 1 .. Len(rxq) + Len(burst)
    BY <1>1 DEF Places
  <2> QED BY <2>1, <2>2, FS_Subset
<1>3. ASSUME NEW m, Retaken(m) PROVE \E n \in Places(m) : n <= Len(rxq)
  <2>1. PICK n \in 1 .. Len(rxq) : rxq[n] = m
    BY <1>3 DEF Retaken
  <2>2. (rxq \o burst)[n] = m
    BY <2>1 DEF StackType
  <2> QED BY <1>1, <2>1, <2>2 DEF Places
<1>4. ASSUME burst # <<>> PROVE Len(rxq) + 1 \in Places(Head(burst))
  <2>1. (rxq \o burst)[Len(rxq) + 1] = Head(burst) /\ Len(burst) > 0
    BY <1>1, <1>4 DEF StackType
  <2> QED BY <1>1, <2>1 DEF Places
<1> QED BY <1>2, <1>3, <1>4

\* A buffer that is alone was not retaken, and the two of a reply are not one.
LEMMA AloneStands ==
  ASSUME StackType, pc = "free", NEW m \in tx, Alone(m), Alone(Head(burst))
  PROVE  ~Retaken(m) /\ ~Retaken(Head(burst)) /\ m # Head(burst)
<1>1. tx = {m} /\ m \in Mbufs /\ burst # <<>> /\ Head(burst) \in Mbufs
      /\ Len(rxq) \in Nat /\ pool[m] \in Nat /\ pool[Head(burst)] \in Nat
  BY HeadTailProperties DEF StackType
<1>2. pool[m] + Cardinality(Places(m)) + 1 = 1
  <2>1. Cardinality(tx \cap {m}) = 1
    <3>1. tx \cap {m} = {m}
      BY <1>1
    <3> QED BY <3>1, FS_Singleton, Zenon
  <2> QED BY <2>1, Zenon DEF Alone, Places
<1>3. Places(m) = {}
  <2>1. Cardinality(Places(m)) \in Nat
    BY PlacesOf, FS_CardinalityType
  <2>2. Cardinality(Places(m)) = 0
    BY <1>1, <1>2, <2>1, SMT
  <2> QED BY <2>2, PlacesOf, FS_EmptySet, Zenon
<1>4. ~Retaken(m) /\ m # Head(burst)
  BY <1>1, <1>3, PlacesOf, Zenon
<1>5. ASSUME Retaken(Head(burst)) PROVE FALSE
  <2>1. PICK h : h = Head(burst)
    OBVIOUS
  <2>2. PICK n \in Places(h) : n <= Len(rxq)
    BY <1>5, <2>1, PlacesOf, Zenon
  <2>3. PICK l \in Places(h) : l = Len(rxq) + 1
    BY <1>1, <2>1, PlacesOf, Zenon
  <2>4. n # l
    BY <1>1, <2>2, <2>3, SMT
  <2>5. Cardinality({n, l}) = 2 /\ IsFiniteSet(Places(h))
    <3>1. IsFiniteSet({n}) /\ Cardinality({n}) = 1
      BY FS_Singleton
    <3>2. Cardinality({n} \cup {l}) = Cardinality({n}) + 1
      BY <2>4, <3>1, FS_AddElement
    <3>3. {n} \cup {l} = {n, l}
      OBVIOUS
    <3>4. Cardinality({n, l}) = 2
      BY <3>1, <3>2, <3>3, SMT
    <3> QED BY <3>4, PlacesOf, Zenon
  <2>6. Cardinality(Places(h)) >= 2 /\ Cardinality(Places(h)) \in Nat
    <3>1. {n, l} \subseteq Places(h)
      OBVIOUS
    <3> QED BY <2>5, <3>1, FS_Subset, FS_CardinalityType
  <2>7. pool[h] + Cardinality(Places(h)) + Cardinality(tx \cap {h}) = 1
    BY <2>1, Zenon DEF Alone, Places
  <2>8. Cardinality(tx \cap {h}) = 0
    <3>1. tx \cap {h} = {}
      BY <1>1, <1>4, <2>1
    <3> QED BY <3>1, FS_EmptySet, Zenon
  <2> QED BY <1>1, <2>1, <2>6, <2>7, <2>8, SMT
<1> QED BY <1>4, <1>5

-----------------------------------------------------------------------------
(* The programs side by side.  Each takes its own steps and leaves the others *)
(* where they are.                                                            *)

LEMMA EachRunsAlone ==
  Spec => Stack!Spec /\ Load!Spec /\ Peer!Spec /\ Co!Spec
<1>1. Init => Stack!Init /\ Load!Init /\ Peer!Init /\ Co!Init
  BY DEF Init
<1>2. [Next]_vars => [Stack!Next]_Stack!uvars
  BY DEF Next, vars, ofStack, Stack!uvars
<1>3. [Next]_vars => [Load!Next]_Load!mvars
  BY DEF Next, vars, ofLoad, Load!mvars
<1>4. [Next]_vars => [Peer!Next]_Peer!pvars
  BY DEF Next, vars, ofPeer, Peer!pvars
<1>5. [Next]_vars => [Co!Next]_Co!cvars
  BY DEF Next, vars, ofCo, Co!cvars
<1> QED BY <1>1, <1>2, <1>3, <1>4, <1>5, PTL DEF Spec, Stack!Spec, Load!Spec, Peer!Spec, Co!Spec

\* Whatever frames arrive and however the driver lags, every buffer of a datagram
\* and of a reply comes back: what is in no place was lost with a frame that is
\* not UDP.
THEOREM DatagramsComeBack == Spec => []OnlyFilteredLost
<1>1. StackInv => OnlyFilteredLost
  BY Zenon DEF StackInv
<1> QED BY <1>1, EachRunsAlone, StackInvariant, PTL

\* A reply whose buffers are not shared goes to the sender with the payload's
\* own length, for every 16-bit length.
THEOREM RepliesGoBack == Spec => []RepliesToSender
<1>1. StackInv => RepliesToSender
  <2> SUFFICES ASSUME StackInv, pc = "free", NEW m \in tx, Alone(m), Alone(Head(burst))
               PROVE  frame[m] = ReplyTo(frame[Head(burst)])
    BY Zenon DEF RepliesToSender, ReplyTo
  <2> QED BY AloneStands, Zenon DEF StackInv, ReplyStands
<1> QED BY <1>1, EachRunsAlone, StackInvariant, PTL

\* The counter is the open connections and the ones closed on error, for every
\* limit, batch and number of descriptors, and stands still once it is full.
THEOREM CounterCounts == Spec => []SocketsCounted
<1>1. LInv => SocketsCounted
  BY DEF LInv, SocketsCounted, Open, Load!Open, Socks, Load!Socks
<1> QED BY <1>1, CounterInvariant, EachRunsAlone, PTL

\* When a peer has ended, the other has too, or is still in connect, which will
\* succeed, or in its loop, where there is something to receive or the end to be
\* found: main never waits in poll for a peer that is gone.
Awake(p) == \/ main[p] = "ended"
            \/ main[p] = "connecting" /\ link
            \/ main[p] = "poll" /\ (read[p] < typed[Peer!Other(p)] \/ Peer!End(p))

THEOREM NobodyWaitsForTheGone ==
  Spec => [](\A p \in Peers : main[Peer!Other(p)] = "ended" => Awake(p))
<1>1. PInv => \A p \in Peers : main[Peer!Other(p)] = "ended" => Awake(p)
  <2> SUFFICES ASSUME PInv, NEW p \in Peers, main[Peer!Other(p)] = "ended" PROVE Awake(p)
    OBVIOUS
  <2>1. link /\ main[p] \in {"connecting", "poll", "ended"}
    BY OtherPeer DEF PInv
  <2>2. gone[Peer!Other(p)] \in {"fin", "reset"}
    BY OtherPeer DEF PInv
  <2>3. gone[Peer!Other(p)] = "fin" => read[p] < typed[Peer!Other(p)] \/ read[p] = typed[Peer!Other(p)]
    BY OtherPeer DEF PInv
  <2> QED BY <2>1, <2>2, <2>3 DEF Awake, Peer!End, Peer!EndOfFin
<1> QED BY <1>1, PeersKeep, EachRunsAlone, PTL

\* No context that has returned is resumed, for every N and K.
THEOREM NoReturnedResumed == Spec => []NeverResumesReturned
<1>1. IInv => NeverResumesReturned
  BY CoroutineAssumption, SMT DEF IInv, NeverResumesReturned
<1> QED BY <1>1, CountTells, EachRunsAlone, PTL
=============================================================================
