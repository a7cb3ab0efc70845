--------------------------- MODULE AsyncDnsProofs ---------------------------
(***************************************************************************)
(* The asynchronous resolver, for every number of queries and descriptors: *)
(* main and the thread never meet in a descriptor or an ep_arg.            *)
(***************************************************************************)
EXTENDS AsyncDnsProps, FiniteSetTheorems, WellFoundedInduction, TLAPS

DType ==
  /\ main \in MainPC /\ proc \in ProcPC
  /\ i \in Nat /\ i <= Count /\ (main \in {"send", "alloc", "add"} => i < Count)
  /\ heap \subseteq Queries /\ batch \subseteq Queries
  /\ data \in Queries \cup {NoQuery}
  /\ proc \in {"recv", "delete", "close", "free"} => data \in Queries
  /\ files \in [Fds -> Queries \cup {NoQuery}]
  /\ watched \in [Fds -> Queries \cup {NoQuery}]
  /\ sockfd \in [Queries -> Fds]
  /\ inbox \in [Queries -> SUBSET {"reply", "error"}]

\* A query has at most one socket, and main has one for the query it commits,
\* which nobody else has come to.
Asked(q) == q < i \/ (q = i /\ main \in {"send", "alloc", "add"})
Descriptors ==
  /\ \A f, g \in Fds : files[f] = files[g] /\ files[f] # NoQuery => f = g
  /\ \A f \in Fds : files[f] # NoQuery => Asked(files[f])
  /\ main \in {"send", "alloc", "add"} => \E f \in Fds : files[f] = i

\* A callback was not called, or once with what came for its own query.
Calls ==
  /\ called \in [Queries -> SUBSET (Nat \X Queries \X {"reply", "error"})]
  /\ \A q \in Queries : called[q] # {} => q < i /\ \E m : called[q] = {<<0, q, m>>}

\* The ep_arg of a query that is watched, and whose callback is to be called.
Waits(q) == /\ q \in heap /\ files[sockfd[q]] = q /\ watched[sockfd[q]] = q
            /\ called[q] = {}

\* What is allocated, what epoll reports and what the thread works on.
Args ==
  /\ \A q \in heap : q < i \/ (q = i /\ main = "add")
  /\ main = "add" => /\ i \in heap /\ files[sockfd[i]] = i
                     /\ \A f \in Fds : watched[f] # i
  /\ \A f \in Fds : watched[f] # NoQuery =>
       /\ files[f] = watched[f] /\ sockfd[watched[f]] = f /\ watched[f] \in heap
       /\ called[watched[f]] = {} \/ (proc = "delete" /\ data = watched[f])

Works ==
  /\ main = "init" => proc = "none"
  /\ \A q \in batch : Waits(q) /\ q < i
  /\ proc = "recv" => Waits(data) /\ data \notin batch /\ data < i
  /\ proc \in {"delete", "close", "free"} => called[data] # {}
  /\ proc \in {"delete", "close"} => data \in heap /\ files[sockfd[data]] = data
  /\ proc \in {"close", "free"} => \A f \in Fds : watched[f] # data

DInv == DType /\ Descriptors /\ Calls /\ Args /\ Works

-----------------------------------------------------------------------------

\* The lowest free descriptor is one.
LEMMA LowestIsFree ==
  ASSUME FreeFds # {}
  PROVE  LowestFree \in FreeFds
<1> DEFINE R == OpToRel(<, Nat)
<1>1. IsWellFoundedOn(R, Nat)
  BY NatLessThanWellFounded
<1>2. FreeFds \subseteq Nat
  BY DnsAssumption DEF FreeFds, Fds
<1>3. PICK x \in FreeFds : \A y \in FreeFds : ~(<<y, x>> \in R)
  BY <1>1, <1>2, WFMin
<1>4. \A y \in FreeFds : x <= y
  <2>1. ASSUME NEW y \in FreeFds PROVE ~(y < x)
    BY <1>2, <1>3 DEF OpToRel
  <2> QED BY <1>2, <2>1
<1> QED BY <1>4 DEF LowestFree

LEMMA QueryIsNat == \A q \in Queries : q \in Nat /\ q < Count /\ q # NoQuery
BY DnsAssumption DEF Queries, NoQuery

LEMMA InitDInv == Init => DInv
<1> SUFFICES ASSUME Init PROVE DInv
  OBVIOUS
<1>1. DType
  <2>1. 0 \in Fds /\ Count \in Nat
    BY DnsAssumption DEF Fds
  <2> QED BY <2>1 DEF Init, DType, MainPC, ProcPC
<1>2. Descriptors /\ Calls /\ Args /\ Works
  BY DEF Init, Descriptors, Calls, Args, Works
<1> QED BY <1>1, <1>2 DEF DInv

\* The query that main commits has one descriptor.
LEMMA FdOfMain ==
  ASSUME DInv, main \in {"send", "alloc", "add"}
  PROVE  FdOf(i) \in Fds /\ files[FdOf(i)] = i /\ i \in Queries
<1>1. PICK f \in Fds : files[f] = i
  BY DEF DInv, Descriptors
<1>2. i \in Queries
  BY DnsAssumption DEF DInv, DType, Queries
<1> QED BY <1>1, <1>2 DEF FdOf

\* main goes on, and nothing else of the state changes.
LEMMA MainMoves ==
  ASSUME DInv, UNCHANGED <<i, files, inbox, watched, heap, sockfd, batch, data, called>>,
         \/ main = "init" /\ main' = "commit" /\ proc' = "wait"
         \/ main \in {"init", "commit"} /\ main' = "exited" /\ proc' = proc
         \/ main = "send" /\ main' = "alloc" /\ proc' = proc
  PROVE  DInv'
<1>1. DType'
  BY DEF DInv, DType, MainPC, ProcPC
<1>2. Descriptors'
  BY DEF DInv, Descriptors, Asked
<1>3. Calls'
  BY DEF DInv, Calls
<1>4. Args' /\ Works'
  <2>1. CASE main = "init" /\ main' = "commit" /\ proc' = "wait"
    BY <2>1 DEF DInv, Args, Works, Waits
  <2>2. CASE proc' = proc /\ main # "add" /\ main' # "add"
    BY <2>2 DEF DInv, Args, Works, Waits
  <2> QED BY <2>1, <2>2
<1> QED BY <1>1, <1>2, <1>3, <1>4 DEF DInv

LEMMA OpenSocketKeeps == DInv /\ OpenSocket => DInv'
<1> SUFFICES ASSUME DInv, OpenSocket PROVE DInv'
  OBVIOUS
<1>0. /\ main = "commit" /\ i < Count
      /\ UNCHANGED <<i, inbox, watched, heap, sockfd, proc, batch, data, called>>
  BY DEF OpenSocket, procVars
<1>1. CASE main' = "exited" /\ UNCHANGED files
  BY <1>0, <1>1, ZenonT(30) DEF DInv, DType, MainPC, Descriptors, Asked, Calls, Args, Works, Waits
<1>2. CASE FreeFds # {} /\ files' = [files EXCEPT ![LowestFree] = i] /\ main' = "send"
  <2> PICK n : n = LowestFree
    OBVIOUS
  <2>1. n \in Fds /\ files[n] = NoQuery
    BY <1>2, LowestIsFree DEF FreeFds
  <2>2. i \in Queries /\ i # NoQuery
    BY <1>0, DnsAssumption DEF DInv, DType, Queries, NoQuery
  <2>3. files'[n] = i /\ \A f \in Fds : f # n => files'[f] = files[f]
    BY <1>2, <2>1 DEF DInv, DType
  <2>4. files' \in [Fds -> Queries \cup {NoQuery}]
    BY <1>2, <2>2 DEF DInv, DType
  <2>5. DType'
    BY <1>0, <1>2, <2>4 DEF DInv, DType, MainPC
  <2>6. \A f \in Fds : files[f] # i
    BY <1>0, <2>2 DEF DInv, DType, Descriptors, Asked
  <2>7. Descriptors'
    BY <1>0, <1>2, <2>1, <2>2, <2>3, <2>6 DEF DInv, Descriptors, Asked
  <2>8. Calls'
    BY <1>0 DEF DInv, Calls
  <2>9. \A q \in Queries : files[sockfd[q]] = q => files'[sockfd[q]] = q
    BY <2>1, <2>3, QueryIsNat DEF DInv, DType
  <2>10. Args'
    BY <1>0, <1>2, <2>1, <2>3 DEF DInv, DType, Args
  <2>11. Works'
    BY <1>0, <1>2, <2>9, QueryIsNat DEF DInv, DType, Works, Waits
  <2> QED BY <2>5, <2>7, <2>8, <2>10, <2>11 DEF DInv
<1> QED BY <1>0, <1>1, <1>2 DEF OpenSocket

LEMMA AllocArgKeeps == DInv /\ AllocArg => DInv'
<1> SUFFICES ASSUME DInv, AllocArg PROVE DInv'
  OBVIOUS
<1> PICK n : n = FdOf(i)
  OBVIOUS
<1>0. /\ main = "alloc" /\ UNCHANGED <<files, inbox, watched, proc, batch, data, called>>
      /\ n \in Fds /\ files[n] = i /\ i \in Queries /\ i \in Nat /\ Count \in Nat /\ i < Count
  BY FdOfMain, DnsAssumption DEF AllocArg, procVars, DInv, DType
<1>1. CASE heap' = heap \cup {i} /\ sockfd' = [sockfd EXCEPT ![i] = n] /\ main' = "add" /\ i' = i
  <2>1. i \notin heap
    BY <1>0 DEF DInv, Args
  <2>2. /\ sockfd'[i] = n /\ \A q \in Queries : q # i => sockfd'[q] = sockfd[q]
        /\ sockfd' \in [Queries -> Fds]
    BY <1>0, <1>1 DEF DInv, DType
  <2>3. DType'
    BY <1>0, <1>1, <2>2 DEF DInv, DType, MainPC
  <2>4. Descriptors' /\ Calls'
    BY <1>0, <1>1 DEF DInv, Descriptors, Asked, Calls
  <2>5. \A q \in Queries : Waits(q) => Waits(q)' /\ q # i
    BY <1>0, <1>1, <2>1, <2>2 DEF Waits
  <2>6. /\ \A f \in Fds : watched[f] # NoQuery => watched[f] \in heap /\ watched[f] # i
        /\ i # NoQuery
    BY <1>0, <2>1, QueryIsNat DEF DInv, DType, Args
  <2>7. Args'
    BY <1>0, <1>1, <2>1, <2>2, <2>6 DEF DInv, DType, Args
  <2>8. proc \in {"delete", "close"} => data # i
    BY <2>1 DEF DInv, Works
  <2>9. Works'
    BY <1>0, <1>1, <2>2, <2>5, <2>8 DEF DInv, DType, Works
  <2> QED BY <2>3, <2>4, <2>7, <2>9 DEF DInv
<1>2. CASE main' = "commit" /\ i' = i + 1 /\ UNCHANGED <<heap, sockfd>>
  <2>0. i + 1 \in Nat /\ i + 1 <= Count /\ \A q \in Queries : q < i => q < i + 1
    BY <1>0, QueryIsNat
  <2>1. DType'
    BY <1>0, <1>2, <2>0 DEF DInv, DType, MainPC
  <2>2. \A q \in Queries : Asked(q) => Asked(q)'
    BY <1>0, <1>2, <2>0 DEF Asked
  <2>3. Descriptors'
    BY <1>0, <1>2, <2>2 DEF DInv, DType, Descriptors
  <2>4. Calls'
    BY <1>0, <1>2, <2>0 DEF DInv, Calls
  <2>5. Args'
    BY <1>0, <1>2, <2>0 DEF DInv, DType, Args
  <2>6. Works'
    BY <1>0, <1>2, <2>0 DEF DInv, DType, Works, Waits
  <2> QED BY <2>1, <2>3, <2>4, <2>5, <2>6 DEF DInv
<1> QED BY <1>1, <1>2 DEF AllocArg

LEMMA AddEventKeeps == DInv /\ AddEvent => DInv'
<1> SUFFICES ASSUME DInv, AddEvent PROVE DInv'
  OBVIOUS
<1> PICK n : n = FdOf(i)
  OBVIOUS
<1>0. /\ main = "add" /\ UNCHANGED <<files, inbox, heap, sockfd, proc, batch, data, called>>
      /\ main' = "commit" /\ i' = i + 1
      /\ n \in Fds /\ files[n] = i /\ i \in Queries /\ i \in Nat /\ Count \in Nat /\ i < Count
      /\ i # NoQuery
  BY FdOfMain, DnsAssumption, QueryIsNat DEF AddEvent, procVars, DInv, DType
<1>1. i + 1 \in Nat /\ i + 1 <= Count /\ \A q \in Queries : q < i \/ q = i => q < i + 1
  BY <1>0, QueryIsNat
<1>2. sockfd[i] = n /\ i \in heap /\ called[i] = {}
  BY <1>0 DEF DInv, DType, Descriptors, Args, Calls
<1>3. \A f \in Fds : watched'[f] = watched[f] \/ (f = n /\ watched'[f] = i)
  BY <1>0 DEF AddEvent, DInv, DType
<1>4. watched' \in [Fds -> Queries \cup {NoQuery}]
  BY <1>0 DEF AddEvent, DInv, DType
<1>5. DType'
  BY <1>0, <1>1, <1>4 DEF DInv, DType, MainPC
<1>6. \A q \in Queries : Asked(q) => Asked(q)'
  BY <1>0, <1>1 DEF Asked
<1>7. Descriptors'
  BY <1>0, <1>6 DEF DInv, DType, Descriptors
<1>8. Calls'
  BY <1>0, <1>1 DEF DInv, Calls
<1>9. Args'
  BY <1>0, <1>1, <1>2, <1>3 DEF DInv, DType, Args
<1>10. \A q \in Queries : Waits(q) => Waits(q)'
  <2>1. \A q \in Queries : sockfd[q] \in Fds
    BY DEF DInv, DType
  <2> QED BY <1>0, <1>3, <2>1 DEF Waits
<1>11. Works'
  <2>1. \A f \in Fds : proc \in {"close", "free"} => watched'[f] # data
    BY <1>0, <1>2, <1>3 DEF DInv, Works
  <2> QED BY <1>0, <1>1, <1>10, <2>1 DEF DInv, DType, Works
<1> QED BY <1>5, <1>7, <1>8, <1>9, <1>11 DEF DInv

LEMMA NetworkKeeps ==
  ASSUME DInv, NEW q \in Queries, Network(q)
  PROVE  DInv'
<1>1. UNCHANGED <<main, i, proc, batch, data, called, files, watched, heap, sockfd>>
  BY DEF Network, mainVars, procVars
<1>2. inbox' \in [Queries -> SUBSET {"reply", "error"}]
  BY DEF Network, Respond, Refuse, Arrive, Lose, DInv, DType
<1> QED BY <1>1, <1>2, ZenonT(30) DEF DInv, DType, Descriptors, Asked, Calls, Args, Works, Waits

\* The thread goes on, and nothing else of the state changes.
LEMMA ProcMoves ==
  ASSUME DInv, UNCHANGED <<main, i, files, inbox, watched, heap, sockfd, called>>,
         proc # "delete", proc' \in ProcPC, proc # "none",
         batch' \subseteq Queries, data' \in Queries \cup {NoQuery},
         \A q \in batch' : Waits(q) /\ q < i,
         proc' = "recv" => data' \in Queries /\ Waits(data') /\ data' \notin batch' /\ data' < i,
         proc' \notin {"delete", "close", "free"}
  PROVE  DInv'
<1>1. DType'
  BY DEF DInv, DType
<1>2. Descriptors' /\ Calls'
  BY DEF DInv, Descriptors, Asked, Calls
<1>3. Args'
  BY DEF DInv, Args
<1>4. Works'
  BY DEF DInv, Works, Waits
<1> QED BY <1>1, <1>2, <1>3, <1>4 DEF DInv

LEMMA WaitKeeps == DInv /\ Wait => DInv'
<1> SUFFICES ASSUME DInv, Wait PROVE DInv'
  OBVIOUS
<1>1. /\ UNCHANGED <<main, i, files, inbox, watched, heap, sockfd, data, called>>
      /\ proc = "wait" /\ proc' = "next" /\ batch' = ReadyArgs
  BY DEF Wait, mainVars
<1>2. ASSUME NEW q \in ReadyArgs PROVE q \in Queries /\ Waits(q) /\ q < i
  <2>1. PICK f \in Fds : watched[f] = q /\ watched[f] # NoQuery
    BY DEF ReadyArgs
  <2>2. q \in Queries /\ Waits(q)
    BY <1>1, <2>1 DEF DInv, DType, Args, Waits
  <2>3. q < i
    BY <2>1, <2>2 DEF DInv, Args, Waits
  <2> QED BY <2>2, <2>3
<1> QED BY <1>1, <1>2, ProcMoves DEF ProcPC, DInv, DType

LEMMA NextEventKeeps == DInv /\ NextEvent => DInv'
<1> SUFFICES ASSUME DInv, NextEvent PROVE DInv'
  OBVIOUS
<1>1. /\ UNCHANGED <<main, i, files, inbox, watched, heap, sockfd, called>>
      /\ proc = "next"
      /\ \/ data' \in batch /\ batch' = batch \ {data'} /\ proc' = "recv"
         \/ batch' = batch /\ data' = data /\ proc' = "wait"
  BY DEF NextEvent, Unseen, mainVars
<1>2. batch \subseteq Queries /\ data \in Queries \cup {NoQuery} /\ \A q \in batch : Waits(q) /\ q < i
  BY DEF DInv, DType, Works
<1> QED BY <1>1, <1>2, ProcMoves DEF ProcPC

LEMMA WaitFailsKeeps == DInv /\ WaitFails => DInv'
<1> SUFFICES ASSUME DInv, WaitFails PROVE DInv'
  OBVIOUS
<1>1. /\ UNCHANGED <<main, i, files, inbox, watched, heap, sockfd, batch, data, called>>
      /\ proc = "wait" /\ proc' = "broken"
  BY DEF WaitFails, mainVars
<1>2. batch \subseteq Queries /\ data \in Queries \cup {NoQuery} /\ \A q \in batch : Waits(q) /\ q < i
  BY DEF DInv, DType, Works
<1> QED BY <1>1, <1>2, ProcMoves DEF ProcPC

LEMMA RecvAndCallKeeps == DInv /\ RecvAndCall => DInv'
<1> SUFFICES ASSUME DInv, RecvAndCall PROVE DInv'
  OBVIOUS
<1>1. /\ proc = "recv" /\ data \in Queries /\ Waits(data) /\ data \notin batch /\ data < i
      /\ sockfd[data] \in Fds /\ data # NoQuery /\ files[sockfd[data]] = data
  BY QueryIsNat DEF RecvAndCall, DInv, DType, Works, Waits
<1>2. PICK m \in inbox[data] :
        /\ inbox' = [inbox EXCEPT ![data] = @ \ {m}]
        /\ called' = [called EXCEPT ![data] = @ \cup {<<Cardinality(@), data, m>>}]
  BY <1>1 DEF RecvAndCall
<1>3. /\ UNCHANGED <<main, i, files, watched, heap, sockfd, batch, data>> /\ proc' = "delete"
      /\ m \in {"reply", "error"}
  BY <1>1, <1>2 DEF RecvAndCall, mainVars, DInv, DType
<1>4. called'[data] = {<<0, data, m>>} /\ \A q \in Queries : q # data => called'[q] = called[q]
  <2>1. called[data] = {} /\ called \in [Queries -> SUBSET (Nat \X Queries \X {"reply", "error"})]
    BY <1>1 DEF Waits, DInv, Calls
  <2>2. called'[data] = {} \cup {<<Cardinality({}), data, m>>}
    BY <1>1, <1>2, <2>1
  <2>3. Cardinality({}) = 0
    BY FS_EmptySet
  <2> QED BY <1>1, <1>2, <2>1, <2>2, <2>3
<1>5. Calls'
  <2>1. called' \in [Queries -> SUBSET (Nat \X Queries \X {"reply", "error"})]
    <3>1. \A q \in Queries : called'[q] \in SUBSET (Nat \X Queries \X {"reply", "error"})
      BY <1>1, <1>3, <1>4 DEF DInv, Calls
    <3>2. called' = [q \in Queries |-> called'[q]]
      BY <1>2 DEF DInv, Calls
    <3> QED BY <3>1, <3>2
  <2>2. ASSUME NEW q \in Queries, called'[q] # {}
        PROVE  q < i' /\ \E x : called'[q] = {<<0, q, x>>}
    <3>1. CASE q = data
      BY <1>1, <1>3, <1>4, <3>1
    <3>2. CASE q # data
      <4>1. called[q] # {} /\ called'[q] = called[q]
        BY <1>4, <2>2, <3>2
      <4> QED BY <1>3, <4>1 DEF DInv, Calls
    <3> QED BY <3>1, <3>2
  <2> QED BY <2>1, <2>2 DEF Calls
<1>6. DType'
  BY <1>1, <1>2, <1>3 DEF DInv, DType, ProcPC
<1>7. Descriptors'
  BY <1>3 DEF DInv, Descriptors, Asked
<1>8. Args'
  BY <1>1, <1>3, <1>4 DEF DInv, DType, Args
<1>9. Works'
  <2>1. \A q \in batch : Waits(q)' /\ q < i
    BY <1>1, <1>3, <1>4 DEF DInv, DType, Works, Waits
  <2>2. called'[data] # {}
    BY <1>4
  <2> QED BY <1>1, <1>3, <2>1, <2>2 DEF DInv, DType, Works, Waits
<1> QED BY <1>5, <1>6, <1>7, <1>8, <1>9 DEF DInv

\* EPOLL_CTL_DEL takes the query out of epoll, so that close and free are safe.
LEMMA DeleteKeeps == DInv /\ DeleteAndClose /\ proc = "delete" => DInv'
<1> SUFFICES ASSUME DInv, DeleteAndClose, proc = "delete" PROVE DInv'
  OBVIOUS
<1> PICK d : d = sockfd[data]
  OBVIOUS
<1>1. /\ UNCHANGED <<main, i, files, inbox, heap, sockfd, batch, data, called>>
      /\ proc' = "close" /\ watched' = [watched EXCEPT ![d] = NoQuery]
  BY DEF DeleteAndClose, Release, Delete, mainVars
<1>2. data \in Queries /\ d \in Fds /\ files[d] = data /\ called[data] # {} /\ data # NoQuery
  BY QueryIsNat DEF DInv, DType, Works
<1>3. watched'[d] = NoQuery /\ \A f \in Fds : f # d => watched'[f] = watched[f]
  BY <1>1, <1>2 DEF DInv, DType
<1>4. \A f \in Fds : watched'[f] # data
  BY <1>2, <1>3 DEF DInv, Args
<1>5. DType'
  BY <1>1, <1>2 DEF DInv, DType, ProcPC
<1>6. Descriptors' /\ Calls'
  BY <1>1 DEF DInv, Descriptors, Asked, Calls
<1>7. Args'
  BY <1>1, <1>2, <1>3, <1>4 DEF DInv, DType, Args
<1>8. ASSUME NEW q \in batch PROVE Waits(q)' /\ q < i
  <2>1. Waits(q) /\ q < i /\ sockfd[q] \in Fds
    BY DEF DInv, DType, Works
  <2> QED BY <1>1, <1>2, <1>3, <2>1 DEF Waits
<1>9. Works'
  BY <1>1, <1>4, <1>8 DEF DInv, Works
<1> QED BY <1>5, <1>6, <1>7, <1>9 DEF DInv

LEMMA CloseKeeps == DInv /\ DeleteAndClose /\ proc = "close" => DInv'
<1> SUFFICES ASSUME DInv, DeleteAndClose, proc = "close" PROVE DInv'
  OBVIOUS
<1> PICK d : d = sockfd[data]
  OBVIOUS
<1>1. /\ UNCHANGED <<main, i, heap, sockfd, batch, data, called>>
      /\ proc' = "free" /\ watched' = [watched EXCEPT ![d] = NoQuery]
      /\ files' = [files EXCEPT ![d] = NoQuery]
      /\ inbox' \in {inbox, [inbox EXCEPT ![files[d]] = {}]}
  BY DEF DeleteAndClose, Release, Close, mainVars
<1>2. /\ data \in Queries /\ d \in Fds /\ files[d] = data /\ called[data] # {} /\ data # NoQuery
      /\ data < i /\ i \in Nat /\ data \in Nat
  BY QueryIsNat DEF DInv, DType, Works, Calls
<1>3. /\ watched'[d] = NoQuery /\ \A f \in Fds : f # d => watched'[f] = watched[f]
      /\ files'[d] = NoQuery /\ \A f \in Fds : f # d => files'[f] = files[f]
  BY <1>1, <1>2 DEF DInv, DType
<1>4. DType'
  BY <1>1, <1>2 DEF DInv, DType, ProcPC
<1>5. Descriptors'
  BY <1>1, <1>2, <1>3 DEF DInv, Descriptors, Asked
<1>6. Calls'
  BY <1>1 DEF DInv, Calls
<1>7. Args'
  <2>1. \A f \in Fds : watched'[f] # NoQuery => f # d
    BY <1>3
  <2>2. main = "add" => sockfd[i] \in Fds /\ sockfd[i] # d
    BY <1>2 DEF DInv, DType, Args
  <2> QED BY <1>1, <1>3, <2>1, <2>2 DEF DInv, DType, Args
<1>8. ASSUME NEW q \in batch PROVE Waits(q)' /\ q < i
  <2>1. Waits(q) /\ q < i /\ sockfd[q] \in Fds
    BY DEF DInv, DType, Works
  <2> QED BY <1>1, <1>2, <1>3, <2>1 DEF Waits
<1>9. Works'
  <2>1. \A f \in Fds : watched'[f] # data
    BY <1>2, <1>3 DEF DInv, Works
  <2> QED BY <1>1, <1>8, <2>1 DEF DInv, Works
<1> QED BY <1>4, <1>5, <1>6, <1>7, <1>9 DEF DInv

LEMMA FreeDataKeeps == DInv /\ FreeData => DInv'
<1> SUFFICES ASSUME DInv, FreeData PROVE DInv'
  OBVIOUS
<1>1. /\ UNCHANGED <<main, i, files, inbox, watched, sockfd, batch, data, called>>
      /\ proc = "free" /\ proc' = "next" /\ heap' = heap \ {data}
  BY DEF FreeData, FreeArg, mainVars
<1>2. /\ data \in Queries /\ called[data] # {} /\ \A f \in Fds : watched[f] # data
      /\ data < i /\ i \in Nat /\ data \in Nat
  BY <1>1, QueryIsNat DEF DInv, DType, Works, Calls
<1>3. DType'
  BY <1>1 DEF DInv, DType, ProcPC
<1>4. Descriptors' /\ Calls'
  BY <1>1 DEF DInv, Descriptors, Asked, Calls
<1>5. Args'
  BY <1>1, <1>2 DEF DInv, Args
<1>6. Works'
  BY <1>1, <1>2 DEF DInv, Works, Waits
<1> QED BY <1>3, <1>4, <1>5, <1>6 DEF DInv

LEMMA NextKeeps == DInv /\ [Next]_vars => DInv'
<1> SUFFICES ASSUME DInv, [Next]_vars PROVE DInv'
  OBVIOUS
<1>1. CASE InitClient \/ SendRequest \/ Exit
  BY <1>1, MainMoves DEF InitClient, SendRequest, Exit, procVars
<1>2. CASE DeleteAndClose
  BY <1>2, DeleteKeeps, CloseKeeps DEF DeleteAndClose, Release
<1>3. CASE UNCHANGED vars
  BY <1>3, ZenonT(30) DEF vars, mainVars, procVars, DInv, DType, Descriptors, Asked, Calls, Args, Works, Waits
<1> QED BY <1>1, <1>2, <1>3, OpenSocketKeeps, AllocArgKeeps, AddEventKeeps, NetworkKeeps, WaitKeeps,
           NextEventKeeps, WaitFailsKeeps, RecvAndCallKeeps, FreeDataKeeps DEF Next, Main, Proc

LEMMA Invariance == Spec => []DInv
BY InitDInv, NextKeeps, PTL DEF Spec

\* Only SendRequest allocates a name, for the query that main commits.
Named == names \subseteq Queries

LEMMA NamesAreOfQueries == Spec => []Named
<1>1. Init => Named
  BY DEF Init, Named
<1>2. DInv /\ Named /\ [Next]_vars => Named'
  <2> SUFFICES ASSUME DInv, Named, [Next]_vars PROVE Named'
    OBVIOUS
  <2>1. CASE SendRequest
    <3>1. i \in Queries
      BY <2>1, DnsAssumption DEF DInv, DType, SendRequest, Queries
    <3> QED BY <2>1, <3>1 DEF SendRequest, Named
  <2>2. CASE UNCHANGED names
    BY <2>2 DEF Named
  <2>3. SendRequest \/ UNCHANGED names
    BY DEF Next, Main, InitClient, OpenSocket, AllocArg, AddEvent, Exit, Proc, Wait, NextEvent, RecvAndCall,
           DeleteAndClose, FreeData, WaitFails, Network, vars
  <2> QED BY <2>1, <2>2, <2>3
<1> QED BY <1>1, <1>2, Invariance, PTL DEF Spec

-----------------------------------------------------------------------------
\* Every variable keeps its type, for every number of queries and descriptors,
\* and the thread never handles an event without an ep_arg.
THEOREM TypeCorrect == Spec => []TypeOK
<1>1. DInv /\ Named => TypeOK
  <2> SUFFICES ASSUME DInv, Named PROVE TypeOK
    OBVIOUS
  <2>1. i \in 0 .. Count
    BY DnsAssumption DEF DInv, DType
  <2>2. proc \in {"recv", "delete", "close", "free"} => data # NoQuery
    BY QueryIsNat DEF DInv, DType
  <2> QED BY <2>1, <2>2 DEF DInv, DType, Named, TypeOK
<1> QED BY <1>1, Invariance, NamesAreOfQueries, PTL

(***************************************************************************)
(* The ep_arg of every event that dns_async_client_proc still has to handle*)
(* is allocated and its socket still open, and so is what epoll watches:   *)
(* EPOLL_CTL_DEL comes before close, and close before main can get the     *)
(* descriptor again.                                                       *)
(***************************************************************************)
THEOREM NothingIsUsedAfterFree == Spec => []EventsOwnTheirSocket
<1>1. DInv => EventsOwnTheirSocket
  BY DEF DInv, Args, Works, Waits, InHand, EventsOwnTheirSocket
<1> QED BY <1>1, Invariance, PTL

(***************************************************************************)
(* A callback is called at most once, and with what came for its own query.*)
(***************************************************************************)
CalledOnceForOwnReply ==
  \A q \in Queries : /\ Cardinality(called[q]) <= 1
                     /\ \A c \in called[q] : c[2] = q

\* Whatever datagrams are repeated, late or refused, every callback of
\* dns_async_client_proc is called as CalledOnceForOwnReply says.
THEOREM OneCallEach == Spec => []CalledOnceForOwnReply
<1>1. DInv => CalledOnceForOwnReply
  <2> SUFFICES ASSUME DInv, NEW q \in Queries
               PROVE  Cardinality(called[q]) <= 1 /\ \A c \in called[q] : c[2] = q
    BY DEF CalledOnceForOwnReply
  <2>1. CASE called[q] = {}
    BY <2>1, FS_EmptySet
  <2>2. CASE called[q] # {}
    <3>1. PICK m : called[q] = {<<0, q, m>>}
      BY <2>2 DEF DInv, Calls
    <3>2. Cardinality(called[q]) = 1
      BY <3>1, FS_Singleton
    <3> QED BY <3>1, <3>2
  <2> QED BY <2>1, <2>2
<1> QED BY <1>1, Invariance, PTL
-----------------------------------------------------------------------------
(* What the refinement of Resolver needs besides DInv: a query has its socket
   from its commit to its callback; its socket and its ep_arg are then given back
   before the thread comes to another. *)

Releases(q) == q = data /\ proc \in {"delete", "close", "free"}
Released(q) == q \notin heap /\ ~SocketOpen(q)
Ends ==
  /\ \A q \in Queries : q < i /\ called[q] = {} => SocketOpen(q)
  /\ \A q \in Queries : called[q] # {} => Released(q) \/ Releases(q)
  /\ proc = "free" => data \in heap /\ ~SocketOpen(data)

RInv == DInv /\ Ends

Listens(q) == \E f \in Fds : watched[f] = q
NotYet(q) == q > i \/ (q = i /\ ~Committing)

\* The stage of a query depends on these alone.
LEMMA SameStage ==
  ASSUME NEW q \in Queries, called'[q] = called[q],
         called[q] # {} => (SocketOpen(q)' <=> SocketOpen(q)) /\ (q \in heap' <=> q \in heap),
         called[q] = {} => /\ NotYet(q)' <=> NotYet(q)
                           /\ ~NotYet(q) => (q = i' <=> q = i)
                           /\ Listens(q)' <=> Listens(q)
  PROVE  Stage(q)' = Stage(q)
<1>1. CASE called[q] # {}
  BY <1>1 DEF Stage
<1>2. CASE called[q] = {}
  BY <1>2 DEF Stage, Listens, NotYet
<1> QED BY <1>1, <1>2

\* One query goes on, or none.
Stages == [q \in Queries |-> Stage(q)]

LEMMA StageAt == \A q \in Queries : Stages[q] = Stage(q)
BY DEF Stages

LEMMA Stays ==
  ASSUME \A q \in Queries : Stage(q)' = Stage(q), called' = called
  PROVE  UNCHANGED <<Stages, called>>
BY DEF Stages

LEMMA Goes ==
  ASSUME NEW x \in Queries, NEW a, NEW b, Stage(x) = a, Stage(x)' = b,
         \A q \in Queries : q # x => Stage(q)' = Stage(q)
  PROVE  CResolver!Move(x, a, b)
<1>1. Stages' = [Stages EXCEPT ![x] = b]
  BY DEF Stages
<1> QED BY <1>1 DEF Stages, CResolver!Move
LEMMA InitRInv == Init => RInv
<1>1. Init => Ends
  BY QueryIsNat DEF Init, Ends
<1> QED BY <1>1, InitDInv DEF RInv

LEMMA InitStages == Init => CResolver!Init
<1> SUFFICES ASSUME Init PROVE CResolver!Init
  OBVIOUS
<1>1. \A q \in Queries : q > 0 \/ q = 0
  BY QueryIsNat
<1>2. \A q \in Queries : Stage(q) = "new"
  BY <1>1 DEF Init, Stage, Committing
<1> QED BY <1>2 DEF Init, CResolver!Init, CResolver!Queries, Queries

\* The stages of the queries before the one that main commits, and of the others.
LEMMA WhereQueriesAre ==
  ASSUME RInv, NEW q \in Queries
  PROVE  /\ NotYet(q) => Stage(q) = "new" /\ called[q] = {}
         /\ q = i /\ Committing => Stage(q) = "open" /\ called[q] = {}
         /\ q < i => Stage(q) \notin {"new", "open"}
         /\ Stage(q) \in {"open", "listening", "lost", "called"} => SocketOpen(q)
<1>1. q \in Nat /\ i \in Nat /\ (called[q] # {} => q < i)
  BY QueryIsNat DEF RInv, DInv, DType, Calls
<1>2. q = i /\ Committing => SocketOpen(q)
  BY DEF RInv, DInv, Descriptors, Committing, SocketOpen
<1>3. q < i /\ called[q] = {} => SocketOpen(q)
  BY DEF RInv, Ends
<1>4. /\ NotYet(q) => ~(q < i)
      /\ q < i => ~(q > i) /\ q # i
      /\ q = i => ~(q > i) /\ ~(q < i)
      /\ ~(q > i) => q < i \/ q = i
  BY <1>1 DEF NotYet
<1>5. CASE NotYet(q)
  BY <1>1, <1>4, <1>5 DEF Stage, NotYet
<1>6. CASE q = i /\ Committing
  BY <1>1, <1>2, <1>4, <1>6 DEF Stage, NotYet
<1>7. CASE q < i
  BY <1>3, <1>4, <1>7 DEF Stage, NotYet
<1> QED BY <1>4, <1>5, <1>6, <1>7 DEF NotYet

\* Cardinality means the same in both modules.
LEMMA SameCount == \A S : CResolver!Cardinality(S) = Cardinality(S)
BY DEF CResolver!Cardinality, Cardinality

\* While the descriptors are not all taken, neither are the sockets of Resolver.
LEMMA SocketsAreDescriptors ==
  ASSUME RInv, FreeFds # {}
  PROVE  Cardinality(CResolver!HasSocket) < MaxFd + 1
<1> PICK n \in FreeFds : TRUE
  OBVIOUS
<1> DEFINE H == CResolver!HasSocket
           T == Fds \ {n}
           fd == [q \in H |-> FdOf(q)]
<1>1. \A q \in H : q \in Queries /\ SocketOpen(q)
  BY WhereQueriesAre DEF CResolver!HasSocket, CResolver!Queries, Queries
<1>2. \A q \in H : FdOf(q) \in Fds /\ files[FdOf(q)] = q
  BY <1>1 DEF FdOf, SocketOpen
<1>3. \A q \in H : FdOf(q) # n
  BY <1>1, <1>2, QueryIsNat DEF FreeFds
<1>4. fd \in [H -> T]
  BY <1>2, <1>3
<1>5. \A p, q \in H : fd[p] = fd[q] => p = q
  BY <1>2
<1>6. fd \in Injection(H, T)
  <2>1. IsInjective(fd)
    BY <1>5 DEF IsInjective
  <2> QED BY <1>4, <2>1 DEF Injection
<1>7. IsFiniteSet(Fds) /\ Cardinality(Fds) = MaxFd + 1 /\ n \in Fds
  <2>1. 0 \in Int /\ MaxFd \in Int /\ ~(0 > MaxFd)
    BY DnsAssumption
  <2>2. IsFiniteSet(0 .. MaxFd) /\ Cardinality(0 .. MaxFd) = MaxFd - 0 + 1
    BY <2>1, FS_Interval
  <2> QED BY <2>1, <2>2 DEF Fds, FreeFds
<1>8. IsFiniteSet(T) /\ Cardinality(T) = MaxFd
  <2>1. IsFiniteSet(T) /\ Cardinality(T) = Cardinality(Fds) - 1
    BY <1>7, FS_RemoveElement, Zenon
  <2> QED BY <1>7, <2>1, DnsAssumption
<1>9. IsFiniteSet(H) /\ Cardinality(H) <= Cardinality(T)
  BY <1>6, <1>8, FS_Injection
<1>10. Cardinality(H) \in Nat /\ MaxFd \in Nat
  BY <1>9, FS_CardinalityType, DnsAssumption
<1> HIDE DEF H, T
<1>11. Cardinality(H) < MaxFd + 1
  BY <1>8, <1>9, <1>10
<1> QED BY <1>11 DEF H

-----------------------------------------------------------------------------
(* Every step of the program is a step of Resolver, or none. *)

\* What the stages depend on is left alone.
LEMMA NothingHappens ==
  ASSUME RInv, UNCHANGED <<i, files, watched, heap, called>>, Committing' <=> Committing,
         \A q \in Queries : Releases(q) => Releases(q)',
         proc' = "free" => proc = "free" /\ data' = data
  PROVE  Ends' /\ UNCHANGED <<Stages, called>>
<1>1. \A q \in Queries : SocketOpen(q)' = SocketOpen(q) /\ NotYet(q)' = NotYet(q)
                         /\ Listens(q)' = Listens(q)
  BY DEF SocketOpen, NotYet, Listens
<1>2. Ends'
  BY <1>1 DEF RInv, Ends, Released, SocketOpen
<1>3. \A q \in Queries : Stage(q)' = Stage(q)
  BY <1>1, SameStage
<1> QED BY <1>2, <1>3, Stays

LEMMA OpenSocketAsks ==
  RInv /\ OpenSocket => Ends' /\ ((\E q \in Queries : CResolver!Ask(q)) \/ UNCHANGED <<Stages, called>>)
<1> SUFFICES ASSUME RInv, OpenSocket PROVE Ends' /\ ((\E q \in Queries : CResolver!Ask(q)) \/ UNCHANGED <<Stages, called>>)
  OBVIOUS
<1>0. main = "commit" /\ i < Count /\ UNCHANGED <<i, inbox, watched, heap, sockfd, proc, batch, data, called>>
  BY DEF OpenSocket, procVars
<1>1. CASE main' = "exited" /\ UNCHANGED files
  BY <1>0, <1>1, NothingHappens DEF Committing, Releases
<1>2. CASE FreeFds # {} /\ files' = [files EXCEPT ![LowestFree] = i] /\ main' = "send"
  <2> PICK n : n = LowestFree
    OBVIOUS
  <2> PICK x : x = i
    OBVIOUS
  <2>1. n \in Fds /\ files[n] = NoQuery
    BY <1>2, LowestIsFree DEF FreeFds
  <2>2. x \in Queries /\ x \in Nat
    BY <1>0, DnsAssumption DEF RInv, DInv, DType, Queries
  <2>3. files'[n] = i /\ \A f \in Fds : f # n => files'[f] = files[f]
    BY <1>2, <2>1 DEF RInv, DInv, DType
  <2>4. \A q \in Queries : q # x => (SocketOpen(q)' <=> SocketOpen(q))
    BY <2>1, <2>3, QueryIsNat DEF SocketOpen
  <2>5. \A q \in Queries : called[q] # {} => q # x
    BY <2>2, QueryIsNat DEF RInv, DInv, Calls
  <2>6. Ends'
    <3>1. \A q \in Queries : q < i => q # x
      BY <2>2, QueryIsNat
    <3>2. proc = "free" => data \in Queries /\ data # x
      BY <2>5 DEF RInv, DInv, DType, Works
    <3>3. \A q \in Queries : q < i /\ called[q] = {} => SocketOpen(q)'
      BY <2>4, <3>1 DEF RInv, Ends
    <3>4. \A q \in Queries : called[q] # {} => (Released(q) \/ Releases(q))'
      BY <1>0, <2>4, <2>5 DEF RInv, Ends, Released, Releases
    <3>5. \A q \in Queries : proc = "free" /\ data = q => q \in heap /\ ~SocketOpen(q)'
      BY <2>4, <3>2 DEF RInv, Ends
    <3> QED BY <1>0, <3>2, <3>3, <3>4, <3>5 DEF Ends, SocketOpen
  <2>7. \A q \in Queries : q # x => Stage(q)' = Stage(q)
    <3>1. \A q \in Queries : q # x => NotYet(q)' = NotYet(q) /\ Listens(q)' = Listens(q)
      BY <1>0 DEF NotYet, Listens
    <3> QED BY <1>0, <2>4, <3>1, SameStage
  <2>8. Stage(x) = "new" /\ Stage(x)' = "open"
    <3>1. NotYet(x) /\ ~(x > i) /\ called[x] = {}
      BY <1>0, <2>2, <2>5 DEF NotYet, Committing
    <3>2. Committing'
      BY <1>2 DEF Committing
    <3> QED BY <1>0, <2>2, <3>1, <3>2, WhereQueriesAre DEF Stage
  <2>9. CResolver!Move(x, "new", "open")
    BY <2>2, <2>7, <2>8, Goes
  <2>10. \A p \in Queries : p < x => Stage(p) \notin {"new", "open"}
    BY WhereQueriesAre
  <2>11. CResolver!Ask(x)
    <3>1. CResolver!Cardinality(CResolver!HasSocket) < MaxFd + 1
      BY <1>2, SameCount, SocketsAreDescriptors
    <3>2. \A p \in CResolver!Queries : p < x => [q \in Queries |-> Stage(q)][p] \notin {"new", "open"}
      BY <2>10 DEF CResolver!Queries, Queries
    <3> QED BY <1>0, <2>9, <3>1, <3>2 DEF CResolver!Ask
  <2> QED BY <2>2, <2>6, <2>11
<1> QED BY <1>0, <1>1, <1>2 DEF OpenSocket

LEMMA AllocArgAbandons ==
  RInv /\ AllocArg => Ends' /\ ((\E q \in Queries : CResolver!Abandon(q)) \/ UNCHANGED <<Stages, called>>)
<1> SUFFICES ASSUME RInv, AllocArg PROVE Ends' /\ ((\E q \in Queries : CResolver!Abandon(q)) \/ UNCHANGED <<Stages, called>>)
  OBVIOUS
<1> PICK x : x = i
  OBVIOUS
<1>0. /\ main = "alloc" /\ UNCHANGED <<files, watched, proc, data, called>> /\ Committing
      /\ x \in Queries /\ x \in Nat /\ files[FdOf(i)] = i /\ FdOf(i) \in Fds
  BY FdOfMain DEF AllocArg, procVars, RInv, DInv, DType, Committing
<1>1. \A q \in Queries : SocketOpen(q)' = SocketOpen(q) /\ Listens(q)' = Listens(q)
  BY <1>0 DEF SocketOpen, Listens
<1>2. SocketOpen(x) /\ ~Listens(x) /\ \A q \in Queries : called[q] # {} => q # x
  <2>1. \A q \in Queries : called[q] # {} => q # x
    BY <1>0, QueryIsNat DEF RInv, DInv, Calls
  <2>2. i \notin heap
    BY <1>0 DEF RInv, DInv, Args
  <2>3. ~Listens(x)
    BY <1>0, <2>2, QueryIsNat DEF RInv, DInv, Args, Listens
  <2> QED BY <1>0, <2>1, <2>3 DEF SocketOpen
<1>3. proc = "free" => data \in Queries /\ data # x
  BY <1>2 DEF RInv, DInv, DType, Works
<1>4. CASE heap' = heap \cup {i} /\ main' = "add" /\ i' = i
  <2>1. Ends'
    BY <1>0, <1>1, <1>2, <1>3, <1>4 DEF RInv, Ends, Released, Releases, SocketOpen
  <2>2. \A q \in Queries : NotYet(q)' = NotYet(q)
    BY <1>0, <1>4 DEF NotYet, Committing
  <2>3. \A q \in Queries : Stage(q)' = Stage(q)
    BY <1>0, <1>1, <1>2, <1>4, <2>2, SameStage
  <2> QED BY <1>0, <2>1, <2>3, Stays
<1>5. CASE MayFail /\ main' = "commit" /\ i' = i + 1 /\ UNCHANGED heap
  <2>1. \A q \in Queries : q < i + 1 <=> q < i \/ q = i
    BY <1>0, QueryIsNat
  <2>2. Ends'
    BY <1>0, <1>1, <1>2, <1>5, <2>1 DEF RInv, Ends, Released, Releases, SocketOpen
  <2>3. \A q \in Queries : q # x => NotYet(q)' = NotYet(q) /\ (~NotYet(q) => q # x + 1)
    <3>1. ~Committing'
      BY <1>5 DEF Committing
    <3>2. \A q \in Queries : q # x => (q > i <=> (q > i + 1 \/ q = i + 1))
      BY <1>0, QueryIsNat
    <3> QED BY <1>0, <1>5, <3>1, <3>2 DEF NotYet
  <2>4. \A q \in Queries : q # x => Stage(q)' = Stage(q)
    BY <1>0, <1>1, <1>5, <2>3, SameStage
  <2>5. Stage(x) = "open" /\ Stage(x)' = "lost"
    <3>1. ~(x > i + 1) /\ x # i + 1 /\ called[x] = {}
      BY <1>0, <1>2
    <3>2. ~Listens(x)'
      BY <1>0, <1>1, <1>2
    <3> QED BY <1>0, <1>5, <3>1, <3>2, WhereQueriesAre DEF Stage, Listens
  <2>6. CResolver!Abandon(x)
    BY <1>0, <1>5, <2>4, <2>5, Goes DEF CResolver!Abandon
  <2> QED BY <1>0, <2>2, <2>6
<1> QED BY <1>4, <1>5 DEF AllocArg

LEMMA AddEventListens ==
  RInv /\ AddEvent => Ends' /\ (\E q \in Queries : CResolver!Listen(q) \/ CResolver!Abandon(q))
<1> SUFFICES ASSUME RInv, AddEvent PROVE Ends' /\ (\E q \in Queries : CResolver!Listen(q) \/ CResolver!Abandon(q))
  OBVIOUS
<1> PICK x : x = i
  OBVIOUS
<1>0. /\ main = "add" /\ UNCHANGED <<files, heap, proc, data, called>> /\ Committing
      /\ main' = "commit" /\ i' = i + 1
      /\ x \in Queries /\ x \in Nat /\ files[FdOf(i)] = i /\ FdOf(i) \in Fds
  BY FdOfMain DEF AddEvent, procVars, RInv, DInv, DType, Committing
<1>1. \A q \in Queries : SocketOpen(q)' = SocketOpen(q)
  BY <1>0 DEF SocketOpen
<1>2. SocketOpen(x) /\ ~Listens(x) /\ \A q \in Queries : called[q] # {} => q # x
  <2>1. \A q \in Queries : called[q] # {} => q # x
    BY <1>0, QueryIsNat DEF RInv, DInv, Calls
  <2> QED BY <1>0, <2>1 DEF RInv, DInv, Args, SocketOpen, Listens
<1>3. \A q \in Queries : q < i + 1 <=> q < i \/ q = i
  BY <1>0, QueryIsNat
<1>4. Ends'
  BY <1>0, <1>1, <1>2, <1>3 DEF RInv, Ends, Released, Releases, SocketOpen
<1>5. \A q \in Queries : q # x => NotYet(q)' = NotYet(q) /\ (~NotYet(q) => q # x + 1)
  <2>1. ~Committing'
    BY <1>0 DEF Committing
  <2>2. \A q \in Queries : q # x => (q > i <=> (q > i + 1 \/ q = i + 1))
    BY <1>0, QueryIsNat
  <2> QED BY <1>0, <2>1, <2>2 DEF NotYet
<1>6. ~(x > i + 1) /\ x # i + 1 /\ called[x] = {} /\ Stage(x) = "open"
  BY <1>0, <1>2, WhereQueriesAre
<1>7. CASE watched' = [watched EXCEPT ![FdOf(i)] = i]
  <2>1. /\ watched'[FdOf(i)] = i
        /\ \A f \in Fds : f # FdOf(i) => watched'[f] = watched[f]
    BY <1>0, <1>7 DEF RInv, DInv, DType
  <2>2. watched[FdOf(i)] = NoQuery
    BY <1>0, <1>2 DEF RInv, DInv, Args, Listens
  <2>3. \A q \in Queries : q # x => Listens(q)' = Listens(q)
    BY <2>1, <2>2, QueryIsNat DEF Listens
  <2>4. \A q \in Queries : q # x => Stage(q)' = Stage(q)
    BY <1>0, <1>1, <1>5, <2>3, SameStage
  <2>5. Stage(x)' = "listening"
    BY <1>0, <1>6, <2>1 DEF Stage
  <2> QED BY <1>0, <1>4, <1>6, <2>4, <2>5, Goes DEF CResolver!Listen
<1>8. CASE MayFail /\ UNCHANGED watched
  <2>1. \A q \in Queries : Listens(q)' = Listens(q)
    BY <1>8 DEF Listens
  <2>2. \A q \in Queries : q # x => Stage(q)' = Stage(q)
    BY <1>0, <1>1, <1>5, <2>1, SameStage
  <2>3. Stage(x)' = "lost"
    BY <1>0, <1>2, <1>6, <1>8 DEF Stage, Listens
  <2> QED BY <1>0, <1>4, <1>6, <1>8, <2>2, <2>3, Goes DEF CResolver!Abandon
<1> QED BY <1>7, <1>8 DEF AddEvent

\* The thread goes to its next event: what it has just handled was released.
LEMMA ThreadMoves ==
  RInv /\ (InitClient \/ SendRequest \/ Exit \/ Wait \/ NextEvent \/ WaitFails \/ \E q \in Queries : Network(q))
    => Ends' /\ UNCHANGED <<Stages, called>>
<1> SUFFICES ASSUME RInv, InitClient \/ SendRequest \/ Exit \/ Wait \/ NextEvent \/ WaitFails
                          \/ \E q \in Queries : Network(q)
             PROVE  Ends' /\ UNCHANGED <<Stages, called>>
  OBVIOUS
<1>1. CASE InitClient \/ SendRequest \/ Exit
  <2>1. main = "init" => proc = "none"
    BY DEF RInv, DInv, Works
  <2> QED BY <1>1, <2>1, NothingHappens DEF InitClient, SendRequest, Exit, procVars, Committing, Releases
<1>2. CASE Wait \/ NextEvent \/ WaitFails
  BY <1>2, NothingHappens DEF Wait, NextEvent, WaitFails, mainVars, Committing, Releases
<1>3. CASE \E q \in Queries : Network(q)
  BY <1>3, NothingHappens DEF Network, mainVars, procVars, Committing, Releases
<1> QED BY <1>1, <1>2, <1>3

LEMMA RecvAndCallAnswers ==
  RInv /\ RecvAndCall => Ends' /\ \E q \in Queries : CResolver!Answer(q)
<1> SUFFICES ASSUME RInv, RecvAndCall PROVE Ends' /\ \E q \in Queries : CResolver!Answer(q)
  OBVIOUS
<1> PICK x : x = data
  OBVIOUS
<1>0. /\ proc = "recv" /\ proc' = "delete" /\ data' = data /\ x \in Queries
      /\ UNCHANGED <<main, i, files, watched, heap>>
      /\ Waits(x) /\ x < i /\ sockfd[x] \in Fds
  BY DEF RecvAndCall, mainVars, RInv, DInv, DType, Works
<1>1. PICK m \in {"reply", "error"} : called' = [called EXCEPT ![x] = {<<0, x, m>>}]
  <2>1. PICK m : m \in inbox[x] /\ called' = [called EXCEPT ![x] = called[x] \cup {<<Cardinality(called[x]), x, m>>}]
    BY <1>0 DEF RecvAndCall, Waits
  <2>2. called[x] = {} /\ Cardinality(called[x]) = 0
    BY <1>0, FS_EmptySet DEF Waits
  <2>3. m \in {"reply", "error"}
    BY <1>0, <2>1 DEF RInv, DInv, DType
  <2> QED BY <2>1, <2>2, <2>3
<1>2. /\ called'[x] = {<<0, x, m>>} /\ called[x] = {}
      /\ \A q \in Queries : q # x => called'[q] = called[q]
  BY <1>0, <1>1 DEF RInv, DInv, Calls, Waits
<1>3. SocketOpen(x) /\ Listens(x)
  BY <1>0 DEF Waits, SocketOpen, Listens
<1>4. \A q \in Queries : /\ SocketOpen(q)' = SocketOpen(q) /\ Listens(q)' = Listens(q)
                         /\ NotYet(q)' = NotYet(q)
  BY <1>0 DEF SocketOpen, Listens, NotYet, Committing
<1>5. \A q \in Queries : called[q] # {} => Released(q)
  BY <1>0 DEF RInv, Ends, Releases
<1>6. Ends'
  <2>1. \A q \in Queries : q < i /\ called'[q] = {} => SocketOpen(q)
    BY <1>2 DEF RInv, Ends
  <2>2. \A q \in Queries : called'[q] # {} => Released(q)' \/ q = x
    BY <1>0, <1>2, <1>4, <1>5 DEF Released
  <2> QED BY <1>0, <1>4, <2>1, <2>2 DEF Ends, Releases, SocketOpen
<1>7. \A q \in Queries : q # x => Stage(q)' = Stage(q)
  BY <1>0, <1>2, <1>4, SameStage
<1>8. Stage(x) = "listening" /\ Stage(x)' = "called"
  <2>1. ~(x > i) /\ x # i
    BY <1>0, QueryIsNat DEF RInv, DInv, DType
  <2>2. Stage(x) = "listening"
    BY <1>2, <1>3, <2>1 DEF Stage, Listens
  <2>3. SocketOpen(x)' /\ called'[x] # {}
    BY <1>0, <1>2, <1>3, <1>4
  <2> QED BY <2>2, <2>3 DEF Stage
<1>9. \A p \in CResolver!Queries : [q \in Queries |-> Stage(q)][p] \notin {"called", "closed"}
  BY <1>5 DEF Stage, Released, CResolver!Queries, Queries
<1>10. CResolver!Move(x, "listening", "called")
  BY <1>0, <1>7, <1>8, Goes
<1>11. CResolver!Answer(x)
  BY <1>1, <1>9, <1>10 DEF CResolver!Answer
<1> QED BY <1>0, <1>6, <1>11

LEMMA DeleteKeepsStages ==
  RInv /\ DeleteAndClose /\ proc = "delete" => Ends' /\ UNCHANGED <<Stages, called>>
<1> SUFFICES ASSUME RInv, DeleteAndClose, proc = "delete" PROVE Ends' /\ UNCHANGED <<Stages, called>>
  OBVIOUS
<1> PICK x : x = data
  OBVIOUS
<1>0. /\ proc' = "close" /\ data' = data /\ UNCHANGED <<main, i, files, heap, called>>
      /\ x \in Queries /\ called[x] # {} /\ files[sockfd[x]] = x /\ sockfd[x] \in Fds
      /\ watched' = [watched EXCEPT ![sockfd[x]] = NoQuery]
  BY DEF DeleteAndClose, Release, Delete, mainVars, RInv, DInv, DType, Works
<1>1. \A f \in Fds : f # sockfd[x] => watched'[f] = watched[f]
  BY <1>0 DEF RInv, DInv, DType
<1>2. /\ watched[sockfd[x]] \in {x, NoQuery} /\ watched'[sockfd[x]] = NoQuery
  BY <1>0 DEF RInv, DInv, DType, Args
<1>3. \A q \in Queries : q # x => Listens(q)' = Listens(q)
  BY <1>0, <1>1, <1>2, QueryIsNat DEF Listens
<1>4. \A q \in Queries : SocketOpen(q)' = SocketOpen(q) /\ NotYet(q)' = NotYet(q)
  BY <1>0 DEF SocketOpen, NotYet, Committing
<1>5. Ends'
  BY <1>0, <1>4 DEF RInv, Ends, Released, Releases, SocketOpen
<1>6. \A q \in Queries : Stage(q)' = Stage(q)
  BY <1>0, <1>3, <1>4, SameStage
<1> QED BY <1>0, <1>5, <1>6, Stays

LEMMA CloseCloses ==
  RInv /\ DeleteAndClose /\ proc = "close" => Ends' /\ \E q \in Queries : CResolver!CloseSocket(q)
<1> SUFFICES ASSUME RInv, DeleteAndClose, proc = "close"
             PROVE  Ends' /\ \E q \in Queries : CResolver!CloseSocket(q)
  OBVIOUS
<1> PICK x, n : x = data /\ n = sockfd[x]
  OBVIOUS
<1>0. /\ proc' = "free" /\ data' = data /\ UNCHANGED <<main, i, heap, called>>
      /\ x \in Queries /\ called[x] # {} /\ files[n] = x /\ n \in Fds /\ x \in heap
      /\ files' = [files EXCEPT ![n] = NoQuery]
      /\ watched' = [watched EXCEPT ![n] = NoQuery]
  BY DEF DeleteAndClose, Release, Close, mainVars, RInv, DInv, DType, Works
<1>1. /\ \A f \in Fds : f # n => watched'[f] = watched[f] /\ files'[f] = files[f]
      /\ watched'[n] = NoQuery /\ files'[n] = NoQuery
  BY <1>0 DEF RInv, DInv, DType
<1>2. watched[n] \in {x, NoQuery} /\ \A f \in Fds : files[f] = x => f = n
  BY <1>0, QueryIsNat DEF RInv, DInv, DType, Args, Descriptors
<1>3. \A q \in Queries : q # x => /\ SocketOpen(q)' <=> SocketOpen(q)
                                  /\ Listens(q)' <=> Listens(q)
  BY <1>0, <1>1, <1>2, QueryIsNat DEF SocketOpen, Listens
<1>4. ~SocketOpen(x)'
  BY <1>1, <1>2, <1>0, QueryIsNat DEF SocketOpen
<1>5. Ends'
  <2>1. \A q \in Queries : q < i /\ called[q] = {} => SocketOpen(q)'
    BY <1>0, <1>3 DEF RInv, Ends
  <2>2. \A q \in Queries : called[q] # {} => Released(q)' \/ q = x
    BY <1>0, <1>3 DEF RInv, Ends, Released, Releases
  <2> QED BY <1>0, <1>4, <2>1, <2>2 DEF Ends, Releases, SocketOpen
<1>6. \A q \in Queries : q # x => Stage(q)' = Stage(q)
  <2>1. \A q \in Queries : NotYet(q)' = NotYet(q)
    BY <1>0 DEF NotYet, Committing
  <2> QED BY <1>0, <1>3, <2>1, SameStage
<1>7. Stage(x) = "called" /\ Stage(x)' = "closed"
  <2>1. SocketOpen(x)
    BY <1>0 DEF SocketOpen
  <2> QED BY <1>0, <1>4, <2>1 DEF Stage
<1>8. CResolver!CloseSocket(x)
  BY <1>0, <1>6, <1>7, Goes DEF CResolver!CloseSocket
<1> QED BY <1>0, <1>5, <1>8

LEMMA FreeDataReleases ==
  RInv /\ FreeData => Ends' /\ \E q \in Queries : CResolver!Release(q)
<1> SUFFICES ASSUME RInv, FreeData PROVE Ends' /\ \E q \in Queries : CResolver!Release(q)
  OBVIOUS
<1> PICK x : x = data
  OBVIOUS
<1>0. /\ proc = "free" /\ proc' = "next" /\ data' = data
      /\ UNCHANGED <<main, i, files, watched, called>> /\ heap' = heap \ {x}
      /\ x \in Queries /\ called[x] # {} /\ x \in heap /\ ~SocketOpen(x)
  BY DEF FreeData, FreeArg, mainVars, RInv, DInv, DType, Works, Ends
<1>1. \A q \in Queries : /\ SocketOpen(q)' = SocketOpen(q) /\ NotYet(q)' = NotYet(q)
                         /\ Listens(q)' = Listens(q)
  BY <1>0 DEF SocketOpen, NotYet, Committing, Listens
<1>2. Ends'
  BY <1>0, <1>1 DEF RInv, Ends, Released, Releases, SocketOpen
<1>3. \A q \in Queries : q # x => Stage(q)' = Stage(q)
  BY <1>0, <1>1, SameStage
<1>4. Stage(x) = "closed" /\ Stage(x)' = "released"
  <2>1. ~SocketOpen(x)' /\ x \notin heap' /\ called'[x] # {}
    BY <1>0, <1>1
  <2> QED BY <1>0, <2>1 DEF Stage
<1>5. CResolver!Release(x)
  BY <1>0, <1>3, <1>4, Goes DEF CResolver!Release
<1> QED BY <1>0, <1>2, <1>5

LEMMA NextKeepsRInv == RInv /\ [Next]_vars => RInv' /\ [CResolver!Next]_<<Stages, called>>
<1> SUFFICES ASSUME RInv, [Next]_vars PROVE RInv' /\ [CResolver!Next]_<<Stages, called>>
  OBVIOUS
<1>1. DInv'
  BY NextKeeps DEF RInv
<1>2. CASE UNCHANGED vars
  BY <1>1, <1>2, NothingHappens DEF RInv, vars, mainVars, procVars, Committing, Releases
<1>3. CASE OpenSocket \/ AllocArg \/ AddEvent
  BY <1>1, <1>3, OpenSocketAsks, AllocArgAbandons, AddEventListens
     DEF RInv, CResolver!Next, CResolver!Queries, Queries
<1>4. CASE InitClient \/ SendRequest \/ Exit \/ Wait \/ NextEvent \/ WaitFails \/ \E q \in Queries : Network(q)
  BY <1>1, <1>4, ThreadMoves DEF RInv
<1>5. CASE RecvAndCall \/ DeleteAndClose \/ FreeData
  <2>1. DeleteAndClose => proc = "delete" \/ proc = "close"
    BY DEF DeleteAndClose, Release
  <2> QED BY <1>1, <1>5, <2>1, RecvAndCallAnswers, DeleteKeepsStages, CloseCloses, FreeDataReleases
             DEF RInv, CResolver!Next, CResolver!Queries, Queries
<1> QED BY <1>2, <1>3, <1>4, <1>5 DEF Next, Main, Proc

(***************************************************************************)
(* async_dns_client_noblock.c implements Resolver: every step of main, the *)
(* thread or the network takes one query one stage further, or none.  A    *)
(* query keeps its socket, its ep_arg and its place in epoll until its own *)
(* callback was called; all three are given back, socket first, before the *)
(* thread calls another callback.                                          *)
(***************************************************************************)
THEOREM DnsIsResolver == Spec => ImplementsResolver
<1>1. [CResolver!Next]_<<Stages, called>> => [CResolver!Next]_(CResolver!vars)
  BY DEF Stages, CResolver!vars
<1> QED BY <1>1, InitRInv, InitStages, NextKeepsRInv, PTL DEF Spec, ImplementsResolver, CResolver!Spec
=============================================================================
