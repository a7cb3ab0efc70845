-------------------------- MODULE ThreadPoolProofs --------------------------
(***************************************************************************)
(* Theorems about ThreadPool for every number of workers, clients and      *)
(* tasks, whatever the uninitialised counters held and whichever           *)
(* pthread_create failed.                                                  *)
(***************************************************************************)
EXTENDS ThreadPoolProps, FiniteSetTheorems, TLAPS

-----------------------------------------------------------------------------
(* The operators of the queue. *)

\* Enqueueing keeps the tasks and leaves a queue that is not empty.
LEMMA AddTaskQueue ==
  ASSUME NEW q \in Seq(Tasks), NEW t \in Tasks
  PROVE  addTask(q, t) \in Seq(Tasks) /\ addTask(q, t) # <<>>
<1>1. Append(q, t) \in Seq(Tasks) /\ Len(Append(q, t)) = Len(q) + 1 /\ Len(q) \in Nat
  OBVIOUS
<1> QED
  BY <1>1 DEF addTask

\* From a queue that is not empty getTask returns a task, never garbage.
LEMMA GetTaskQueue ==
  ASSUME NEW q \in Seq(Tasks)
  PROVE  /\ getTaskRest(q) \in Seq(Tasks)
         /\ getTaskValue(q) \in Tasks \cup {Garbage}
         /\ q # <<>> => getTaskValue(q) \in Tasks
BY DEF getTaskRest, getTaskValue

\* The size test of the code is the test for the empty queue.
LEMMA QueueSize ==
  ASSUME NEW q \in Seq(Tasks)
  PROVE  getQueueSize(q) \in Nat /\ (getQueueSize(q) = 0 <=> q = <<>>)
BY DEF getQueueSize

\* The array m_threadIDs is finite, and so is every choice of entries.
LEMMA EntriesFinite ==
  ASSUME NEW S \in SUBSET Workers
  PROVE  IsFiniteSet(S) /\ Cardinality(S) \in Nat
<1>1. IsFiniteSet(Workers)
  BY PoolAssumption, FS_Interval DEF PoolAssumption, Workers
<1> QED
  BY <1>1, FS_Subset, FS_CardinalityType

-----------------------------------------------------------------------------
(* The type invariant. *)

\* The constructor leaves every variable with a value of its type.
LEMMA InitTypeOK == Init => TypeOK
<1> SUFFICES ASSUME Init PROVE TypeOK
  OBVIOUS
<1>1. m_taskQueue \in Seq(Tasks) /\ m_lock \in Workers \cup {Nobody}
  BY DEF Init
<1>5. m_aliveNum \in Nat /\ m_exitNum \in Int /\ m_busyNum \in Int
  BY PoolAssumption DEF Init, PoolAssumption
<1>6. sent \in Nat /\ added \subseteq Tasks /\ m_shutdown \in BOOLEAN
  BY DEF Init
<1>2. pc \in [Workers -> WorkerPC] /\ task \in [Workers -> Tasks \cup {Garbage}]
  BY DEF Init, WorkerPC
<1>3. client \in [Clients -> {"idle", "signal"}] /\ runs \in [Tasks -> Nat]
  BY DEF Init
<1>4. /\ mgr \in ManagerPC /\ plan \in [grow : BOOLEAN, shrink : BOOLEAN]
      /\ kicks \in IF mgr = "signal" THEN 1 .. NUMBER ELSE {0}
      /\ dtor \in DestructorPC
  BY DEF Init, ManagerPC, DestructorPC
<1> QED
  BY <1>1, <1>2, <1>3, <1>4, <1>5, <1>6 DEF TypeOK

\* Signalling moves workers between labels and nothing else.
LEMMA SignalType ==
  ASSUME TypeOK, Signal
  PROVE  pc' \in [Workers -> WorkerPC]
BY DEF TypeOK, Signal, Waiting, WorkerPC

\* A step of worker() or threadExit, a spurious wakeup or a use of freed memory
\* keeps the types.
LEMMA WorkerStepTypeOK ==
  ASSUME TypeOK, NEW w \in Workers, WorkerStep(w) \/ SpuriousWakeup(w) \/ UseAfterFree(w)
  PROVE  TypeOK'
<1> USE DEF TypeOK, At, Goto, WorkerPC, mgrVars, dtorVars, counters, history
<1>1. CASE WorkerLock(w)
  BY <1>1 DEF WorkerLock
<1>2. CASE WorkerCheck(w)
  BY <1>2 DEF WorkerCheck
<1>3. CASE WorkerWait(w)
  BY <1>3 DEF WorkerWait
<1>4. CASE WorkerWoken(w)
  BY <1>4, PoolAssumption DEF WorkerWoken, MayRetire, AfterWakeup, PoolAssumption
<1>5. CASE WorkerTest(w)
  BY <1>5 DEF WorkerTest
<1>6. CASE WorkerTake(w)
  BY <1>6, GetTaskQueue DEF WorkerTake
<1>7. CASE WorkerRun(w)
  BY <1>7 DEF WorkerRun
<1>8. CASE WorkerDone(w)
  BY <1>8 DEF WorkerDone
<1>9. CASE threadExit(w)
  BY <1>9 DEF threadExit
<1>10. CASE SpuriousWakeup(w)
  BY <1>10 DEF SpuriousWakeup
<1>11. CASE UseAfterFree(w)
  BY <1>11 DEF UseAfterFree
<1> QED
  BY <1>1, <1>2, <1>3, <1>4, <1>5, <1>6, <1>7, <1>8, <1>9, <1>10, <1>11 DEF WorkerStep

\* A step of manager() keeps the types; the signals it has left are counted down
\* to zero exactly when it stops signalling.
LEMMA ManagerTypeOK ==
  ASSUME TypeOK, Manager
  PROVE  TypeOK'
<1> USE DEF TypeOK, ManagerPC, mgrVars, dtorVars, counters, history
<1>1. CASE ManagerTest
  BY <1>1 DEF ManagerTest
<1>2. CASE ManagerSnapshot
  BY <1>2 DEF ManagerSnapshot, ShouldGrow, ShouldShrink
<1>3. CASE ManagerGrow
  <2>1. PICK new \in SUBSET FreeEntries :
          CreateWorkers(new) /\ m_aliveNum' = m_aliveNum + Cardinality(new)
    BY <1>3 DEF ManagerGrow
  <2>2. Cardinality(new) \in Nat
    BY EntriesFinite DEF FreeEntries
  <2>3. pc' \in [Workers -> WorkerPC]
    BY <2>1 DEF CreateWorkers, WorkerPC
  <2> QED
    BY <1>3, <2>1, <2>2, <2>3 DEF ManagerGrow
<1>4. CASE ManagerShrink
  BY <1>4 DEF ManagerShrink, NUMBER
<1>5. CASE ManagerSkip
  BY <1>5 DEF ManagerSkip
<1>6. CASE ManagerSignal
  BY <1>6, SignalType DEF ManagerSignal, NUMBER, LastKick
<1> QED
  BY <1>1, <1>2, <1>3, <1>4, <1>5, <1>6 DEF Manager

\* The two steps of addTask keep the types.
LEMMA ClientTypeOK ==
  ASSUME TypeOK, NEW c \in Clients,
         AddTaskSignal(c) \/ \E t \in Tasks : AddTask(c, t)
  PROVE  TypeOK'
<1> USE DEF TypeOK, mgrVars, dtorVars, counters, history
<1>1. CASE AddTaskSignal(c)
  BY <1>1, SignalType DEF AddTaskSignal
<1>2. ASSUME NEW t \in Tasks, AddTask(c, t) PROVE TypeOK'
  BY <1>2, AddTaskQueue DEF AddTask
<1> QED
  BY <1>1, <1>2

\* The steps of ~ThreadPool keep the types.
LEMMA DestructorTypeOK ==
  ASSUME TypeOK, Shutdown \/ Destructor
  PROVE  TypeOK'
<1> USE DEF TypeOK, DestructorPC, mgrVars, dtorVars, counters, history
<1>1. CASE Shutdown
  BY <1>1 DEF Shutdown
<1>2. CASE JoinManager
  BY <1>2 DEF JoinManager
<1>3. CASE ShutdownSignal
  BY <1>3, SignalType DEF ShutdownSignal
<1>4. CASE Delete
  BY <1>4 DEF Delete
<1>5. CASE DestroyMutex
  BY <1>5 DEF DestroyMutex
<1>6. CASE DestroyCondition
  BY <1>6 DEF DestroyCondition
<1> QED
  BY <1>1, <1>2, <1>3, <1>4, <1>5, <1>6 DEF Destructor

\* A stuttering step keeps the types.
LEMMA StutterTypeOK ==
  ASSUME TypeOK, UNCHANGED vars
  PROVE  TypeOK'
BY DEF TypeOK, vars, mgrVars, dtorVars, counters, history

\* Every step keeps the types.
LEMMA NextTypeOK ==
  ASSUME TypeOK, [Next]_vars
  PROVE  TypeOK'
BY ClientTypeOK, WorkerStepTypeOK, ManagerTypeOK, DestructorTypeOK, StutterTypeOK DEF Next

\* Every variable keeps its type; in particular m_aliveNum never goes below zero
\* and signals of the manager are pending exactly while it is sending them.
THEOREM TypeCorrect == Spec => []TypeOK
BY InitTypeOK, NextTypeOK, PTL DEF Spec
-----------------------------------------------------------------------------
(* The bounds of the pool. *)

\* No step takes m_aliveNum out of [MinNum, MaxNum]: a worker compares before
\* it decrements, the creation loop before it increments.
LEMMA NextPoolSize ==
  ASSUME TypeOK, PoolSize, [Next]_vars
  PROVE  PoolSize'
<1> USE PoolAssumption DEF PoolAssumption, TypeOK, PoolSize, mgrVars, dtorVars, counters, history
<1>1. ASSUME NEW w \in Workers, WorkerWoken(w) PROVE PoolSize'
  BY <1>1 DEF WorkerWoken, MayRetire
<1>2. CASE ManagerGrow
  <2>1. PICK new \in SUBSET FreeEntries :
          LoopFills(new) /\ m_aliveNum' = m_aliveNum + Cardinality(new)
    BY <1>2 DEF ManagerGrow
  <2>2. Cardinality(new) \in Nat
    BY EntriesFinite DEF FreeEntries
  <2> QED
    BY <2>1, <2>2 DEF LoopFills, Room
<1>3. ASSUME m_aliveNum' = m_aliveNum PROVE PoolSize'
  BY <1>3
<1>4. ASSUME NEW w \in Workers,
             \/ WorkerLock(w) \/ WorkerCheck(w) \/ WorkerWait(w) \/ WorkerTest(w)
             \/ WorkerTake(w) \/ WorkerRun(w) \/ WorkerDone(w) \/ threadExit(w)
             \/ SpuriousWakeup(w) \/ UseAfterFree(w)
      PROVE  m_aliveNum' = m_aliveNum
  BY <1>4 DEF WorkerLock, WorkerCheck, WorkerWait, WorkerTest, WorkerTake, WorkerRun,
              WorkerDone, threadExit, SpuriousWakeup, UseAfterFree
<1>5. ASSUME ManagerTest \/ ManagerSnapshot \/ ManagerShrink \/ ManagerSkip \/ ManagerSignal
      PROVE  m_aliveNum' = m_aliveNum
  BY <1>5 DEF ManagerTest, ManagerSnapshot, ManagerShrink, ManagerSkip, ManagerSignal
<1>6. ASSUME Shutdown \/ Destructor PROVE m_aliveNum' = m_aliveNum
  BY <1>6 DEF Shutdown, Destructor, JoinManager, ShutdownSignal, Delete, DestroyMutex,
              DestroyCondition
<1>7. ASSUME NEW c \in Clients, AddTaskSignal(c) \/ \E t \in Tasks : AddTask(c, t)
      PROVE  m_aliveNum' = m_aliveNum
  BY <1>7 DEF AddTaskSignal, AddTask
<1>8. CASE UNCHANGED vars
  BY <1>8 DEF vars
<1> QED
  BY <1>1, <1>2, <1>3, <1>4, <1>5, <1>6, <1>7, <1>8 DEF Next, WorkerStep, Manager

\* The pool stays between its bounds, although the manager acts on stale copies
\* of the counters, workers retire on left-over permits, m_exitNum starts with
\* any value at all and pthread_create may fail.
THEOREM BoundedPool == Spec => []PoolSize
<1>1. Init => PoolSize
  BY PoolAssumption DEF Init, PoolSize, PoolAssumption
<1> QED
  BY <1>1, TypeCorrect, NextPoolSize, PTL DEF Spec

-----------------------------------------------------------------------------
(***************************************************************************)
(* The lock, and what its holder has seen.  LockProtects is inductive      *)
(* given the types: the lock is what makes SeenStillTrue survive the steps *)
(* of the other threads.                                                   *)
(***************************************************************************)

\* Two workers are never inside the critical section at once.
LEMMA Exclusive ==
  ASSUME TypeOK, LockHeld, NEW v \in Workers, pc[v] \in Holding
  PROVE  ~LockFree /\ \A w \in Workers : pc[w] \in Holding => w = v
BY PoolAssumption DEF PoolAssumption, TypeOK, LockHeld, LockFree, Workers, Nobody

\* A step that keeps lock, queue, destructor and order to leave, and brings no
\* worker into the critical section, keeps LockProtects.
LEMMA OutsideLock ==
  ASSUME LockProtects, UNCHANGED <<m_lock, m_taskQueue, dtor, m_shutdown>>,
         \A w \in Workers : pc'[w] \in Holding => pc'[w] = pc[w]
  PROVE  LockProtects'
BY DEF LockProtects, LockHeld, SeenStillTrue, ClosedFirst, Holding

\* Signalling brings no worker into the critical section.
LEMMA SignalOutside ==
  ASSUME TypeOK, Signal
  PROVE  \A w \in Workers : pc'[w] \in Holding => pc'[w] = pc[w]
BY DEF TypeOK, Signal, Waiting, Holding

\* A worker enters the critical section only when the lock is free, and what it
\* moves on with there is what it has just seen.
LEMMA WorkerLockProtects ==
  ASSUME TypeOK, LockProtects, NEW w \in Workers,
         WorkerStep(w) \/ SpuriousWakeup(w) \/ UseAfterFree(w)
  PROVE  LockProtects'
<1> USE DEF TypeOK, At, Goto, mgrVars, dtorVars, counters, history, Holding
<1>1. CASE WorkerLock(w)
  BY <1>1, Exclusive DEF WorkerLock, LockProtects, LockHeld, SeenStillTrue, ClosedFirst
<1>2. CASE WorkerCheck(w)
  <2>1. MustWait <=> m_taskQueue = <<>> /\ ~m_shutdown
    BY QueueSize DEF MustWait
  <2> QED
    BY <1>2, <2>1 DEF WorkerCheck, LockProtects, LockHeld, SeenStillTrue, ClosedFirst
<1>3. CASE WorkerWait(w)
  BY <1>3, Exclusive DEF WorkerWait, LockProtects, LockHeld, SeenStillTrue, ClosedFirst
<1>4. CASE WorkerWoken(w)
  BY <1>4, Exclusive DEF WorkerWoken, AfterWakeup, LockProtects, LockHeld, SeenStillTrue, ClosedFirst
<1>5. CASE WorkerTest(w)
  BY <1>5, Exclusive DEF WorkerTest, LockProtects, LockHeld, SeenStillTrue, ClosedFirst
<1>6. CASE WorkerTake(w)
  BY <1>6, Exclusive DEF WorkerTake, LockProtects, LockHeld, SeenStillTrue, ClosedFirst
<1>7. CASE WorkerRun(w) \/ WorkerDone(w) \/ threadExit(w) \/ SpuriousWakeup(w) \/ UseAfterFree(w)
  BY <1>7, OutsideLock DEF WorkerRun, WorkerDone, threadExit, SpuriousWakeup, UseAfterFree
<1> QED
  BY <1>1, <1>2, <1>3, <1>4, <1>5, <1>6, <1>7 DEF WorkerStep

\* The manager brings no worker into the critical section: the threads it
\* creates and signals start outside.
LEMMA ManagerLockProtects ==
  ASSUME TypeOK, LockProtects, Manager
  PROVE  LockProtects'
<1> USE DEF mgrVars, dtorVars, counters, history
<1>1. CASE ManagerTest \/ ManagerSnapshot \/ ManagerShrink \/ ManagerSkip
  BY <1>1, OutsideLock DEF ManagerTest, ManagerSnapshot, ManagerShrink, ManagerSkip
<1>2. CASE ManagerGrow
  <2>1. \A w \in Workers : pc'[w] \in Holding => pc'[w] = pc[w]
    BY <1>2 DEF ManagerGrow, CreateWorkers, Holding
  <2> QED
    BY <1>2, <2>1, OutsideLock DEF ManagerGrow
<1>3. CASE ManagerSignal
  BY <1>3, SignalOutside, OutsideLock DEF ManagerSignal
<1> QED
  BY <1>1, <1>2, <1>3 DEF Manager

\* Every step keeps the lock with its holder and what the holder has seen true.
LEMMA NextLockProtects ==
  ASSUME TypeOK, LockProtects, [Next]_vars
  PROVE  LockProtects'
<1> USE DEF mgrVars, dtorVars, counters, history
<1>1. ASSUME NEW c \in Clients, AddTaskSignal(c) PROVE LockProtects'
  BY <1>1, SignalOutside, OutsideLock DEF AddTaskSignal
<1>2. ASSUME NEW c \in Clients, NEW t \in Tasks, AddTask(c, t) PROVE LockProtects'
  <2>1. m_taskQueue' # <<>> /\ LockFree
    BY <1>2, AddTaskQueue DEF AddTask, TypeOK
  <2>2. \A w \in Workers : pc[w] \notin Holding
    BY <2>1, Exclusive DEF LockProtects
  <2> QED
    BY <1>2, <2>1, <2>2 DEF AddTask, LockProtects, LockHeld, SeenStillTrue, ClosedFirst, Holding
<1>3. CASE Shutdown
  BY <1>3 DEF Shutdown, LockProtects, LockHeld, SeenStillTrue, ClosedFirst, Freed
<1>4. CASE ShutdownSignal
  BY <1>4, SignalOutside DEF ShutdownSignal, LockProtects, LockHeld, SeenStillTrue, ClosedFirst, Holding, Freed
<1>5. CASE JoinManager \/ DestroyMutex \/ DestroyCondition
  BY <1>5 DEF JoinManager, DestroyMutex, DestroyCondition, LockProtects, LockHeld,
              SeenStillTrue, ClosedFirst, Freed
<1>6. CASE Delete
  BY <1>6 DEF Delete, LockProtects, LockHeld, SeenStillTrue, ClosedFirst, Freed
<1>7. CASE UNCHANGED vars
  BY <1>7, OutsideLock DEF vars
<1> QED
  BY <1>1, <1>2, <1>3, <1>4, <1>5, <1>6, <1>7, WorkerLockProtects, ManagerLockProtects
     DEF Next, Destructor

\* The lock is held from the test of the queue to the pop, and what the holder
\* saw of the queue is still true when it relies on it.
THEOREM CriticalSection == Spec => []LockProtects
<1>1. Init => LockProtects
  BY DEF Init, LockProtects, LockHeld, SeenStillTrue, ClosedFirst, Holding
<1> QED
  BY <1>1, TypeCorrect, NextLockProtects, PTL DEF Spec
-----------------------------------------------------------------------------
(* No worker calls a Task that was never set. *)

\* Only WorkerTake gives a worker work; it finds a task because LockProtects.
LEMMA NextNoGarbageTask ==
  ASSUME TypeOK, LockProtects, NoGarbageTask, [Next]_vars
  PROVE  NoGarbageTask'
<1> USE DEF TypeOK, NoGarbageTask, At, Goto, mgrVars, dtorVars, counters, history
<1>1. ASSUME NEW w \in Workers, WorkerTake(w) PROVE NoGarbageTask'
  <2>1. m_taskQueue # <<>>
    BY <1>1 DEF WorkerTake, LockProtects, SeenStillTrue, Dangling
  <2>2. task'[w] # Garbage
    BY <1>1, <2>1, GetTaskQueue, TaskAssumption DEF WorkerTake, TaskAssumption
  <2> QED
    BY <1>1, <2>2 DEF WorkerTake
<1>2. ASSUME UNCHANGED task, \A w \in Workers : pc'[w] = "working" => pc[w] = "working"
      PROVE  NoGarbageTask'
  BY <1>2
<1>3. ASSUME NEW w \in Workers,
             \/ WorkerLock(w) \/ WorkerCheck(w) \/ WorkerWait(w) \/ WorkerWoken(w)
             \/ WorkerTest(w) \/ WorkerDone(w) \/ threadExit(w) \/ SpuriousWakeup(w)
             \/ UseAfterFree(w)
      PROVE  NoGarbageTask'
  BY <1>3, <1>2 DEF WorkerLock, WorkerCheck, WorkerWait, WorkerWoken, AfterWakeup, WorkerTest,
                    WorkerDone, threadExit, SpuriousWakeup, UseAfterFree
<1>4. ASSUME NEW w \in Workers, WorkerRun(w) PROVE NoGarbageTask'
  BY <1>4 DEF WorkerRun
<1>5. ASSUME Signal PROVE \A w \in Workers : pc'[w] = "working" => pc[w] = "working"
  BY <1>5 DEF Signal, Waiting
<1>6. CASE ManagerGrow
  BY <1>6, <1>2 DEF ManagerGrow, CreateWorkers
<1>7. CASE \/ ManagerTest \/ ManagerSnapshot \/ ManagerShrink \/ ManagerSkip
           \/ ManagerSignal
  BY <1>7, <1>5, <1>2 DEF ManagerTest, ManagerSnapshot, ManagerShrink, ManagerSkip, ManagerSignal
<1>8. CASE Shutdown \/ Destructor
  BY <1>8, <1>5, <1>2 DEF Shutdown, Destructor, JoinManager, ShutdownSignal, Delete,
                          DestroyMutex, DestroyCondition
<1>9. ASSUME NEW c \in Clients, AddTaskSignal(c) \/ \E t \in Tasks : AddTask(c, t)
      PROVE  NoGarbageTask'
  BY <1>9, <1>5, <1>2 DEF AddTaskSignal, AddTask
<1>10. CASE UNCHANGED vars
  BY <1>10, <1>2 DEF vars
<1> QED
  BY <1>1, <1>3, <1>4, <1>6, <1>7, <1>8, <1>9, <1>10 DEF Next, WorkerStep, Manager

\* However wakeups are shared, stolen or spurious, no worker ever calls a Task
\* that getTask returned from an empty queue.
THEOREM OnlyRealTasksRun == Spec => []NoGarbageTask
<1>1. Init => NoGarbageTask
  BY DEF Init, NoGarbageTask
<1> QED
  BY <1>1, TypeCorrect, CriticalSection, NextNoGarbageTask, PTL DEF Spec

-----------------------------------------------------------------------------
(***************************************************************************)
(* A pool of fixed size strands no task.  The inductive invariant also     *)
(* says that while the pool is open no worker leaves: each is attentive,   *)
(* about to wait, or waiting.                                              *)
(***************************************************************************)
Staffed == \/ m_shutdown
           \/ \A w \in Workers : w \in Attentive \/ pc[w] \in {"block", "waiting"}
FixedSize == MinNum = MaxNum /\ MinNum > 0 /\ CreateMayFail = FALSE

\* In a pool of fixed size a worker leaves only when the pool is shut down.
LEMMA NextStaffed ==
  ASSUME FixedSize, TypeOK, PoolSize, LockProtects, Staffed, [Next]_vars
  PROVE  Staffed'
<1> USE DEF TypeOK, Staffed, Attentive, At, Goto, mgrVars, dtorVars, counters, history
<1>1. ASSUME NEW w \in Workers, WorkerStep(w) \/ SpuriousWakeup(w) PROVE Staffed'
  <2>1. CASE WorkerWoken(w)
    <3>1. ~MayRetire
      BY PoolAssumption DEF FixedSize, MayRetire, PoolSize, PoolAssumption
    <3> QED
      BY <2>1, <3>1 DEF WorkerWoken, AfterWakeup
  <2>2. CASE WorkerTest(w)
    BY <2>2 DEF WorkerTest
  <2>3. CASE threadExit(w)
    BY <2>3 DEF threadExit
  <2>4. CASE \/ WorkerLock(w) \/ WorkerCheck(w) \/ WorkerWait(w) \/ WorkerTake(w)
             \/ WorkerRun(w) \/ WorkerDone(w) \/ SpuriousWakeup(w)
    BY <2>4 DEF WorkerLock, WorkerCheck, WorkerWait, WorkerTake, WorkerRun, WorkerDone,
                SpuriousWakeup
  <2> QED
    BY <1>1, <2>1, <2>2, <2>3, <2>4 DEF WorkerStep
<1>2. ASSUME NEW w \in Workers, UseAfterFree(w) PROVE Staffed'
  <2>1. m_shutdown
    BY <1>2 DEF UseAfterFree, Dangling, LockProtects, ClosedFirst, Freed
  <2> QED
    BY <1>2, <2>1 DEF UseAfterFree
<1>3. ASSUME Signal, UNCHANGED m_shutdown PROVE Staffed'
  BY <1>3 DEF Signal, Waiting
<1>4. CASE Manager
  <2>1. CASE ManagerGrow
    BY <2>1 DEF ManagerGrow, CreateWorkers, FixedSize, FreeEntries
  <2>2. CASE ManagerSignal
    BY <2>2, <1>3 DEF ManagerSignal
  <2>3. CASE ManagerTest \/ ManagerSnapshot \/ ManagerShrink \/ ManagerSkip
    BY <2>3 DEF ManagerTest, ManagerSnapshot, ManagerShrink, ManagerSkip
  <2> QED
    BY <1>4, <2>1, <2>2, <2>3 DEF Manager
<1>5. CASE Shutdown
  BY <1>5 DEF Shutdown
<1>6. CASE Destructor
  BY <1>6, <1>3 DEF Destructor, JoinManager, ShutdownSignal, Delete, DestroyMutex, DestroyCondition
<1>7. ASSUME NEW c \in Clients, AddTaskSignal(c) \/ \E t \in Tasks : AddTask(c, t)
      PROVE  Staffed'
  BY <1>7, <1>3 DEF AddTaskSignal, AddTask
<1>8. CASE UNCHANGED vars
  BY <1>8 DEF vars
<1> QED
  BY <1>1, <1>2, <1>4, <1>5, <1>6, <1>7, <1>8 DEF Next

\* Whoever signals while tasks are queued finds a worker attentive or makes one so.
LEMMA SignalWakes ==
  ASSUME FixedSize, TypeOK, LockProtects, Staffed, Signal, m_taskQueue # <<>>, ~m_shutdown
  PROVE  Attentive' # {}
<1>1. 0 \in Workers
  BY PoolAssumption DEF Workers, FixedSize, PoolAssumption
<1>2. ASSUME NEW w \in Waiting, pc' = [pc EXCEPT ![w] = "woken"] PROVE Attentive' # {}
  BY <1>2 DEF Attentive, Waiting, TypeOK
<1>3. CASE Waiting = {} /\ UNCHANGED pc
  BY <1>1, <1>3 DEF Waiting, Staffed, Attentive, LockProtects, SeenStillTrue
<1> QED
  BY <1>2, <1>3 DEF Signal

\* In a pool of fixed size no step leaves a queued task to workers that all wait:
\* a worker blocks for an empty queue only, and each addTask still has a signal to send.
LEMMA NextNoStrandedTask ==
  ASSUME FixedSize, TypeOK, PoolSize, LockProtects, Staffed, NoStrandedTask, [Next]_vars
  PROVE  NoStrandedTask'
<1> USE DEF mgrVars, dtorVars, counters, history
<1>1. ASSUME NEW w \in Workers, WorkerStep(w) \/ SpuriousWakeup(w) PROVE NoStrandedTask'
  <2> USE DEF TypeOK, At, Goto, NoStrandedTask, Attentive
  <2>1. CASE WorkerWait(w)
    BY <2>1 DEF WorkerWait, LockProtects, SeenStillTrue
  <2>2. CASE WorkerCheck(w)
    <3>1. MustWait <=> m_taskQueue = <<>> /\ ~m_shutdown
      BY QueueSize DEF MustWait
    <3> QED
      BY <2>2, <3>1 DEF WorkerCheck
  <2>3. CASE WorkerWoken(w)
    <3>1. ~MayRetire
      BY PoolAssumption DEF FixedSize, MayRetire, PoolSize, PoolAssumption
    <3> QED
      BY <2>3, <3>1 DEF WorkerWoken, AfterWakeup
  <2>4. CASE WorkerTest(w)
    BY <2>4 DEF WorkerTest
  <2>5. CASE threadExit(w)
    BY <2>5 DEF threadExit, Staffed
  <2>6. CASE \/ WorkerLock(w) \/ WorkerTake(w) \/ WorkerRun(w) \/ WorkerDone(w)
             \/ SpuriousWakeup(w)
    BY <2>6 DEF WorkerLock, WorkerTake, WorkerRun, WorkerDone, SpuriousWakeup
  <2> QED
    BY <1>1, <2>1, <2>2, <2>3, <2>4, <2>5, <2>6 DEF WorkerStep
<1>2. ASSUME m_shutdown, UNCHANGED m_shutdown PROVE NoStrandedTask'
  BY <1>2 DEF NoStrandedTask
<1>3. ASSUME NEW w \in Workers, UseAfterFree(w) PROVE NoStrandedTask'
  <2>1. m_shutdown
    BY <1>3 DEF UseAfterFree, Dangling, LockProtects, ClosedFirst, Freed
  <2> QED
    BY <1>2, <1>3, <2>1 DEF UseAfterFree
<1>4. ASSUME Signal, UNCHANGED <<m_taskQueue, m_shutdown>> PROVE NoStrandedTask'
  BY <1>4, SignalWakes DEF NoStrandedTask
<1>5. CASE Manager
  <2>1. CASE ManagerGrow
    BY <2>1 DEF ManagerGrow, CreateWorkers, FixedSize, FreeEntries, NoStrandedTask, Attentive
  <2>2. CASE ManagerSignal
    BY <2>2, <1>4 DEF ManagerSignal
  <2>3. CASE ManagerTest \/ ManagerSnapshot \/ ManagerShrink \/ ManagerSkip
    BY <2>3 DEF ManagerTest, ManagerSnapshot, ManagerShrink, ManagerSkip, NoStrandedTask, Attentive
  <2> QED
    BY <1>5, <2>1, <2>2, <2>3 DEF Manager
<1>6. CASE Shutdown
  BY <1>6 DEF Shutdown, NoStrandedTask
<1>7. CASE Destructor
  <2>1. m_shutdown /\ UNCHANGED m_shutdown
    BY <1>7 DEF LockProtects, ClosedFirst, Destructor, JoinManager, ShutdownSignal, Delete,
                DestroyMutex, DestroyCondition
  <2> QED
    BY <1>2, <2>1
<1>8. ASSUME NEW c \in Clients, NEW t \in Tasks, AddTask(c, t) PROVE NoStrandedTask'
  BY <1>8 DEF AddTask, TypeOK, NoStrandedTask
<1>9. ASSUME NEW c \in Clients, AddTaskSignal(c) PROVE NoStrandedTask'
  BY <1>9, <1>4 DEF AddTaskSignal
<1>10. CASE UNCHANGED vars
  BY <1>10 DEF vars, NoStrandedTask, Attentive
<1> QED
  BY <1>1, <1>3, <1>5, <1>6, <1>7, <1>8, <1>9, <1>10 DEF Next

\* In a pool of fixed size a queued task always has a worker that will look at
\* the queue before it waits, or a thread about to signal one.
THEOREM FixedPoolStrandsNoTask ==
  ASSUME FixedSize
  PROVE  Spec => []NoStrandedTask
<1>1. Init => Staffed /\ NoStrandedTask
  BY PoolAssumption DEF Init, Staffed, NoStrandedTask, Attentive, FixedSize, PoolAssumption, Workers
<1>2. TypeOK /\ PoolSize /\ LockProtects /\ Staffed /\ NoStrandedTask /\ [Next]_vars
        => Staffed' /\ NoStrandedTask'
  BY NextStaffed, NextNoStrandedTask
<1> QED
  BY <1>1, <1>2, TypeCorrect, BoundedPool, CriticalSection, PTL DEF Spec

-----------------------------------------------------------------------------
(***************************************************************************)
(* Each accepted task is in one place.  Counting places is not inductive;  *)
(* what is, says where a task may be: queue positions and workers' hands   *)
(* are distinct, and exclude each other and a finished run.                *)
(***************************************************************************)
InQueue(t) == \E i \in DOMAIN m_taskQueue : m_taskQueue[i] = t
InHand(t) == \E w \in Workers : task[w] = t
HandsFull == \A w \in Workers : pc[w] = "working" <=> task[w] # Garbage
NoTwice == /\ \A i, j \in DOMAIN m_taskQueue : m_taskQueue[i] = m_taskQueue[j] => i = j
           /\ \A v, w \in Workers : task[v] = task[w] /\ task[v] # Garbage => v = w
Apart(t) == /\ ~(InQueue(t) /\ InHand(t))
            /\ runs[t] > 0 => runs[t] = 1 /\ ~InQueue(t) /\ ~InHand(t)
Somewhere(t) == InQueue(t) \/ InHand(t) \/ runs[t] > 0
Accounted == \A t \in Tasks : /\ Apart(t)
                              /\ Somewhere(t) => t \in added
                              /\ t \in added => Somewhere(t) \/ dtor \in Freed
OnePlace == HandsFull /\ NoTwice /\ Accounted

\* A step that moves no task, and leaves no freed queue usable again, keeps OnePlace.
LEMMA NoTaskMoves ==
  ASSUME OnePlace, UNCHANGED <<m_taskQueue, task, runs, added>>,
         dtor \in Freed => dtor' \in Freed,
         \A w \in Workers : pc'[w] = "working" <=> pc[w] = "working"
  PROVE  OnePlace'
BY DEF OnePlace, HandsFull, NoTwice, Accounted, Apart, Somewhere, InQueue, InHand

\* Signalling wakes a worker that has nothing in hand.
LEMMA SignalMovesNone ==
  ASSUME TypeOK, Signal
  PROVE  \A w \in Workers : pc'[w] = "working" <=> pc[w] = "working"
BY DEF TypeOK, Signal, Waiting

\* addTask puts a new task behind the others.
LEMMA AddTaskOnePlace ==
  ASSUME TypeOK, OnePlace, NEW c \in Clients, NEW t \in Tasks, AddTask(c, t)
  PROVE  OnePlace'
<1> DEFINE q == m_taskQueue
<1>1. q \in Seq(Tasks) /\ q' = Append(q, t) /\ DOMAIN q = 1 .. Len(q) /\ Len(q) \in Nat
  BY DEF TypeOK, AddTask, addTask
<1>2. DOMAIN q' = 1 .. Len(q) + 1 /\ q'[Len(q) + 1] = t /\ \A i \in 1 .. Len(q) : q'[i] = q[i]
  BY <1>1
<1>3. t \notin added /\ added' = added \cup {t} /\ UNCHANGED <<task, runs, dtor, pc>>
  BY DEF AddTask, dtorVars
<1>4. \A u \in Tasks : InQueue(u)' <=> InQueue(u) \/ u = t
  BY <1>1, <1>2 DEF InQueue
<1>5. \A u \in Tasks : (InHand(u)' <=> InHand(u)) /\ ~Somewhere(t)
  BY <1>3 DEF InHand, OnePlace, Accounted
<1>6. HandsFull' /\ NoTwice'
  <2>1. HandsFull' /\ \A v, w \in Workers : (task[v] = task[w] /\ task[v] # Garbage => v = w)'
    BY <1>3 DEF OnePlace, HandsFull, NoTwice
  <2>2. ASSUME NEW i \in DOMAIN q', NEW j \in DOMAIN q', q'[i] = q'[j] PROVE i = j
    BY <1>1, <1>2, <1>5, <2>2 DEF OnePlace, NoTwice, Somewhere, InQueue
  <2> QED BY <2>1, <2>2 DEF NoTwice
<1>7. Accounted'
  BY <1>3, <1>4, <1>5 DEF OnePlace, Accounted, Apart, Somewhere
<1> QED BY <1>6, <1>7 DEF OnePlace

\* getTask moves the front of the queue into the hand of the worker.
LEMMA TakeOnePlace ==
  ASSUME TypeOK, LockProtects, OnePlace, NEW w \in Workers, WorkerTake(w)
  PROVE  OnePlace'
<1> DEFINE q == m_taskQueue
           t == Head(q)
<1>1. q \in Seq(Tasks) /\ q # <<>>
  BY DEF TypeOK, WorkerTake, At, LockProtects, SeenStillTrue, Dangling
<1>2. /\ t \in Tasks /\ t = q[1] /\ Len(q) \in Nat \ {0} /\ DOMAIN q = 1 .. Len(q)
      /\ q' = Tail(q) /\ task' = [task EXCEPT ![w] = t]
  BY <1>1 DEF WorkerTake, getTaskValue, getTaskRest
<1>3. DOMAIN q' = 1 .. Len(q) - 1 /\ \A i \in 1 .. Len(q) - 1 : q'[i] = q[i + 1]
  BY <1>1, <1>2
<1>4. /\ UNCHANGED <<runs, added, dtor>> /\ pc' = [pc EXCEPT ![w] = "working"]
      /\ pc[w] = "take" /\ task[w] = Garbage
      /\ task \in [Workers -> Tasks \cup {Garbage}] /\ pc \in [Workers -> WorkerPC]
  BY DEF WorkerTake, At, Goto, history, dtorVars, OnePlace, HandsFull, TypeOK
<1>5. t # Garbage /\ InQueue(t) /\ ~InHand(t)
  BY <1>2, TaskAssumption DEF InQueue, OnePlace, Accounted, Apart
<1>6. \A u \in Tasks : InQueue(u)' <=> InQueue(u) /\ u # t
  <2>1. ASSUME NEW u \in Tasks, InQueue(u)' PROVE InQueue(u) /\ u # t
    <3>1. PICK i \in 1 .. Len(q) - 1 : q[i + 1] = u
      BY <1>3, <2>1 DEF InQueue
    <3>2. i + 1 \in DOMAIN q /\ 1 \in DOMAIN q /\ i + 1 # 1
      BY <1>2
    <3> QED BY <1>2, <3>1, <3>2 DEF InQueue, OnePlace, NoTwice
  <2>2. ASSUME NEW u \in Tasks, InQueue(u), u # t PROVE InQueue(u)'
    <3>1. PICK i \in 1 .. Len(q) : q[i] = u
      BY <1>2, <2>2 DEF InQueue
    <3>2. i - 1 \in 1 .. Len(q) - 1 /\ q'[i - 1] = u
      BY <1>2, <1>3, <2>2, <3>1
    <3> QED BY <1>3, <3>2 DEF InQueue
  <2> QED BY <2>1, <2>2
<1>7. \A u \in Tasks : InHand(u)' <=> InHand(u) \/ u = t
  BY <1>2, <1>4, TaskAssumption DEF InHand
<1>8. HandsFull'
  BY <1>2, <1>4, <1>5 DEF OnePlace, HandsFull
<1>9. NoTwice'
  <2>1. \A i, j \in DOMAIN q' : q'[i] = q'[j] => i = j
    BY <1>2, <1>3 DEF OnePlace, NoTwice
  <2>2. \A v, u \in Workers : (task[v] = task[u] /\ task[v] # Garbage => v = u)'
    BY <1>2, <1>4, <1>5 DEF OnePlace, NoTwice, InHand
  <2> QED BY <2>1, <2>2 DEF NoTwice
<1>10. Accounted'
  BY <1>4, <1>5, <1>6, <1>7 DEF OnePlace, Accounted, Apart, Somewhere
<1> QED BY <1>8, <1>9, <1>10 DEF OnePlace

\* Running a task takes it out of the worker's hand for good.
LEMMA RunOnePlace ==
  ASSUME TypeOK, OnePlace, NEW w \in Workers, WorkerRun(w)
  PROVE  OnePlace'
<1> DEFINE t == task[w]
<1>1. /\ UNCHANGED <<m_taskQueue, added, dtor>> /\ pc' = [pc EXCEPT ![w] = "done"]
      /\ task' = [task EXCEPT ![w] = Garbage] /\ t \in Tasks /\ pc[w] = "working"
      /\ runs' = [u \in Tasks |-> IF u = t THEN runs[u] + 1 ELSE runs[u]]
      /\ task \in [Workers -> Tasks \cup {Garbage}] /\ pc \in [Workers -> WorkerPC]
      /\ runs \in [Tasks -> Nat]
  BY DEF WorkerRun, Goto, dtorVars, OnePlace, HandsFull, TypeOK
<1>2. InHand(t) /\ runs[t] = 0 /\ ~InQueue(t) /\ t # Garbage
  <2>1. InHand(t) /\ t # Garbage
    BY <1>1, TaskAssumption DEF InHand
  <2>2. runs[t] \in Nat /\ Apart(t)
    BY <1>1 DEF OnePlace, Accounted
  <2> QED BY <2>1, <2>2 DEF Apart
<1>3. \A u \in Tasks : InHand(u)' <=> InHand(u) /\ u # t
  BY <1>1, <1>2, TaskAssumption DEF InHand, OnePlace, NoTwice
<1>4. \A u \in Tasks : InQueue(u)' <=> InQueue(u)
  BY <1>1 DEF InQueue
<1>5. HandsFull' /\ NoTwice'
  BY <1>1, <1>2 DEF OnePlace, HandsFull, NoTwice
<1>6. Accounted'
  BY <1>1, <1>2, <1>3, <1>4 DEF OnePlace, Accounted, Apart, Somewhere
<1> QED BY <1>5, <1>6 DEF OnePlace

\* Every step moves a task from one place to one other, or none.
LEMMA NextOnePlace ==
  ASSUME TypeOK, LockProtects, OnePlace, [Next]_vars
  PROVE  OnePlace'
<1> USE DEF TypeOK, At, Goto, mgrVars, dtorVars, counters, history, Freed
<1>1. ASSUME NEW w \in Workers, WorkerStep(w) \/ SpuriousWakeup(w) \/ UseAfterFree(w)
      PROVE  OnePlace'
  <2>1. CASE WorkerTake(w)
    BY <2>1, TakeOnePlace
  <2>2. CASE WorkerRun(w)
    BY <2>2, RunOnePlace
  <2>3. CASE \/ WorkerLock(w) \/ WorkerCheck(w) \/ WorkerWait(w) \/ WorkerWoken(w)
             \/ WorkerTest(w) \/ WorkerDone(w) \/ threadExit(w) \/ SpuriousWakeup(w)
    BY <2>3, NoTaskMoves DEF WorkerLock, WorkerCheck, WorkerWait, WorkerWoken, AfterWakeup,
         WorkerTest, WorkerDone, threadExit, SpuriousWakeup
  <2>4. CASE UseAfterFree(w)
    BY <2>4, NoTaskMoves DEF UseAfterFree, Dangling
  <2> QED BY <1>1, <2>1, <2>2, <2>3, <2>4 DEF WorkerStep
<1>2. CASE Manager
  <2>1. CASE ManagerGrow
    BY <2>1, NoTaskMoves DEF ManagerGrow, CreateWorkers, FreeEntries
  <2>2. CASE ManagerTest \/ ManagerSnapshot \/ ManagerShrink \/ ManagerSkip \/ ManagerSignal
    BY <2>2, NoTaskMoves, SignalMovesNone
       DEF ManagerTest, ManagerSnapshot, ManagerShrink, ManagerSkip, ManagerSignal
  <2> QED BY <1>2, <2>1, <2>2 DEF Manager
<1>3. CASE Shutdown \/ JoinManager \/ ShutdownSignal \/ DestroyMutex \/ DestroyCondition
  BY <1>3, NoTaskMoves, SignalMovesNone
     DEF Shutdown, JoinManager, ShutdownSignal, DestroyMutex, DestroyCondition
<1>4. CASE Delete
  BY <1>4 DEF Delete, OnePlace, HandsFull, NoTwice, Accounted, Apart, Somewhere, InQueue, InHand
<1>5. ASSUME NEW c \in Clients, AddTaskSignal(c) PROVE OnePlace'
  BY <1>5, NoTaskMoves, SignalMovesNone DEF AddTaskSignal
<1>6. ASSUME NEW c \in Clients, NEW t \in Tasks, AddTask(c, t) PROVE OnePlace'
  BY <1>6, AddTaskOnePlace
<1>7. CASE UNCHANGED vars
  BY <1>7, NoTaskMoves DEF vars
<1> QED
  BY <1>1, <1>2, <1>3, <1>4, <1>5, <1>6, <1>7 DEF Next, Destructor

\* A set whose members are all equal has one member or none.
LEMMA AtMostOne ==
  ASSUME NEW S, \A x, y \in S : x = y
  PROVE  Cardinality(S) = IF S = {} THEN 0 ELSE 1
<1>1. CASE S = {}
  BY <1>1, FS_EmptySet
<1>2. ASSUME NEW x \in S PROVE Cardinality(S) = 1
  <2>1. S = {x}
    OBVIOUS
  <2> QED BY <2>1, FS_Singleton
<1> QED BY <1>1, <1>2

\* Counted by places, a task that is in one place has one copy.
LEMMA OnePlaceOneCopy == TypeOK /\ OnePlace => TaskConserved
<1> SUFFICES ASSUME TypeOK, OnePlace, NEW t \in Tasks
             PROVE  /\ Copies(t) <= IF t \in added THEN 1 ELSE 0
                    /\ dtor \in Freed \/ t \notin added \/ Copies(t) = 1
  BY DEF TaskConserved
<1>1. Cardinality({i \in DOMAIN m_taskQueue : m_taskQueue[i] = t}) = IF InQueue(t) THEN 1 ELSE 0
  <2>1. \A i, j \in {k \in DOMAIN m_taskQueue : m_taskQueue[k] = t} : i = j
    BY DEF OnePlace, NoTwice
  <2> QED BY <2>1, AtMostOne DEF InQueue
<1>2. Cardinality({w \in Workers : task[w] = t}) = IF InHand(t) THEN 1 ELSE 0
  <2>1. \A v, w \in {u \in Workers : task[u] = t} : v = w
    BY TaskAssumption DEF OnePlace, NoTwice
  <2> QED BY <2>1, AtMostOne DEF InHand
<1>3. runs[t] \in Nat
  BY DEF TypeOK
<1> QED BY <1>1, <1>2, <1>3 DEF Copies, OnePlace, Accounted, Apart, Somewhere

\* OnePlace holds throughout.
LEMMA OnePlaceAlways == Spec => []OnePlace
<1>1. Init => OnePlace
  BY TaskAssumption DEF Init, OnePlace, HandsFull, NoTwice, Accounted, Apart, Somewhere, InQueue, InHand
<1> QED BY <1>1, TypeCorrect, CriticalSection, NextOnePlace, PTL DEF Spec

\* No accepted task is lost before the destructor throws the queue away, and none
\* is ever in two places or run twice.
THEOREM NoTaskLostOrDoubled == Spec => []TaskConserved
BY TypeCorrect, OnePlaceAlways, OnePlaceOneCopy, PTL

-----------------------------------------------------------------------------
(***************************************************************************)
(* m_aliveNum counts the threads, as long as pthread_create does not fail  *)
(* and the pool is open.  A worker leaves by "closing" only when it is not.*)
(***************************************************************************)
ClosingClosed == \A w \in Workers : pc[w] = "closing" => m_shutdown
Counted == ClosingClosed /\ AliveIsThreadCount

\* A step that neither starts nor retires a worker keeps the count.
LEMMA SameThreads ==
  ASSUME Counted, UNCHANGED m_aliveNum, m_shutdown => m_shutdown',
         \A w \in Workers : pc'[w] \in {"none", "retired", "ghost"} <=> pc[w] \in {"none", "retired", "ghost"},
         \A w \in Workers : pc'[w] = "closing" => pc[w] = "closing" \/ m_shutdown'
  PROVE  Counted'
<1>1. InService' = InService
  BY DEF InService
<1> QED BY <1>1 DEF Counted, ClosingClosed, AliveIsThreadCount

\* Nothing is counted any more once the pool is shut down.
LEMMA ClosedCounts ==
  ASSUME m_shutdown' = TRUE
  PROVE  Counted'
BY DEF Counted, ClosingClosed, AliveIsThreadCount

\* Signalling starts and retires nobody.
LEMMA SignalSameThreads ==
  ASSUME TypeOK, Signal
  PROVE  /\ \A w \in Workers : pc'[w] \in {"none", "retired", "ghost"} <=> pc[w] \in {"none", "retired", "ghost"}
         /\ \A w \in Workers : pc'[w] = "closing" => pc[w] = "closing"
BY DEF TypeOK, Signal, Waiting

\* A worker that retires takes itself, and only itself, out of the count.
LEMMA WorkerCounted ==
  ASSUME TypeOK, LockProtects, Counted, NEW w \in Workers,
         WorkerStep(w) \/ SpuriousWakeup(w) \/ UseAfterFree(w)
  PROVE  Counted'
<1> USE DEF TypeOK, At, Goto, mgrVars, dtorVars, counters, history
<1>1. CASE WorkerWoken(w)
  <2>1. CASE m_exitNum > 0 /\ MayRetire
    <3>1. pc' = [pc EXCEPT ![w] = "retired"] /\ m_aliveNum' = m_aliveNum - 1 /\ UNCHANGED m_shutdown
      BY <1>1, <2>1 DEF WorkerWoken
    <3>2. InService' = InService \ {w} /\ w \in InService
      BY <1>1, <3>1 DEF InService, WorkerWoken
    <3>3. Cardinality(InService') = Cardinality(InService) - 1
      <4>1. InService \in SUBSET Workers /\ IsFiniteSet(InService)
        BY EntriesFinite DEF InService
      <4> HIDE DEF InService
      <4> QED BY <3>2, <4>1, FS_RemoveElement
    <3> QED
      BY <3>1, <3>3 DEF Counted, ClosingClosed, AliveIsThreadCount
  <2>2. CASE ~(m_exitNum > 0 /\ MayRetire)
    BY <1>1, <2>2, SameThreads DEF WorkerWoken, AfterWakeup
  <2> QED BY <2>1, <2>2
<1>2. CASE threadExit(w)
  <2>1. CASE pc[w] = "retired"
    BY <1>2, <2>1, SameThreads DEF threadExit
  <2>2. CASE pc[w] = "closing"
    BY <1>2, <2>2, ClosedCounts DEF threadExit, Counted, ClosingClosed
  <2> QED BY <1>2, <2>1, <2>2 DEF threadExit
<1>3. CASE UseAfterFree(w)
  <2>1. m_shutdown
    BY <1>3 DEF UseAfterFree, Dangling, LockProtects, ClosedFirst, Freed
  <2> QED BY <1>3, <2>1, ClosedCounts DEF UseAfterFree
<1>4. CASE \/ WorkerLock(w) \/ WorkerCheck(w) \/ WorkerWait(w) \/ WorkerTest(w) \/ WorkerTake(w)
           \/ WorkerRun(w) \/ WorkerDone(w) \/ SpuriousWakeup(w)
  BY <1>4, SameThreads DEF WorkerLock, WorkerCheck, WorkerWait, WorkerTest, WorkerTake, WorkerRun,
       WorkerDone, SpuriousWakeup
<1> QED BY <1>1, <1>2, <1>3, <1>4 DEF WorkerStep

\* The manager counts as many threads as it starts, as long as none fails.
LEMMA ManagerCounted ==
  ASSUME CreateMayFail = FALSE, TypeOK, Counted, Manager
  PROVE  Counted'
<1> USE DEF TypeOK, mgrVars, dtorVars, counters, history
<1>1. CASE ManagerGrow
  <2>1. PICK new \in SUBSET FreeEntries :
          CreateWorkers(new) /\ m_aliveNum' = m_aliveNum + Cardinality(new)
    BY <1>1 DEF ManagerGrow
  <2>2. pc' = [w \in Workers |-> IF w \in new THEN "lock" ELSE pc[w]]
    BY <2>1 DEF CreateWorkers, FreeEntries
  <2>3. InService' = InService \cup new /\ InService \cap new = {}
    BY <2>2 DEF InService, FreeEntries
  <2>4. Cardinality(InService') = Cardinality(InService) + Cardinality(new)
    <3>1. IsFiniteSet(InService) /\ IsFiniteSet(new) /\ Cardinality(new) \in Nat /\ Cardinality(InService) \in Nat
      BY EntriesFinite DEF InService, FreeEntries
    <3>2. Cardinality(InService \cup new) = Cardinality(InService) + Cardinality(new) - Cardinality({})
      BY <2>3, <3>1, FS_Union
    <3> QED BY <2>3, <3>1, <3>2, FS_EmptySet
  <2>5. ClosingClosed' /\ UNCHANGED m_shutdown
    BY <1>1, <2>2 DEF ManagerGrow, Counted, ClosingClosed
  <2> QED BY <2>1, <2>4, <2>5 DEF Counted, AliveIsThreadCount
<1>2. CASE ManagerTest \/ ManagerSnapshot \/ ManagerShrink \/ ManagerSkip \/ ManagerSignal
  BY <1>2, SameThreads, SignalSameThreads
     DEF ManagerTest, ManagerSnapshot, ManagerShrink, ManagerSkip, ManagerSignal
<1> QED BY <1>1, <1>2 DEF Manager

\* Every step keeps the count.
LEMMA NextCounted ==
  ASSUME CreateMayFail = FALSE, TypeOK, LockProtects, Counted, [Next]_vars
  PROVE  Counted'
<1> USE DEF mgrVars, dtorVars, counters, history
<1>1. CASE Shutdown
  BY <1>1, ClosedCounts DEF Shutdown
<1>2. CASE Destructor
  BY <1>2, ClosedCounts DEF Destructor, LockProtects, ClosedFirst, JoinManager, ShutdownSignal,
       Delete, DestroyMutex, DestroyCondition, TypeOK
<1>3. ASSUME NEW c \in Clients, AddTaskSignal(c) \/ \E t \in Tasks : AddTask(c, t)
      PROVE  Counted'
  BY <1>3, SameThreads, SignalSameThreads DEF AddTaskSignal, AddTask
<1>4. CASE UNCHANGED vars
  BY <1>4, SameThreads DEF vars
<1> QED BY <1>1, <1>2, <1>3, <1>4, WorkerCounted, ManagerCounted DEF Next

\* While the pool is open and pthread_create succeeds, m_aliveNum is the number
\* of threads that run and have not decided to retire.
THEOREM AliveCounts ==
  ASSUME CreateMayFail = FALSE
  PROVE  Spec => []AliveIsThreadCount
<1>1. Init => Counted
  <2> SUFFICES ASSUME Init PROVE Counted
    OBVIOUS
  <2>1. InService = 0 .. MinNum - 1
    BY PoolAssumption DEF Init, InService, Workers, PoolAssumption
  <2>2. Cardinality(InService) = MinNum
    BY <2>1, PoolAssumption, FS_Interval DEF PoolAssumption
  <2> QED BY <2>2 DEF Init, Counted, ClosingClosed, AliveIsThreadCount
<1>2. Counted => AliveIsThreadCount
  BY DEF Counted
<1> QED
  BY <1>1, <1>2, TypeCorrect, CriticalSection, NextCounted, PTL DEF Spec

-----------------------------------------------------------------------------
(***************************************************************************)
(* m_busyNum is at least the number of busy threads, until the destructor  *)
(* takes the lock away under a worker that was about to count itself out;  *)
(* by then the manager has ended.                                          *)
(***************************************************************************)
Joined == dtor \notin {"none", "join"} => mgr = "ended"
BusyCounted == dtor \notin Freed => Cardinality(Busy) <= m_busyNum
ManagerSees == Joined /\ BusyCounted

\* A step that keeps the busy workers busy, and the number, keeps the invariant.
LEMMA SameBusy ==
  ASSUME ManagerSees, UNCHANGED m_busyNum,
         \A w \in Workers : pc'[w] \in {"working", "done"} <=> pc[w] \in {"working", "done"},
         dtor \in Freed => dtor' \in Freed,
         dtor' \notin {"none", "join"} => dtor \notin {"none", "join"} \/ mgr' = "ended",
         mgr = "ended" => mgr' = "ended"
  PROVE  ManagerSees'
<1>1. Busy' = Busy
  BY DEF Busy
<1> QED BY <1>1 DEF ManagerSees, Joined, BusyCounted

\* Signalling makes nobody busy.
LEMMA SignalSameBusy ==
  ASSUME TypeOK, Signal
  PROVE  \A w \in Workers : pc'[w] \in {"working", "done"} <=> pc[w] \in {"working", "done"}
BY DEF TypeOK, Signal, Waiting

\* A worker counts itself in as it takes a task and out after it has run it.
LEMMA WorkerBusy ==
  ASSUME TypeOK, ManagerSees, NEW w \in Workers,
         WorkerStep(w) \/ SpuriousWakeup(w) \/ UseAfterFree(w)
  PROVE  ManagerSees'
<1> USE DEF TypeOK, At, Goto, mgrVars, dtorVars, counters, history
<1>0. IsFiniteSet(Busy) /\ Cardinality(Busy) \in Nat
  BY EntriesFinite DEF Busy
<1>1. CASE WorkerTake(w)
  <2>1. Busy' = Busy \cup {w} /\ w \notin Busy
    BY <1>1 DEF WorkerTake, Busy
  <2>2. Cardinality(Busy') = Cardinality(Busy) + 1
    BY <1>0, <2>1, FS_AddElement
  <2> QED BY <1>0, <1>1, <2>2 DEF WorkerTake, ManagerSees, Joined, BusyCounted
<1>2. CASE WorkerDone(w)
  <2>1. Busy' = Busy \ {w} /\ w \in Busy
    BY <1>2 DEF WorkerDone, Busy
  <2>2. Cardinality(Busy') = Cardinality(Busy) - 1
    BY <1>0, <2>1, FS_RemoveElement
  <2> QED BY <1>0, <1>2, <2>2 DEF WorkerDone, ManagerSees, Joined, BusyCounted
<1>3. CASE UseAfterFree(w)
  BY <1>3 DEF UseAfterFree, Dangling, Freed, ManagerSees, Joined, BusyCounted
<1>4. CASE \/ WorkerLock(w) \/ WorkerCheck(w) \/ WorkerWait(w) \/ WorkerWoken(w) \/ WorkerTest(w)
           \/ WorkerRun(w) \/ threadExit(w) \/ SpuriousWakeup(w)
  BY <1>4, SameBusy DEF WorkerLock, WorkerCheck, WorkerWait, WorkerWoken, AfterWakeup, WorkerTest,
       WorkerRun, threadExit, SpuriousWakeup
<1> QED BY <1>1, <1>2, <1>3, <1>4 DEF WorkerStep

\* Every step keeps m_busyNum above the number of busy threads.
LEMMA NextManagerSees ==
  ASSUME TypeOK, ManagerSees, [Next]_vars
  PROVE  ManagerSees'
<1> USE DEF TypeOK, mgrVars, dtorVars, counters, history
<1>1. CASE Manager
  <2>1. CASE ManagerGrow
    BY <2>1, SameBusy DEF ManagerGrow, CreateWorkers, FreeEntries
  <2>2. CASE ManagerTest \/ ManagerSnapshot \/ ManagerShrink \/ ManagerSkip \/ ManagerSignal
    BY <2>2, SameBusy, SignalSameBusy
       DEF ManagerTest, ManagerSnapshot, ManagerShrink, ManagerSkip, ManagerSignal
  <2> QED BY <1>1, <2>1, <2>2 DEF Manager
<1>2. CASE Shutdown \/ Destructor
  BY <1>2, SameBusy, SignalSameBusy DEF Shutdown, Destructor, JoinManager, ShutdownSignal, Delete,
       DestroyMutex, DestroyCondition, Freed
<1>3. ASSUME NEW c \in Clients, AddTaskSignal(c) \/ \E t \in Tasks : AddTask(c, t)
      PROVE  ManagerSees'
  BY <1>3, SameBusy, SignalSameBusy DEF AddTaskSignal, AddTask
<1>4. CASE UNCHANGED vars
  BY <1>4, SameBusy DEF vars
<1> QED BY <1>1, <1>2, <1>3, <1>4, WorkerBusy DEF Next

\* The manager plans to shrink only when less than half of the pool works, if
\* the memory of m_busyNum, which nobody sets, did not hold a negative number.
THEOREM ShrinksWhenIdle ==
  ASSUME BusyGarbage \subseteq Nat
  PROVE  Spec => ShrinkOnlyWhenIdle
<1>1. Init => ManagerSees
  <2> SUFFICES ASSUME Init PROVE ManagerSees
    OBVIOUS
  <2>1. Busy = {}
    BY DEF Init, Busy
  <2> QED BY <2>1, FS_EmptySet DEF Init, ManagerSees, Joined, BusyCounted
<1>2. TypeOK /\ ManagerSees
        => (ManagerSnapshot => (plan'.shrink => Cardinality(Busy) * 2 < m_aliveNum))
  <2> SUFFICES ASSUME TypeOK, ManagerSees, ManagerSnapshot, plan'.shrink
               PROVE  Cardinality(Busy) * 2 < m_aliveNum
    OBVIOUS
  <2>1. m_busyNum * 2 < m_aliveNum
    BY DEF ManagerSnapshot, ShouldShrink
  <2>2. Cardinality(Busy) <= m_busyNum
    BY DEF ManagerSees, Joined, BusyCounted, ManagerSnapshot, Freed
  <2>3. Cardinality(Busy) \in Nat /\ m_busyNum \in Int /\ m_aliveNum \in Nat
    BY EntriesFinite DEF Busy, TypeOK
  <2> QED BY <2>1, <2>2, <2>3
<1> QED
  BY <1>1, <1>2, TypeCorrect, NextManagerSees, PTL DEF Spec, ShrinkOnlyWhenIdle

-----------------------------------------------------------------------------
(***************************************************************************)
(* The pool implements Executor: every step of the pool is a step of the   *)
(* executor or changes nothing the executor knows of.                      *)
(***************************************************************************)
\* What the executor sees does not change when no task moves.
LEMMA UnseenStep ==
  ASSUME UNCHANGED <<added, m_taskQueue, task, runs, m_shutdown>>,
         \A w \in Workers : pc'[w] = "working" <=> pc[w] = "working"
  PROVE  UNCHANGED Promise!vars
<1>1. Running' = Running /\ Finished' = Finished
  BY DEF Running, Working, Finished
<1> QED BY <1>1 DEF Promise!vars

\* The executor counts its tasks as the pool does.
LEMMA SameCount == \A S : Promise!Cardinality(S) = Cardinality(S)
BY DEF Promise!Cardinality, Cardinality

\* Before a worker takes a task, fewer than MaxNum tasks run.
LEMMA RoomToStart ==
  ASSUME TypeOK, NEW w \in Workers, pc[w] # "working"
  PROVE  Cardinality(Running) < MaxNum
<1> DEFINE f == [v \in Working |-> task[v]]
<1>1. IsFiniteSet(Working) /\ Working \in SUBSET (Workers \ {w})
  BY EntriesFinite DEF Working
<1>2. IsFiniteSet(Workers) /\ Cardinality(Workers) = MaxNum
  BY PoolAssumption, FS_Interval DEF PoolAssumption, Workers
<1>3. IsFiniteSet(Workers \ {w}) /\ Cardinality(Workers \ {w}) = MaxNum - 1
  BY <1>2, FS_RemoveElement
<1>4. Cardinality(Working) <= MaxNum - 1
  BY <1>1, <1>3, FS_Subset
<1>5. f \in Surjection(Working, Running)
  BY DEF Surjection, Running
<1>6. Cardinality(Running) <= Cardinality(Working) /\ IsFiniteSet(Running)
  BY <1>1, <1>5, FS_Surjection
<1>7. Cardinality(Running) \in Nat /\ Cardinality(Working) \in Nat /\ MaxNum \in Nat
  BY <1>1, <1>6, FS_CardinalityType, PoolAssumption DEF PoolAssumption
<1> QED BY <1>4, <1>6, <1>7

\* Taking a task starts the oldest one of the backlog.
LEMMA TakeStarts ==
  ASSUME TypeOK, LockProtects, OnePlace, NEW w \in Workers, WorkerTake(w)
  PROVE  Promise!Start
<1> DEFINE t == Head(m_taskQueue)
<1>1. m_taskQueue \in Seq(Tasks) /\ m_taskQueue # <<>> /\ pc[w] = "take"
  BY DEF TypeOK, WorkerTake, At, LockProtects, SeenStillTrue, Dangling
<1>2. /\ t \in Tasks /\ m_taskQueue' = Tail(m_taskQueue) /\ task' = [task EXCEPT ![w] = t]
      /\ pc' = [pc EXCEPT ![w] = "working"] /\ UNCHANGED <<added, runs, m_shutdown>>
      /\ InQueue(t)
  BY <1>1 DEF WorkerTake, getTaskValue, getTaskRest, At, Goto, history, dtorVars, InQueue
<1>3. task \in [Workers -> Tasks \cup {Garbage}] /\ pc \in [Workers -> WorkerPC]
  BY DEF TypeOK
<1>4. Running' = Running \cup {t}
  BY <1>1, <1>2, <1>3 DEF Running, Working
<1>5. Finished' = Finished
  BY <1>2 DEF Finished
<1>6. t \notin Running \cup Finished
  BY <1>2 DEF OnePlace, Accounted, Apart, InHand, Running, Working, Finished
<1>7. Cardinality(Running) < MaxNum
  BY <1>1, RoomToStart
<1> QED
  BY SameCount, <1>1, <1>2, <1>4, <1>5, <1>6, <1>7 DEF Promise!Start

\* The end of a task's function finishes the task.
LEMMA RunFinishes ==
  ASSUME TypeOK, OnePlace, NEW w \in Workers, WorkerRun(w)
  PROVE  task[w] \in Tasks /\ Promise!Finish(task[w])
<1> DEFINE t == task[w]
<1>1. /\ UNCHANGED <<m_taskQueue, added, m_shutdown>> /\ pc' = [pc EXCEPT ![w] = "done"]
      /\ task' = [task EXCEPT ![w] = Garbage] /\ t \in Tasks /\ pc[w] = "working"
      /\ runs' = [u \in Tasks |-> IF u = t THEN runs[u] + 1 ELSE runs[u]]
      /\ task \in [Workers -> Tasks \cup {Garbage}] /\ pc \in [Workers -> WorkerPC]
      /\ runs \in [Tasks -> Nat]
  BY DEF WorkerRun, Goto, dtorVars, OnePlace, HandsFull, TypeOK
<1>2. \A v \in Workers : task[v] = t => v = w
  BY <1>1, TaskAssumption DEF OnePlace, NoTwice
<1>3. t \in Running /\ Running' = Running \ {t}
  BY <1>1, <1>2 DEF Running, Working
<1>4. Finished' = Finished \cup {t}
  BY <1>1 DEF Finished
<1> QED
  BY <1>1, <1>3, <1>4 DEF Promise!Finish

\* Every step of the pool is one of the executor or none.
LEMMA StepPromised ==
  ASSUME TypeOK, LockProtects, OnePlace, [Next]_vars
  PROVE  [Promise!Next]_(Promise!vars)
<1> USE DEF mgrVars, dtorVars, counters, history
<1>1. ASSUME NEW w \in Workers, WorkerStep(w) \/ SpuriousWakeup(w) \/ UseAfterFree(w)
      PROVE  [Promise!Next]_(Promise!vars)
  <2> USE DEF TypeOK, At, Goto
  <2>1. CASE WorkerTake(w)
    BY <2>1, TakeStarts DEF Promise!Next
  <2>2. CASE WorkerRun(w)
    <3>1. \E t \in Tasks : Promise!Finish(t)
      BY <2>2, RunFinishes
    <3> QED BY <3>1 DEF Promise!Next
  <2>3. CASE \/ WorkerLock(w) \/ WorkerCheck(w) \/ WorkerWait(w) \/ WorkerWoken(w)
             \/ WorkerTest(w) \/ WorkerDone(w) \/ threadExit(w) \/ SpuriousWakeup(w)
    BY <2>3, UnseenStep DEF WorkerLock, WorkerCheck, WorkerWait, WorkerWoken, AfterWakeup,
         WorkerTest, WorkerDone, threadExit, SpuriousWakeup
  <2>4. CASE UseAfterFree(w)
    BY <2>4, UnseenStep DEF UseAfterFree, Dangling
  <2> QED BY <1>1, <2>1, <2>2, <2>3, <2>4 DEF WorkerStep
<1>2. CASE Manager
  <2>1. CASE ManagerGrow
    BY <2>1, UnseenStep DEF ManagerGrow, CreateWorkers, FreeEntries, TypeOK
  <2>2. CASE ManagerTest \/ ManagerSnapshot \/ ManagerShrink \/ ManagerSkip \/ ManagerSignal
    BY <2>2, UnseenStep, SignalMovesNone
       DEF ManagerTest, ManagerSnapshot, ManagerShrink, ManagerSkip, ManagerSignal
  <2> QED BY <1>2, <2>1, <2>2 DEF Manager
<1>3. CASE Shutdown
  <2>1. /\ UNCHANGED <<added, m_taskQueue, task, runs, pc>> /\ m_shutdown' = TRUE
        /\ Running' = Running /\ Finished' = Finished
    BY <1>3 DEF Shutdown, Running, Working, Finished
  <2>2. CASE m_shutdown
    BY <2>1, <2>2, UnseenStep DEF TypeOK
  <2>3. CASE ~m_shutdown
    BY <2>1, <2>3 DEF Promise!Close, Promise!Next
  <2> QED BY <2>2, <2>3
<1>4. CASE JoinManager \/ ShutdownSignal \/ DestroyMutex \/ DestroyCondition
  BY <1>4, UnseenStep, SignalMovesNone DEF JoinManager, ShutdownSignal, DestroyMutex, DestroyCondition
<1>5. CASE Delete
  <2>1. /\ UNCHANGED <<added, m_shutdown>> /\ m_shutdown /\ m_taskQueue' = <<>>
        /\ Running' = Running /\ Finished' = Finished
    BY <1>5 DEF Delete, Running, Working, Finished, LockProtects, ClosedFirst
  <2> QED BY <2>1 DEF Promise!Discard, Promise!Next
<1>6. ASSUME NEW c \in Clients, AddTaskSignal(c) PROVE [Promise!Next]_(Promise!vars)
  BY <1>6, UnseenStep, SignalMovesNone DEF AddTaskSignal
<1>7. ASSUME NEW c \in Clients, NEW t \in Tasks, AddTask(c, t) PROVE Promise!Accept(t)
  <2>1. Running' = Running /\ Finished' = Finished
    BY <1>7 DEF AddTask, Running, Working, Finished
  <2> QED BY <1>7, <2>1 DEF AddTask, addTask, Promise!Accept
<1>8. CASE UNCHANGED vars
  BY <1>8, UnseenStep DEF vars
<1> QED
  BY <1>1, <1>2, <1>3, <1>4, <1>5, <1>6, <1>7, <1>8 DEF Next, Destructor, Promise!Next

\* Whatever its threads do, the pool behaves as an executor: tasks start in the
\* order they were added, each at most once and at most MaxNum at a time.
THEOREM PoolIsExecutor == Spec => ImplementsExecutor
<1>1. Init => Promise!Init
  <2> SUFFICES ASSUME Init PROVE Promise!Init
    OBVIOUS
  <2>1. Running = {} /\ Finished = {}
    BY DEF Init, Running, Working, Finished
  <2> QED BY <2>1 DEF Init, Promise!Init
<1> QED
  BY <1>1, StepPromised, TypeCorrect, CriticalSection, OnePlaceAlways, PTL
     DEF Spec, ImplementsExecutor, Promise!Spec
=============================================================================
