----------------------------- MODULE ThreadPool -----------------------------
(***************************************************************************)
(* The elastic thread pool of ThreadPool/ThreadPool: worker threads that   *)
(* share one task queue under m_lock and sleep on m_notEmpty, a manager    *)
(* thread that grows and shrinks the pool, the client calls of addTask,    *)
(* and the destructor.                                                     *)
(*                                                                         *)
(* A worker is identified with its entry of m_threadIDs: an entry is 0     *)
(* exactly when pc is "none", and threadExit (which clears the entry that  *)
(* holds the calling thread's id) sets pc back to "none".  Thread ids are  *)
(* never reused while the program runs, because no worker is ever joined.  *)
(*                                                                         *)
(* Everything m_lock protects is read and written in one atomic step per   *)
(* critical section; m_shutdown, which the destructor writes without the   *)
(* lock, is read in steps of its own, and m_lock is held across them.      *)
(***************************************************************************)
EXTENDS Integers, Sequences, FiniteSets, TaskQueue

CONSTANTS MinNum, MaxNum,   \* the arguments of the constructor
          Clients,          \* threads that call addTask
          ExitGarbage,      \* values the uninitialised m_exitNum may hold
          BusyGarbage,      \* values the uninitialised m_busyNum may hold
          CreateMayFail     \* whether pthread_create may fail (its result is ignored)

ASSUME PoolAssumption ==
  /\ MinNum \in Nat
  /\ MaxNum \in Nat
  /\ MinNum <= MaxNum
  /\ ExitGarbage \subseteq Int
  /\ BusyGarbage \subseteq Int
  /\ CreateMayFail \in BOOLEAN

VARIABLES
  m_taskQueue,  \* the tasks of m_taskQ
  m_lock,       \* the worker that holds m_lock across steps, or Nobody
  m_aliveNum, m_exitNum, m_busyNum, m_shutdown,
  pc,           \* where each worker (entry of m_threadIDs) is
  task,         \* the local variable task of each worker
  client,       \* where each client is in addTask
  mgr,          \* where the manager is
  plan,         \* what the manager decided from its copies of the counters
  kicks,        \* signals the manager still has to send
  dtor,         \* where the destructor is
  sent,         \* signals the destructor has sent (its loop variable i)
  added,        \* history: tasks handed to addTask
  runs          \* history: how often each task's function was called

mgrVars  == <<mgr, plan, kicks>>
dtorVars == <<dtor, sent, m_shutdown>>
counters == <<m_aliveNum, m_exitNum, m_busyNum>>
history  == <<added, runs>>
vars == <<m_taskQueue, m_lock, counters, pc, task, client, mgrVars, dtorVars, history>>

NUMBER  == 2            \* the manager's step: const int NUMBER = 2
Nobody  == -1
Workers == 0 .. MaxNum - 1

\* "lock".."done" follow the loop of worker(); "retired" and "closing" are on
\* their way through threadExit; "ghost" is an entry that a failed
\* pthread_create left non-zero; "undefined" has used freed memory.
WorkerPC == {"none", "lock", "check", "block", "waiting", "woken", "test", "take",
             "working", "done", "retired", "closing", "ghost", "undefined"}
Holding == {"check", "block", "test", "take"}   \* m_lock is held here
ManagerPC == {"test", "sleep", "grow", "shrink", "signal", "ended"}
DestructorPC == {"none", "join", "signal", "delete", "mutex", "cond", "gone"}
Freed == {"mutex", "cond", "gone"}   \* the queue and m_threadIDs are deleted

Waiting == {w \in Workers : pc[w] = "waiting"}
\* Threads that are running and have not given up their place in m_aliveNum.
InService == {w \in Workers : pc[w] \notin {"none", "retired", "ghost"}}
Busy == {w \in Workers : pc[w] \in {"working", "done"}}
FreeEntriesAny == Workers   \* wrong variant: entries in use are taken too
FreeEntries == {w \in Workers : pc[w] = "none"}

(***************************************************************************)
(* The pthread calls, as the code uses them.                               *)
(***************************************************************************)

LockFree == m_lock = Nobody

SignalLost == UNCHANGED pc   \* wrong variant: nobody is signalled
\* pthread_cond_signal: some waiter if there is one, nothing otherwise.
Signal == \/ Waiting = {} /\ UNCHANGED pc
          \/ \E w \in Waiting : pc' = [pc EXCEPT ![w] = "woken"]

\* The outcomes of pthread_create(&m_threadIDs[i], ..) for i \in entries, none
\* of which is checked.  A thread that could not be created leaves its entry
\* as it was, or overwritten with an id that no thread has.
CreateWorkers(entries) ==
  \E born \in SUBSET entries : \E ghosts \in SUBSET (entries \ born) :
    /\ CreateMayFail \/ born = entries
    /\ pc' = [w \in Workers |-> IF w \in born THEN "lock"
                                ELSE IF w \in ghosts THEN "ghost" ELSE pc[w]]

(***************************************************************************)
(* ~ThreadPool deletes m_taskQ and m_threadIDs, and then destroys the lock *)
(* and the condition, without joining the workers.  A worker that touches  *)
(* what is gone has no defined behaviour and is followed no further.       *)
(***************************************************************************)
Dangling(w) ==
  \/ dtor \in Freed /\ pc[w] \in {"check", "take", "retired", "closing"}
  \/ dtor \in {"cond", "gone"} /\ pc[w] \in {"lock", "block", "woken", "test", "done"}

At(w, label) == pc[w] = label /\ ~Dangling(w)
Goto(w, label) == pc' = [pc EXCEPT ![w] = label]

UseAfterFree(w) ==
  /\ Dangling(w)
  /\ Goto(w, "undefined")
  /\ UNCHANGED <<m_taskQueue, m_lock, counters, task, client, mgrVars, dtorVars, history>>

-----------------------------------------------------------------------------
(***************************************************************************)
(* The client side: addTask.                                               *)
(***************************************************************************)

\* Enqueue under the lock.  The test of m_shutdown is the early return.
AddTask(c, t) ==
  /\ client[c] = "idle"
  /\ t \notin added
  /\ ~m_shutdown
  /\ LockFree
  /\ m_taskQueue' = addTask(m_taskQueue, t)
  /\ added' = added \cup {t}
  /\ client' = [client EXCEPT ![c] = "signal"]
  /\ UNCHANGED <<m_lock, counters, pc, task, mgrVars, dtorVars, runs>>

\* The signal after the unlock: a separate step, the lock is not held.
AddTaskSignal(c) ==
  /\ client[c] = "signal"
  /\ Signal
  /\ client' = [client EXCEPT ![c] = "idle"]
  /\ UNCHANGED <<m_taskQueue, m_lock, counters, task, mgrVars, dtorVars, history>>

-----------------------------------------------------------------------------
(***************************************************************************)
(* worker()                                                                *)
(***************************************************************************)

WorkerLock(w) ==
  /\ At(w, "lock")
  /\ LockFree
  /\ m_lock' = w
  /\ Goto(w, "check")
  /\ UNCHANGED <<m_taskQueue, counters, task, client, mgrVars, dtorVars, history>>

\* The condition of the inner loop: wait only for an empty queue of an open pool.
MustWait == getQueueSize(m_taskQueue) = 0 /\ ~m_shutdown

WorkerCheck(w) ==
  /\ At(w, "check")
  /\ Goto(w, IF MustWait THEN "block" ELSE "test")
  /\ UNCHANGED <<m_taskQueue, m_lock, counters, task, client, mgrVars, dtorVars, history>>

\* pthread_cond_wait releases the lock and blocks in one step, but a step
\* after the loop condition was evaluated.
WorkerWait(w) ==
  /\ At(w, "block")
  /\ m_lock' = Nobody
  /\ Goto(w, "waiting")
  /\ UNCHANGED <<m_taskQueue, counters, task, client, mgrVars, dtorVars, history>>

SpuriousWakeup(w) ==
  /\ pc[w] = "waiting"
  /\ Goto(w, "woken")
  /\ UNCHANGED <<m_taskQueue, m_lock, counters, task, client, mgrVars, dtorVars, history>>

\* A woken worker gives up its place only while the pool is above MinNum.
MayRetireUnchecked == TRUE    \* wrong variant: trusts m_exitNum alone
MayRetire == m_aliveNum > MinNum

\* Where a woken worker goes on: the wait is in a while, not in an if.
AfterWakeupIf == "test"   \* wrong variant
AfterWakeup == "check"

\* The worker has the lock back: it either retires or re-tests the condition.
WorkerWoken(w) ==
  /\ At(w, "woken")
  /\ LockFree
  /\ m_exitNum' = IF m_exitNum > 0 THEN m_exitNum - 1 ELSE m_exitNum
  /\ \/ /\ m_exitNum > 0 /\ MayRetire
        /\ m_aliveNum' = m_aliveNum - 1
        /\ Goto(w, "retired")
        /\ UNCHANGED m_lock
     \/ /\ ~(m_exitNum > 0 /\ MayRetire)
        /\ m_lock' = w
        /\ Goto(w, AfterWakeup)
        /\ UNCHANGED m_aliveNum
  /\ UNCHANGED <<m_taskQueue, m_busyNum, task, client, mgrVars, dtorVars, history>>

\* The second test of m_shutdown, after the inner loop.
WorkerTest(w) ==
  /\ At(w, "test")
  /\ \/ m_shutdown /\ m_lock' = Nobody /\ Goto(w, "closing")
     \/ ~m_shutdown /\ UNCHANGED m_lock /\ Goto(w, "take")
  /\ UNCHANGED <<m_taskQueue, counters, task, client, mgrVars, dtorVars, history>>

WorkerTake(w) ==
  /\ At(w, "take")
  /\ task' = [task EXCEPT ![w] = getTaskValue(m_taskQueue)]
  /\ m_taskQueue' = getTaskRest(m_taskQueue)
  /\ m_busyNum' = m_busyNum + 1
  /\ m_lock' = Nobody
  /\ Goto(w, "working")
  /\ UNCHANGED <<m_aliveNum, m_exitNum, client, mgrVars, dtorVars, history>>

\* task.function(task.arg), outside the lock.
WorkerRun(w) ==
  /\ pc[w] = "working"
  /\ runs' = [t \in Tasks |-> IF t = task[w] THEN runs[t] + 1 ELSE runs[t]]
  /\ task' = [task EXCEPT ![w] = Garbage]
  /\ Goto(w, "done")
  /\ UNCHANGED <<m_taskQueue, m_lock, counters, client, mgrVars, dtorVars, added>>

WorkerDone(w) ==
  /\ At(w, "done")
  /\ LockFree
  /\ m_busyNum' = m_busyNum - 1
  /\ Goto(w, "lock")
  /\ UNCHANGED <<m_taskQueue, m_lock, m_aliveNum, m_exitNum, task, client,
                 mgrVars, dtorVars, history>>

\* threadExit, called without the lock: clear the own entry of m_threadIDs.
threadExit(w) ==
  /\ At(w, "retired") \/ At(w, "closing")
  /\ Goto(w, "none")
  /\ UNCHANGED <<m_taskQueue, m_lock, counters, task, client, mgrVars, dtorVars, history>>

-----------------------------------------------------------------------------
(***************************************************************************)
(* manager()                                                               *)
(***************************************************************************)

EndSeenNever == FALSE   \* wrong variant: while (true)
EndSeen == m_shutdown

ManagerTest ==
  /\ mgr = "test"
  /\ mgr' = IF EndSeen THEN "ended" ELSE "sleep"
  /\ UNCHANGED <<m_taskQueue, m_lock, counters, pc, task, client, plan, kicks,
                 dtorVars, history>>

\* The two decisions are functions of the copies taken here under the lock
\* and of nothing read later, so the model keeps the decisions.
ShouldGrow == getQueueSize(m_taskQueue) > m_aliveNum /\ m_aliveNum < MaxNum
ShouldShrinkAny == m_busyNum < m_aliveNum /\ m_aliveNum > MinNum         \* wrong variant
ShouldShrinkLate == m_busyNum * 2 < m_aliveNum /\ m_aliveNum > MinNum + 1 \* wrong variant
ShouldShrink == m_busyNum * 2 < m_aliveNum /\ m_aliveNum > MinNum

ManagerSnapshot ==
  /\ mgr = "sleep"
  /\ LockFree
  /\ plan' = [grow |-> ShouldGrow, shrink |-> ShouldShrink]
  /\ mgr' = "grow"
  /\ UNCHANGED <<m_taskQueue, m_lock, counters, pc, task, client, kicks, dtorVars, history>>

\* The creation loop stops after NUMBER threads, at m_maxNum or at the end of
\* the array; it takes the zero entries in the order of the array.
Room == MaxNum - m_aliveNum
LoopFills(new) ==
  /\ Cardinality(new) <= NUMBER
  /\ Cardinality(new) <= Room
  /\ Cardinality(new) = NUMBER \/ Cardinality(new) = Room \/ new = FreeEntries
  /\ \A i \in new, j \in FreeEntries \ new : i < j

ManagerGrow ==
  /\ mgr = "grow"
  /\ plan.grow
  /\ LockFree
  /\ \E new \in SUBSET FreeEntries :
       /\ LoopFills(new)
       /\ CreateWorkers(new)
       /\ m_aliveNum' = m_aliveNum + Cardinality(new)
  /\ mgr' = "shrink"
  /\ UNCHANGED <<m_taskQueue, m_lock, m_exitNum, m_busyNum, task, client, plan, kicks,
                 dtorVars, history>>

ManagerShrink ==
  /\ mgr = "shrink"
  /\ plan.shrink
  /\ LockFree
  /\ m_exitNum' = NUMBER
  /\ mgr' = "signal"
  /\ kicks' = NUMBER
  /\ UNCHANGED <<m_taskQueue, m_lock, m_aliveNum, m_busyNum, pc, task, client, plan,
                 dtorVars, history>>

ManagerSkip ==
  /\ \/ mgr = "grow" /\ ~plan.grow /\ mgr' = "shrink"
     \/ mgr = "shrink" /\ ~plan.shrink /\ mgr' = "test"
  /\ UNCHANGED <<m_taskQueue, m_lock, counters, pc, task, client, plan, kicks,
                 dtorVars, history>>

LastKickLate == kicks = 0   \* wrong variant: one signal too many
LastKick == kicks = 1

ManagerSignal ==
  /\ mgr = "signal"
  /\ Signal
  /\ kicks' = kicks - 1
  /\ mgr' = IF LastKick THEN "test" ELSE "signal"
  /\ UNCHANGED <<m_taskQueue, m_lock, counters, task, client, plan, dtorVars, history>>

-----------------------------------------------------------------------------
(***************************************************************************)
(* ~ThreadPool.  The object is destroyed when no call of addTask is in     *)
(* progress, as the lifetime of a C++ object requires.                     *)
(***************************************************************************)

Shutdown ==
  /\ dtor = "none"
  /\ \A c \in Clients : client[c] = "idle"
  /\ m_shutdown' = TRUE
  /\ dtor' = "join"
  /\ UNCHANGED <<m_taskQueue, m_lock, counters, pc, task, client, mgrVars, sent, history>>

JoinManager ==
  /\ dtor = "join"
  /\ mgr = "ended"
  /\ dtor' = "signal"
  /\ UNCHANGED <<m_taskQueue, m_lock, counters, pc, task, client, mgrVars, sent,
                 m_shutdown, history>>

\* for (i = 0; i < m_aliveNum; i++): the bound is re-read, without the lock.
ShutdownSignal ==
  /\ dtor = "signal"
  /\ \/ /\ sent < m_aliveNum
        /\ Signal
        /\ sent' = sent + 1
        /\ UNCHANGED dtor
     \/ /\ sent >= m_aliveNum
        /\ dtor' = "delete"
        /\ UNCHANGED <<pc, sent>>
  /\ UNCHANGED <<m_taskQueue, m_lock, counters, task, client, mgrVars, m_shutdown, history>>

Delete ==
  /\ dtor = "delete"
  /\ m_taskQueue' = <<>>
  /\ dtor' = "mutex"
  /\ UNCHANGED <<m_lock, counters, pc, task, client, mgrVars, sent, m_shutdown, history>>

DestroyMutex ==
  /\ dtor = "mutex"
  /\ dtor' = "cond"
  /\ UNCHANGED <<m_taskQueue, m_lock, counters, pc, task, client, mgrVars, sent,
                 m_shutdown, history>>

\* glibc's pthread_cond_destroy returns only when nobody waits any more.
DestroyCondition ==
  /\ dtor = "cond"
  /\ Waiting = {}
  /\ dtor' = "gone"
  /\ UNCHANGED <<m_taskQueue, m_lock, counters, pc, task, client, mgrVars, sent,
                 m_shutdown, history>>

-----------------------------------------------------------------------------
\* The constructor has run: MinNum threads were created, all of them counted.
Init ==
  /\ m_taskQueue = <<>>
  /\ m_lock = Nobody
  /\ m_aliveNum = MinNum
  /\ m_exitNum \in ExitGarbage
  /\ m_busyNum \in BusyGarbage
  /\ m_shutdown = FALSE
  /\ pc \in [Workers -> {"none", "lock", "ghost"}]
  /\ \A w \in Workers : /\ w >= MinNum => pc[w] = "none"
                        /\ w < MinNum => CreateMayFail \/ pc[w] = "lock"
  /\ task = [w \in Workers |-> Garbage]
  /\ client = [c \in Clients |-> "idle"]
  /\ mgr = "test"
  /\ plan = [grow |-> FALSE, shrink |-> FALSE]
  /\ kicks = 0
  /\ dtor = "none"
  /\ sent = 0
  /\ added = {}
  /\ runs = [t \in Tasks |-> 0]

WorkerStep(w) ==
  \/ WorkerLock(w) \/ WorkerCheck(w) \/ WorkerWait(w) \/ WorkerWoken(w)
  \/ WorkerTest(w) \/ WorkerTake(w) \/ WorkerRun(w) \/ WorkerDone(w) \/ threadExit(w)

Manager ==
  \/ ManagerTest \/ ManagerSnapshot \/ ManagerGrow \/ ManagerShrink
  \/ ManagerSkip \/ ManagerSignal

\* The destructor once it has begun; beginning it is the program's choice.
Destructor == JoinManager \/ ShutdownSignal \/ Delete \/ DestroyMutex \/ DestroyCondition

Next ==
  \/ \E c \in Clients : AddTaskSignal(c) \/ \E t \in Tasks : AddTask(c, t)
  \/ \E w \in Workers : WorkerStep(w) \/ SpuriousWakeup(w) \/ UseAfterFree(w)
  \/ Manager
  \/ Shutdown
  \/ Destructor

Spec == Init /\ [][Next]_vars

(***************************************************************************)
(* Every thread that can take a step takes one eventually, and a task      *)
(* function returns.  Nothing obliges the program to add a task or to      *)
(* destroy the pool, or the system to wake a waiter for no reason.         *)
(***************************************************************************)
Fairness ==
  /\ \A w \in Workers : WF_vars(WorkerStep(w))
  /\ \A c \in Clients : WF_vars(AddTaskSignal(c))
  /\ WF_vars(Manager)
  /\ WF_vars(Destructor)

FairSpec == Spec /\ Fairness

\* Spurious wakeups are rare: workers that wake and wait for ever would keep a
\* thread that needs the lock away from it.
QuietSpec == FairSpec /\ <>[][\A w \in Workers : ~SpuriousWakeup(w)]_vars
=============================================================================
