--------------------------- MODULE ThreadPoolProps ---------------------------
(***************************************************************************)
(* What the thread pool must do, stated over the steps of ThreadPool.      *)
(***************************************************************************)
EXTENDS ThreadPool

\* The types of all variables.
TypeOK ==
  /\ m_taskQueue \in Seq(Tasks)
  /\ m_lock \in Workers \cup {Nobody}
  /\ m_aliveNum \in Nat /\ m_exitNum \in Int /\ m_busyNum \in Int
  /\ m_shutdown \in BOOLEAN
  /\ pc \in [Workers -> WorkerPC]
  /\ task \in [Workers -> Tasks \cup {Garbage}]
  /\ client \in [Clients -> {"idle", "signal"}]
  /\ mgr \in ManagerPC
  /\ plan \in [grow : BOOLEAN, shrink : BOOLEAN]
  /\ kicks \in IF mgr = "signal" THEN 1 .. NUMBER ELSE {0}
  /\ dtor \in DestructorPC
  /\ sent \in Nat
  /\ added \subseteq Tasks
  /\ runs \in [Tasks -> Nat]

(***************************************************************************)
(* getTask from an empty queue returns a Task whose function pointer was   *)
(* never set.  However wakeups are shared, stolen or spurious, and whenever*)
(* the destructor raises m_shutdown, no worker ever calls such a Task.     *)
(***************************************************************************)
NoGarbageTask == \A w \in Workers : pc[w] = "working" => task[w] # Garbage

(***************************************************************************)
(* Why it holds: the lock is held from the test of the queue to the pop,   *)
(* so what a worker saw there is still true when it relies on it.  A       *)
(* worker in "block" is about to wait for an empty queue, one in "test"    *)
(* has a task or an order to leave, one in "take" has a task, unless the   *)
(* destructor has deleted the queue under it.                              *)
(***************************************************************************)
LockHeld == \A w \in Workers : pc[w] \in Holding => m_lock = w
SeenStillTrue ==
  \A w \in Workers :
    /\ pc[w] = "block" => m_taskQueue = <<>>
    /\ pc[w] = "test" => m_taskQueue # <<>> \/ m_shutdown
    /\ pc[w] = "take" => m_taskQueue # <<>> \/ dtor \in Freed
ClosedFirst == dtor # "none" => m_shutdown
LockProtects == LockHeld /\ SeenStillTrue /\ ClosedFirst

(***************************************************************************)
(* Each accepted task is in exactly one place: in the queue, in the hands  *)
(* of one worker, or run once.  Until the destructor throws the queue away *)
(* none is lost, and none is ever duplicated.                              *)
(***************************************************************************)
Copies(t) == Cardinality({i \in DOMAIN m_taskQueue : m_taskQueue[i] = t})
             + Cardinality({w \in Workers : task[w] = t}) + runs[t]
TaskConserved ==
  \A t \in Tasks : /\ Copies(t) <= IF t \in added THEN 1 ELSE 0
                   /\ dtor \in Freed \/ t \notin added \/ Copies(t) = 1

(***************************************************************************)
(* The manager decides on copies of the counters that are stale when it    *)
(* acts, and workers retire on a count of permits that outlives the idle   *)
(* workers it was meant for: the pool still stays between its bounds.      *)
(***************************************************************************)
PoolSize == MinNum <= m_aliveNum /\ m_aliveNum <= MaxNum

(***************************************************************************)
(* m_aliveNum counts the worker threads: the threads that are running and  *)
(* have not decided to retire, as long as no worker left by shutdown.      *)
(***************************************************************************)
AliveIsThreadCount == ~m_shutdown => m_aliveNum = Cardinality(InService)

(***************************************************************************)
(* What the manager takes from the pool as the number of busy threads is   *)
(* the number of threads between taking a task and reporting its end: a    *)
(* plan to shrink is made only when less than half of the pool works.      *)
(***************************************************************************)
ShrinkOnlyWhenIdle ==
  [][ManagerSnapshot => (plan'.shrink => Cardinality(Busy) * 2 < m_aliveNum)]_vars

(***************************************************************************)
(* A worker blocks because the queue is empty: a task in the queue of an   *)
(* open pool always has a worker that will look at the queue before it     *)
(* blocks, or a client or the manager that is about to signal one.         *)
(***************************************************************************)
Attentive == {w \in Workers :
                pc[w] \in {"lock", "check", "woken", "test", "take", "working", "done"}}
NoStrandedTask ==
  m_taskQueue # <<>> /\ ~m_shutdown
    => Attentive # {} \/ mgr = "signal" \/ \E c \in Clients : client[c] = "signal"

(***************************************************************************)
(* Every task that is accepted runs, unless the pool is shut down.         *)
(***************************************************************************)
EveryTaskRuns == \A t \in Tasks : t \in added ~> (runs[t] = 1 \/ m_shutdown)

(***************************************************************************)
(* When all the work is done the pool shrinks back to MinNum threads.      *)
(***************************************************************************)
AllDone == added = Tasks /\ \A t \in Tasks : runs[t] = 1
IdlePoolShrinks == AllDone ~> (m_aliveNum = MinNum \/ m_shutdown)

(***************************************************************************)
(* A pool that is shut down sends every worker home: none stays blocked on *)
(* a condition variable that is about to be destroyed.                     *)
(***************************************************************************)
ShutdownReleasesWorkers == m_shutdown ~> Waiting = {}

(***************************************************************************)
(* The destructor is never stuck in the join of the manager.               *)
(***************************************************************************)
ManagerJoined == m_shutdown ~> dtor # "join"

(***************************************************************************)
(* The pool keeps the promise of an executor: FIFO start, at most once,    *)
(* at most MaxNum tasks at a time, nothing accepted after the close.       *)
(***************************************************************************)
Working == {w \in Workers : pc[w] = "working"}
Running == {task[w] : w \in Working}
Finished == {t \in Tasks : runs[t] > 0}

Promise == INSTANCE Executor WITH
  accepted <- added,
  backlog  <- m_taskQueue,
  running  <- Running,
  finished <- Finished,
  closed   <- m_shutdown

ImplementsExecutor == Promise!Spec
=============================================================================
