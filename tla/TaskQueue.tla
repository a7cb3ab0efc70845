----------------------------- MODULE TaskQueue -----------------------------
(***************************************************************************)
(* The FIFO of tasks behind the pool: class TaskQueue of                   *)
(* ThreadPool/TaskQueue.  The class has no lock of its own; every call is  *)
(* made by the pool under m_lock.                                          *)
(***************************************************************************)
EXTENDS Naturals, Sequences

CONSTANTS Tasks,    \* the Task values the program submits
          Garbage   \* what a default-constructed Task holds: Task() {} sets nothing

ASSUME TaskAssumption == Garbage \notin Tasks

\* Wrong variants, against which the properties are tried: a queue that is a
\* stack, and a getTask that forgets to pop.
addTaskFront(q, t) == <<t>> \o q
getTaskRestNoPop(q) == q

\* TaskQueue::addTask pushes at the back.
addTask(q, t) == Append(q, t)

\* What TaskQueue::getTask returns: the front, or, from an empty queue, the
\* Task object that was declared and never assigned.
getTaskValue(q) == IF q # <<>> THEN Head(q) ELSE Garbage

\* What TaskQueue::getTask leaves behind.
getTaskRest(q) == IF q # <<>> THEN Tail(q) ELSE q

getQueueSize(q) == Len(q)

=============================================================================
