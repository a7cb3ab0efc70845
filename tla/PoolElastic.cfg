\* An elastic pool with uninitialised counters and failing thread creation,
\* its destructor included.
SPECIFICATION Spec
CONSTANTS
  Tasks = {t1, t2, t3}
  Garbage = Garbage
  Clients = {c1}
  MinNum = 1
  MaxNum = 3
  ExitGarbage <- Garbages
  BusyGarbage <- Garbages
  CreateMayFail = TRUE
SYMMETRY Symmetry
INVARIANTS TypeOK TaskConserved PoolSize LockProtects NoGarbageTask
PROPERTIES ImplementsExecutor
CHECK_DEADLOCK FALSE
