\* A pool of fixed size: no worker ever retires.
SPECIFICATION FairSpec
CONSTANTS
  Tasks = {t1, t2, t3}
  Garbage = Garbage
  Clients = {c1, c2}
  MinNum = 2
  MaxNum = 2
  ExitGarbage = {0, 2}
  BusyGarbage = {0}
  CreateMayFail = FALSE
INVARIANTS NoStrandedTask
PROPERTIES EveryTaskRuns ManagerJoined
CHECK_DEADLOCK FALSE
