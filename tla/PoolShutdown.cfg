\* A worker that blocks as the pool shuts down is never woken.
SPECIFICATION FairSpec
CONSTANTS
  Tasks = {t1, t2}
  Garbage = Garbage
  Clients = {c1}
  MinNum = 1
  MaxNum = 2
  ExitGarbage = {0}
  BusyGarbage = {0}
  CreateMayFail = FALSE
PROPERTIES ShutdownReleasesWorkers
CHECK_DEADLOCK FALSE
