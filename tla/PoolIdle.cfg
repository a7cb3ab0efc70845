\* An elastic pool under the fairness of its threads.
SPECIFICATION QuietSpec
CONSTANTS
  Tasks = {t1, t2, t3}
  Garbage = Garbage
  Clients = {c1}
  MinNum = 1
  MaxNum = 2
  ExitGarbage = {0}
  BusyGarbage = {0}
  CreateMayFail = FALSE
INVARIANTS AliveIsThreadCount
PROPERTIES ShrinkOnlyWhenIdle IdlePoolShrinks
CHECK_DEADLOCK FALSE
