\* A permit to retire left over from an earlier shrink strands a task.
SPECIFICATION Spec
CONSTANTS
  Tasks = {t1, t2, t3}
  Garbage = Garbage
  Clients = {c1}
  MinNum = 1
  MaxNum = 3
  ExitGarbage = {0}
  BusyGarbage = {0}
  CreateMayFail = FALSE
SYMMETRY Symmetry
INVARIANTS NoStrandedTask
CHECK_DEADLOCK FALSE
