\* Patient clients: every byte comes back.
SPECIFICATION FairSpec
CONSTANTS
  Ports = {p1, p2}
  Conns = {k1, k2}
  Free = Free
  Other = Other
  Stdio = 0
  MaxFd = 3
  MaxBytes = 3
  BUFFER_LEN = 2
  SndBuf = 3
  Hasty = FALSE
  StartMayFail = FALSE
  AddMayFail = FALSE
INVARIANTS TypeOK
PROPERTIES EveryByteEchoed
CHECK_DEADLOCK FALSE
