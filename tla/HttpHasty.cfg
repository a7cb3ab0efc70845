\* Clients that close at any time, failing calls, descriptors reused.
SPECIFICATION Spec
CONSTANTS
  Ports = {p1}
  Conns = {k1, k2}
  Free = Free
  Other = Other
  Stdio = 0
  MaxFd = 1
  MaxBytes = 3
  BUFFER_LEN = 2
  SndBuf = 3
  Hasty = TRUE
  StartMayFail = TRUE
  CtlMayFail = TRUE
SYMMETRY Symmetry
INVARIANTS TypeOK EventsStayTrue RequestInBuffer OneResponseEach OnlyEarlyCloseKills
CHECK_DEADLOCK FALSE
