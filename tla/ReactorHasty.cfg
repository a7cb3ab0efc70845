\* Clients that close at any time, failing calls, and more connections than
\* descriptors.
SPECIFICATION Spec
CONSTANTS
  Ports = {p1}
  Conns = {k1, k2, k3}
  Free = Free
  Other = Other
  Stdio = 0
  MaxFd = 2
  MaxBytes = 2
  BUFFER_LEN = 2
  SndBuf = 3
  Hasty = TRUE
  StartMayFail = TRUE
  AddMayFail = TRUE
SYMMETRY Symmetry
INVARIANTS EventsStayTrue Echoes OnlyEarlyCloseKills
CHECK_DEADLOCK FALSE
