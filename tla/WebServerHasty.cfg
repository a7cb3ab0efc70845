\* The object-oriented server against the one in C: hasty clients, failing
\* calls, more connections than descriptors.
SPECIFICATION Spec
CONSTANTS
  Ports = {p1}
  Conns = {k1, k2, k3}
  Free = Free
  Other = Other
  Stdio = 0
  MaxFd = 2
  MaxBytes = 2
  BUFFER_LEN = 2
  SndBuf = 3
  Hasty = TRUE
  StartMayFail = TRUE
  AddMayFail = TRUE
SYMMETRY Symmetry
INVARIANTS TypeOK
PROPERTIES ImplementsReactor
CHECK_DEADLOCK FALSE
