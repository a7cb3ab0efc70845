\* Every server of multi-io.c and the hook programs with hasty clients.
SPECIFICATION FairSpec
CONSTANTS
  Ports = {p1}
  Conns = {1, 2, 3, 4}
  Free = Free
  Other = Other
  Stdio = 1
  MaxFd = 4
  MaxBytes = 1
  BUFFER_LEN = 1
  SndBuf = 1
  Hasty = TRUE
  Closers = {1}
  ThreadConns = 3
  Word = 1
  MaxThreads = 2
  StartMayFail = TRUE
INVARIANTS TypeOK ReadyStaysTrue Echoes OwnDescriptor
PROPERTIES EveryByteEchoed
CHECK_DEADLOCK FALSE
