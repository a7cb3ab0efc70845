\* The DNS messages, the UDP stack, the load client, the peers and the
\* coroutines, one at a time.
SPECIFICATION FairSpec
CONSTANTS
  Hostnames <- MCHostnames
  Chains <- MCChains
  Junk = Junk
  Mbufs = {m1, m2, m3}
  BurstLen = 2
  DataRoom = 2048
  Frames <- MCFrames
  MaxFrames = 3
  Limit = 4
  Batch = 2
  MAX_EPOLLSIZE = 3
  MaxSock = 4
  Room = 2
  Peers = {p1, p2}
  MaxLines = 2
  N = 30
  K = 3
  Contents = {empty, text}
INVARIANTS NameSurvives OnlyFilteredLost RepliesToSender SocketsCounted NeverResumesReturned
PROPERTIES FollowsTheOther
CHECK_DEADLOCK FALSE
