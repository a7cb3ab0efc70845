\* Lost and refused datagrams, failing calls, descriptors reused.
SPECIFICATION FairSpec
CONSTANTS
  Count = 3
  MaxFd = 1
  Lossy = TRUE
  Refused = TRUE
  MayFail = TRUE
INVARIANTS TypeOK EventsOwnTheirSocket
PROPERTIES EveryReplyCalledBack OnlyNameKept ImplementsResolver
CHECK_DEADLOCK FALSE
