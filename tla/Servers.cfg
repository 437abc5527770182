\* Two client descriptors (4 and 5) and four connections: one finds the fd_set
\* full or takes a number that a removed client had.
\* Five bytes against a buffer that takes two of them at a time.
SPECIFICATION MCSpec
CONSTANTS
  FirstFd = 3
  FD_SETSIZE = 6
  BUFFER_SIZE = 2
  Window = 1
  Connections = 4
  Bytes = 2
  Faults = 1
  ECHO_BUFFER_SIZE = 3
  Stream <- MCStream
INVARIANTS
  NeverBlocks
  EchoExact
PROPERTIES
  EveryoneServed
CHECK_DEADLOCK FALSE
