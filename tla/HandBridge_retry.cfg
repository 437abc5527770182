\* The only SEQ is 1: the second command gets SEQ 0 and the third SEQ 1 again.
SPECIFICATION FairSpec
CONSTANTS
  SeqMod = 2
  MaxRetries = 2
  AckTimeout = 1
  ExecTimeout = 2
  MaxCommands = 3
  MaxLines = 2
  PriorSession = {}
PROPERTIES
  EventuallyResolved
  ShutdownCompletes
  SeqNamesOneCommand
