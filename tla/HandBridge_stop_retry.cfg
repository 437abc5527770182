SPECIFICATION Spec
CONSTANTS
  SeqMod = 3
  MaxRetries = 1
  AckTimeout = 1
  ExecTimeout = 1
  MaxCommands = 2
  MaxLines = 1
  PriorSession = {}
INVARIANTS
  StopsGoFirst
