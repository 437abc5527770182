SPECIFICATION Spec
CONSTANTS
  SeqMod = 2
  MaxRetries = 1
  AckTimeout = 1
  ExecTimeout = 1
  MaxCommands = 1
  MaxLines = 1
  PriorSession = {1}
INVARIANTS
  AckBelongsToRequest
