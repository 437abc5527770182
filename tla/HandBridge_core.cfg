SPECIFICATION Spec
CONSTANTS
  SeqMod = 3
  MaxRetries = 1
  AckTimeout = 0
  ExecTimeout = 0
  MaxCommands = 2
  MaxLines = 1
  PriorSession = {}
INVARIANTS
  TypeOK
  FrameBudget
  NoStrandedRequest
  FreshStopFirst
  OutcomesDeserved
PROPERTIES
  NoOldCommandAfterStop
  ResolvedIsFinal
  ImplementsDelivery
