SPECIFICATION MCSpec
CONSTANTS
  NCommands = 4
  MaxRetries = 1
  LostAcks <- MCLostAcks
  InitialMax = 10
  Payloads <- MCPayloads
  Expected <- MCExpected
INVARIANTS
  StatsBalance
  AckedWasExecuted
  PrintedFiguresAgree
PROPERTIES
  TimeoutDemoTerminates
  PipelineImplementsProducerConsumer
