SPECIFICATION MCSpec
CONSTANTS
  InitialMax = 10
  Payloads <- MCPayloads
  Expected <- MCExpected
  Sample <- MCSample
  Inputs <- MCInputs
INVARIANTS
  NothingLost
PROPERTIES
  ImplementsProducerConsumer
  AckDemoTerminates
  SamplesTerminate
