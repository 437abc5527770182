SPECIFICATION FairSpec
CONSTANTS
  Requests <- MCRequests
  MaxAttempts = 2
  MaxFaults = 1
  DamagedBytes <- MCDamagedBytes
INVARIANTS
  ExecutedOnceAsSent
  AcksAreTrue
PROPERTIES
  EveryRequestAcked
