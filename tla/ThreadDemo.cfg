SPECIFICATION Spec
CONSTANTS
  kTotalSamples = 5
INVARIANTS
  AllSamplesProcessed
