SPECIFICATION FairSpec
CONSTANTS
  NReadings = 2
  BufLimit = 5
  IdWidth = 2
  MaxNoise = 1
INVARIANTS
  ReadingsInOrder
  UndisturbedIsLogged
  PublishedIsLogged
  NothingLeaked
PROPERTIES
  SignalStops
