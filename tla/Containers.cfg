\* The ring has the code's size; two values tell the orders of any two bytes
\* apart.  Three Buffers have one address more than they fill at rest: copy
\* assignment needs it while the old and the new array both exist.  Sizes 0 to 2:
\* no array, one that shows its length and one that shows an order.
\* Five calls of LogManager, limits around the initial one: the cache fills, is
\* cut and fills again.
SPECIFICATION MCSpec
CONSTANTS
  Value = {0, 1}
  BUFFER_SIZE = 8
  Producers = {p1, p2}
  Consumers = {c1, c2}
  Items = 4
  QUEUE_CAPACITY = 4
  Objects = {b1, b2, b3}
  Addresses = {a1, a2, a3, a4}
  Sizes = {0, 1, 2}
  Ints = {7, 8}
  InitialMax = 2
  Limits = {0, 1, 3}
  MaxCalls = 5
INVARIANTS
  OwnedOnce
  LoggerExact
PROPERTIES
  RingImplementsFifo
  QueueImplementsFifo
  QueueReturns
