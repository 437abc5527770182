---------------------------- MODULE RingBuffer ----------------------------
(***************************************************************************)
(* practice/day02/ring_buffer.c: a ring of BUFFER_SIZE bytes that keeps one  *)
(* place free, so that full and empty differ.                                *)
(***************************************************************************)
EXTENDS Integers, Sequences

CONSTANTS Value, BUFFER_SIZE

ASSUME RingBufferAssumption == BUFFER_SIZE \in Nat \ {0, 1} /\ 0 \in Value

VARIABLES buffer, ringHead, ringTail,   \* RingBuffer: buffer, head, tail
          data,         \* what the caller of ring_buffer_pop holds
          ringResult    \* the answer to the last call

ringVars == <<buffer, ringHead, ringTail, data, ringResult>>

RingInit ==
  /\ buffer = [i \in 0 .. BUFFER_SIZE - 1 |-> 0]
  /\ ringHead = 0 /\ ringTail = 0
  /\ data = 0
  /\ ringResult = "none"

Succ(i) == (i + 1) % BUFFER_SIZE

ring_buffer_empty == ringHead = ringTail

\* Mutant: the end of the ring is forgotten.
ring_buffer_full_linear == ringHead + 1 = ringTail

ring_buffer_full == Succ(ringHead) = ringTail

ring_buffer_push(value) ==
  IF ring_buffer_full
  THEN ringResult' = "full" /\ UNCHANGED <<buffer, ringHead, ringTail, data>>
  ELSE /\ buffer' = [buffer EXCEPT ![ringHead] = value]
       /\ ringHead' = Succ(ringHead)
       /\ ringResult' = "ok"
       /\ UNCHANGED <<ringTail, data>>

\* The refusal of data == NULL (ring_buffer.c 52-55) is left out: no caller
\* passes NULL.
ring_buffer_pop ==
  IF ring_buffer_empty
  THEN ringResult' = "empty" /\ UNCHANGED <<buffer, ringHead, ringTail, data>>
  ELSE /\ data' = buffer[ringTail]
       /\ ringTail' = Succ(ringTail)
       /\ ringResult' = "ok"
       /\ UNCHANGED <<buffer, ringHead>>

RingNext == (\E value \in Value : ring_buffer_push(value)) \/ ring_buffer_pop

RingSpec == RingInit /\ [][RingNext]_ringVars
----------------------------------------------------------------------------
\* The number of bytes between tail and head, around the end of the ring.
Size == IF ringHead >= ringTail THEN ringHead - ringTail
        ELSE ringHead - ringTail + BUFFER_SIZE

RingFifo == INSTANCE BoundedFifo WITH
  Capacity <- BUFFER_SIZE - 1,
  contents <- [i \in 1 .. Size |-> buffer[(ringTail + i - 1) % BUFFER_SIZE]],
  closed <- FALSE,
  out <- data,
  result <- ringResult

\* Bytes come out in the order in which they were put in, each once, wherever
\* the ring is cut; a push is refused exactly when BUFFER_SIZE - 1 bytes are
\* waiting, a pop exactly when none is.
RingImplementsFifo == RingFifo!Spec
============================================================================
