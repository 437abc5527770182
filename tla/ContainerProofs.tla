-------------------------- MODULE ContainerProofs --------------------------
(***************************************************************************)
(* Theorems about the containers of the repository: the ring of             *)
(* practice/day02 and the blocking queue of test/day09 are FIFOs, for every  *)
(* size and any threads, the Buffers of move_semantics_demo own each array   *)
(* once, for any objects and sizes, and the LogManager's cache, counters and *)
(* file are what the calls made them, for any calls and limits.              *)
(***************************************************************************)
EXTENDS RingBuffer, BoundedQueue, Buffer, LogManagerClients, FiniteSetTheorems,
        SequenceTheorems, TLAPS
----------------------------------------------------------------------------
(* The places of a ring.                                                    *)

\* What lies in n places of a ring of N places from place t on.
Window(b, t, n, N) == [i \in 1 .. n |-> b[(t + i - 1) % N]]

\* What lies in the ring.
Entries(b, N) == {b[i] : i \in 0 .. N - 1}

\* An index runs over the end of a ring at most once.
LEMMA Around ==
  ASSUME NEW N \in Nat \ {0}, NEW x \in 0 .. 2 * N - 1
  PROVE  x % N = IF x < N THEN x ELSE x - N
<1>1. /\ x % N \in 0 .. N - 1
      /\ x = N * (x \div N) + (x % N)
  OBVIOUS
<1>2. x \div N \in {0, 1}
  <2>1. x \div N \in Nat
    OBVIOUS
  <2>2. CASE x \div N >= 2
    <3>1. PICK q \in Int : x \div N = q /\ q >= 2
      BY <2>1, <2>2
    <3>2. N * q >= N * 2
      BY <3>1
    <3>3. QED
      BY <1>1, <3>1, <3>2
  <2>3. QED
    BY <2>1, <2>2
<1>3. QED
  BY <1>1, <1>2

\* A place is one of the ring.
LEMMA PlaceType ==
  ASSUME NEW N \in Nat \ {0}, NEW x \in Nat
  PROVE  x % N \in 0 .. N - 1
  OBVIOUS

\* The contents are a sequence of what is in the ring.
LEMMA WindowType ==
  ASSUME NEW N \in Nat \ {0}, NEW b, NEW t \in 0 .. N - 1, NEW n \in 0 .. N
  PROVE  Window(b, t, n, N) \in Seq(Entries(b, N)) /\ Len(Window(b, t, n, N)) = n
<1>1. ASSUME NEW i \in 1 .. n
      PROVE  b[(t + i - 1) % N] \in Entries(b, N)
  <2>1. t + i - 1 \in Nat
    OBVIOUS
  <2>2. (t + i - 1) % N \in 0 .. N - 1
    BY <2>1, PlaceType
  <2>3. QED
    BY <2>2 DEF Entries
<1>2. Window(b, t, n, N) \in [1 .. n -> Entries(b, N)]
  BY <1>1 DEF Window
<1>3. QED
  BY <1>2

\* The place n steps after t differs from those less than n steps after it.
LEMMA PlacesDiffer ==
  ASSUME NEW N \in Nat \ {0}, NEW t \in 0 .. N - 1, NEW n \in 0 .. N - 1,
         NEW k \in 0 .. n - 1
  PROVE  (t + k) % N # (t + n) % N
<1>1. PICK x \in 0 .. 2 * N - 1 : x = t + k
  OBVIOUS
<1>2. PICK y \in 0 .. 2 * N - 1 : y = t + n
  OBVIOUS
<1>3. /\ x % N = IF x < N THEN x ELSE x - N
      /\ y % N = IF y < N THEN y ELSE y - N
  BY Around
<1>4. x % N # y % N
  BY <1>1, <1>2, <1>3
<1>5. QED
  BY <1>1, <1>2, <1>4

\* The place after the place k steps after t, and k steps after the one after t.
LEMMA NextPlace ==
  ASSUME NEW N \in Nat \ {0}, NEW t \in 0 .. N - 1, NEW k \in 0 .. N - 1
  PROVE  /\ (((t + k) % N) + 1) % N = (t + (k + 1)) % N
         /\ (((t + 1) % N) + k) % N = (t + (k + 1)) % N
<1>1. PICK x \in 0 .. 2 * N - 1 : x = t + k
  OBVIOUS
<1>2. PICK y \in 0 .. 2 * N - 1 : y = t + 1
  OBVIOUS
<1>3. PICK z \in 0 .. 2 * N - 1 : z = t + (k + 1)
  OBVIOUS
<1>4. /\ x % N = IF x < N THEN x ELSE x - N
      /\ y % N = IF y < N THEN y ELSE y - N
      /\ z % N = IF z < N THEN z ELSE z - N
  BY Around
<1>5. x % N \in 0 .. N - 1 /\ y % N \in 0 .. N - 1
  BY PlaceType
<1>6. PICK a \in 0 .. 2 * N - 1 : a = (x % N) + 1
  <2>1. PICK r \in 0 .. N - 1 : r = x % N
    BY <1>5
  <2>2. r + 1 \in 0 .. 2 * N - 1
    OBVIOUS
  <2>3. QED
    BY <2>1, <2>2
<1>7. PICK b \in 0 .. 2 * N - 1 : b = (y % N) + k
  <2>1. PICK r \in 0 .. N - 1 : r = y % N
    BY <1>5
  <2>2. r + k \in 0 .. 2 * N - 1
    OBVIOUS
  <2>3. QED
    BY <2>1, <2>2
<1>8. /\ a % N = IF a < N THEN a ELSE a - N
      /\ b % N = IF b < N THEN b ELSE b - N
  BY Around
<1>9. a % N = z % N
  BY <1>1, <1>3, <1>4, <1>6, <1>8
<1>10. b % N = z % N
  BY <1>2, <1>3, <1>4, <1>7, <1>8
<1>11. QED
  BY <1>1, <1>2, <1>3, <1>6, <1>7, <1>9, <1>10

\* A value written at the head of a ring that is not full is appended to its
\* contents.
LEMMA WindowPut ==
  ASSUME NEW N \in Nat \ {0}, NEW V, NEW b \in [0 .. N - 1 -> V], NEW v,
         NEW t \in 0 .. N - 1, NEW n \in 0 .. N - 1
  PROVE  Window([b EXCEPT ![(t + n) % N] = v], t, n + 1, N) = Append(Window(b, t, n, N), v)
<1>1. PICK h \in 0 .. N - 1 : h = (t + n) % N
  <2>1. t + n \in Nat
    OBVIOUS
  <2>2. QED
    BY <2>1, PlaceType
<1>2. PICK c : c = [b EXCEPT ![h] = v]
  OBVIOUS
<1>3. PICK m \in 0 .. N : m = n + 1
  OBVIOUS
<1>4. PICK w : w = Window(b, t, n, N)
  OBVIOUS
<1>5. PICK x : x = Window(c, t, m, N)
  OBVIOUS
<1>6. PICK S : S = Entries(b, N) \cup Entries(c, N) \cup {v}
  OBVIOUS
<1>7. w \in Seq(S) /\ Len(w) = n
  <2>1. w \in Seq(Entries(b, N)) /\ Len(w) = n
    BY <1>4, WindowType
  <2>2. QED
    BY <1>6, <2>1
<1>8. x \in Seq(S) /\ Len(x) = m
  <2>1. x \in Seq(Entries(c, N)) /\ Len(x) = m
    BY <1>5, WindowType
  <2>2. QED
    BY <1>6, <2>1
<1>9. v \in S
  BY <1>6
<1>10. /\ Append(w, v) \in Seq(S) /\ Len(Append(w, v)) = m
       /\ \A i \in 1 .. n : Append(w, v)[i] = w[i]
       /\ Append(w, v)[m] = v
  BY <1>3, <1>7, <1>9, AppendProperties
<1>11. ASSUME NEW i \in 1 .. m
       PROVE  x[i] = Append(w, v)[i]
  <2>1. x[i] = c[(t + i - 1) % N]
    BY <1>5 DEF Window
  <2>2. CASE i = m
    <3>1. t + i - 1 = t + n
      BY <1>3, <2>2
    <3>2. c[h] = v
      BY <1>2
    <3>3. QED
      BY <1>1, <1>10, <2>1, <2>2, <3>1, <3>2
  <2>3. CASE i \in 1 .. n
    <3>1. PICK k \in 0 .. n - 1 : k = i - 1
      BY <2>3
    <3>2. t + i - 1 = t + k
      BY <3>1
    <3>3. (t + k) % N # h
      BY <1>1, PlacesDiffer
    <3>4. PICK j \in 0 .. N - 1 : j = (t + k) % N
      <4>1. t + k \in Nat
        OBVIOUS
      <4>2. QED
        BY <4>1, PlaceType
    <3>5. c[j] = b[j]
      BY <1>2, <3>3, <3>4
    <3>6. w[i] = b[j]
      BY <1>4, <2>3, <3>2, <3>4 DEF Window
    <3>7. QED
      BY <1>10, <2>1, <2>3, <3>2, <3>4, <3>5, <3>6
  <2>4. i = m \/ i \in 1 .. n
    BY <1>3
  <2>5. QED
    BY <2>2, <2>3, <2>4
<1>12. x = Append(w, v)
  BY <1>8, <1>10, <1>11, SeqEqual
<1>13. QED
  BY <1>1, <1>2, <1>3, <1>4, <1>5, <1>12

\* The place at the tail of a ring that is not empty holds the head of its
\* contents; the places after it hold the rest.
LEMMA WindowTake ==
  ASSUME NEW N \in Nat \ {0}, NEW b, NEW t \in 0 .. N - 1, NEW n \in 1 .. N
  PROVE  /\ Window(b, t, n, N) # << >>
         /\ Head(Window(b, t, n, N)) = b[t]
         /\ Window(b, (t + 1) % N, n - 1, N) = Tail(Window(b, t, n, N))
<1>1. PICK u \in 0 .. N - 1 : u = (t + 1) % N
  BY PlaceType
<1>2. PICK m \in 0 .. N : m = n - 1
  OBVIOUS
<1>3. PICK w : w = Window(b, t, n, N)
  OBVIOUS
<1>4. PICK x : x = Window(b, u, m, N)
  OBVIOUS
<1>5. PICK S : S = Entries(b, N)
  OBVIOUS
<1>6. w \in Seq(S) /\ Len(w) = n
  BY <1>3, <1>5, WindowType
<1>7. x \in Seq(S) /\ Len(x) = m
  BY <1>4, <1>5, WindowType
<1>8. w # << >>
  BY <1>6
<1>9. Head(w) = b[t]
  <2>1. t + 1 - 1 = t /\ t % N = t
    BY Around
  <2>2. w[1] = b[t]
    BY <1>3, <2>1 DEF Window
  <2>3. QED
    BY <1>6, <1>8, <2>2
<1>10. Tail(w) \in Seq(S) /\ Len(Tail(w)) = m /\ \A i \in 1 .. m : Tail(w)[i] = w[i + 1]
  BY <1>2, <1>6, <1>8
<1>11. ASSUME NEW i \in 1 .. m
       PROVE  x[i] = Tail(w)[i]
  <2>1. PICK k \in 0 .. N - 1 : k = i - 1
    OBVIOUS
  <2>2. u + i - 1 = u + k /\ t + (i + 1) - 1 = t + (k + 1)
    BY <2>1
  <2>3. x[i] = b[(u + k) % N]
    BY <1>4, <2>2 DEF Window
  <2>4. i + 1 \in 1 .. n
    BY <1>2
  <2>5. w[i + 1] = b[(t + (k + 1)) % N]
    BY <1>3, <2>2, <2>4 DEF Window
  <2>6. (u + k) % N = (t + (k + 1)) % N
    BY <1>1, NextPlace
  <2>7. QED
    BY <1>10, <2>3, <2>5, <2>6
<1>12. x = Tail(w)
  BY <1>7, <1>10, <1>11, SeqEqual
<1>13. QED
  BY <1>1, <1>2, <1>3, <1>4, <1>8, <1>9, <1>12
----------------------------------------------------------------------------
(* practice/day02/ring_buffer.c.                                            *)

RingInv ==
  /\ buffer \in [0 .. BUFFER_SIZE - 1 -> Value]
  /\ ringHead \in 0 .. BUFFER_SIZE - 1 /\ ringTail \in 0 .. BUFFER_SIZE - 1

\* The bytes in the ring, oldest first.
Bytes == Window(buffer, ringTail, Size, BUFFER_SIZE)

\* ringHead is Size places after ringTail.  One place stays free, so that the ring is
\* empty exactly when ringHead meets ringTail and full exactly when it is one behind.
LEMMA SizeOfRing ==
  ASSUME RingInv
  PROVE  /\ Size \in 0 .. BUFFER_SIZE - 1
         /\ (ringTail + Size) % BUFFER_SIZE = ringHead
         /\ ring_buffer_empty <=> Size = 0
         /\ ring_buffer_full <=> Size = BUFFER_SIZE - 1
<1>1. PICK N \in Nat \ {0} : N = BUFFER_SIZE /\ N >= 2
  BY RingBufferAssumption
<1>2. PICK h \in 0 .. N - 1 : h = ringHead
  BY <1>1 DEF RingInv
<1>3. PICK t \in 0 .. N - 1 : t = ringTail
  BY <1>1 DEF RingInv
<1>4. PICK n \in 0 .. N - 1 : n = Size /\ n = IF h >= t THEN h - t ELSE h - t + N
  <2>1. Size = IF h >= t THEN h - t ELSE h - t + N
    BY <1>1, <1>2, <1>3 DEF Size
  <2>2. (IF h >= t THEN h - t ELSE h - t + N) \in 0 .. N - 1
    OBVIOUS
  <2>3. QED
    BY <2>1, <2>2
<1>5. PICK x \in 0 .. 2 * N - 1 : x = t + n
  OBVIOUS
<1>6. PICK y \in 0 .. 2 * N - 1 : y = h + 1
  OBVIOUS
<1>7. /\ x % N = IF x < N THEN x ELSE x - N
      /\ y % N = IF y < N THEN y ELSE y - N
  BY Around
<1>8. x % N = h
  BY <1>4, <1>5, <1>7
<1>9. h = t <=> n = 0
  BY <1>4
<1>10. y % N = t <=> n = N - 1
  BY <1>1, <1>4, <1>6, <1>7
<1>11. ring_buffer_full <=> y % N = t
  BY <1>1, <1>2, <1>3, <1>6 DEF ring_buffer_full, Succ
<1>12. QED
  BY <1>1, <1>2, <1>3, <1>4, <1>5, <1>8, <1>9, <1>10, <1>11 DEF ring_buffer_empty

\* A push makes the ring longer by one, a pop shorter by one.
LEMMA SizeChanges ==
  ASSUME RingInv, RingInv'
  PROVE  /\ ringHead' = Succ(ringHead) /\ ringTail' = ringTail /\ ~ring_buffer_full => Size' = Size + 1
         /\ ringTail' = Succ(ringTail) /\ ringHead' = ringHead /\ ~ring_buffer_empty => Size' = Size - 1
<1>1. PICK N \in Nat \ {0} : N = BUFFER_SIZE /\ N >= 2
  BY RingBufferAssumption
<1>2. PICK h \in 0 .. N - 1 : h = ringHead
  BY <1>1 DEF RingInv
<1>3. PICK t \in 0 .. N - 1 : t = ringTail
  BY <1>1 DEF RingInv
<1>4. PICK x \in 0 .. 2 * N - 1 : x = h + 1
  OBVIOUS
<1>5. PICK y \in 0 .. 2 * N - 1 : y = t + 1
  OBVIOUS
<1>6. /\ x % N = IF x < N THEN x ELSE x - N
      /\ y % N = IF y < N THEN y ELSE y - N
  BY Around
<1>7. ASSUME ringHead' = Succ(ringHead), ringTail' = ringTail, ~ring_buffer_full
      PROVE  Size' = Size + 1
  <2>1. ringHead' = x % N /\ ringTail' = t /\ x % N # t
    BY <1>1, <1>2, <1>3, <1>4, <1>7 DEF ring_buffer_full, Succ
  <2>2. QED
    BY <1>1, <1>2, <1>3, <1>4, <1>6, <2>1 DEF Size
<1>8. ASSUME ringTail' = Succ(ringTail), ringHead' = ringHead, ~ring_buffer_empty
      PROVE  Size' = Size - 1
  <2>1. ringTail' = y % N /\ ringHead' = h /\ h # t
    BY <1>1, <1>2, <1>3, <1>5, <1>8 DEF ring_buffer_empty, Succ
  <2>2. QED
    BY <1>1, <1>2, <1>3, <1>5, <1>6, <2>1 DEF Size
<1>9. QED
  BY <1>7, <1>8

\* Every operation of the ring keeps the invariant.
LEMMA RingInductive ==
  ASSUME RingInv, [RingNext]_ringVars
  PROVE  RingInv'
<1>1. BUFFER_SIZE \in Nat \ {0}
  BY RingBufferAssumption
<1>2. Succ(ringHead) \in 0 .. BUFFER_SIZE - 1 /\ Succ(ringTail) \in 0 .. BUFFER_SIZE - 1
  BY <1>1 DEF RingInv, Succ
<1>3. QED
  BY <1>1, <1>2 DEF RingInv, RingNext, ringVars, ring_buffer_push, ring_buffer_pop

\* Each call is the step of the FIFO that gives the same answer.
LEMMA RingSimulates ==
  ASSUME RingInv, [RingNext]_ringVars
  PROVE  [RingFifo!Next]_(RingFifo!vars)
<1>1. PICK N \in Nat \ {0} : N = BUFFER_SIZE
  BY RingBufferAssumption
<1>2. /\ Size \in 0 .. N - 1
      /\ (ringTail + Size) % N = ringHead
      /\ ring_buffer_empty <=> Size = 0
      /\ ring_buffer_full <=> Size = N - 1
  BY <1>1, SizeOfRing
<1>3. RingInv'
  BY RingInductive
<1>4. ringTail \in 0 .. N - 1 /\ buffer \in [0 .. N - 1 -> Value]
  BY <1>1 DEF RingInv
<1>5. Len(Bytes) = Size /\ (Size = 0 <=> Bytes = << >>)
  <2>1. PICK n \in 0 .. N : n = Size
    BY <1>2
  <2>2. Window(buffer, ringTail, n, N) \in Seq(Entries(buffer, N)) /\ Len(Window(buffer, ringTail, n, N)) = n
    BY <1>4, WindowType
  <2>3. QED
    BY <1>1, <2>1, <2>2 DEF Bytes
<1>6. /\ Bytes = [i \in 1 .. Size |-> buffer[(ringTail + i - 1) % BUFFER_SIZE]]
      /\ Bytes' = [i \in 1 .. Size' |-> buffer'[(ringTail' + i - 1) % BUFFER_SIZE]]
  BY DEF Bytes, Window
<1>7. ASSUME NEW v \in Value, ring_buffer_push(v), ring_buffer_full
      PROVE  RingFifo!Refuse
  <2>1. Bytes' = Bytes /\ data' = data /\ ringResult' = "full"
    BY <1>7 DEF ring_buffer_push, Bytes, Size
  <2>2. Len(Bytes) = BUFFER_SIZE - 1
    BY <1>1, <1>2, <1>5, <1>7
  <2>3. QED
    BY <1>6, <2>1, <2>2 DEF RingFifo!Refuse
<1>8. ASSUME NEW v \in Value, ring_buffer_push(v), ~ring_buffer_full
      PROVE  RingFifo!Put(v)
  <2>1. /\ buffer' = [buffer EXCEPT ![ringHead] = v] /\ ringHead' = Succ(ringHead)
        /\ ringTail' = ringTail /\ data' = data /\ ringResult' = "ok"
    BY <1>8 DEF ring_buffer_push
  <2>2. Size' = Size + 1
    BY <1>3, <1>8, <2>1, SizeChanges
  <2>3. Bytes' = Append(Bytes, v)
    <3>1. PICK n \in 0 .. N - 1 : n = Size
      BY <1>2
    <3>2. Window([buffer EXCEPT ![(ringTail + n) % N] = v], ringTail, n + 1, N) = Append(Window(buffer, ringTail, n, N), v)
      BY <1>4, WindowPut
    <3>3. QED
      BY <1>1, <1>2, <2>1, <2>2, <3>1, <3>2 DEF Bytes
  <2>4. Len(Bytes) < BUFFER_SIZE - 1
    BY <1>1, <1>2, <1>5, <1>8
  <2>5. QED
    BY <1>6, <2>1, <2>3, <2>4 DEF RingFifo!Put
<1>9. ASSUME ring_buffer_pop, ring_buffer_empty
      PROVE  RingFifo!Refuse
  <2>1. Bytes' = Bytes /\ data' = data /\ ringResult' = "empty"
    BY <1>9 DEF ring_buffer_pop, Bytes, Size
  <2>2. Bytes = << >>
    BY <1>2, <1>5, <1>9
  <2>3. QED
    BY <1>6, <2>1, <2>2 DEF RingFifo!Refuse
<1>10. ASSUME ring_buffer_pop, ~ring_buffer_empty
       PROVE  RingFifo!Take
  <2>1. /\ data' = buffer[ringTail] /\ ringTail' = Succ(ringTail)
        /\ buffer' = buffer /\ ringHead' = ringHead /\ ringResult' = "ok"
    BY <1>10 DEF ring_buffer_pop
  <2>2. Size' = Size - 1
    BY <1>3, <1>10, <2>1, SizeChanges
  <2>3. Bytes # << >> /\ Head(Bytes) = buffer[ringTail] /\ Bytes' = Tail(Bytes)
    <3>1. PICK n \in 1 .. N : n = Size
      BY <1>2, <1>10
    <3>2. /\ Window(buffer, ringTail, n, N) # << >>
          /\ Head(Window(buffer, ringTail, n, N)) = buffer[ringTail]
          /\ Window(buffer, (ringTail + 1) % N, n - 1, N) = Tail(Window(buffer, ringTail, n, N))
      BY <1>4, WindowTake
    <3>3. QED
      BY <1>1, <2>1, <2>2, <3>1, <3>2 DEF Bytes, Succ
  <2>4. QED
    BY <1>6, <2>1, <2>3 DEF RingFifo!Take
<1>11. CASE UNCHANGED ringVars
  BY <1>11 DEF ringVars, RingFifo!vars, Size
<1>12. QED
  BY <1>7, <1>8, <1>9, <1>10, <1>11 DEF RingNext, RingFifo!Next

\* practice/day02/ring_buffer.c: a ring of any size is a FIFO of one byte less.
\* Bytes come out in the order in which they were put in, each once, wherever
\* ringHead and ringTail run over the end; a push is refused exactly when BUFFER_SIZE - 1
\* bytes wait and a pop exactly when none does.
THEOREM RingIsFifo == RingSpec => RingImplementsFifo
<1>1. RingInit => RingInv
  BY RingBufferAssumption DEF RingInit, RingInv
<1>2. RingInit => RingFifo!Init
  <2>1. ASSUME RingInit
        PROVE  RingFifo!Init
    <3>1. Size = 0
      BY <2>1 DEF RingInit, Size
    <3>2. [i \in 1 .. Size |-> buffer[(ringTail + i - 1) % BUFFER_SIZE]] = << >>
      BY <3>1
    <3>3. QED
      BY <2>1, <3>2, RingBufferAssumption DEF RingInit, RingFifo!Init
  <2>2. QED
    BY <2>1
<1>3. RingInv /\ [RingNext]_ringVars => RingInv'
  BY RingInductive
<1>4. RingInv /\ [RingNext]_ringVars => [RingFifo!Next]_(RingFifo!vars)
  BY RingSimulates
<1>5. QED
  BY <1>1, <1>2, <1>3, <1>4, PTL DEF RingSpec, RingImplementsFifo, RingFifo!Spec
----------------------------------------------------------------------------
(* test/day09_bounded_queue.c.                                              *)

\* tail is count places after head, around the end of the array.
QueueInv ==
  /\ items \in [0 .. QUEUE_CAPACITY - 1 -> SensorMessage]
  /\ head \in 0 .. QUEUE_CAPACITY - 1 /\ count \in 0 .. QUEUE_CAPACITY
  /\ tail = (head + count) % QUEUE_CAPACITY
  /\ closed \in BOOLEAN
  /\ sequence \in [Producers -> Nat \ {0}]

\* The messages in the queue, oldest first.
Messages == Window(items, head, count, QUEUE_CAPACITY)

\* queue_push writes behind the messages that wait.
LEMMA PushStep ==
  ASSUME QueueInv, NEW p \in Producers, queue_push(p)
  PROVE  /\ QueueInv' /\ <<p, sequence[p]>> \in SensorMessage
         /\ Messages' = Append(Messages, <<p, sequence[p]>>)
<1>1. PICK C \in Nat \ {0} : C = QUEUE_CAPACITY
  BY BoundedQueueAssumption
<1>2. PICK m : m = <<p, sequence[p]>>
  OBVIOUS
<1>3. m \in SensorMessage
  BY <1>2, BoundedQueueAssumption DEF QueueInv, queue_push, SensorMessage
<1>4. PICK h \in 0 .. C - 1 : h = head
  BY <1>1 DEF QueueInv
<1>5. PICK n \in 0 .. C - 1 : n = count
  BY <1>1 DEF QueueInv, queue_push
<1>6. items \in [0 .. C - 1 -> SensorMessage]
  BY <1>1 DEF QueueInv
<1>7. tail = (h + n) % C
  BY <1>1, <1>4, <1>5 DEF QueueInv
<1>8. /\ items' = [items EXCEPT ![tail] = m] /\ tail' = (tail + 1) % C
      /\ count' = n + 1 /\ head' = h /\ closed' = closed
      /\ sequence' = [sequence EXCEPT ![p] = @ + 1]
  BY <1>1, <1>2, <1>4, <1>5 DEF queue_push
<1>9. QueueInv'
  <2>1. items' \in [0 .. QUEUE_CAPACITY - 1 -> SensorMessage]
    BY <1>1, <1>3, <1>6, <1>8
  <2>2. head' \in 0 .. QUEUE_CAPACITY - 1 /\ count' \in 0 .. QUEUE_CAPACITY
    BY <1>1, <1>8
  <2>3. tail' = (head' + count') % QUEUE_CAPACITY
    <3>1. (((h + n) % C) + 1) % C = (h + (n + 1)) % C
      BY NextPlace
    <3>2. QED
      BY <1>1, <1>7, <1>8, <3>1
  <2>4. closed' \in BOOLEAN /\ sequence' \in [Producers -> Nat \ {0}]
    BY <1>8 DEF QueueInv
  <2>5. QED
    BY <2>1, <2>2, <2>3, <2>4 DEF QueueInv, SensorMessage, NoMessage
<1>10. Window([items EXCEPT ![(h + n) % C] = m], h, n + 1, C) = Append(Window(items, h, n, C), m)
  BY <1>6, WindowPut
<1>11. Messages' = Append(Messages, m)
  BY <1>1, <1>4, <1>5, <1>7, <1>8, <1>10 DEF Messages
<1>12. QED
  BY <1>2, <1>3, <1>9, <1>11

\* queue_pop hands out the oldest of them.
LEMMA PopStep ==
  ASSUME QueueInv, NEW c \in Consumers, queue_pop(c)
  PROVE  /\ QueueInv' /\ Messages # << >>
         /\ out' = Head(Messages) /\ Messages' = Tail(Messages)
<1>1. PICK C \in Nat \ {0} : C = QUEUE_CAPACITY
  BY BoundedQueueAssumption
<1>2. PICK h \in 0 .. C - 1 : h = head
  BY <1>1 DEF QueueInv
<1>3. PICK n \in 1 .. C : n = count
  BY <1>1 DEF QueueInv, queue_pop
<1>4. tail = (h + n) % C
  BY <1>1, <1>2, <1>3 DEF QueueInv
<1>5. /\ out' = items[h] /\ head' = (h + 1) % C
      /\ count' = n - 1 /\ items' = items /\ tail' = tail
      /\ closed' = closed /\ sequence' = sequence
  BY <1>1, <1>2, <1>3 DEF queue_pop
<1>6. QueueInv'
  <2>1. head' \in 0 .. QUEUE_CAPACITY - 1 /\ count' \in 0 .. QUEUE_CAPACITY
    <3>1. h + 1 \in Nat
      OBVIOUS
    <3>2. (h + 1) % C \in 0 .. C - 1
      BY <3>1, PlaceType
    <3>3. QED
      BY <1>1, <1>5, <3>2
  <2>2. tail' = (head' + count') % QUEUE_CAPACITY
    <3>1. PICK k \in 0 .. C - 1 : k = n - 1
      OBVIOUS
    <3>2. (((h + 1) % C) + k) % C = (h + (k + 1)) % C
      BY NextPlace
    <3>3. k + 1 = n
      BY <3>1
    <3>4. QED
      BY <1>1, <1>4, <1>5, <3>1, <3>2, <3>3
  <2>3. QED
    BY <1>5, <2>1, <2>2 DEF QueueInv, SensorMessage, NoMessage
<1>7. /\ Window(items, h, n, C) # << >>
      /\ Head(Window(items, h, n, C)) = items[h]
      /\ Window(items, (h + 1) % C, n - 1, C) = Tail(Window(items, h, n, C))
  BY WindowTake
<1>8. QED
  BY <1>1, <1>2, <1>3, <1>5, <1>6, <1>7 DEF Messages

\* Every other step leaves the messages alone: a thread waits, wakes or leaves,
\* or the queue is closed.
OtherStep ==
  \/ \E p \in Producers : PushWait(p) \/ ProducerReturn(p)
  \/ \E c \in Consumers : PopWait(c)
  \/ \E t \in Producers \cup Consumers : SpuriousWakeup(t)
  \/ UNCHANGED vars

\* Every step of a producer or consumer keeps the invariant.
LEMMA QueueInductive ==
  ASSUME QueueInv, [Next]_vars
  PROVE  QueueInv'
<1>1. ASSUME UNCHANGED ring, closed' \in BOOLEAN, sequence' \in [Producers -> Nat \ {0}]
      PROVE  QueueInv'
  BY <1>1 DEF QueueInv, ring, SensorMessage, NoMessage
<1>2. ASSUME NEW p \in Producers, PushClosed(p)
      PROVE  QueueInv'
  BY <1>1, <1>2 DEF PushClosed, queue_close, QueueInv
<1>3. ASSUME NEW p \in Producers, ProducerClose(p)
      PROVE  QueueInv'
  <2>1. sequence' \in [Producers -> Nat \ {0}]
    BY <1>3, BoundedQueueAssumption DEF ProducerClose, QueueInv
  <2>2. QED
    BY <1>1, <1>3, <2>1 DEF ProducerClose, queue_close
<1>4. ASSUME NEW c \in Consumers, PopClosed(c)
      PROVE  QueueInv'
  BY <1>1, <1>4 DEF PopClosed, QueueInv
<1>5. ASSUME NEW t, Fails(t)
      PROVE  QueueInv'
  BY <1>1, <1>5 DEF Fails, queue_close, QueueInv
<1>6. CASE OtherStep
  <2>1. UNCHANGED <<ring, closed, sequence>>
    BY <1>6 DEF OtherStep, PushWait, ProducerReturn, PopWait, SpuriousWakeup, vars
  <2>2. QED
    BY <1>1, <2>1 DEF QueueInv
<1>7. QED
  BY <1>2, <1>3, <1>4, <1>5, <1>6, PushStep, PopStep
     DEF OtherStep, Next, producer_thread, consumer_thread

\* Each call is the step of the FIFO that gives the same answer; waiting and waking
\* are none.
LEMMA QueueSimulates ==
  ASSUME QueueInv, [Next]_vars
  PROVE  [Fifo!Next]_(Fifo!vars)
<1>1. /\ Messages = [i \in 1 .. count |-> items[(head + i - 1) % QUEUE_CAPACITY]]
      /\ Messages' = [i \in 1 .. count' |-> items'[(head' + i - 1) % QUEUE_CAPACITY]]
  BY DEF Messages, Window
<1>2. Len(Messages) = count
  <2>1. PICK C \in Nat \ {0} : C = QUEUE_CAPACITY
    BY BoundedQueueAssumption
  <2>2. head \in 0 .. C - 1 /\ count \in 0 .. C
    BY <2>1 DEF QueueInv
  <2>3. Len(Window(items, head, count, C)) = count
    BY <2>2, WindowType
  <2>4. QED
    BY <2>1, <2>3 DEF Messages
<1>3. ASSUME UNCHANGED ring
      PROVE  Messages' = Messages
  BY <1>3 DEF Messages, ring
<1>4. ASSUME NEW p \in Producers, queue_push(p)
      PROVE  Fifo!Next
  <2>1. PICK m \in SensorMessage : m = <<p, sequence[p]>> /\ Messages' = Append(Messages, m)
    BY <1>4, PushStep
  <2>2. ~closed /\ count < QUEUE_CAPACITY /\ result' = "ok" /\ closed' = closed /\ out' = out
    BY <1>4 DEF queue_push
  <2>3. Fifo!Put(m)
    BY <1>1, <1>2, <2>1, <2>2 DEF Fifo!Put
  <2>4. QED
    BY <2>3 DEF Fifo!Next
<1>5. ASSUME NEW c \in Consumers, queue_pop(c)
      PROVE  Fifo!Next
  <2>1. Messages # << >> /\ out' = Head(Messages) /\ Messages' = Tail(Messages)
    BY <1>5, PopStep
  <2>2. result' = "ok" /\ closed' = closed
    BY <1>5 DEF queue_pop
  <2>3. Fifo!Take
    BY <1>1, <2>1, <2>2 DEF Fifo!Take
  <2>4. QED
    BY <2>3 DEF Fifo!Next
<1>6. ASSUME NEW p \in Producers, PushClosed(p)
      PROVE  Fifo!Next
  <2>1. closed /\ closed' = closed /\ result' = "closed" /\ out' = out /\ Messages' = Messages
    BY <1>3, <1>6 DEF PushClosed, queue_close, QueueInv
  <2>2. Fifo!Refuse
    BY <1>1, <2>1 DEF Fifo!Refuse
  <2>3. QED
    BY <2>2 DEF Fifo!Next
<1>7. ASSUME NEW c \in Consumers, PopClosed(c)
      PROVE  Fifo!Next
  <2>1. closed /\ closed' = closed /\ result' = "closed" /\ out' = out /\ Messages' = Messages
    BY <1>3, <1>7 DEF PopClosed
  <2>2. Fifo!Refuse
    BY <1>1, <2>1 DEF Fifo!Refuse
  <2>3. QED
    BY <2>2 DEF Fifo!Next
<1>8. ASSUME UNCHANGED ring, closed' = TRUE, out' = out, result' = result
      PROVE  Fifo!Next
  <2>1. Messages' = Messages
    BY <1>3, <1>8
  <2>2. Fifo!Close
    BY <1>1, <1>8, <2>1 DEF Fifo!Close
  <2>3. QED
    BY <2>2 DEF Fifo!Next
<1>9. ASSUME NEW p \in Producers, ProducerClose(p)
      PROVE  Fifo!Next
  BY <1>8, <1>9 DEF ProducerClose, queue_close
<1>10. ASSUME NEW t, Fails(t)
       PROVE  Fifo!Next
  BY <1>8, <1>10 DEF Fails, queue_close
<1>11. CASE OtherStep
  <2>1. UNCHANGED <<ring, closed, out, result>>
    BY <1>11 DEF OtherStep, PushWait, ProducerReturn, PopWait, SpuriousWakeup, vars
  <2>2. Messages' = Messages
    BY <1>3, <2>1
  <2>3. UNCHANGED Fifo!vars
    BY <1>1, <2>1, <2>2 DEF Fifo!vars
  <2>4. QED
    BY <2>3
<1>12. QED
  BY <1>4, <1>5, <1>6, <1>7, <1>9, <1>10, <1>11
     DEF OtherStep, Next, producer_thread, consumer_thread

\* test/day09_bounded_queue.c: for any capacity, any number of threads and messages
\* and whoever fails, queue_push and queue_pop behave like a FIFO that can be
\* closed: nothing is lost, repeated or overtaken, never more than QUEUE_CAPACITY
\* messages wait, nothing is accepted after queue_close, nothing refused before it.
THEOREM QueueIsFifo == Spec => QueueImplementsFifo
<1>1. ASSUME Init
      PROVE  QueueInv
  <2>1. PICK C \in Nat \ {0} : C = QUEUE_CAPACITY
    BY BoundedQueueAssumption
  <2>2. 0 % C = 0 /\ 0 \in 0 .. C - 1
    OBVIOUS
  <2>3. tail = (head + count) % QUEUE_CAPACITY
    <3>1. head + count = 0 /\ tail = 0
      BY <1>1 DEF Init
    <3>2. QED
      BY <2>1, <2>2, <3>1
  <2>4. items \in [0 .. QUEUE_CAPACITY - 1 -> SensorMessage]
    BY <1>1 DEF Init, SensorMessage
  <2>5. head \in 0 .. QUEUE_CAPACITY - 1 /\ count \in 0 .. QUEUE_CAPACITY
    BY <1>1, <2>1, <2>2 DEF Init
  <2>6. closed \in BOOLEAN
    BY <1>1 DEF Init
  <2>7. sequence \in [Producers -> Nat \ {0}]
    <3>1. sequence = [p \in Producers |-> 1]
      BY <1>1 DEF Init
    <3>2. QED
      BY <3>1
  <2>8. QED
    BY <2>3, <2>4, <2>5, <2>6, <2>7 DEF QueueInv
<1>2. ASSUME Init
      PROVE  Fifo!Init
  <2>1. [i \in 1 .. count |-> items[(head + i - 1) % QUEUE_CAPACITY]] = << >>
    BY <1>2 DEF Init
  <2>2. QED
    BY <1>2, <2>1 DEF Init, Fifo!Init, SensorMessage
<1>3. QueueInv /\ [Next]_vars => QueueInv'
  BY QueueInductive
<1>4. QueueInv /\ [Next]_vars => [Fifo!Next]_(Fifo!vars)
  BY QueueSimulates
<1>5. QED
  BY <1>1, <1>2, <1>3, <1>4, PTL DEF Spec, QueueImplementsFifo, Fifo!Spec
----------------------------------------------------------------------------
(* move_semantics_demo.                                                     *)

\* No object has an array that another one has, none that is gone, and every
\* array is some object's; an object without an array is empty.
BufferInv ==
  /\ ~undefined
  /\ DOMAIN heap \subseteq Addresses
  /\ DOMAIN value = Live
  /\ \A o \in Live :
       /\ object[o] \in [size_ : Nat, data_ : DOMAIN heap \cup {nullptr}]
       /\ value[o] \in Seq(Ints) /\ object[o].size_ = Len(value[o])
       /\ value[o] = IF object[o].data_ = nullptr THEN << >> ELSE heap[object[o].data_]
  /\ \A p \in DOMAIN heap : \E o \in Live : object[o].data_ = p
  /\ \A o, q \in Live : object[o].data_ = object[q].data_ => o = q \/ object[o].data_ = nullptr

\* A new object with an array of its own, or with none and empty.
LEMMA NewObject ==
  ASSUME BufferInv, ~undefined',
         NEW o, o \notin Live, NEW c \in Seq(Ints), NEW array,
         \/ array = nullptr /\ Len(c) = 0
         \/ array \in Addresses \ DOMAIN heap,
         heap' = Stored(heap, array, c),
         object' = With(object, o, [size_ |-> Len(c), data_ |-> array]),
         value' = With(value, o, c)
  PROVE  BufferInv'
<1>1. /\ DOMAIN object' = Live \cup {o} /\ DOMAIN value' = Live \cup {o}
      /\ object'[o] = [size_ |-> Len(c), data_ |-> array] /\ value'[o] = c
      /\ \A k \in Live : object'[k] = object[k] /\ value'[k] = value[k]
  BY DEF BufferInv, Live, With
<1>2. \A k \in DOMAIN heap : k \in DOMAIN heap' /\ heap'[k] = heap[k] /\ k # array /\ k # nullptr
  <2>1. \A k \in DOMAIN heap : k # array /\ k # nullptr
    BY BufferAssumption DEF BufferInv
  <2>2. QED
    BY <2>1 DEF Stored, With
<1>3. /\ array = nullptr => DOMAIN heap' = DOMAIN heap /\ c = << >>
      /\ array # nullptr => /\ DOMAIN heap' = DOMAIN heap \cup {array}
                             /\ heap'[array] = c /\ array \in Addresses
  <2>1. array = nullptr => c = << >>
    BY BufferAssumption
  <2>2. QED
    BY <2>1 DEF Stored, With
<1>4. DOMAIN heap' \subseteq Addresses
  BY <1>3 DEF BufferInv
<1>5. ASSUME NEW k \in DOMAIN object'
      PROVE  /\ object'[k] \in [size_ : Nat, data_ : DOMAIN heap' \cup {nullptr}]
             /\ value'[k] \in Seq(Ints) /\ object'[k].size_ = Len(value'[k])
             /\ value'[k] = IF object'[k].data_ = nullptr THEN << >> ELSE heap'[object'[k].data_]
  <2>1. CASE k = o
    BY <1>1, <1>3, <2>1
  <2>2. CASE k \in Live
    BY <1>1, <1>2, <2>2 DEF BufferInv
  <2>3. QED
    BY <1>1, <2>1, <2>2
<1>6. ASSUME NEW p \in DOMAIN heap'
      PROVE  \E k \in DOMAIN object' : object'[k].data_ = p
  BY <1>1, <1>3 DEF BufferInv
<1>7. ASSUME NEW k \in DOMAIN object', NEW q \in DOMAIN object', object'[k].data_ = object'[q].data_
      PROVE  k = q \/ object'[k].data_ = nullptr
  <2>1. \A j \in Live : object'[j].data_ = nullptr \/ object'[j].data_ # array
    BY <1>1, <1>2 DEF BufferInv
  <2>2. QED
    BY <1>1, <1>7, <2>1 DEF BufferInv
<1>8. QED
  BY <1>1, <1>4, <1>5, <1>6, <1>7 DEF BufferInv, Live, nullptr

\* What New gives that is not bad_alloc.
LEMMA NewArray ==
  ASSUME NEW size \in Nat, NEW array \in New(heap, size) \ {bad_alloc}
  PROVE  \/ array = nullptr /\ size = 0
         \/ array \in Addresses \ DOMAIN heap
  BY DEF New

\* An object sees its array.
LEMMA ContentsAre ==
  ASSUME BufferInv, NEW o \in Live
  PROVE  Contents(o) = value[o] /\ ~Dangling(heap, object[o].data_)
  BY BufferAssumption DEF BufferInv, Contents, Dangling

\* A constructor keeps the invariant, also when new throws.
LEMMA ConstructorKeeps ==
  ASSUME BufferInv, NEW o, Constructor(o)
  PROVE  BufferInv'
<1>0. PICK size \in Sizes : \E array \in New(heap, size) \ {bad_alloc} :
        \E c \in [1 .. size -> Ints] :
           /\ heap' = Stored(heap, array, c)
           /\ object' = With(object, o, [size_ |-> size, data_ |-> array])
           /\ value' = With(value, o, c)
  BY DEF Constructor
<1>1. PICK array \in New(heap, size) \ {bad_alloc}, c \in [1 .. size -> Ints] :
        /\ heap' = Stored(heap, array, c)
        /\ object' = With(object, o, [size_ |-> size, data_ |-> array])
        /\ value' = With(value, o, c)
  BY <1>0
<1>2. size \in Nat
  BY BufferAssumption
<1>3. c \in Seq(Ints) /\ Len(c) = size
  BY <1>2
<1>4. (array = nullptr /\ Len(c) = 0) \/ array \in Addresses \ DOMAIN heap
  BY <1>2, <1>3, NewArray
<1>5. o \notin Live /\ ~undefined'
  BY DEF Constructor, BufferInv
<1>6. object' = With(object, o, [size_ |-> Len(c), data_ |-> array])
  BY <1>1, <1>3
<1>7. QED
  BY <1>1, <1>3, <1>4, <1>5, <1>6, NewObject

\* A copy owns an array of its own.
LEMMA CopyConstructorKeeps ==
  ASSUME BufferInv, NEW o, NEW other, CopyConstructor(o, other)
  PROVE  BufferInv'
<1>1. o \notin Live /\ other \in Live
  BY DEF CopyConstructor
<1>2. PICK c \in Seq(Ints) : c = value[other] /\ c = Contents(other) /\ Len(c) = object[other].size_
  BY <1>1, ContentsAre DEF BufferInv
<1>3. ~undefined'
  BY <1>1, ContentsAre DEF CopyConstructor, BufferInv
<1>4. PICK array \in New(heap, Len(c)) \ {bad_alloc} :
        /\ heap' = Stored(heap, array, c)
        /\ object' = With(object, o, [size_ |-> Len(c), data_ |-> array])
  BY <1>2 DEF CopyConstructor
<1>5. value' = With(value, o, c)
  BY <1>2 DEF CopyConstructor
<1>6. (array = nullptr /\ Len(c) = 0) \/ array \in Addresses \ DOMAIN heap
  <2>1. PICK n \in Nat : n = Len(c)
    OBVIOUS
  <2>2. (array = nullptr /\ n = 0) \/ array \in Addresses \ DOMAIN heap
    BY <2>1, NewArray
  <2>3. QED
    BY <2>1, <2>2
<1>7. QED
  BY <1>1, <1>3, <1>4, <1>5, <1>6, NewObject

\* The array that goes was the object's alone.
LEMMA DestructorKeeps ==
  ASSUME BufferInv, NEW o, Destructor(o)
  PROVE  BufferInv'
<1>1. o \in Live
  BY DEF Destructor
<1>2. ~undefined'
  BY <1>1, ContentsAre DEF Destructor, BufferInv
<1>3. PICK old : old = object[o].data_
  OBVIOUS
<1>4. /\ DOMAIN object' = Live \ {o} /\ DOMAIN value' = Live \ {o}
      /\ \A k \in Live \ {o} : object'[k] = object[k] /\ value'[k] = value[k]
  BY DEF Destructor, Without, Live, BufferInv
<1>5. /\ DOMAIN heap' = DOMAIN heap \ {old}
      /\ \A p \in DOMAIN heap \ {old} : heap'[p] = heap[p]
  <2>1. heap' = Deleted(heap, old)
    BY <1>3 DEF Destructor
  <2>2. nullptr \notin DOMAIN heap
    BY BufferAssumption DEF BufferInv
  <2>3. QED
    BY <2>1, <2>2 DEF Deleted, Without
<1>6. \A k \in Live \ {o} : object[k].data_ = nullptr \/ object[k].data_ \in DOMAIN heap \ {old}
  BY <1>1, <1>3 DEF BufferInv
<1>7. ASSUME NEW k \in DOMAIN object'
      PROVE  /\ object'[k] \in [size_ : Nat, data_ : DOMAIN heap' \cup {nullptr}]
             /\ value'[k] \in Seq(Ints) /\ object'[k].size_ = Len(value'[k])
             /\ value'[k] = IF object'[k].data_ = nullptr THEN << >> ELSE heap'[object'[k].data_]
  BY <1>4, <1>5, <1>6 DEF BufferInv
<1>8. ASSUME NEW p \in DOMAIN heap'
      PROVE  \E k \in DOMAIN object' : object'[k].data_ = p
  BY <1>3, <1>4, <1>5 DEF BufferInv
<1>9. ASSUME NEW k \in DOMAIN object', NEW q \in DOMAIN object', object'[k].data_ = object'[q].data_
      PROVE  k = q \/ object'[k].data_ = nullptr
  BY <1>4, <1>9 DEF BufferInv
<1>10. DOMAIN heap' \subseteq Addresses /\ DOMAIN value' = DOMAIN object'
  BY <1>4, <1>5 DEF BufferInv
<1>11. QED
  BY <1>2, <1>7, <1>8, <1>9, <1>10 DEF BufferInv, Live, nullptr

\* The new array is one that nobody has, the old one nobody else had.
LEMMA CopyAssignmentKeeps ==
  ASSUME BufferInv, NEW o, NEW other, CopyAssignment(o, other),
         ~(UNCHANGED bufferVars)
  PROVE  BufferInv'
<1>1. o \in Live /\ other \in Live /\ o # other
  BY DEF CopyAssignment
<1>2. PICK c \in Seq(Ints) : c = value[other] /\ c = Contents(other) /\ Len(c) = object[other].size_
  BY <1>1, ContentsAre DEF BufferInv
<1>3. PICK array \in New(heap, Len(c)) \ {bad_alloc} :
        /\ undefined' = (undefined \/ Dangling(heap, object[other].data_) \/ Dangling(heap, object[o].data_))
        /\ heap' = Deleted(Stored(heap, array, c), object[o].data_)
        /\ object' = [object EXCEPT ![o] = [size_ |-> Len(c), data_ |-> array]]
        /\ value' = [value EXCEPT ![o] = c]
  BY <1>1, <1>2 DEF CopyAssignment
<1>4. ~undefined'
  BY <1>1, <1>3, ContentsAre DEF BufferInv
<1>5. (array = nullptr /\ Len(c) = 0) \/ array \in Addresses \ DOMAIN heap
  <2>1. PICK n \in Nat : n = Len(c)
    OBVIOUS
  <2>2. (array = nullptr /\ n = 0) \/ array \in Addresses \ DOMAIN heap
    BY <2>1, NewArray
  <2>3. QED
    BY <2>1, <2>2
<1>6. PICK old : old = object[o].data_
  OBVIOUS
<1>7. /\ old \in DOMAIN heap \cup {nullptr} /\ nullptr \notin DOMAIN heap /\ nullptr \notin Addresses
      /\ array = nullptr => c = << >>
  BY <1>1, <1>5, <1>6, BufferAssumption DEF BufferInv
<1>8. /\ DOMAIN heap' = (DOMAIN heap \ {old}) \cup (IF array = nullptr THEN {} ELSE {array})
      /\ \A p \in DOMAIN heap \ {old} : heap'[p] = heap[p]
      /\ array # nullptr => heap'[array] = c
  <2>1. PICK s : s = Stored(heap, array, c)
    OBVIOUS
  <2>2. /\ DOMAIN s = DOMAIN heap \cup (IF array = nullptr THEN {} ELSE {array})
        /\ \A p \in DOMAIN heap : s[p] = heap[p]
        /\ array # nullptr => s[array] = c
    BY <1>5, <2>1 DEF Stored, With
  <2>3. heap' = Deleted(s, old)
    BY <1>3, <1>6, <2>1
  <2>4. array # nullptr => array # old
    BY <1>5, <1>7
  <2>5. QED
    BY <1>7, <2>2, <2>3, <2>4 DEF Deleted, Without
<1>9. /\ DOMAIN object' = Live /\ DOMAIN value' = Live
      /\ object'[o] = [size_ |-> Len(c), data_ |-> array] /\ value'[o] = c
      /\ \A k \in Live \ {o} : object'[k] = object[k] /\ value'[k] = value[k]
  BY <1>1, <1>3 DEF BufferInv, Live
<1>10. \A k \in Live \ {o} : object[k].data_ = nullptr \/ object[k].data_ \in DOMAIN heap \ {old}
  BY <1>1, <1>6 DEF BufferInv
<1>11. ASSUME NEW k \in DOMAIN object'
       PROVE  /\ object'[k] \in [size_ : Nat, data_ : DOMAIN heap' \cup {nullptr}]
              /\ value'[k] \in Seq(Ints) /\ object'[k].size_ = Len(value'[k])
              /\ value'[k] = IF object'[k].data_ = nullptr THEN << >> ELSE heap'[object'[k].data_]
  <2>1. CASE k = o
    BY <1>7, <1>8, <1>9, <2>1
  <2>2. CASE k \in Live \ {o}
    BY <1>8, <1>9, <1>10, <2>2 DEF BufferInv
  <2>3. QED
    BY <1>9, <2>1, <2>2
<1>12. ASSUME NEW p \in DOMAIN heap'
       PROVE  \E k \in DOMAIN object' : object'[k].data_ = p
  <2>1. CASE p \in DOMAIN heap \ {old}
    BY <1>6, <1>9, <2>1 DEF BufferInv
  <2>2. CASE p = array
    BY <1>1, <1>9, <2>2
  <2>3. QED
    BY <1>8, <2>1, <2>2
<1>13. ASSUME NEW k \in DOMAIN object', NEW q \in DOMAIN object', object'[k].data_ = object'[q].data_
       PROVE  k = q \/ object'[k].data_ = nullptr
  <2>1. \A j \in Live \ {o} : object'[j].data_ = nullptr \/ object'[j].data_ # array
    BY <1>5, <1>7, <1>9, <1>10
  <2>2. QED
    BY <1>9, <1>13, <2>1 DEF BufferInv
<1>14. DOMAIN heap' \subseteq Addresses /\ DOMAIN value' = DOMAIN object'
  BY <1>5, <1>8, <1>9 DEF BufferInv
<1>15. QED
  BY <1>4, <1>11, <1>12, <1>13, <1>14 DEF BufferInv, Live, nullptr

\* The array changes hands; its old owner has none.
LEMMA MoveConstructorKeeps ==
  ASSUME BufferInv, NEW o, NEW other, MoveConstructor(o, other)
  PROVE  BufferInv'
<1>1. o \notin Live /\ other \in Live /\ o # other
  BY DEF MoveConstructor
<1>2. PICK moved : moved = [object EXCEPT ![other] = [size_ |-> 0, data_ |-> nullptr]]
  OBVIOUS
<1>3. PICK left : left = [value EXCEPT ![other] = << >>]
  OBVIOUS
<1>4. /\ DOMAIN moved = Live /\ moved[other] = [size_ |-> 0, data_ |-> nullptr]
      /\ \A k \in Live \ {other} : moved[k] = object[k]
  BY <1>1, <1>2 DEF Live
<1>5. /\ DOMAIN left = Live /\ left[other] = << >>
      /\ \A k \in Live \ {other} : left[k] = value[k]
  BY <1>1, <1>3 DEF BufferInv
<1>6. /\ object' = With(moved, o, object[other]) /\ value' = With(left, o, value[other])
      /\ heap' = heap /\ undefined' = undefined
  BY <1>2, <1>3 DEF MoveConstructor
<1>7. /\ DOMAIN object' = Live \cup {o} /\ DOMAIN value' = Live \cup {o}
      /\ object'[o] = object[other] /\ value'[o] = value[other]
      /\ object'[other] = [size_ |-> 0, data_ |-> nullptr] /\ value'[other] = << >>
      /\ \A k \in Live \ {other} : object'[k] = object[k] /\ value'[k] = value[k]
  BY <1>1, <1>4, <1>5, <1>6 DEF With
<1>8. ASSUME NEW k \in DOMAIN object'
      PROVE  /\ object'[k] \in [size_ : Nat, data_ : DOMAIN heap' \cup {nullptr}]
             /\ value'[k] \in Seq(Ints) /\ object'[k].size_ = Len(value'[k])
             /\ value'[k] = IF object'[k].data_ = nullptr THEN << >> ELSE heap'[object'[k].data_]
  <2>1. CASE k = o
    BY <1>1, <1>6, <1>7, <2>1 DEF BufferInv
  <2>2. CASE k = other
    <3>1. << >> \in Seq(Ints) /\ Len(<< >>) = 0
      OBVIOUS
    <3>2. [size_ |-> 0, data_ |-> nullptr] \in [size_ : Nat, data_ : DOMAIN heap' \cup {nullptr}]
      OBVIOUS
    <3>3. /\ object'[k] = [size_ |-> 0, data_ |-> nullptr] /\ value'[k] = << >>
          /\ object'[k].size_ = 0 /\ object'[k].data_ = nullptr
      BY <1>7, <2>2
    <3>4. QED
      BY <3>1, <3>2, <3>3
  <2>3. CASE k \in Live \ {other}
    BY <1>6, <1>7, <2>3 DEF BufferInv
  <2>4. QED
    BY <1>7, <2>1, <2>2, <2>3
<1>9. ASSUME NEW p \in DOMAIN heap'
      PROVE  \E k \in DOMAIN object' : object'[k].data_ = p
  <2>1. PICK k \in Live : object[k].data_ = p
    BY <1>6 DEF BufferInv
  <2>2. QED
    BY <1>7, <2>1
<1>10. ASSUME NEW k \in DOMAIN object', NEW q \in DOMAIN object', object'[k].data_ = object'[q].data_
       PROVE  k = q \/ object'[k].data_ = nullptr
  <2>1. \A j \in Live \ {other} : object'[j].data_ = nullptr \/ object'[j].data_ # object'[o].data_
    <3>1. \A j \in Live \ {other} : object[j].data_ = nullptr \/ object[j].data_ # object[other].data_
      BY <1>1 DEF BufferInv
    <3>2. QED
      BY <1>7, <3>1
  <2>2. QED
    BY <1>7, <1>10, <2>1 DEF BufferInv
<1>11. QED
  BY <1>6, <1>7, <1>8, <1>9, <1>10 DEF BufferInv, Live, nullptr

\* Move assignment frees the old array and takes over the other's.
LEMMA MoveAssignmentKeeps ==
  ASSUME BufferInv, NEW o, NEW other, MoveAssignment(o, other),
         ~(UNCHANGED bufferVars)
  PROVE  BufferInv'
<1>1. o \in Live /\ other \in Live /\ o # other
  BY DEF MoveAssignment
<1>2. ~undefined'
  BY <1>1, ContentsAre DEF MoveAssignment, BufferInv
<1>3. PICK old : old = object[o].data_
  OBVIOUS
<1>4. /\ DOMAIN heap' = DOMAIN heap \ {old}
      /\ \A p \in DOMAIN heap \ {old} : heap'[p] = heap[p]
  <2>1. heap' = Deleted(heap, old)
    BY <1>1, <1>3 DEF MoveAssignment
  <2>2. nullptr \notin DOMAIN heap
    BY BufferAssumption DEF BufferInv
  <2>3. QED
    BY <2>1, <2>2 DEF Deleted, Without
<1>5. /\ object' = [object EXCEPT ![o] = object[other], ![other] = [size_ |-> 0, data_ |-> nullptr]]
      /\ value' = [value EXCEPT ![o] = value[other], ![other] = << >>]
  BY <1>1 DEF MoveAssignment
<1>6. /\ DOMAIN object' = Live /\ DOMAIN value' = Live
      /\ object'[o] = object[other] /\ value'[o] = value[other]
      /\ object'[other] = [size_ |-> 0, data_ |-> nullptr] /\ value'[other] = << >>
      /\ \A k \in Live \ {o, other} : object'[k] = object[k] /\ value'[k] = value[k]
  BY <1>1, <1>5 DEF BufferInv, Live
<1>7. \A k \in Live \ {o} : object[k].data_ = nullptr \/ object[k].data_ \in DOMAIN heap \ {old}
  BY <1>1, <1>3 DEF BufferInv
<1>8. ASSUME NEW k \in DOMAIN object'
      PROVE  /\ object'[k] \in [size_ : Nat, data_ : DOMAIN heap' \cup {nullptr}]
             /\ value'[k] \in Seq(Ints) /\ object'[k].size_ = Len(value'[k])
             /\ value'[k] = IF object'[k].data_ = nullptr THEN << >> ELSE heap'[object'[k].data_]
  <2>1. CASE k = o
    BY <1>1, <1>4, <1>6, <1>7, <2>1 DEF BufferInv
  <2>2. CASE k = other
    <3>1. << >> \in Seq(Ints) /\ Len(<< >>) = 0
      OBVIOUS
    <3>2. [size_ |-> 0, data_ |-> nullptr] \in [size_ : Nat, data_ : DOMAIN heap' \cup {nullptr}]
      OBVIOUS
    <3>3. /\ object'[k] = [size_ |-> 0, data_ |-> nullptr] /\ value'[k] = << >>
          /\ object'[k].size_ = 0 /\ object'[k].data_ = nullptr
      BY <1>6, <2>2
    <3>4. QED
      BY <3>1, <3>2, <3>3
  <2>3. CASE k \in Live \ {o, other}
    BY <1>4, <1>6, <1>7, <2>3 DEF BufferInv
  <2>4. QED
    BY <1>6, <2>1, <2>2, <2>3
<1>9. ASSUME NEW p \in DOMAIN heap'
      PROVE  \E k \in DOMAIN object' : object'[k].data_ = p
  <2>1. PICK k \in Live : object[k].data_ = p
    BY <1>4 DEF BufferInv
  <2>2. k # o
    BY <1>3, <1>4, <2>1
  <2>3. QED
    BY <1>1, <1>6, <2>1, <2>2
<1>10. ASSUME NEW k \in DOMAIN object', NEW q \in DOMAIN object', object'[k].data_ = object'[q].data_
       PROVE  k = q \/ object'[k].data_ = nullptr
  <2>1. \A i, j \in Live : object[i].data_ = object[j].data_ => i = j \/ object[i].data_ = nullptr
    BY DEF BufferInv
  <2>2. object'[other].data_ = nullptr
    BY <1>6
  <2>3. CASE k = o
    <3>1. CASE q \in Live \ {o, other}
      BY <1>1, <1>6, <1>10, <2>1, <2>3, <3>1
    <3>2. QED
      BY <1>6, <1>10, <2>2, <2>3, <3>1
  <2>4. CASE k \in Live \ {o, other}
    <3>1. CASE q = o
      BY <1>1, <1>6, <1>10, <2>1, <2>4, <3>1
    <3>2. CASE q \in Live \ {o, other}
      BY <1>6, <1>10, <2>1, <2>4, <3>2
    <3>3. QED
      BY <1>6, <1>10, <2>2, <3>1, <3>2
  <2>5. QED
    BY <1>6, <2>2, <2>3, <2>4
<1>11. DOMAIN heap' \subseteq Addresses /\ DOMAIN value' = DOMAIN object'
  BY <1>4, <1>6 DEF BufferInv
<1>12. QED
  BY <1>2, <1>8, <1>9, <1>10, <1>11 DEF BufferInv, Live, nullptr

\* The five special members of Buffer keep ownership unique, for any number of
\* objects, sizes and addresses: after any constructions, copies, moves,
\* assignments, destructions and failed allocations every live array has exactly
\* one owner, no Buffer points at an array that was deleted, none is deleted
\* twice, and every copy equals what it was copied from.
THEOREM ArraysAreOwnedOnce == BufferSpec => []OwnedOnce
<1>1. ASSUME BufferInit
      PROVE  BufferInv
  <2>1. DOMAIN object = {} /\ DOMAIN heap = {} /\ DOMAIN value = {} /\ ~undefined
    BY <1>1 DEF BufferInit
  <2>2. QED
    BY <2>1 DEF BufferInv, Live
<1>2. ASSUME BufferInv, [BufferNext]_bufferVars
      PROVE  BufferInv'
  <2>1. CASE UNCHANGED bufferVars
    BY <1>2, <2>1 DEF bufferVars, BufferInv, Live, nullptr
  <2>2. CASE ~(UNCHANGED bufferVars)
    BY <1>2, <2>2, ConstructorKeeps, DestructorKeeps, CopyConstructorKeeps, MoveConstructorKeeps,
       CopyAssignmentKeeps, MoveAssignmentKeeps DEF BufferNext
  <2>3. QED
    BY <2>1, <2>2
<1>3. ASSUME BufferInv
      PROVE  OwnedOnce
  <2>1. ASSUME NEW p \in DOMAIN heap
        PROVE  \E o \in Live : Owners(p) = {o}
    <3>1. PICK o \in Live : object[o].data_ = p
      BY <1>3 DEF BufferInv
    <3>2. p # nullptr
      BY <1>3, BufferAssumption DEF BufferInv
    <3>3. Owners(p) = {o}
      BY <1>3, <3>1, <3>2 DEF BufferInv, Owners
    <3>4. QED
      BY <3>3
  <2>2. \A o \in Live : /\ ~Dangling(heap, object[o].data_)
                          /\ object[o].size_ = Len(value[o]) /\ Contents(o) = value[o]
    BY <1>3, ContentsAre DEF BufferInv
  <2>3. ~undefined
    BY <1>3 DEF BufferInv
  <2>4. QED
    BY <2>1, <2>2, <2>3 DEF OwnedOnce
<1>4. QED
  BY <1>1, <1>2, <1>3, PTL DEF BufferSpec

----------------------------------------------------------------------------
(* LogManager under any calls.                                              *)

Levels == {"Info", "Error"}

CallRecord == [op : {"log", "limit", "flush", "console", "clear", "reset"},
               arg : Levels \cup Limits \cup BOOLEAN \cup {0},
               open : BOOLEAN]

LoggerRecord == [open : BOOLEAN, consoleEnabled : BOOLEAN, autoFlush : BOOLEAN,
                 maxCachedLogs : Nat, recentLogs : Seq(Nat), logCounts : [LogLevel -> Nat]]

LoggerType ==
  /\ logger \in LoggerRecord
  /\ disk \in Seq(Nat) /\ unflushed \in Seq(Nat)
  /\ calls \in Seq(CallRecord)
  /\ alive \in BOOLEAN

Rising(s) == \A p, q \in 1 .. Len(s) : p < q => s[p] < s[q]

Has(s, x) == \E p \in 1 .. Len(s) : s[p] = x

\* A larger number at the end.
LEMMA RisingAppend ==
  ASSUME NEW s \in Seq(Nat), NEW x \in Nat, Rising(s), \A p \in 1 .. Len(s) : s[p] < x
  PROVE  /\ Append(s, x) \in Seq(Nat)
         /\ Rising(Append(s, x))
         /\ \A y : Has(Append(s, x), y) <=> Has(s, y) \/ y = x
<1>1. PICK t \in Seq(Nat) : t = Append(s, x)
  BY AppendProperties
<1>2. /\ Len(s) \in Nat /\ Len(t) = Len(s) + 1
      /\ \A p \in 1 .. Len(s) : t[p] = s[p] /\ s[p] \in Nat
      /\ t[Len(s) + 1] = x
  BY <1>1, AppendProperties, LenProperties
<1>3. Rising(t)
  <2>1. ASSUME NEW p \in 1 .. Len(t), NEW q \in 1 .. Len(t), p < q PROVE t[p] < t[q]
    <3>1. p \in 1 .. Len(s)
      BY <2>1, <1>2
    <3>2. CASE q \in 1 .. Len(s)
      BY <2>1, <3>1, <3>2, <1>2 DEF Rising
    <3>3. CASE q = Len(s) + 1
      BY <3>1, <3>3, <1>2
    <3>4. QED
      BY <3>2, <3>3, <1>2
  <2>2. QED
    BY <2>1 DEF Rising
<1>4. ASSUME NEW y PROVE Has(t, y) <=> Has(s, y) \/ y = x
  <2>1. Has(s, y) => Has(t, y)
    BY <1>2 DEF Has
  <2>2. Len(s) + 1 \in 1 .. Len(t)
    BY <1>2
  <2>3. Has(t, x)
    BY <2>2, <1>2 DEF Has
  <2>4. ASSUME NEW p \in 1 .. Len(t), t[p] = y PROVE Has(s, y) \/ y = x
    <3>1. p \in 1 .. Len(s) \/ p = Len(s) + 1
      BY <1>2
    <3>2. QED
      BY <3>1, <2>4, <1>2 DEF Has
  <2>5. QED
    BY <2>1, <2>3, <2>4 DEF Has
<1>5. QED
  BY <1>1, <1>3, <1>4

\* Appending to the second of two parts appends to the whole.
LEMMA ConcatAppend ==
  ASSUME NEW s \in Seq(Nat), NEW t \in Seq(Nat), NEW x \in Nat
  PROVE  s \o Append(t, x) = Append(s \o t, x)
<1>1. PICK u \in Seq(Nat) : u = Append(t, x)
  BY AppendProperties
<1>2. PICK v \in Seq(Nat) : v = s \o t
  BY ConcatProperties
<1>3. PICK a \in Seq(Nat) : a = s \o u
  BY ConcatProperties
<1>4. PICK b \in Seq(Nat) : b = Append(v, x)
  BY AppendProperties
<1>5. PICK m \in Nat, n \in Nat : m = Len(s) /\ n = Len(t)
  BY LenProperties
<1>6. PICK k \in Nat, l \in Nat : k = n + 1 /\ l = m + n
  OBVIOUS
<1>7. Len(u) = k /\ u[k] = x /\ \A i \in 1 .. n : u[i] = t[i]
  BY <1>1, <1>5, <1>6, AppendProperties
<1>8. Len(v) = l /\ \A i \in 1 .. l : v[i] = IF i <= m THEN s[i] ELSE t[i - m]
  BY <1>2, <1>5, <1>6, ConcatProperties
<1>9. /\ Len(a) = m + k
      /\ \A i \in 1 .. m + k : a[i] = IF i <= m THEN s[i] ELSE u[i - m]
  <2>1. Len(s \o u) = Len(s) + Len(u)
    BY ConcatProperties
  <2>2. \A i \in 1 .. Len(s) + Len(u) : (s \o u)[i] = IF i <= Len(s) THEN s[i] ELSE u[i - Len(s)]
    BY ConcatProperties
  <2>3. QED
    BY <2>1, <2>2, <1>3, <1>5, <1>7
<1>10. Len(b) = l + 1 /\ b[l + 1] = x /\ \A i \in 1 .. l : b[i] = v[i]
  <2>1. Len(b) = Len(v) + 1 /\ b[Len(v) + 1] = x /\ \A i \in 1 .. Len(v) : b[i] = v[i]
    BY <1>4, AppendProperties
  <2>2. QED
    BY <2>1, <1>8
<1>11. m + k = l + 1 /\ m <= l
  BY <1>6
<1>12. ASSUME NEW i \in 1 .. l + 1 PROVE a[i] = b[i]
  <2>1. CASE i <= m
    <3>1. i \in 1 .. l /\ i \in 1 .. m + k
      BY <2>1, <1>11
    <3>2. a[i] = s[i]
      BY <2>1, <3>1, <1>9
    <3>3. b[i] = s[i]
      BY <2>1, <3>1, <1>8, <1>10
    <3>4. QED
      BY <3>2, <3>3
  <2>2. CASE m < i /\ i <= l
    <3>1. i \in 1 .. l /\ i \in 1 .. m + k /\ i - m \in 1 .. n /\ ~(i <= m)
      BY <2>2, <1>6, <1>11
    <3>2. a[i] = u[i - m] /\ u[i - m] = t[i - m]
      BY <3>1, <1>7, <1>9
    <3>3. b[i] = v[i] /\ v[i] = t[i - m]
      BY <3>1, <1>8, <1>10
    <3>4. QED
      BY <3>2, <3>3
  <2>3. CASE i = l + 1
    <3>1. i - m = k /\ ~(i <= m) /\ i \in 1 .. m + k
      BY <2>3, <1>6, <1>11
    <3>2. a[i] = u[i - m]
      BY <3>1, <1>9
    <3>3. QED
      BY <2>3, <3>1, <3>2, <1>7, <1>10
  <2>4. QED
    BY <2>1, <2>2, <2>3
<1>13. a = b
  BY <1>9, <1>10, <1>11, <1>12, SeqEqual
<1>14. QED
  BY <1>1, <1>2, <1>3, <1>4, <1>13

\* What the record and the history are after a call.
LEMMA CallEffect ==
  ASSUME LoggerType, NEW op \in {"log", "limit", "flush", "console", "clear", "reset"},
         NEW arg \in Levels \cup Limits \cup BOOLEAN \cup {0}, Call(op, arg)
  PROVE  /\ alive /\ alive' = alive
         /\ calls' = Append(calls, [op |-> op, arg |-> arg, open |-> logger.open])
         /\ calls' \in Seq(CallRecord)
         /\ Len(calls') = Len(calls) + 1
         /\ calls'[Len(calls) + 1] = [op |-> op, arg |-> arg, open |-> logger.open]
         /\ \A i \in 1 .. Len(calls) : calls'[i] = calls[i]
<1>1. [op |-> op, arg |-> arg, open |-> logger.open] \in CallRecord
  BY DEF LoggerType, LoggerRecord, CallRecord
<1>2. alive /\ alive' = alive
      /\ calls' = Append(calls, [op |-> op, arg |-> arg, open |-> logger.open])
  BY DEF Call
<1>3. calls \in Seq(CallRecord)
  BY DEF LoggerType
<1>4. QED
  BY <1>1, <1>2, <1>3, AppendProperties

\* A set of numbers that is not empty has a least one.
LEMMA LeastNat ==
  ASSUME NEW T \in SUBSET Nat, T # {}
  PROVE  \E m \in T : \A k \in T : m <= k
<1>1. PICK R : R = OpToRel(<, Nat)
  OBVIOUS
<1>2. IsWellFoundedOn(R, Nat)
  BY <1>1, NatLessThanWellFounded
<1>3. PICK m \in T : \A k \in T : ~ (<<k, m>> \in R)
  BY <1>2, WFMin
<1>4. ASSUME NEW k \in T PROVE m <= k
  <2>1. ~ (k < m)
    BY <1>1, <1>3 DEF OpToRel
  <2>2. QED
    BY <2>1
<1>5. QED
  BY <1>3, <1>4

\* A set of numbers with a bound has a largest one.
LEMMA LargestOf ==
  ASSUME NEW n \in Nat, NEW S \in SUBSET (1 .. n), S # {}
  PROVE  \E m \in S : \A k \in S : k <= m
<1>1. PICK T \in SUBSET Nat : T = {m \in Nat : \A k \in S : k <= m}
  OBVIOUS
<1>2. n \in T
  BY <1>1
<1>3. PICK m \in T : \A k \in T : m <= k
  BY <1>2, LeastNat
<1>4. m \in Nat /\ \A k \in S : k \in Nat /\ k >= 1 /\ k <= m
  BY <1>1, <1>3
<1>5. CASE m \in S
  BY <1>4, <1>5
<1>6. CASE m \notin S
  <2>1. PICK k \in S : TRUE
    OBVIOUS
  <2>2. m - 1 \in Nat
    BY <1>4, <2>1
  <2>3. \A j \in S : j <= m - 1
    BY <1>4, <1>6
  <2>4. m - 1 \in T
    BY <1>1, <2>2, <2>3
  <2>5. QED
    BY <1>3, <1>4, <2>4
<1>7. QED
  BY <1>5, <1>6

\* r is s without its first d elements.
AllButFirst(r, s, d) ==
  /\ r \in Seq(Nat) /\ d <= Len(s) /\ Len(r) = Len(s) - d
  /\ \A p \in 1 .. Len(s) - d : r[p] = s[p + d]

\* Newest drops lines from the front only.
LEMMA NewestIs ==
  ASSUME NEW s \in Seq(Nat), NEW n \in Nat, NEW d \in Nat,
         d = IF Len(s) > n THEN Len(s) - n ELSE 0
  PROVE  AllButFirst(Newest(s, n), s, d)
<1>1. PICK l \in Nat : l = Len(s)
  BY LenProperties
<1>2. CASE l > n
  <2>1. PICK a \in Int : a = l - n + 1
    OBVIOUS
  <2>2. l \in Int /\ \A i \in a .. l : s[i] \in Nat
    BY <2>1, <1>1, <1>2, LenProperties
  <2>3. /\ SubSeq(s, a, l) \in Seq(Nat)
        /\ Len(SubSeq(s, a, l)) = IF a <= l THEN l - a + 1 ELSE 0
        /\ \A i \in 1 .. l - a + 1 : SubSeq(s, a, l)[i] = s[a + i - 1]
    BY <2>2, SubSeqProperties
  <2>4. d = l - n /\ l - a + 1 = n /\ l - d = n /\ (l - a + 1 > 0 => a <= l)
    BY <1>1, <1>2, <2>1
  <2>5. Newest(s, n) = SubSeq(s, a, l)
    BY <1>1, <1>2, <2>1 DEF Newest
  <2>6. Len(SubSeq(s, a, l)) = n
    BY <2>1, <2>3, <2>4
  <2>7. \A p \in 1 .. n : a + p - 1 = p + d
    BY <2>1, <2>4
  <2>8. \A p \in 1 .. n : SubSeq(s, a, l)[p] = s[a + p - 1]
    BY <2>3, <2>4
  <2>9. \A p \in 1 .. n : SubSeq(s, a, l)[p] = s[p + d]
    BY <2>7, <2>8
  <2>10. d <= l
    BY <1>2, <2>4
  <2>11. QED
    BY <1>1, <2>3, <2>4, <2>5, <2>6, <2>9, <2>10 DEF AllButFirst
<1>3. CASE ~(l > n)
  <2>1. d = 0 /\ Newest(s, n) = s
    BY <1>1, <1>3 DEF Newest
  <2>2. l - 0 = l /\ 0 <= l /\ \A p \in 1 .. l : p + 0 = p
    OBVIOUS
  <2>3. QED
    BY <1>1, <2>1, <2>2 DEF AllButFirst
<1>4. QED
  BY <1>2, <1>3

\* The lines of a rising sequence behind position p, counted.
LEMMA CountBehind ==
  ASSUME NEW s \in Seq(Nat), Rising(s), NEW p \in 1 .. Len(s)
  PROVE  /\ IsFiniteSet({s[q] : q \in p + 1 .. Len(s)})
         /\ Cardinality({s[q] : q \in p + 1 .. Len(s)}) = Len(s) - p
<1> DEFINE S == {s[q] : q \in p + 1 .. Len(s)}
<1>0. \A x : x \in S <=> \E q \in p + 1 .. Len(s) : s[q] = x
  OBVIOUS
<1> HIDE DEF S
<1>1. PICK m \in Nat : m = Len(s) - p
  BY LenProperties
<1>2. Len(s) \in Nat /\ p \in Nat /\ p + m = Len(s) /\ \A k \in 1 .. m : p + k \in p + 1 .. Len(s)
  BY <1>1, LenProperties
<1>3. PICK f : f = [k \in 1 .. m |-> s[p + k]]
  OBVIOUS
<1>4. f \in [1 .. m -> S]
  BY <1>0, <1>2, <1>3
<1>5. \A k, j \in 1 .. m : f[k] = f[j] => k = j
  <2>1. ASSUME NEW k \in 1 .. m, NEW j \in 1 .. m, k < j PROVE f[k] < f[j] /\ f[k] \in Nat
    <3>1. p + k \in 1 .. Len(s) /\ p + j \in 1 .. Len(s) /\ p + k < p + j
      BY <2>1, <1>2
    <3>2. s[p + k] < s[p + j] /\ s[p + k] \in Nat
      BY <3>1, LenProperties DEF Rising
    <3>3. QED
      BY <3>2, <1>3
  <2>2. QED
    BY <2>1
<1>6. ASSUME NEW x \in S PROVE \E k \in 1 .. m : f[k] = x
  <2>1. PICK q \in p + 1 .. Len(s) : s[q] = x
    BY <1>0
  <2>2. PICK k \in Nat : k = q - p
    BY <1>2
  <2>3. k \in 1 .. m /\ p + k = q
    BY <1>2, <2>2
  <2>4. QED
    BY <1>3, <2>1, <2>3
<1>7. f \in Bijection(1 .. m, S)
  BY <1>4, <1>5, <1>6 DEF Bijection, Injection, Surjection, IsInjective
<1>8. ExistsBijection(1 .. m, S)
  BY <1>7 DEF ExistsBijection
<1>9. IsFiniteSet(S) /\ Cardinality(S) = Len(s) - p
  BY <1>1, <1>8, FS_CountingElements, FS_NatBijection
<1>10. QED
  BY <1>9 DEF S

----------------------------------------------------------------------------
(* What one call adds to the history.                                       *)

Extended == /\ calls \in Seq(CallRecord) /\ calls' \in Seq(CallRecord)
            /\ Len(calls') = Len(calls) + 1
            /\ \A i \in 1 .. Len(calls) : calls'[i] = calls[i]

\* The limit in force at an earlier call is not changed by a later one.
LEMMA LimitKept ==
  ASSUME Extended, NEW j \in 0 .. Len(calls)
  PROVE  LimitAt(j)' = LimitAt(j)
<1>1. Len(calls) \in Nat /\ \A k \in 1 .. j : calls'[k] = calls[k]
  BY LenProperties DEF Extended
<1>2. PICK S : S = {k \in 1 .. j : calls[k].op = "limit"}
  OBVIOUS
<1>3. S = {k \in 1 .. j : calls'[k].op = "limit"}
  BY <1>1, <1>2
<1>4. CASE S = {}
  BY <1>2, <1>3, <1>4 DEF LimitAt
<1>5. CASE S # {}
  <2>1. PICK c : c = CHOOSE m \in S : \A k \in S : k <= m
    OBVIOUS
  <2>2. \E m \in S : \A k \in S : k <= m
    <3>1. j \in Nat /\ S \in SUBSET (1 .. j)
      BY <1>1, <1>2
    <3>2. QED
      BY <3>1, <1>5, LargestOf
  <2>3. c \in S
    BY <2>1, <2>2
  <2>4. LimitAt(j) = calls[c].arg
    BY <1>2, <1>5, <2>1 DEF LimitAt
  <2>5. LimitAt(j)' = calls'[c].arg
    BY <1>3, <1>5, <2>1 DEF LimitAt
  <2>6. QED
    BY <1>1, <1>2, <2>3, <2>4, <2>5
<1>6. QED
  BY <1>4, <1>5

\* The limit in force after the new call.
LEMMA LimitNow ==
  ASSUME Extended, NEW n \in Nat, n = Len(calls)
  PROVE  LimitAt(n + 1)' = IF calls'[n + 1].op = "limit" THEN calls'[n + 1].arg
                                                         ELSE LimitAt(n)
<1>1. PICK S : S = {k \in 1 .. n + 1 : calls'[k].op = "limit"}
  OBVIOUS
<1>2. CASE calls'[n + 1].op = "limit"
  <2>1. n + 1 \in S /\ \A k \in S : k \in Nat /\ k <= n + 1
    BY <1>1, <1>2
  <2>2. PICK c : c = CHOOSE m \in S : \A k \in S : k <= m
    OBVIOUS
  <2>3. c \in S /\ \A k \in S : k <= c
    BY <2>1, <2>2
  <2>4. c = n + 1
    BY <2>1, <2>3
  <2>5. LimitAt(n + 1)' = calls'[c].arg
    BY <1>1, <2>1, <2>2 DEF LimitAt
  <2>6. QED
    BY <1>2, <2>4, <2>5
<1>3. CASE calls'[n + 1].op # "limit"
  <2>1. S = {k \in 1 .. n : calls'[k].op = "limit"}
    <3>1. \A k \in 1 .. n + 1 : k \in 1 .. n \/ k = n + 1
      OBVIOUS
    <3>2. \A k \in 1 .. n : k \in 1 .. n + 1
      OBVIOUS
    <3>3. QED
      BY <1>1, <1>3, <3>1, <3>2
  <2>2. LimitAt(n + 1)' = LimitAt(n)'
    <3>1. LimitAt(n + 1)' = IF S = {} THEN InitialMax
                            ELSE calls'[CHOOSE j \in S : \A k \in S : k <= j].arg
      BY <1>1 DEF LimitAt
    <3>2. LimitAt(n)' = IF S = {} THEN InitialMax
                        ELSE calls'[CHOOSE j \in S : \A k \in S : k <= j].arg
      BY <2>1 DEF LimitAt
    <3>3. QED
      BY <3>1, <3>2
  <2>3. n \in 0 .. Len(calls)
    OBVIOUS
  <2>4. QED
    BY <1>3, <2>2, <2>3, LimitKept
<1>4. QED
  BY <1>2, <1>3

\* The lines between two earlier calls stay the same; a new line comes behind
\* all of them.
LEMMA BetweenKept ==
  ASSUME Extended, NEW n \in Nat, n = Len(calls), NEW i \in 1 .. n
  PROVE  /\ \A j \in i .. n : LogsBetween(i, j)' = LogsBetween(i, j)
         /\ LogsBetween(i, n + 1)' = LogsBetween(i, n) \cup
               (IF calls'[n + 1].op = "log" THEN {n + 1} ELSE {})
<1>1. \A k \in 1 .. n : calls'[k] = calls[k]
  BY DEF Extended
<1>2. \A j \in i .. n : LogsBetween(i, j)' = LogsBetween(i, j)
  <2>1. ASSUME NEW j \in i .. n PROVE LogsBetween(i, j)' = LogsBetween(i, j)
    <3>1. \A k \in (i + 1) .. j : k \in 1 .. n
      OBVIOUS
    <3>2. QED
      BY <1>1, <3>1 DEF LogsBetween, IsLog
  <2>2. QED
    BY <2>1
<1>3. LogsBetween(i, n + 1)' = LogsBetween(i, n) \cup
               (IF calls'[n + 1].op = "log" THEN {n + 1} ELSE {})
  <2>1. \A k : k \in (i + 1) .. (n + 1) <=> k \in (i + 1) .. n \/ k = n + 1
    OBVIOUS
  <2>2. \A k \in (i + 1) .. n : k \in 1 .. n
    OBVIOUS
  <2>3. LogsBetween(i, n + 1)' = {k \in (i + 1) .. (n + 1) : calls'[k].op = "log"}
    BY DEF LogsBetween, IsLog
  <2>4. LogsBetween(i, n) = {k \in (i + 1) .. n : calls[k].op = "log"}
    BY DEF LogsBetween, IsLog
  <2>5. QED
    BY <1>1, <2>1, <2>2, <2>3, <2>4
<1>4. QED
  BY <1>2, <1>3

\* A line stays in the cache if it was there, the call does not clear the cache
\* and fewer lines than the limit follow it.
LEMMA CachedStep ==
  ASSUME Extended, NEW n \in Nat, n = Len(calls), NEW i \in 1 .. n
  PROVE  Cached(i)' <=> /\ Cached(i)
                        /\ calls'[n + 1].op /= "clear"
                        /\ Cardinality(LogsBetween(i, n + 1)') < LimitAt(n + 1)'
<1>1. \A k \in 1 .. n : calls'[k] = calls[k]
  BY DEF Extended
<1>2. Len(calls') = n + 1
  BY DEF Extended
<1>3. \A j \in i .. n + 1 : j \in i .. n \/ j = n + 1
  OBVIOUS
<1>4. i \in i .. n + 1 /\ n + 1 \in i .. n + 1 /\ \A j \in i .. n : j \in i .. n + 1 /\ j \in 1 .. n
  OBVIOUS
<1>5. \A j \in i .. n : Cardinality(LogsBetween(i, j)') = Cardinality(LogsBetween(i, j))
  BY BetweenKept
<1>6. \A j \in i .. n : LimitAt(j)' = LimitAt(j)
  <2>1. \A j \in i .. n : j \in 0 .. Len(calls)
    OBVIOUS
  <2>2. QED
    BY <2>1, LimitKept
<1>7. IsLog(i)' <=> IsLog(i)
  BY <1>1 DEF IsLog
<1>8. Cached(i)' <=> /\ IsLog(i)'
                     /\ \A j \in i .. n + 1 :
                          /\ calls'[j].op /= "clear"
                          /\ Cardinality(LogsBetween(i, j)') < LimitAt(j)'
  BY <1>2 DEF Cached
<1>9. Cached(i) <=> /\ IsLog(i)
                    /\ \A j \in i .. n :
                         /\ calls[j].op /= "clear"
                         /\ Cardinality(LogsBetween(i, j)) < LimitAt(j)
  BY DEF Cached
<1>10. ASSUME NEW j \in i .. n
       PROVE  /\ calls'[j].op = calls[j].op
              /\ Cardinality(LogsBetween(i, j)') < LimitAt(j)'
                   <=> Cardinality(LogsBetween(i, j)) < LimitAt(j)
  BY <1>1, <1>4, <1>5, <1>6
<1>11. QED
  BY <1>3, <1>4, <1>7, <1>8, <1>9, <1>10

----------------------------------------------------------------------------
(* The cache.                                                               *)

\* The cache is the end of the sequence of all lines, no longer than the limit.
CacheInv ==
  /\ Rising(logger.recentLogs)
  /\ \A p \in 1 .. Len(logger.recentLogs) :
        /\ logger.recentLogs[p] \in 1 .. Len(calls)
        /\ IsLog(logger.recentLogs[p])
  /\ \A p \in 1 .. Len(logger.recentLogs), k \in 1 .. Len(calls) :
        IsLog(k) /\ k > logger.recentLogs[p] => Has(logger.recentLogs, k)
  /\ Len(logger.recentLogs) <= logger.maxCachedLogs
  /\ logger.maxCachedLogs = LimitAt(Len(calls))
  /\ \A i \in 1 .. Len(calls) : Cached(i) <=> Has(logger.recentLogs, i)

\* Places in a rising sequence are ordered as the numbers are.
LEMMA Places ==
  ASSUME NEW s \in Seq(Nat), Rising(s), NEW p \in 1 .. Len(s), NEW q \in 1 .. Len(s)
  PROVE  /\ s[p] \in Nat /\ s[q] \in Nat
         /\ s[p] = s[q] => p = q
         /\ s[p] < s[q] <=> p < q
<1>1. s[p] \in Nat /\ s[q] \in Nat /\ p \in Nat /\ q \in Nat
  BY LenProperties
<1>2. p < q => s[p] < s[q]
  BY DEF Rising
<1>3. q < p => s[q] < s[p]
  BY DEF Rising
<1>4. QED
  BY <1>1, <1>2, <1>3

\* A rising sequence without its first d elements.
LEMMA CutRising ==
  ASSUME NEW t \in Seq(Nat), Rising(t), NEW d \in Nat, d <= Len(t),
         NEW r \in Seq(Nat), Len(r) = Len(t) - d,
         \A p \in 1 .. Len(t) - d : r[p] = t[p + d]
  PROVE  /\ Rising(r)
         /\ \A x : Has(r, x) <=> \E q \in d + 1 .. Len(t) : t[q] = x
<1>1. PICK l \in Nat, m \in Nat : l = Len(t) /\ m = l - d /\ m = Len(r)
  BY LenProperties
<1>2. \A p \in 1 .. m : r[p] = t[p + d] /\ p + d \in 1 .. l /\ p + d \in d + 1 .. l
  BY <1>1
<1>3. Rising(r)
  <2>1. ASSUME NEW p \in 1 .. m, NEW q \in 1 .. m, p < q PROVE r[p] < r[q]
    <3>1. p + d < q + d
      BY <2>1
    <3>2. t[p + d] < t[q + d]
      BY <3>1, <1>1, <1>2 DEF Rising
    <3>3. QED
      BY <1>2, <3>2
  <2>2. QED
    BY <1>1, <2>1 DEF Rising
<1>4. ASSUME NEW x PROVE Has(r, x) <=> \E q \in d + 1 .. Len(t) : t[q] = x
  <2>1. Has(r, x) => \E q \in d + 1 .. Len(t) : t[q] = x
    BY <1>1, <1>2 DEF Has
  <2>2. ASSUME NEW q \in d + 1 .. Len(t), t[q] = x PROVE Has(r, x)
    <3>1. PICK p \in Nat : p = q - d
      OBVIOUS
    <3>2. p \in 1 .. m /\ p + d = q
      BY <1>1, <3>1
    <3>3. QED
      BY <1>1, <1>2, <2>2, <3>2 DEF Has
  <2>3. QED
    BY <2>1, <2>2
<1>5. QED
  BY <1>3, <1>4

\* The lines behind a cached line are those behind it in the cache.
LEMMA LinesBehind ==
  ASSUME LoggerType, CacheInv, NEW s \in Seq(Nat), s = logger.recentLogs,
         NEW n \in Nat, n = Len(calls), NEW p \in 1 .. Len(s)
  PROVE  /\ IsFiniteSet(LogsBetween(s[p], n))
         /\ Cardinality(LogsBetween(s[p], n)) = Len(s) - p
<1>1. /\ Rising(s) /\ Len(s) \in Nat
      /\ \A q \in 1 .. Len(s) : s[q] \in 1 .. n /\ IsLog(s[q])
      /\ \A k \in 1 .. n : IsLog(k) /\ k > s[p] => Has(s, k)
  BY LenProperties DEF CacheInv
<1>2. PICK S : S = LogsBetween(s[p], n)
  OBVIOUS
<1>3. \A x : x \in S <=> x \in (s[p] + 1) .. n /\ IsLog(x)
  BY <1>2 DEF LogsBetween
<1>4. s[p] \in Nat /\ s[p] >= 1
  BY <1>1
<1>5. ASSUME NEW x \in S PROVE \E q \in p + 1 .. Len(s) : s[q] = x
  <2>1. x \in 1 .. n /\ x > s[p] /\ IsLog(x)
    BY <1>3, <1>4
  <2>2. PICK q \in 1 .. Len(s) : s[q] = x
    BY <1>1, <2>1 DEF Has
  <2>3. p < q
    BY <1>1, <2>1, <2>2, Places
  <2>4. QED
    BY <1>1, <2>2, <2>3
<1>6. ASSUME NEW q \in p + 1 .. Len(s) PROVE s[q] \in S
  <2>1. q \in 1 .. Len(s) /\ p < q
    BY <1>1
  <2>2. s[p] < s[q] /\ s[q] \in 1 .. n /\ IsLog(s[q])
    BY <1>1, <2>1 DEF Rising
  <2>3. s[q] \in (s[p] + 1) .. n
    BY <1>4, <2>2
  <2>4. QED
    BY <1>3, <2>2, <2>3
<1>7. S = {s[q] : q \in p + 1 .. Len(s)}
  BY <1>5, <1>6
<1>8. IsFiniteSet(S) /\ Cardinality(S) = Len(s) - p
  BY <1>1, <1>7, CountBehind
<1>9. QED
  BY <1>2, <1>8

\* Any call but clearRecentLogs: a line may be appended, and what exceeds the
\* limit is dropped at the front.
CacheMove(n, limit, t, d, r) ==
  /\ LoggerType /\ CacheInv /\ Extended /\ n = Len(calls)
  /\ calls'[n + 1].op # "clear"
  /\ limit = LimitAt(n + 1)' /\ logger'.maxCachedLogs = limit
  /\ t = IF calls'[n + 1].op = "log" THEN Append(logger.recentLogs, n + 1)
                                     ELSE logger.recentLogs
  /\ d = IF Len(t) > limit THEN Len(t) - limit ELSE 0
  /\ r = logger'.recentLogs /\ Len(r) = Len(t) - d
  /\ \A p \in 1 .. Len(t) - d : r[p] = t[p + d]

\* Such a call keeps the cache what the history says (cacheLogLine, setMaxCachedLogs).
LEMMA CacheKeeps ==
  ASSUME NEW n \in Nat, NEW limit \in Nat, NEW t \in Seq(Nat), NEW d \in Nat,
         NEW r \in Seq(Nat), CacheMove(n, limit, t, d, r)
  PROVE  CacheInv'
<1>1. PICK s \in Seq(Nat) : s = logger.recentLogs
  BY DEF CacheMove, LoggerType, LoggerRecord
<1>2. PICK l \in Nat, e \in {0, 1} :
         l = Len(s) /\ e = IF calls'[n + 1].op = "log" THEN 1 ELSE 0
  BY LenProperties
<1>3. /\ Rising(s)
      /\ \A p \in 1 .. l : s[p] \in 1 .. n /\ IsLog(s[p])
      /\ \A p \in 1 .. l, k \in 1 .. n : IsLog(k) /\ k > s[p] => Has(s, k)
      /\ \A i \in 1 .. n : Cached(i) <=> Has(s, i)
  BY <1>1, <1>2 DEF CacheMove, CacheInv
<1>4. /\ Len(t) = l + e /\ Rising(t)
      /\ \A p \in 1 .. l : t[p] = s[p]
      /\ e = 1 => t[l + 1] = n + 1
  <2>1. CASE calls'[n + 1].op = "log"
    <3>1. t = Append(s, n + 1) /\ e = 1
      BY <2>1, <1>1, <1>2 DEF CacheMove
    <3>2. PICK x \in Nat : x = n + 1
      OBVIOUS
    <3>3. \A p \in 1 .. Len(s) : s[p] < x
      BY <3>2, <1>2, <1>3
    <3>4. t = Append(s, x)
      BY <3>1, <3>2
    <3>5. Rising(t)
      BY <3>3, <3>4, <1>3, RisingAppend
    <3>6. Len(t) = l + 1 /\ t[l + 1] = x /\ \A p \in 1 .. l : t[p] = s[p]
      BY <3>4, <1>2, AppendProperties
    <3>7. QED
      BY <3>1, <3>2, <3>5, <3>6
  <2>2. CASE calls'[n + 1].op # "log"
    <3>1. t = s /\ e = 0
      BY <2>2, <1>1, <1>2 DEF CacheMove
    <3>2. l + 0 = l
      BY <1>2
    <3>3. QED
      BY <3>1, <3>2, <1>2, <1>3
  <2>3. QED
    BY <2>1, <2>2
<1>5. \A k \in 1 .. n : calls'[k] = calls[k]
  BY DEF CacheMove, Extended
<1>6. \A k \in 1 .. n : IsLog(k)' <=> IsLog(k)
  BY <1>5 DEF IsLog
<1>7. IsLog(n + 1)' <=> e = 1
  BY <1>2 DEF IsLog
<1>8. Len(calls') = n + 1
  BY DEF CacheMove, Extended
<1>9. PICK m \in Nat : m = l + e
  BY <1>2
<1>10. /\ d \in 0 .. m /\ d = IF m > limit THEN m - limit ELSE 0
  <2>1. d = IF m > limit THEN m - limit ELSE 0
    BY <1>4, <1>9 DEF CacheMove
  <2>2. QED
    BY <2>1
<1>11. Rising(r) /\ \A x : Has(r, x) <=> \E q \in d + 1 .. m : t[q] = x
  <2>1. Len(t) = m /\ d <= Len(t)
    BY <1>4, <1>9, <1>10
  <2>2. Len(r) = Len(t) - d /\ \A p \in 1 .. Len(t) - d : r[p] = t[p + d]
    BY DEF CacheMove
  <2>3. Rising(t)
    BY <1>4
  <2>4. /\ Rising(r)
        /\ \A x : Has(r, x) <=> \E q \in d + 1 .. Len(t) : t[q] = x
    BY <2>1, <2>2, <2>3, CutRising, Zenon
  <2>5. QED
    BY <2>1, <2>4, Zenon
<1>12. \A q \in 1 .. m : t[q] \in 1 .. n + 1 /\ IsLog(t[q])'
  <2>1. \A q \in 1 .. m : q \in 1 .. l \/ (e = 1 /\ q = l + 1)
    BY <1>2, <1>9
  <2>2. \A k \in 1 .. n : k \in 1 .. n + 1
    OBVIOUS
  <2>3. ASSUME NEW q \in 1 .. l PROVE t[q] \in 1 .. n + 1 /\ IsLog(t[q])'
    <3>1. t[q] = s[q] /\ s[q] \in 1 .. n /\ IsLog(s[q])
      BY <1>3, <1>4
    <3>2. IsLog(s[q])'
      BY <3>1, <1>6
    <3>3. QED
      BY <3>1, <3>2, <2>2
  <2>4. ASSUME e = 1 PROVE t[l + 1] \in 1 .. n + 1 /\ IsLog(t[l + 1])'
    <3>1. t[l + 1] = n + 1 /\ IsLog(n + 1)'
      BY <2>4, <1>4, <1>7
    <3>2. n + 1 \in 1 .. n + 1
      OBVIOUS
    <3>3. QED
      BY <3>1, <3>2
  <2>5. QED
    BY <2>1, <2>3, <2>4
<1>13. ASSUME NEW q \in 1 .. m, NEW k \in 1 .. n + 1, IsLog(k)', k > t[q]
       PROVE  \E j \in 1 .. m : t[j] = k
  <2>1. CASE k = n + 1
    <3>1. e = 1 /\ l + 1 \in 1 .. m
      BY <2>1, <1>7, <1>9, <1>13
    <3>2. QED
      BY <2>1, <3>1, <1>4
  <2>2. CASE k # n + 1
    <3>1. k \in 1 .. n
      BY <2>2
    <3>2. q \in 1 .. l
      <4>1. q # l + 1 \/ e = 0
        BY <3>1, <1>4, <1>13
      <4>2. QED
        BY <4>1, <1>2, <1>9
    <3>3. Has(s, k)
      BY <3>1, <3>2, <1>3, <1>4, <1>6, <1>13
    <3>4. PICK j \in 1 .. l : s[j] = k
      BY <3>3, <1>2 DEF Has
    <3>5. j \in 1 .. m
      BY <1>2, <1>9
    <3>6. QED
      BY <3>4, <3>5, <1>4
  <2>3. QED
    BY <2>1, <2>2
<1>14. PICK h \in Nat : h = m - d /\ h = Len(r) /\ \A p \in 1 .. h : r[p] = t[p + d]
  <2>1. Len(t) = m
    BY <1>4, <1>9
  <2>2. Len(r) = m - d /\ \A p \in 1 .. m - d : r[p] = t[p + d]
    BY <2>1 DEF CacheMove
  <2>3. m - d \in Nat
    BY <1>10
  <2>4. QED
    BY <2>2, <2>3
<1>15. \A p \in 1 .. h : p + d \in 1 .. m
  BY <1>10, <1>14
<1>16. \A p \in 1 .. h : r[p] \in 1 .. n + 1 /\ IsLog(r[p])'
  BY <1>12, <1>14, <1>15
<1>17. ASSUME NEW p \in 1 .. h, NEW k \in 1 .. n + 1, IsLog(k)', k > r[p]
       PROVE  Has(r, k)
  <2>1. PICK a \in 1 .. m : a = p + d
    BY <1>15
  <2>2. r[p] = t[a]
    BY <1>14, <2>1
  <2>3. PICK j \in 1 .. m : t[j] = k
    BY <1>13, <1>17, <2>2
  <2>4. t[a] < t[j]
    BY <1>12, <1>17, <2>2, <2>3
  <2>5. a < j
    BY <1>4, <1>9, <2>4, Places
  <2>6. j \in d + 1 .. m
    BY <1>10, <2>1, <2>5
  <2>7. QED
    BY <1>11, <2>3, <2>6
<1>18. h <= limit
  BY <1>10, <1>14
<1>19. ASSUME NEW i \in 1 .. n PROVE Cached(i)' <=> Has(r, i)
  <2>1. Cached(i)' <=> Cached(i) /\ Cardinality(LogsBetween(i, n + 1)') < limit
    BY CachedStep DEF CacheMove
  <2>2. CASE ~Has(s, i)
    <3>1. ~Cached(i)'
      BY <2>1, <2>2, <1>3
    <3>2. ASSUME NEW q \in d + 1 .. m, t[q] = i PROVE FALSE
      <4>1. q \in 1 .. m
        BY <1>10
      <4>2. q # l + 1 \/ e = 0
        BY <3>2, <1>4
      <4>3. q \in 1 .. l
        BY <4>1, <4>2, <1>2, <1>9
      <4>4. QED
        BY <2>2, <3>2, <4>3, <1>2, <1>4 DEF Has
    <3>3. QED
      BY <3>1, <3>2, <1>11
  <2>3. CASE Has(s, i)
    <3>1. PICK p \in 1 .. l : s[p] = i
      BY <2>3, <1>2 DEF Has
    <3>2. PICK B : B = LogsBetween(i, n)
      OBVIOUS
    <3>3. IsFiniteSet(B) /\ Cardinality(B) = l - p
      <4>1. LoggerType /\ CacheInv /\ n = Len(calls) /\ s = logger.recentLogs /\ p \in 1 .. Len(s)
        BY <3>1, <1>1, <1>2 DEF CacheMove
      <4>2. IsFiniteSet(LogsBetween(s[p], n)) /\ Cardinality(LogsBetween(s[p], n)) = Len(s) - p
        BY <4>1, LinesBehind
      <4>3. QED
        BY <4>2, <3>1, <3>2, <1>2
    <3>4. n + 1 \notin B
      BY <3>2 DEF LogsBetween
    <3>5. LogsBetween(i, n + 1)' = B \cup (IF e = 1 THEN {n + 1} ELSE {})
      <4>1. Extended /\ n = Len(calls)
        BY DEF CacheMove
      <4>2. LogsBetween(i, n + 1)'
              = LogsBetween(i, n) \cup (IF calls'[n + 1].op = "log" THEN {n + 1} ELSE {})
        BY <4>1, BetweenKept
      <4>3. QED
        BY <3>2, <4>2, <1>2
    <3>6. Cardinality(LogsBetween(i, n + 1)') = (l - p) + e
      <4>1. CASE e = 1
        <5>1. LogsBetween(i, n + 1)' = B \cup {n + 1}
          BY <4>1, <3>5
        <5>2. Cardinality(B \cup {n + 1}) = Cardinality(B) + 1
          BY <3>3, <3>4, FS_AddElement
        <5>3. QED
          BY <4>1, <5>1, <5>2, <3>3
      <4>2. CASE e = 0
        <5>1. LogsBetween(i, n + 1)' = B
          BY <4>2, <3>5
        <5>2. QED
          BY <4>2, <5>1, <3>3
      <4>3. QED
        BY <4>1, <4>2, <1>2
    <3>7. (l - p) + e < limit <=> p >= d + 1
      BY <1>2, <1>9, <1>10
    <3>8. Cached(i)' <=> p >= d + 1
      BY <2>1, <2>3, <3>6, <3>7, <1>3
    <3>9. p \in 1 .. m /\ t[p] = i
      <4>1. l <= m /\ p \in Nat
        BY <1>2, <1>9
      <4>2. p \in 1 .. m
        BY <4>1
      <4>3. t[p] = s[p]
        BY <1>4
      <4>4. QED
        BY <3>1, <4>2, <4>3
    <3>10. p >= d + 1 => Has(r, i)
      BY <3>9, <1>10, <1>11
    <3>11. ASSUME NEW q \in d + 1 .. m, t[q] = i PROVE p >= d + 1
      <4>1. q \in 1 .. m
        BY <1>10
      <4>2. Len(t) = m /\ Rising(t)
        BY <1>4, <1>9
      <4>3. q \in 1 .. Len(t) /\ p \in 1 .. Len(t) /\ t[q] = t[p]
        BY <4>1, <4>2, <3>9, <3>11
      <4>4. q = p
        BY <4>2, <4>3, Places
      <4>5. QED
        BY <4>4
    <3>12. QED
      BY <3>8, <3>10, <3>11, <1>11
  <2>4. QED
    BY <2>2, <2>3
<1>20. Cached(n + 1)' <=> Has(r, n + 1)
  <2>1. LogsBetween(n + 1, n + 1)' = {}
    BY DEF LogsBetween
  <2>2. Cardinality(LogsBetween(n + 1, n + 1)') = 0
    BY <2>1, FS_EmptySet
  <2>3. \A j \in n + 1 .. n + 1 : j = n + 1
    OBVIOUS
  <2>4. Cached(n + 1)' <=> IsLog(n + 1)' /\ 0 < limit
    BY <1>8, <2>2, <2>3 DEF Cached, CacheMove
  <2>5. ASSUME e = 1, 0 < limit PROVE Has(r, n + 1)
    <3>1. l + 1 \in d + 1 .. m
      BY <2>5, <1>9, <1>10
    <3>2. QED
      BY <2>5, <3>1, <1>4, <1>11
  <2>6. ASSUME NEW q \in d + 1 .. m, t[q] = n + 1 PROVE e = 1 /\ 0 < limit
    <3>1. ASSUME q \in 1 .. l PROVE FALSE
      <4>1. t[q] = s[q] /\ s[q] \in 1 .. n
        BY <3>1, <1>3, <1>4
      <4>2. n + 1 \in 1 .. n
        BY <4>1, <2>6
      <4>3. QED
        BY <4>2
    <3>2. QED
      BY <3>1, <1>2, <1>9, <1>10
  <2>7. QED
    BY <2>4, <2>5, <2>6, <1>7, <1>11
<1>21. ASSUME NEW i \in 1 .. n + 1 PROVE Cached(i)' <=> Has(r, i)
  <2>1. CASE i \in 1 .. n
    BY <2>1, <1>19
  <2>2. CASE i = n + 1
    BY <2>2, <1>20
  <2>3. QED
    BY <2>1, <2>2
<1>22. QED
  <2>1. r = logger'.recentLogs /\ logger'.maxCachedLogs = limit /\ limit = LimitAt(n + 1)'
    BY DEF CacheMove
  <2>2. QED
    BY <2>1, <1>8, <1>11, <1>14, <1>16, <1>17, <1>18, <1>21 DEF CacheInv

\* The call that clears the cache.
LEMMA CacheClears ==
  ASSUME LoggerType, CacheInv, Extended, NEW n \in Nat, n = Len(calls),
         calls'[n + 1].op = "clear", logger'.recentLogs = <<>>,
         logger'.maxCachedLogs = logger.maxCachedLogs
  PROVE  CacheInv'
<1>1. Len(calls') = n + 1 /\ Len(<<>>) = 0
  BY DEF Extended
<1>2. LimitAt(n + 1)' = LimitAt(n)
  BY LimitNow
<1>3. logger'.maxCachedLogs \in Nat /\ logger'.maxCachedLogs = LimitAt(n + 1)'
  BY <1>2 DEF CacheInv, LoggerType, LoggerRecord
<1>4. ASSUME NEW i \in 1 .. n + 1 PROVE ~Cached(i)'
  <2>1. n + 1 \in i .. n + 1
    OBVIOUS
  <2>2. QED
    BY <1>1, <2>1 DEF Cached
<1>5. \A x : ~Has(<<>>, x)
  BY <1>1 DEF Has
<1>6. Rising(<<>>)
  BY <1>1 DEF Rising
<1>7. \A p \in 1 .. 0 : FALSE
  OBVIOUS
<1>8. 0 <= logger'.maxCachedLogs
  BY <1>3
<1>9. QED
  BY <1>1, <1>3, <1>4, <1>5, <1>6, <1>7, <1>8 DEF CacheInv

\* The call that appends a line.
LEMMA CacheLogs ==
  ASSUME LoggerType, CacheInv, Extended, NEW n \in Nat, n = Len(calls),
         calls'[n + 1].op = "log",
         logger'.recentLogs = cacheLogLine(logger.recentLogs, logger.maxCachedLogs, n + 1),
         logger'.maxCachedLogs = logger.maxCachedLogs
  PROVE  CacheInv'
<1>1. PICK s \in Seq(Nat), limit \in Nat : s = logger.recentLogs /\ limit = logger.maxCachedLogs
  BY DEF LoggerType, LoggerRecord
<1>2. PICK x \in Nat : x = n + 1
  OBVIOUS
<1>3. PICK t \in Seq(Nat) : t = Append(s, x)
  BY AppendProperties
<1>4. PICK l \in Nat, m \in Nat : l = Len(s) /\ m = Len(t) /\ m = l + 1
  BY <1>3, LenProperties, AppendProperties
<1>5. PICK d \in Nat : d = IF m > limit THEN m - limit ELSE 0
  <2>1. m > limit => m - limit \in Nat
    OBVIOUS
  <2>2. (IF m > limit THEN m - limit ELSE 0) \in Nat
    BY <2>1
  <2>3. QED
    BY <2>2
<1>6. l <= limit
  BY <1>1, <1>4 DEF CacheInv
<1>7. PICK r : r = cacheLogLine(s, limit, x)
  OBVIOUS
<1>8. /\ r \in Seq(Nat) /\ Len(r) = m - d
      /\ \A p \in 1 .. m - d : r[p] = t[p + d]
  <2>1. CASE limit = 0
    <3>1. r = s
      BY <1>7, <2>1 DEF cacheLogLine
    <3>2. l = 0 /\ d = 1 /\ m - d = 0
      BY <2>1, <1>4, <1>5, <1>6
    <3>3. QED
      BY <3>1, <3>2, <1>4
  <2>2. CASE limit # 0
    <3>1. r = Newest(t, limit)
      BY <1>3, <1>7, <2>2 DEF cacheLogLine
    <3>2. d = IF Len(t) > limit THEN Len(t) - limit ELSE 0
      BY <1>4, <1>5
    <3>3. AllButFirst(Newest(t, limit), t, d)
      BY <3>2, NewestIs, Zenon
    <3>4. QED
      BY <3>1, <3>3, <1>4 DEF AllButFirst
  <2>3. QED
    BY <2>1, <2>2
<1>9. r = logger'.recentLogs
  BY <1>1, <1>2, <1>7
<1>10. LimitAt(n + 1)' = limit
  <2>1. LimitAt(n + 1)' = LimitAt(n)
    BY LimitNow
  <2>2. QED
    BY <2>1, <1>1 DEF CacheInv
<1>11. CacheMove(n, limit, t, d, r)
  BY <1>1, <1>2, <1>3, <1>4, <1>5, <1>8, <1>9, <1>10 DEF CacheMove
<1>12. QED
  BY <1>8, <1>11, CacheKeeps

\* The call that changes the limit.
LEMMA CacheLimits ==
  ASSUME LoggerType, CacheInv, Extended, NEW n \in Nat, n = Len(calls), NEW limit \in Nat,
         calls'[n + 1].op = "limit", calls'[n + 1].arg = limit,
         logger'.recentLogs = IF limit = 0 THEN <<>> ELSE Newest(logger.recentLogs, limit),
         logger'.maxCachedLogs = limit
  PROVE  CacheInv'
<1>1. PICK s \in Seq(Nat) : s = logger.recentLogs
  BY DEF LoggerType, LoggerRecord
<1>2. PICK m \in Nat : m = Len(s)
  BY LenProperties
<1>3. PICK d \in Nat : d = IF m > limit THEN m - limit ELSE 0
  <2>1. m > limit => m - limit \in Nat
    OBVIOUS
  <2>2. (IF m > limit THEN m - limit ELSE 0) \in Nat
    BY <2>1
  <2>3. QED
    BY <2>2
<1>4. PICK r : r = IF limit = 0 THEN <<>> ELSE Newest(s, limit)
  OBVIOUS
<1>5. /\ r \in Seq(Nat) /\ Len(r) = m - d
      /\ \A p \in 1 .. m - d : r[p] = s[p + d]
  <2>1. CASE limit = 0
    <3>1. r = <<>> /\ Len(<<>>) = 0 /\ <<>> \in Seq(Nat)
      BY <1>4, <2>1
    <3>2. m - d = 0
      BY <2>1, <1>3
    <3>3. QED
      BY <3>1, <3>2
  <2>2. CASE limit # 0
    <3>1. r = Newest(s, limit)
      BY <1>4, <2>2
    <3>2. d = IF Len(s) > limit THEN Len(s) - limit ELSE 0
      BY <1>2, <1>3
    <3>3. AllButFirst(Newest(s, limit), s, d)
      BY <3>2, NewestIs, Zenon
    <3>4. QED
      BY <3>1, <3>3, <1>2 DEF AllButFirst
  <2>3. QED
    BY <2>1, <2>2
<1>6. r = logger'.recentLogs
  BY <1>1, <1>4
<1>7. LimitAt(n + 1)' = limit
  BY LimitNow
<1>8. CacheMove(n, limit, s, d, r)
  BY <1>1, <1>2, <1>3, <1>5, <1>6, <1>7 DEF CacheMove
<1>9. QED
  BY <1>5, <1>8, CacheKeeps

\* The calls that leave cache and limit alone.
LEMMA CacheStays ==
  ASSUME LoggerType, CacheInv, Extended, NEW n \in Nat, n = Len(calls),
         calls'[n + 1].op \in {"flush", "console", "reset"},
         logger'.recentLogs = logger.recentLogs,
         logger'.maxCachedLogs = logger.maxCachedLogs
  PROVE  CacheInv'
<1>1. PICK s \in Seq(Nat), limit \in Nat : s = logger.recentLogs /\ limit = logger.maxCachedLogs
  BY DEF LoggerType, LoggerRecord
<1>2. PICK m \in Nat : m = Len(s)
  BY LenProperties
<1>3. m <= limit
  BY <1>1, <1>2 DEF CacheInv
<1>4. /\ 0 = IF m > limit THEN m - limit ELSE 0
      /\ m = m - 0 /\ \A p \in 1 .. m - 0 : s[p] = s[p + 0]
  BY <1>3
<1>5. LimitAt(n + 1)' = limit
  <2>1. LimitAt(n + 1)' = LimitAt(n)
    BY LimitNow
  <2>2. QED
    BY <2>1, <1>1 DEF CacheInv
<1>6. CacheMove(n, limit, s, 0, s)
  BY <1>1, <1>2, <1>4, <1>5 DEF CacheMove
<1>7. QED
  BY <1>6, CacheKeeps

----------------------------------------------------------------------------
(* The counters.                                                            *)

Since(level) ==
  {i \in 1 .. Len(calls) : /\ IsLog(i) /\ calls[i].arg = level
                           /\ \A j \in i .. Len(calls) : calls[j].op /= "reset"}

\* A reset empties the set of counted lines, a line of the level joins it, and any
\* other call leaves it.
LEMMA SinceStep ==
  ASSUME Extended, NEW n \in Nat, n = Len(calls), NEW level
  PROVE  /\ IsFiniteSet(Since(level)) /\ n + 1 \notin Since(level)
         /\ calls'[n + 1].op = "reset" => Since(level)' = {}
         /\ calls'[n + 1].op = "log" /\ calls'[n + 1].arg = level
              => Since(level)' = Since(level) \cup {n + 1}
         /\ calls'[n + 1].op # "reset"
            /\ ~(calls'[n + 1].op = "log" /\ calls'[n + 1].arg = level)
              => Since(level)' = Since(level)
<1>1. Len(calls') = n + 1 /\ \A k \in 1 .. n : calls'[k] = calls[k]
  BY DEF Extended
<1>2. PICK A : A = Since(level)
  OBVIOUS
<1>3. PICK B : B = Since(level)'
  OBVIOUS
<1>4. \A i : i \in A <=> /\ i \in 1 .. n /\ calls[i].op = "log" /\ calls[i].arg = level
                         /\ \A j \in i .. n : calls[j].op /= "reset"
  BY <1>2 DEF Since, IsLog
<1>5. \A i : i \in B <=> /\ i \in 1 .. n + 1 /\ calls'[i].op = "log" /\ calls'[i].arg = level
                         /\ \A j \in i .. n + 1 : calls'[j].op /= "reset"
  BY <1>1, <1>3 DEF Since, IsLog
<1>6. A \in SUBSET (1 .. n)
  BY <1>4
<1>7. IsFiniteSet(A)
  <2>1. IsFiniteSet(1 .. n)
    BY FS_Interval
  <2>2. QED
    BY <1>6, <2>1, FS_Subset
<1>8. n + 1 \notin A
  BY <1>6
<1>9. ASSUME NEW i \in 1 .. n
      PROVE  i \in B <=> i \in A /\ calls'[n + 1].op /= "reset"
  <2>1. /\ i \in 1 .. n + 1 /\ n + 1 \in i .. n + 1 /\ calls'[i] = calls[i]
        /\ \A j \in i .. n : j \in i .. n + 1 /\ j \in 1 .. n
        /\ \A j \in i .. n + 1 : j \in i .. n \/ j = n + 1
    BY <1>1
  <2>2. (\A j \in i .. n + 1 : calls'[j].op /= "reset")
          <=> (\A j \in i .. n : calls[j].op /= "reset") /\ calls'[n + 1].op /= "reset"
    BY <1>1, <2>1
  <2>3. QED
    BY <1>4, <1>5, <2>1, <2>2
<1>10. n + 1 \in B <=> calls'[n + 1].op = "log" /\ calls'[n + 1].arg = level
  <2>1. n + 1 \in 1 .. n + 1 /\ \A j \in n + 1 .. n + 1 : j = n + 1
    OBVIOUS
  <2>2. QED
    BY <1>5, <2>1
<1>11. \A i \in B : i \in 1 .. n \/ i = n + 1
  BY <1>5
<1>12. calls'[n + 1].op = "reset" => B = {}
  BY <1>9, <1>10, <1>11
<1>13. calls'[n + 1].op = "log" /\ calls'[n + 1].arg = level => B = A \cup {n + 1}
  BY <1>6, <1>9, <1>10, <1>11
<1>14. calls'[n + 1].op # "reset"
       /\ ~(calls'[n + 1].op = "log" /\ calls'[n + 1].arg = level) => B = A
  BY <1>6, <1>9, <1>10, <1>11
<1>15. QED
  BY <1>2, <1>3, <1>7, <1>8, <1>12, <1>13, <1>14

CountsInv == \A level \in LogLevel : logger.logCounts[level] = Cardinality(Since(level))

\* log counts its line in the counter of its level and in no other.
LEMMA CountsLog ==
  ASSUME LoggerType, CountsInv, Extended, NEW n \in Nat, n = Len(calls),
         NEW level \in LogLevel, calls'[n + 1].op = "log", calls'[n + 1].arg = level,
         logger'.logCounts = [logger.logCounts EXCEPT ![level] = @ + 1]
  PROVE  CountsInv'
<1>1. logger.logCounts \in [LogLevel -> Nat]
  BY DEF LoggerType, LoggerRecord
<1>2. ASSUME NEW v \in LogLevel PROVE logger'.logCounts[v] = Cardinality(Since(v)')
  <2>1. logger.logCounts[v] = Cardinality(Since(v))
    BY DEF CountsInv
  <2>2. CASE v = level
    <3>1. Since(v)' = Since(v) \cup {n + 1} /\ IsFiniteSet(Since(v)) /\ n + 1 \notin Since(v)
      BY <2>2, SinceStep
    <3>2. Cardinality(Since(v)') = Cardinality(Since(v)) + 1
      BY <3>1, FS_AddElement
    <3>3. logger'.logCounts[v] = logger.logCounts[v] + 1
      BY <1>1, <2>2
    <3>4. QED
      BY <2>1, <3>2, <3>3
  <2>3. CASE v # level
    <3>1. Since(v)' = Since(v)
      BY <2>3, SinceStep
    <3>2. logger'.logCounts[v] = logger.logCounts[v]
      BY <1>1, <2>3
    <3>3. QED
      BY <2>1, <3>1, <3>2
  <2>4. QED
    BY <2>2, <2>3
<1>3. QED
  BY <1>2 DEF CountsInv

\* resetLogCounts sets all counters to 0.
LEMMA CountsReset ==
  ASSUME Extended, NEW n \in Nat, n = Len(calls), calls'[n + 1].op = "reset",
         logger'.logCounts = [level \in LogLevel |-> 0]
  PROVE  CountsInv'
<1>1. ASSUME NEW v \in LogLevel PROVE logger'.logCounts[v] = Cardinality(Since(v)')
  <2>1. Since(v)' = {}
    BY SinceStep
  <2>2. Cardinality(Since(v)') = 0
    BY <2>1, FS_EmptySet
  <2>3. QED
    BY <2>2
<1>2. QED
  BY <1>1 DEF CountsInv

\* The other calls leave the counters alone.
LEMMA CountsStay ==
  ASSUME CountsInv, Extended, NEW n \in Nat, n = Len(calls),
         calls'[n + 1].op # "log", calls'[n + 1].op # "reset",
         logger'.logCounts = logger.logCounts
  PROVE  CountsInv'
<1>1. ASSUME NEW v \in LogLevel PROVE logger'.logCounts[v] = Cardinality(Since(v)')
  <2>1. Since(v)' = Since(v)
    BY SinceStep
  <2>2. QED
    BY <2>1 DEF CountsInv
<1>2. QED
  BY <1>1 DEF CountsInv

----------------------------------------------------------------------------
(* The file.                                                                *)

FileLine(x) == x \in 1 .. Len(calls) /\ IsLog(x) /\ calls[x].open

\* The file and the buffer hold the lines logged while the file was open; a
\* logger whose file is closed has nothing in its buffer.
FileInv ==
  /\ Rising(disk \o unflushed)
  /\ \A x : Has(disk \o unflushed, x) <=> FileLine(x)
  /\ ~alive \/ ~logger.open => unflushed = <<>>

\* A call adds one line to those the file must hold, or none.
LEMMA FileLineStep ==
  ASSUME Extended, NEW n \in Nat, n = Len(calls), NEW x
  PROVE  FileLine(x)' <=> \/ FileLine(x)
                          \/ x = n + 1 /\ calls'[n + 1].op = "log" /\ calls'[n + 1].open
<1>1. Len(calls') = n + 1 /\ \A k \in 1 .. n : calls'[k] = calls[k]
  BY DEF Extended
<1>2. x \in 1 .. n + 1 <=> x \in 1 .. n \/ x = n + 1
  OBVIOUS
<1>3. QED
  BY <1>1, <1>2 DEF FileLine, IsLog

\* A call that writes nothing leaves the file what the history says.
LEMMA FileStays ==
  ASSUME LoggerType, FileInv, Extended, NEW n \in Nat, n = Len(calls),
         ~(calls'[n + 1].op = "log" /\ calls'[n + 1].open),
         disk' = disk, unflushed' = unflushed, alive' = alive, logger'.open = logger.open
  PROVE  FileInv'
<1>1. \A x : FileLine(x)' <=> FileLine(x)
  BY FileLineStep
<1>2. QED
  BY <1>1 DEF FileInv

\* log on an open file appends its line, to the file or to the buffer.
LEMMA FileAdds ==
  ASSUME LoggerType, FileInv, Extended, NEW n \in Nat, n = Len(calls),
         calls'[n + 1].op = "log", calls'[n + 1].open,
         disk' \o unflushed' = Append(disk \o unflushed, n + 1),
         alive', logger'.open
  PROVE  FileInv'
<1>1. PICK s \in Seq(Nat) : s = disk \o unflushed
  BY ConcatProperties DEF LoggerType
<1>2. Rising(s) /\ \A x : Has(s, x) <=> FileLine(x)
  BY <1>1 DEF FileInv
<1>3. PICK k \in Nat : k = n + 1
  OBVIOUS
<1>4. \A p \in 1 .. Len(s) : s[p] < k
  <2>1. ASSUME NEW p \in 1 .. Len(s) PROVE s[p] < k
    <3>1. FileLine(s[p])
      BY <1>2 DEF Has
    <3>2. s[p] \in 1 .. n
      BY <3>1 DEF FileLine
    <3>3. QED
      BY <3>2, <1>3
  <2>2. QED
    BY <2>1
<1>5. /\ Rising(Append(s, k))
      /\ \A x : Has(Append(s, k), x) <=> Has(s, x) \/ x = k
  BY <1>2, <1>4, RisingAppend
<1>6. \A x : FileLine(x)' <=> FileLine(x) \/ x = k
  BY <1>3, FileLineStep
<1>7. disk' \o unflushed' = Append(s, k)
  BY <1>1, <1>3
<1>8. QED
  BY <1>2, <1>5, <1>6, <1>7 DEF FileInv

----------------------------------------------------------------------------
(* The steps.                                                               *)

ClientsInv == LoggerType /\ CacheInv /\ CountsInv /\ FileInv

\* A new LogManager satisfies the invariant.
LEMMA ClientsInitially ==
  ASSUME ClientsInit
  PROVE  ClientsInv
<1>1. InitialMax \in Nat
  BY LogManagerAssumption
<1>2. /\ logger.recentLogs = <<>> /\ logger.maxCachedLogs = InitialMax
      /\ logger.logCounts = [level \in LogLevel |-> 0]
      /\ disk = <<>> /\ unflushed = <<>> /\ calls = <<>> /\ alive = TRUE
  BY DEF ClientsInit, LogManagerInit
<1>3. Len(<<>>) = 0 /\ <<>> \in Seq(Nat) /\ <<>> \in Seq(CallRecord)
  OBVIOUS
<1>4. LoggerType
  <2>1. [level \in LogLevel |-> 0] \in [LogLevel -> Nat]
    OBVIOUS
  <2>2. PICK open \in BOOLEAN :
          logger = [open |-> open, consoleEnabled |-> TRUE, autoFlush |-> TRUE,
                    maxCachedLogs |-> InitialMax, recentLogs |-> <<>>,
                    logCounts |-> [level \in LogLevel |-> 0]]
    BY DEF ClientsInit, LogManagerInit
  <2>3. logger \in LoggerRecord
    BY <2>1, <2>2, <1>1, <1>3 DEF LoggerRecord
  <2>4. QED
    BY <2>3, <1>2, <1>3 DEF LoggerType
<1>5. Rising(<<>>) /\ \A x : ~Has(<<>>, x)
  BY <1>3 DEF Rising, Has
<1>6. CacheInv
  <2>1. {j \in 1 .. 0 : calls[j].op = "limit"} = {}
    OBVIOUS
  <2>2. LimitAt(0) = InitialMax
    BY <2>1 DEF LimitAt
  <2>3. \A p \in 1 .. 0 : FALSE
    OBVIOUS
  <2>4. QED
    BY <2>2, <2>3, <1>1, <1>2, <1>3, <1>5 DEF CacheInv
<1>7. CountsInv
  <2>1. ASSUME NEW level \in LogLevel PROVE logger.logCounts[level] = Cardinality(Since(level))
    <3>1. Since(level) = {}
      BY <1>2, <1>3 DEF Since
    <3>2. QED
      BY <3>1, <1>2, FS_EmptySet
  <2>2. QED
    BY <2>1 DEF CountsInv
<1>8. FileInv
  <2>1. <<>> \o <<>> = <<>>
    BY <1>3, ConcatEmptySeq
  <2>2. \A x : ~FileLine(x)
    BY <1>2, <1>3 DEF FileLine
  <2>3. QED
    BY <2>1, <2>2, <1>2, <1>5 DEF FileInv
<1>9. QED
  BY <1>4, <1>6, <1>7, <1>8 DEF ClientsInv

\* log keeps the invariant.
LEMMA LogCallStep ==
  ASSUME ClientsInv, CallLog
  PROVE  ClientsInv'
<1>1. PICK level \in {"Info", "Error"} : Call("log", level) /\ log(level, Len(calls) + 1)
  BY DEF CallLog
<1>2. LoggerType /\ CacheInv /\ CountsInv /\ FileInv
  BY DEF ClientsInv
<1>3. PICK n \in Nat : n = Len(calls)
  BY <1>2, LenProperties DEF LoggerType
<1>4. level \in Levels \cup Limits \cup BOOLEAN \cup {0} /\ level \in LogLevel
  BY DEF Levels, LogLevel
<1>5. /\ alive /\ alive' = alive /\ calls' \in Seq(CallRecord)
      /\ Len(calls') = n + 1
      /\ calls'[n + 1] = [op |-> "log", arg |-> level, open |-> logger.open]
      /\ \A i \in 1 .. n : calls'[i] = calls[i]
  BY <1>1, <1>2, <1>3, <1>4, CallEffect
<1>6. Extended
  BY <1>2, <1>3, <1>5 DEF Extended, LoggerType
<1>7. calls'[n + 1].op = "log" /\ calls'[n + 1].arg = level /\ calls'[n + 1].open = logger.open
  BY <1>5
<1>8. PICK x \in Nat : x = n + 1
  OBVIOUS
<1>9. log(level, x)
  BY <1>1, <1>3, <1>8
<1>10. logger \in LoggerRecord
  BY <1>2 DEF LoggerType
<1>11. logger' = [open |-> logger.open, consoleEnabled |-> logger.consoleEnabled,
                  autoFlush |-> logger.autoFlush, maxCachedLogs |-> logger.maxCachedLogs,
                  recentLogs |-> cacheLogLine(logger.recentLogs, logger.maxCachedLogs, x),
                  logCounts |-> [logger.logCounts EXCEPT ![level] = @ + 1]]
  BY <1>9, <1>10 DEF log, LoggerRecord
<1>12. /\ logger'.open = logger.open /\ logger'.maxCachedLogs = logger.maxCachedLogs
       /\ logger'.recentLogs = cacheLogLine(logger.recentLogs, logger.maxCachedLogs, x)
       /\ logger'.logCounts = [logger.logCounts EXCEPT ![level] = @ + 1]
  BY <1>11
<1>13. /\ logger.open \in BOOLEAN /\ logger.consoleEnabled \in BOOLEAN
       /\ logger.autoFlush \in BOOLEAN /\ logger.maxCachedLogs \in Nat
       /\ logger.recentLogs \in Seq(Nat) /\ logger.logCounts \in [LogLevel -> Nat]
  BY <1>10 DEF LoggerRecord
<1>14. logger' \in LoggerRecord
  <2>1. PICK s \in Seq(Nat), limit \in Nat, u \in Seq(Nat) :
           s = logger.recentLogs /\ limit = logger.maxCachedLogs /\ u = Append(s, x)
    BY <1>13, AppendProperties
  <2>2. cacheLogLine(s, limit, x) \in Seq(Nat)
    <3>1. Newest(u, limit) \in Seq(Nat)
      <4>1. PICK m \in Nat : m = Len(u)
        BY LenProperties
      <4>2. CASE m > limit
        <5>1. PICK d \in Nat : d = m - limit
          BY <4>2
        <5>2. QED
          BY <4>1, <4>2, <5>1, NewestIs DEF AllButFirst
      <4>3. CASE ~(m > limit)
        BY <4>1, <4>3 DEF Newest
      <4>4. QED
        BY <4>2, <4>3
    <3>2. QED
      BY <2>1, <3>1 DEF cacheLogLine
  <2>3. [logger.logCounts EXCEPT ![level] = @ + 1] \in [LogLevel -> Nat]
    <3>1. PICK f \in [LogLevel -> Nat] : f = logger.logCounts
      BY <1>13
    <3>2. f[level] + 1 \in Nat
      BY <1>4
    <3>3. [f EXCEPT ![level] = f[level] + 1] \in [LogLevel -> Nat]
      BY <3>2
    <3>4. QED
      BY <3>1, <3>3
  <2>4. QED
    BY <2>1, <2>2, <2>3, <1>11, <1>13 DEF LoggerRecord
<1>15. CacheInv'
  BY <1>2, <1>3, <1>6, <1>7, <1>8, <1>12, CacheLogs
<1>16. CountsInv'
  BY <1>2, <1>3, <1>4, <1>6, <1>7, <1>12, CountsLog
<1>17. PICK a \in Seq(Nat), u \in Seq(Nat) : a = disk /\ u = unflushed
  BY <1>2 DEF LoggerType
<1>18. CASE logger.open
  <2>1. a \o Append(u, x) = Append(a \o u, x)
    BY ConcatAppend
  <2>2. /\ Append(u, x) \in Seq(Nat) /\ <<>> \in Seq(Nat)
        /\ a \o Append(u, x) \in Seq(Nat)
        /\ (a \o Append(u, x)) \o <<>> = a \o Append(u, x)
    BY AppendProperties, ConcatProperties, ConcatEmptySeq
  <2>3. \/ disk' = a \o Append(u, x) /\ unflushed' = <<>>
        \/ unflushed' = Append(u, x) /\ disk' = a
    BY <1>9, <1>17, <1>18 DEF log
  <2>4. /\ disk' \in Seq(Nat) /\ unflushed' \in Seq(Nat)
        /\ disk' \o unflushed' = Append(a \o u, x)
    BY <2>1, <2>2, <2>3
  <2>5. disk' \o unflushed' = Append(disk \o unflushed, n + 1)
    BY <2>4, <1>8, <1>17
  <2>6. alive' /\ logger'.open /\ calls'[n + 1].open
    BY <1>5, <1>7, <1>12, <1>18
  <2>7. FileInv'
    BY <2>5, <2>6, <1>2, <1>3, <1>6, <1>7, FileAdds
  <2>8. LoggerType'
    BY <2>4, <1>2, <1>5, <1>14 DEF LoggerType
  <2>9. QED
    BY <2>7, <2>8, <1>15, <1>16 DEF ClientsInv
<1>19. CASE ~logger.open
  <2>1. disk' = disk /\ unflushed' = unflushed
    BY <1>9, <1>19 DEF log
  <2>2. ~(calls'[n + 1].op = "log" /\ calls'[n + 1].open)
    BY <1>7, <1>19
  <2>3. FileInv'
    BY <2>1, <2>2, <1>2, <1>3, <1>5, <1>6, <1>12, FileStays
  <2>4. LoggerType'
    BY <2>1, <1>2, <1>5, <1>14 DEF LoggerType
  <2>5. QED
    BY <2>3, <2>4, <1>15, <1>16 DEF ClientsInv
<1>20. QED
  BY <1>18, <1>19

\* What the calls other than log have in common.
LEMMA OtherCall ==
  ASSUME ClientsInv, NEW op \in {"limit", "flush", "console", "clear", "reset"},
         NEW arg \in Levels \cup Limits \cup BOOLEAN \cup {0}, Call(op, arg),
         logger' \in LoggerRecord, logger'.open = logger.open,
         disk' = disk, unflushed' = unflushed
  PROVE  /\ LoggerType /\ CacheInv /\ CountsInv /\ LoggerType' /\ FileInv' /\ Extended
         /\ \E n \in Nat : /\ n = Len(calls) /\ calls'[n + 1].op = op
                           /\ calls'[n + 1].arg = arg
<1>1. LoggerType /\ CacheInv /\ CountsInv /\ FileInv
  BY DEF ClientsInv
<1>2. PICK n \in Nat : n = Len(calls)
  BY <1>1, LenProperties DEF LoggerType
<1>3. op \in {"log", "limit", "flush", "console", "clear", "reset"}
  OBVIOUS
<1>4. /\ alive /\ alive' = alive /\ calls' \in Seq(CallRecord)
      /\ Len(calls') = n + 1
      /\ calls'[n + 1] = [op |-> op, arg |-> arg, open |-> logger.open]
      /\ \A i \in 1 .. n : calls'[i] = calls[i]
  BY <1>1, <1>2, <1>3, CallEffect
<1>5. Extended
  BY <1>1, <1>2, <1>4 DEF Extended, LoggerType
<1>6. calls'[n + 1].op = op /\ calls'[n + 1].arg = arg
  BY <1>4
<1>7. ~(calls'[n + 1].op = "log" /\ calls'[n + 1].open)
  BY <1>6
<1>8. FileInv'
  BY <1>1, <1>2, <1>4, <1>5, <1>7, FileStays
<1>9. LoggerType'
  BY <1>1, <1>4 DEF LoggerType
<1>10. QED
  BY <1>1, <1>2, <1>5, <1>6, <1>8, <1>9

\* setMaxCachedLogs keeps the invariant.
LEMMA LimitCallStep ==
  ASSUME ClientsInv, CallSetMaxCachedLogs
  PROVE  ClientsInv'
<1>1. PICK m \in Limits : Call("limit", m) /\ setMaxCachedLogs(m)
  BY DEF CallSetMaxCachedLogs
<1>2. m \in Nat
  BY LogManagerClientsAssumption
<1>3. logger \in LoggerRecord
  BY DEF ClientsInv, LoggerType
<1>4. PICK s \in Seq(Nat) : s = logger.recentLogs
  BY <1>3 DEF LoggerRecord
<1>5. PICK r : r = IF m = 0 THEN <<>> ELSE Newest(s, m)
  OBVIOUS
<1>6. r \in Seq(Nat)
  <2>1. Newest(s, m) \in Seq(Nat)
    <3>1. PICK l \in Nat : l = Len(s)
      BY LenProperties
    <3>2. CASE l > m
      <4>1. PICK d \in Nat : d = l - m
        BY <3>2, <1>2
      <4>2. QED
        BY <3>1, <3>2, <4>1, <1>2, NewestIs DEF AllButFirst
    <3>3. CASE ~(l > m)
      BY <3>1, <3>3 DEF Newest
    <3>4. QED
      BY <3>2, <3>3
  <2>2. QED
    BY <2>1, <1>5
<1>7. /\ logger' = [open |-> logger.open, consoleEnabled |-> logger.consoleEnabled,
                    autoFlush |-> logger.autoFlush, maxCachedLogs |-> m,
                    recentLogs |-> r, logCounts |-> logger.logCounts]
      /\ disk' = disk /\ unflushed' = unflushed
  BY <1>1, <1>3, <1>4, <1>5 DEF setMaxCachedLogs, LoggerRecord
<1>8. logger' \in LoggerRecord /\ logger'.open = logger.open
  BY <1>2, <1>3, <1>6, <1>7 DEF LoggerRecord
<1>9. m \in Levels \cup Limits \cup BOOLEAN \cup {0}
  OBVIOUS
<1>10. /\ LoggerType /\ CacheInv /\ CountsInv /\ LoggerType' /\ FileInv' /\ Extended
       /\ \E n \in Nat : /\ n = Len(calls) /\ calls'[n + 1].op = "limit"
                         /\ calls'[n + 1].arg = m
  BY <1>1, <1>7, <1>8, <1>9, OtherCall
<1>11. PICK n \in Nat : /\ n = Len(calls) /\ calls'[n + 1].op = "limit"
                        /\ calls'[n + 1].arg = m
  BY <1>10
<1>12. /\ logger'.recentLogs = IF m = 0 THEN <<>> ELSE Newest(logger.recentLogs, m)
       /\ logger'.maxCachedLogs = m /\ logger'.logCounts = logger.logCounts
  BY <1>4, <1>5, <1>7
<1>13. CacheInv'
  BY <1>2, <1>10, <1>11, <1>12, CacheLimits
<1>14. CountsInv'
  BY <1>10, <1>11, <1>12, CountsStay
<1>15. QED
  BY <1>10, <1>13, <1>14 DEF ClientsInv

\* setAutoFlush and setConsoleEnabled.
LEMMA FlagCallStep ==
  ASSUME ClientsInv, CallSetAutoFlush \/ CallSetConsoleEnabled
  PROVE  ClientsInv'
<1>1. PICK op \in {"flush", "console"}, b \in BOOLEAN :
         /\ Call(op, b)
         /\ \/ logger' = [logger EXCEPT !.autoFlush = b]
            \/ logger' = [logger EXCEPT !.consoleEnabled = b]
         /\ disk' = disk /\ unflushed' = unflushed
  BY DEF CallSetAutoFlush, CallSetConsoleEnabled, setAutoFlush, setConsoleEnabled
<1>2. logger \in LoggerRecord
  BY DEF ClientsInv, LoggerType
<1>3. /\ logger' \in LoggerRecord /\ logger'.open = logger.open
      /\ logger'.recentLogs = logger.recentLogs /\ logger'.logCounts = logger.logCounts
      /\ logger'.maxCachedLogs = logger.maxCachedLogs
  BY <1>1, <1>2 DEF LoggerRecord
<1>4. b \in Levels \cup Limits \cup BOOLEAN \cup {0}
  OBVIOUS
<1>5. op \in {"limit", "flush", "console", "clear", "reset"}
  OBVIOUS
<1>6. /\ LoggerType /\ CacheInv /\ CountsInv /\ LoggerType' /\ FileInv' /\ Extended
      /\ \E n \in Nat : /\ n = Len(calls) /\ calls'[n + 1].op = op
                        /\ calls'[n + 1].arg = b
  BY <1>1, <1>3, <1>4, <1>5, OtherCall
<1>7. PICK n \in Nat : n = Len(calls) /\ calls'[n + 1].op = op
  BY <1>6
<1>8. CacheInv'
  <2>1. calls'[n + 1].op \in {"flush", "console", "reset"}
    BY <1>7
  <2>2. QED
    BY <2>1, <1>3, <1>6, <1>7, CacheStays
<1>9. CountsInv'
  <2>1. calls'[n + 1].op # "log" /\ calls'[n + 1].op # "reset"
    BY <1>7
  <2>2. QED
    BY <2>1, <1>3, <1>6, <1>7, CountsStay
<1>10. QED
  BY <1>6, <1>8, <1>9 DEF ClientsInv

\* clearRecentLogs keeps the invariant.
LEMMA ClearCallStep ==
  ASSUME ClientsInv, CallClearRecentLogs
  PROVE  ClientsInv'
<1>1. Call("clear", 0) /\ disk' = disk /\ unflushed' = unflushed
      /\ logger' = [logger EXCEPT !.recentLogs = <<>>]
  BY DEF CallClearRecentLogs, clearRecentLogs
<1>2. logger \in LoggerRecord /\ <<>> \in Seq(Nat)
  BY DEF ClientsInv, LoggerType
<1>3. /\ logger' \in LoggerRecord /\ logger'.open = logger.open
      /\ logger'.recentLogs = <<>> /\ logger'.logCounts = logger.logCounts
      /\ logger'.maxCachedLogs = logger.maxCachedLogs
  BY <1>1, <1>2 DEF LoggerRecord
<1>4. 0 \in Levels \cup Limits \cup BOOLEAN \cup {0}
  OBVIOUS
<1>5. /\ LoggerType /\ CacheInv /\ CountsInv /\ LoggerType' /\ FileInv' /\ Extended
      /\ \E n \in Nat : /\ n = Len(calls) /\ calls'[n + 1].op = "clear"
                        /\ calls'[n + 1].arg = 0
  BY <1>1, <1>3, <1>4, OtherCall
<1>6. PICK n \in Nat : n = Len(calls) /\ calls'[n + 1].op = "clear"
  BY <1>5
<1>7. CacheInv'
  BY <1>3, <1>5, <1>6, CacheClears
<1>8. CountsInv'
  BY <1>3, <1>5, <1>6, CountsStay
<1>9. QED
  BY <1>5, <1>7, <1>8 DEF ClientsInv

\* resetLogCounts keeps the invariant.
LEMMA ResetCallStep ==
  ASSUME ClientsInv, CallResetLogCounts
  PROVE  ClientsInv'
<1>1. Call("reset", 0) /\ disk' = disk /\ unflushed' = unflushed
      /\ logger' = [logger EXCEPT !.logCounts = [level \in LogLevel |-> 0]]
  BY DEF CallResetLogCounts, resetLogCounts
<1>2. logger \in LoggerRecord /\ [level \in LogLevel |-> 0] \in [LogLevel -> Nat]
  BY DEF ClientsInv, LoggerType
<1>3. /\ logger' \in LoggerRecord /\ logger'.open = logger.open
      /\ logger'.recentLogs = logger.recentLogs
      /\ logger'.logCounts = [level \in LogLevel |-> 0]
      /\ logger'.maxCachedLogs = logger.maxCachedLogs
  BY <1>1, <1>2 DEF LoggerRecord
<1>4. 0 \in Levels \cup Limits \cup BOOLEAN \cup {0}
  OBVIOUS
<1>5. /\ LoggerType /\ CacheInv /\ CountsInv /\ LoggerType' /\ FileInv' /\ Extended
      /\ \E n \in Nat : /\ n = Len(calls) /\ calls'[n + 1].op = "reset"
                        /\ calls'[n + 1].arg = 0
  BY <1>1, <1>3, <1>4, OtherCall
<1>6. PICK n \in Nat : n = Len(calls) /\ calls'[n + 1].op = "reset"
  BY <1>5
<1>7. CacheInv'
  BY <1>3, <1>5, <1>6, CacheStays
<1>8. CountsInv'
  BY <1>3, <1>5, <1>6, CountsReset
<1>9. QED
  BY <1>5, <1>7, <1>8 DEF ClientsInv

\* What the definitions read from the history stays with it.
LEMMA HistoryKept ==
  ASSUME calls' = calls
  PROVE  /\ \A i : IsLog(i)' <=> IsLog(i)
         /\ \A j : LimitAt(j)' = LimitAt(j)
         /\ \A i : Cached(i)' <=> Cached(i)
         /\ \A level : Since(level)' = Since(level)
         /\ \A x : FileLine(x)' <=> FileLine(x)
<1>1. \A i : IsLog(i)' <=> IsLog(i)
  BY DEF IsLog
<1>2. \A j : LimitAt(j)' = LimitAt(j)
  BY DEF LimitAt
<1>3. \A i, j : LogsBetween(i, j)' = LogsBetween(i, j)
  BY DEF LogsBetween, IsLog
<1>4. \A i : Cached(i)' <=> Cached(i)
  BY <1>1, <1>2, <1>3 DEF Cached
<1>5. \A level : Since(level)' = Since(level)
  BY DEF Since, IsLog
<1>6. \A x : FileLine(x)' <=> FileLine(x)
  BY DEF FileLine, IsLog
<1>7. QED
  BY <1>1, <1>2, <1>4, <1>5, <1>6

\* The cache stays right while neither it nor the history changes.
LEMMA CacheKept ==
  ASSUME CacheInv, calls' = calls, logger'.recentLogs = logger.recentLogs,
         logger'.maxCachedLogs = logger.maxCachedLogs
  PROVE  CacheInv'
<1>1. PICK s : s = logger.recentLogs
  OBVIOUS
<1>2. PICK n : n = Len(calls)
  OBVIOUS
<1>3. /\ Rising(s) /\ Len(s) <= logger.maxCachedLogs /\ logger.maxCachedLogs = LimitAt(n)
      /\ \A p \in 1 .. Len(s) : s[p] \in 1 .. n /\ IsLog(s[p])
      /\ \A p \in 1 .. Len(s), k \in 1 .. n : IsLog(k) /\ k > s[p] => Has(s, k)
      /\ \A i \in 1 .. n : Cached(i) <=> Has(s, i)
  BY <1>1, <1>2 DEF CacheInv
<1>4. s = logger'.recentLogs /\ n = Len(calls')
  BY <1>1, <1>2
<1>5. /\ \A p \in 1 .. Len(s) : s[p] \in 1 .. n /\ IsLog(s[p])'
      /\ \A p \in 1 .. Len(s), k \in 1 .. n : IsLog(k)' /\ k > s[p] => Has(s, k)
  BY <1>3, HistoryKept
<1>6. \A i \in 1 .. n : Cached(i)' <=> Has(s, i)
  BY <1>3, HistoryKept
<1>7. logger'.maxCachedLogs = LimitAt(n)'
  BY <1>3, HistoryKept
<1>8. QED
  BY <1>3, <1>4, <1>5, <1>6, <1>7 DEF CacheInv

\* The stream writes its buffer, of its own accord or when it is closed.
LEMMA FlushStep ==
  ASSUME ClientsInv, disk' = disk \o unflushed, unflushed' = <<>>, calls' = calls,
         alive' \in BOOLEAN, logger' \in LoggerRecord,
         logger'.recentLogs = logger.recentLogs, logger'.logCounts = logger.logCounts,
         logger'.maxCachedLogs = logger.maxCachedLogs
  PROVE  ClientsInv'
<1>1. LoggerType /\ CacheInv /\ CountsInv /\ FileInv
  BY DEF ClientsInv
<1>2. disk \o unflushed \in Seq(Nat) /\ <<>> \in Seq(Nat)
  BY <1>1, ConcatProperties DEF LoggerType
<1>3. disk' \o unflushed' = disk \o unflushed
  BY <1>2, ConcatEmptySeq
<1>4. LoggerType'
  BY <1>1, <1>2 DEF LoggerType
<1>5. CacheInv'
  BY <1>1, CacheKept
<1>6. CountsInv'
  BY <1>1, HistoryKept DEF CountsInv
<1>7. FileInv'
  BY <1>1, <1>3, HistoryKept DEF FileInv
<1>8. QED
  BY <1>4, <1>5, <1>6, <1>7 DEF ClientsInv

\* The destructor keeps the invariant: nothing stays in the buffer.
LEMMA DestroyStep ==
  ASSUME ClientsInv, Destroy
  PROVE  ClientsInv'
<1>1. calls' = calls /\ alive' = FALSE /\ logger \in LoggerRecord
  BY DEF Destroy, ClientsInv, LoggerType
<1>2. CASE destroy
  <2>1. /\ disk' = disk \o unflushed /\ unflushed' = <<>>
        /\ logger' = [logger EXCEPT !.open = FALSE]
    BY <1>2 DEF destroy
  <2>2. /\ logger' \in LoggerRecord
        /\ logger'.recentLogs = logger.recentLogs /\ logger'.logCounts = logger.logCounts
        /\ logger'.maxCachedLogs = logger.maxCachedLogs
    BY <2>1, <1>1 DEF LoggerRecord
  <2>3. QED
    BY <2>1, <2>2, <1>1, FlushStep
<1>3. CASE ~logger.open /\ UNCHANGED managerVars
  <2>1. logger' = logger /\ disk' = disk /\ unflushed' = unflushed
    BY <1>3 DEF managerVars
  <2>2. unflushed = <<>> /\ disk \in Seq(Nat)
    BY <1>3 DEF ClientsInv, FileInv, LoggerType
  <2>3. disk' = disk \o unflushed
    BY <2>1, <2>2, ConcatEmptySeq
  <2>4. QED
    BY <2>1, <2>2, <2>3, <1>1, FlushStep
<1>4. QED
  BY <1>2, <1>3 DEF Destroy

\* A step that changes nothing keeps the invariant.
LEMMA ClientsIdle ==
  ASSUME ClientsInv, UNCHANGED clientsVars
  PROVE  ClientsInv'
<1>1. logger' = logger /\ disk' = disk /\ unflushed' = unflushed /\ calls' = calls /\ alive' = alive
  BY DEF clientsVars, managerVars
<1>2. LoggerType' /\ CountsInv' /\ FileInv'
  BY <1>1, HistoryKept DEF ClientsInv, LoggerType, CountsInv, FileInv
<1>3. CacheInv'
  BY <1>1, CacheKept DEF ClientsInv
<1>4. QED
  BY <1>2, <1>3 DEF ClientsInv

\* The inductive invariant implies what the runs check.
LEMMA ClientsInvExact ==
  ASSUME ClientsInv
  PROVE  LoggerExact
<1>1. RecentLogsExact
  BY DEF ClientsInv, CacheInv, RecentLogsExact, Rising, Has
<1>2. LogCountsExact
  BY DEF ClientsInv, CountsInv, Since, LogCountsExact
<1>3. FileComplete
  <2>1. \A i \in 1 .. Len(calls) :
           IsLog(i) /\ calls[i].open <=> Has(disk \o unflushed, i)
    BY DEF ClientsInv, FileInv, FileLine
  <2>2. Rising(disk \o unflushed) /\ (~alive => unflushed = <<>>)
    BY DEF ClientsInv, FileInv
  <2>3. QED
    BY <2>1, <2>2 DEF FileComplete, Rising, Has
<1>4. QED
  BY <1>1, <1>2, <1>3 DEF LoggerExact

\* Whatever calls the threads make in whatever order, with limits of any size,
\* the cache, the counters and the file of the LogManager are what the history
\* of calls says (log_manager.cpp 81-205).
THEOREM LoggerIsExact == ClientsSpec => []LoggerExact
<1>1. ClientsInit => ClientsInv
  BY ClientsInitially
<1>2. ClientsInv /\ [ClientsNext]_clientsVars => ClientsInv'
  <2> SUFFICES ASSUME ClientsInv, [ClientsNext]_clientsVars PROVE ClientsInv'
    OBVIOUS
  <2>1. CASE CallLog
    BY <2>1, LogCallStep
  <2>2. CASE CallSetMaxCachedLogs
    BY <2>2, LimitCallStep
  <2>3. CASE CallSetAutoFlush \/ CallSetConsoleEnabled
    BY <2>3, FlagCallStep
  <2>4. CASE CallClearRecentLogs
    BY <2>4, ClearCallStep
  <2>5. CASE CallResetLogCounts
    BY <2>5, ResetCallStep
  <2>6. CASE Spill /\ UNCHANGED <<calls, alive>>
    <3>1. /\ disk' = disk \o unflushed /\ unflushed' = <<>> /\ logger' = logger
          /\ calls' = calls /\ alive' = alive
      BY <2>6 DEF Spill
    <3>2. logger' \in LoggerRecord /\ alive' \in BOOLEAN
      BY <3>1 DEF ClientsInv, LoggerType
    <3>3. QED
      BY <3>1, <3>2, FlushStep
  <2>7. CASE Destroy
    BY <2>7, DestroyStep
  <2>8. CASE UNCHANGED clientsVars
    BY <2>8, ClientsIdle
  <2>9. QED
    BY <2>1, <2>2, <2>3, <2>4, <2>5, <2>6, <2>7, <2>8 DEF ClientsNext
<1>3. ClientsInv => LoggerExact
  BY ClientsInvExact
<1>4. QED
  BY <1>1, <1>2, <1>3, PTL DEF ClientsSpec
============================================================================
