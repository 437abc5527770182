----------------------- MODULE ReliableSerialProofs -----------------------
(***************************************************************************)
(* Theorems about ReliableSerial: the checksum detects every change of one   *)
(* byte, and therefore, for any requests, attempts and faults, the device    *)
(* executes each request at most once and as it was sent, and every ACK the  *)
(* gateway accepts is true.                                                  *)
(***************************************************************************)
EXTENDS ReliableSerial, SequenceTheorems, TLAPS

----------------------------------------------------------------------------
(* The codec.                                                                *)

\* One binary digit: what is left of x and of y after dividing by n follows
\* from what is left after dividing by 2n and from the digit.
LEMMA Halves ==
  ASSUME NEW x \in Nat, NEW y \in Nat, x % 2 = y % 2, x \div 2 = y \div 2
  PROVE  x = y
OBVIOUS

\* The bits of a byte, one division by two after the other.
LEMMA DivTwice ==
  ASSUME NEW x \in Byte
  PROVE  /\ x \div 1 = x
         /\ x \div 2 \in Nat /\ x \div 4 \in Nat /\ x \div 8 \in Nat
         /\ x \div 16 \in Nat /\ x \div 32 \in Nat /\ x \div 64 \in Nat
         /\ x \div 128 \in {0, 1}
         /\ (x \div 2) \div 2 = x \div 4
         /\ (x \div 4) \div 2 = x \div 8
         /\ (x \div 8) \div 2 = x \div 16
         /\ (x \div 16) \div 2 = x \div 32
         /\ (x \div 32) \div 2 = x \div 64
         /\ (x \div 64) \div 2 = x \div 128
BY DEF Byte

\* A byte is its eight bits.
LEMMA SameBits ==
  ASSUME NEW x \in Byte, NEW y \in Byte,
         \A n \in {1, 2, 4, 8, 16, 32, 64, 128} : (x \div n) % 2 = (y \div n) % 2
  PROVE  x = y
<1>1. x \div 128 = y \div 128
  BY DivTwice
<1>2. x \div 64 = y \div 64
  BY <1>1, DivTwice, Halves
<1>3. x \div 32 = y \div 32
  BY <1>2, DivTwice, Halves
<1>4. x \div 16 = y \div 16
  BY <1>3, DivTwice, Halves
<1>5. x \div 8 = y \div 8
  BY <1>4, DivTwice, Halves
<1>6. x \div 4 = y \div 4
  <2>1. PICK a \in Nat, b \in Nat : a = x \div 4 /\ b = y \div 4
    BY DivTwice
  <2>2. a % 2 = b % 2 /\ a \div 2 = b \div 2
    BY <1>5, <2>1, DivTwice
  <2>3. QED
    BY <2>1, <2>2, Halves
<1>7. x \div 2 = y \div 2
  BY <1>6, DivTwice, Halves
<1>8. x \in Nat /\ y \in Nat
  BY DEF Byte
<1>9. QED
  BY <1>7, <1>8, DivTwice, Halves

\* A sum of powers of two says which of them are in it.
LEMMA SameDigits ==
  ASSUME NEW p1 \in {0, 1}, NEW p2 \in {0, 1}, NEW p3 \in {0, 1}, NEW p4 \in {0, 1},
         NEW p5 \in {0, 1}, NEW p6 \in {0, 1}, NEW p7 \in {0, 1}, NEW p8 \in {0, 1},
         NEW q1 \in {0, 1}, NEW q2 \in {0, 1}, NEW q3 \in {0, 1}, NEW q4 \in {0, 1},
         NEW q5 \in {0, 1}, NEW q6 \in {0, 1}, NEW q7 \in {0, 1}, NEW q8 \in {0, 1},
         1*p1 + 2*p2 + 4*p3 + 8*p4 + 16*p5 + 32*p6 + 64*p7 + 128*p8
           = 1*q1 + 2*q2 + 4*q3 + 8*q4 + 16*q5 + 32*q6 + 64*q7 + 128*q8
  PROVE  /\ p1 = q1 /\ p2 = q2 /\ p3 = q3 /\ p4 = q4
         /\ p5 = q5 /\ p6 = q6 /\ p7 = q7 /\ p8 = q8
OBVIOUS

\* Bit n of the exclusive or of five bytes.
Parity(b, n) == ((b[3] \div n) + (b[4] \div n) + (b[5] \div n)
                 + (b[6] \div n) + (b[7] \div n)) % 2

Weights == {1, 2, 4, 8, 16, 32, 64, 128}

\* A division by a weight stays a number.
LEMMA DivNat ==
  ASSUME NEW x \in Nat, NEW n \in Weights
  PROVE  x \div n \in Nat
<1>1. /\ x \div 1 \in Nat /\ x \div 2 \in Nat /\ x \div 4 \in Nat /\ x \div 8 \in Nat
      /\ x \div 16 \in Nat /\ x \div 32 \in Nat /\ x \div 64 \in Nat
      /\ x \div 128 \in Nat
  OBVIOUS
<1>2. QED
  BY <1>1, Zenon DEF Weights

\* The checksum has the parities of the bits as its binary digits.
LEMMA ChecksumDigits ==
  ASSUME NEW b \in Seq(Byte), Len(b) >= 7
  PROVE  /\ calculateChecksum(b) =
              1 * Parity(b, 1) + 2 * Parity(b, 2) + 4 * Parity(b, 4) + 8 * Parity(b, 8)
              + 16 * Parity(b, 16) + 32 * Parity(b, 32) + 64 * Parity(b, 64)
              + 128 * Parity(b, 128)
         /\ \A n \in Weights : Parity(b, n) \in {0, 1}
<1>1. \A j \in 3 .. 7 : b[j] \in Nat
  BY DEF Byte
<1>2. \A n \in Weights, j \in 3 .. 7 : b[j] \div n \in Nat
  BY <1>1, DivNat
<1>3. \A n \in Weights : Parity(b, n) \in {0, 1}
  <2> SUFFICES ASSUME NEW n \in Weights
               PROVE  Parity(b, n) \in {0, 1}
    OBVIOUS
  <2>1. PICK s \in Nat : s = (b[3] \div n) + (b[4] \div n) + (b[5] \div n)
                             + (b[6] \div n) + (b[7] \div n)
    BY <1>2
  <2>2. QED
    BY <2>1 DEF Parity
<1>4. QED
  BY <1>3 DEF calculateChecksum, Parity

\* Equal checksums have equal bits.
LEMMA SameParities ==
  ASSUME NEW b \in Seq(Byte), Len(b) >= 7, NEW c \in Seq(Byte), Len(c) >= 7,
         calculateChecksum(b) = calculateChecksum(c)
  PROVE  \A n \in Weights : Parity(b, n) = Parity(c, n)
<1>1. \A n \in Weights : Parity(b, n) \in {0, 1} /\ Parity(c, n) \in {0, 1}
  BY ChecksumDigits
<1>2. /\ Parity(b, 1) \in {0, 1} /\ Parity(b, 2) \in {0, 1} /\ Parity(b, 4) \in {0, 1}
      /\ Parity(b, 8) \in {0, 1} /\ Parity(b, 16) \in {0, 1} /\ Parity(b, 32) \in {0, 1}
      /\ Parity(b, 64) \in {0, 1} /\ Parity(b, 128) \in {0, 1}
  BY <1>1 DEF Weights
<1>3. /\ Parity(c, 1) \in {0, 1} /\ Parity(c, 2) \in {0, 1} /\ Parity(c, 4) \in {0, 1}
      /\ Parity(c, 8) \in {0, 1} /\ Parity(c, 16) \in {0, 1} /\ Parity(c, 32) \in {0, 1}
      /\ Parity(c, 64) \in {0, 1} /\ Parity(c, 128) \in {0, 1}
  BY <1>1 DEF Weights
<1>4. PICK p1 \in {0, 1}, p2 \in {0, 1}, p3 \in {0, 1}, p4 \in {0, 1} :
        /\ p1 = Parity(b, 1) /\ p2 = Parity(b, 2)
        /\ p3 = Parity(b, 4) /\ p4 = Parity(b, 8)
  BY <1>2
<1>5. PICK p5 \in {0, 1}, p6 \in {0, 1}, p7 \in {0, 1}, p8 \in {0, 1} :
        /\ p5 = Parity(b, 16) /\ p6 = Parity(b, 32)
        /\ p7 = Parity(b, 64) /\ p8 = Parity(b, 128)
  BY <1>2
<1>6. PICK q1 \in {0, 1}, q2 \in {0, 1}, q3 \in {0, 1}, q4 \in {0, 1} :
        /\ q1 = Parity(c, 1) /\ q2 = Parity(c, 2)
        /\ q3 = Parity(c, 4) /\ q4 = Parity(c, 8)
  BY <1>3
<1>7. PICK q5 \in {0, 1}, q6 \in {0, 1}, q7 \in {0, 1}, q8 \in {0, 1} :
        /\ q5 = Parity(c, 16) /\ q6 = Parity(c, 32)
        /\ q7 = Parity(c, 64) /\ q8 = Parity(c, 128)
  BY <1>3
<1>8. 1*p1 + 2*p2 + 4*p3 + 8*p4 + 16*p5 + 32*p6 + 64*p7 + 128*p8
        = 1*q1 + 2*q2 + 4*q3 + 8*q4 + 16*q5 + 32*q6 + 64*q7 + 128*q8
  BY <1>4, <1>5, <1>6, <1>7, ChecksumDigits
<1>9. /\ p1 = q1 /\ p2 = q2 /\ p3 = q3 /\ p4 = q4
      /\ p5 = q5 /\ p6 = q6 /\ p7 = q7 /\ p8 = q8
  BY <1>8, SameDigits
<1>10. /\ Parity(b, 1) = Parity(c, 1) /\ Parity(b, 2) = Parity(c, 2)
       /\ Parity(b, 4) = Parity(c, 4) /\ Parity(b, 8) = Parity(c, 8)
       /\ Parity(b, 16) = Parity(c, 16) /\ Parity(b, 32) = Parity(c, 32)
       /\ Parity(b, 64) = Parity(c, 64) /\ Parity(b, 128) = Parity(c, 128)
  BY <1>4, <1>5, <1>6, <1>7, <1>9
<1>11. QED
  BY <1>10 DEF Weights

\* When one of five terms changes and the parity of the sum does not, the parity
\* of the term does not.
LEMMA OneTerm ==
  ASSUME NEW B \in [3 .. 7 -> Nat], NEW C \in [3 .. 7 -> Nat], NEW i \in 3 .. 7,
         \A j \in (3 .. 7) \ {i} : B[j] = C[j],
         (B[3] + B[4] + B[5] + B[6] + B[7]) % 2 = (C[3] + C[4] + C[5] + C[6] + C[7]) % 2
  PROVE  B[i] % 2 = C[i] % 2
<1>1. /\ B[3] \in Nat /\ B[4] \in Nat /\ B[5] \in Nat /\ B[6] \in Nat /\ B[7] \in Nat
      /\ C[3] \in Nat /\ C[4] \in Nat /\ C[5] \in Nat /\ C[6] \in Nat /\ C[7] \in Nat
  OBVIOUS
<1>2. CASE i = 3
  <2>1. B[4] = C[4] /\ B[5] = C[5] /\ B[6] = C[6] /\ B[7] = C[7]
    BY <1>2
  <2>2. QED
    BY <1>1, <1>2, <2>1
<1>3. CASE i = 4
  <2>1. B[3] = C[3] /\ B[5] = C[5] /\ B[6] = C[6] /\ B[7] = C[7]
    BY <1>3
  <2>2. QED
    BY <1>1, <1>3, <2>1
<1>4. CASE i = 5
  <2>1. B[3] = C[3] /\ B[4] = C[4] /\ B[6] = C[6] /\ B[7] = C[7]
    BY <1>4
  <2>2. QED
    BY <1>1, <1>4, <2>1
<1>5. CASE i = 6
  <2>1. B[3] = C[3] /\ B[4] = C[4] /\ B[5] = C[5] /\ B[7] = C[7]
    BY <1>5
  <2>2. QED
    BY <1>1, <1>5, <2>1
<1>6. CASE i = 7
  <2>1. B[3] = C[3] /\ B[4] = C[4] /\ B[5] = C[5] /\ B[6] = C[6]
    BY <1>6
  <2>2. QED
    BY <1>1, <1>6, <2>1
<1>7. QED
  BY <1>2, <1>3, <1>4, <1>5, <1>6

\* Two frames that differ in one of the bytes 3 to 7 have different checksums.
LEMMA OneByteShows ==
  ASSUME NEW b \in Seq(Byte), Len(b) >= 7, NEW c \in Seq(Byte), Len(c) >= 7,
         NEW i \in 3 .. 7, \A j \in (3 .. 7) \ {i} : b[j] = c[j],
         calculateChecksum(b) = calculateChecksum(c)
  PROVE  b[i] = c[i]
<1>1. \A j \in 3 .. 7 : b[j] \in Byte /\ c[j] \in Byte
  OBVIOUS
<1>2. ASSUME NEW n \in Weights
      PROVE  (b[i] \div n) % 2 = (c[i] \div n) % 2
  <2> DEFINE B == [j \in 3 .. 7 |-> b[j] \div n]
             C == [j \in 3 .. 7 |-> c[j] \div n]
  <2>1. \A j \in 3 .. 7 : b[j] \div n \in Nat /\ c[j] \div n \in Nat
    BY <1>1, DivNat DEF Byte
  <2>2. B \in [3 .. 7 -> Nat] /\ C \in [3 .. 7 -> Nat]
    BY <2>1
  <2>3. \A j \in (3 .. 7) \ {i} : B[j] = C[j]
    OBVIOUS
  <2>4. /\ Parity(b, n) = (B[3] + B[4] + B[5] + B[6] + B[7]) % 2
        /\ Parity(c, n) = (C[3] + C[4] + C[5] + C[6] + C[7]) % 2
    BY DEF Parity
  <2>5. B[i] = b[i] \div n /\ C[i] = c[i] \div n
    OBVIOUS
  <2> HIDE DEF B, C
  <2>6. Parity(b, n) = Parity(c, n)
    BY SameParities
  <2>7. B[i] % 2 = C[i] % 2
    BY <2>2, <2>3, <2>4, <2>6, OneTerm
  <2>8. QED
    BY <2>5, <2>7
<1>3. b[i] \in Byte /\ c[i] \in Byte
  BY <1>1
<1>4. \A n \in {1, 2, 4, 8, 16, 32, 64, 128} : (b[i] \div n) % 2 = (c[i] \div n) % 2
  BY <1>2 DEF Weights
<1>5. QED
  BY <1>3, <1>4, SameBits

\* The bytes of a frame.
LEMMA EncodeBytes ==
  ASSUME NEW s \in Nat, NEW type \in Byte, NEW code \in Byte
  PROVE  LET b == encode(s, type, code)
         IN  /\ b \in Seq(Byte) /\ Len(b) = 10
             /\ b[1] = 170 /\ b[2] = 85 /\ b[9] = 13 /\ b[10] = 10
             /\ b[4] = (s \div 256) % 256 /\ b[5] = s % 256
             /\ b[6] = type /\ b[7] = code
             /\ b[8] = calculateChecksum(b)
<1> DEFINE high == (s \div 256) % 256
           low == s % 256
           body == <<170, 85, 4, high, low, type, code>>
           sum == calculateChecksum(body)
           tail == <<sum, 13, 10>>
           b == body \o tail
<1>1. high \in Byte /\ low \in Byte
  BY DEF Byte
<1> HIDE DEF high, low
<1>2. 170 \in Byte /\ 85 \in Byte /\ 4 \in Byte /\ 13 \in Byte /\ 10 \in Byte
  BY DEF Byte
<1>3. /\ body \in Seq(Byte) /\ Len(body) = 7 /\ Len(body) >= 7
      /\ body[1] = 170 /\ body[2] = 85 /\ body[3] = 4 /\ body[4] = high
      /\ body[5] = low /\ body[6] = type /\ body[7] = code
  BY <1>1, <1>2
<1> HIDE DEF body
<1>4. sum \in Byte
  <2>1. \A n \in Weights : Parity(body, n) \in {0, 1}
    <3>1. body \in Seq(Byte) /\ Len(body) >= 7
      BY <1>3
    <3>2. QED
      BY <3>1, ChecksumDigits
  <2>2. /\ Parity(body, 1) \in {0, 1} /\ Parity(body, 2) \in {0, 1} /\ Parity(body, 4) \in {0, 1}
        /\ Parity(body, 8) \in {0, 1} /\ Parity(body, 16) \in {0, 1} /\ Parity(body, 32) \in {0, 1}
        /\ Parity(body, 64) \in {0, 1} /\ Parity(body, 128) \in {0, 1}
    BY <2>1 DEF Weights
  <2>3. calculateChecksum(body) =
          1 * Parity(body, 1) + 2 * Parity(body, 2) + 4 * Parity(body, 4) + 8 * Parity(body, 8)
          + 16 * Parity(body, 16) + 32 * Parity(body, 32) + 64 * Parity(body, 64)
          + 128 * Parity(body, 128)
    BY <1>3, ChecksumDigits
  <2>4. calculateChecksum(body) \in 0 .. 255
    BY <2>2, <2>3
  <2>5. QED
    BY <2>4 DEF Byte
<1> HIDE DEF sum
<1>5. tail \in Seq(Byte) /\ Len(tail) = 3 /\ tail[1] = sum /\ tail[2] = 13 /\ tail[3] = 10
  BY <1>2, <1>4
<1> HIDE DEF tail
<1>6. /\ b \in Seq(Byte) /\ Len(b) = 10
      /\ \A j \in 1 .. 7 : b[j] = body[j]
      /\ b[8] = tail[1] /\ b[9] = tail[2] /\ b[10] = tail[3]
  <2>1. /\ Len(b) = Len(body) + Len(tail)
        /\ \A j \in 1 .. Len(body) + Len(tail) :
             b[j] = IF j <= Len(body) THEN body[j] ELSE tail[j - Len(body)]
    <3>1. \A s1, s2 \in Seq(Byte) :
            /\ Len(s1 \o s2) = Len(s1) + Len(s2)
            /\ \A j \in 1 .. Len(s1) + Len(s2) :
                 (s1 \o s2)[j] = IF j <= Len(s1) THEN s1[j] ELSE s2[j - Len(s1)]
      BY ConcatProperties
    <3>2. body \in Seq(Byte) /\ tail \in Seq(Byte)
      BY <1>3, <1>5
    <3>3. QED
      BY <3>1, <3>2, Zenon
  <2>2. b \in Seq(Byte)
    BY <1>3, <1>5
  <2> HIDE DEF b
  <2>3. Len(b) = 10 /\ \A j \in 1 .. 10 : b[j] = IF j <= 7 THEN body[j] ELSE tail[j - 7]
    BY <1>3, <1>5, <2>1
  <2>4. b[8] = tail[8 - 7] /\ b[9] = tail[9 - 7] /\ b[10] = tail[10 - 7]
    BY <2>3
  <2>5. QED
    BY <2>2, <2>3, <2>4
<1> HIDE DEF b
<1>7. calculateChecksum(b) = sum
  BY <1>6 DEF sum, calculateChecksum
<1>8. encode(s, type, code) = b
  BY DEF encode, b, body, tail, sum, high, low
<1>9. QED
  BY <1>3, <1>5, <1>6, <1>7, <1>8 DEF high, low

\* What is decoded is what was encoded.
LEMMA SequenceBytes ==
  ASSUME NEW s \in Nat, s < 65536,
         NEW high, high = (s \div 256) % 256, NEW low, low = s % 256
  PROVE  high * 256 + low = s
<1>1. s \div 256 \in Nat /\ s \div 256 < 256
  OBVIOUS
<1>2. high \in Nat /\ high = s \div 256 /\ low \in Nat
  BY <1>1
<1>3. s - 256 * high = low
  BY <1>2
<1>4. QED
  BY <1>2, <1>3

\* A frame that arrives as it was sent is decoded to the request that was sent
\* (protocol_codec.cpp, encodeRequest and decodeRequest).
THEOREM RequestRoundTrip ==
  ASSUME NEW r \in RequestFrame
  PROVE  /\ decodeRequest(encodeRequest(r))
         /\ RequestOf(encodeRequest(r)) = r
<1>1. /\ r.sequence \in Nat /\ r.sequence < 65536 /\ r.command \in Byte
      /\ r = [sequence |-> r.sequence, command |-> r.command]
  BY DEF RequestFrame, CommandCode, Byte
<1>2. FrameType.Request = 1 /\ 1 \in Byte
  BY DEF FrameType, Byte
<1>3. PICK b : b = encode(r.sequence, 1, r.command)
  OBVIOUS
<1>4. /\ Len(b) = 10 /\ b[1] = 170 /\ b[2] = 85 /\ b[9] = 13 /\ b[10] = 10
      /\ b[4] = (r.sequence \div 256) % 256 /\ b[5] = r.sequence % 256
      /\ b[6] = 1 /\ b[7] = r.command /\ b[8] = calculateChecksum(b)
  BY <1>1, <1>2, <1>3, EncodeBytes
<1>5. encodeRequest(r) = b
  BY <1>2, <1>3 DEF encodeRequest
<1>6. b[4] * 256 + b[5] = r.sequence
  BY <1>1, <1>4, SequenceBytes
<1>7. QED
  BY <1>1, <1>2, <1>4, <1>5, <1>6 DEF decodeRequest, Wellformed, RequestOf

AckFrame == [sequence : {n \in Nat : n < 65536}, result : {0, 1, 2}]

\* The same for an ACK.
THEOREM AckRoundTrip ==
  ASSUME NEW a \in AckFrame
  PROVE  /\ decodeAck(encodeAck(a))
         /\ AckOf(encodeAck(a)) = a
<1>1. /\ a.sequence \in Nat /\ a.sequence < 65536 /\ a.result \in Byte
      /\ a = [sequence |-> a.sequence, result |-> a.result]
  BY DEF AckFrame, Byte
<1>2. FrameType.Ack = 2 /\ 2 \in Byte
  BY DEF FrameType, Byte
<1>3. PICK b : b = encode(a.sequence, 2, a.result)
  OBVIOUS
<1>4. /\ Len(b) = 10 /\ b[1] = 170 /\ b[2] = 85 /\ b[9] = 13 /\ b[10] = 10
      /\ b[4] = (a.sequence \div 256) % 256 /\ b[5] = a.sequence % 256
      /\ b[6] = 2 /\ b[7] = a.result /\ b[8] = calculateChecksum(b)
  BY <1>1, <1>2, <1>3, EncodeBytes
<1>5. encodeAck(a) = b
  BY <1>2, <1>3 DEF encodeAck
<1>6. b[4] * 256 + b[5] = a.sequence
  BY <1>1, <1>4, SequenceBytes
<1>7. QED
  BY <1>1, <1>2, <1>4, <1>5, <1>6 DEF decodeAck, Wellformed, AckOf

\* A frame whose last byte is missing.
LEMMA WithoutLast ==
  ASSUME NEW S, NEW q \in Seq(S), Len(q) = 10
  PROVE  SubSeq(q, 1, 9) \in Seq(S) /\ Len(SubSeq(q, 1, 9)) = 9
<1>1. ASSUME NEW i \in 1 .. 9
      PROVE  q[i] \in S
  <2>1. i \in 1 .. Len(q)
    OBVIOUS
  <2>2. QED
    BY <2>1, ElementOfSeq
<1>2. QED
  BY <1>1, SubSeqProperties

\* A frame in which one byte, whichever, has become another, or whose last byte
\* is missing, is never decoded: the header, the type, the tail and the checksum
\* leave no byte uncovered, and no second byte can make up for the first.
THEOREM DamageDetected ==
  ASSUME NEW s \in Nat, NEW type \in Byte, NEW code \in Byte,
         NEW d \in Damage(Intact(encode(s, type, code))),
         d.bytes /= encode(s, type, code)
  PROVE  d.bytes \in Seq(Byte) /\ ~Wellformed(d.bytes, type)
<1>1. PICK b : b = encode(s, type, code)
  OBVIOUS
<1>2. /\ b \in Seq(Byte) /\ Len(b) = 10
      /\ b[1] = 170 /\ b[2] = 85 /\ b[9] = 13 /\ b[10] = 10
      /\ b[6] = type /\ b[8] = calculateChecksum(b)
  BY <1>1, EncodeBytes
<1>3. Intact(b).bytes = b
  BY DEF Intact
<1>4. CASE d.bytes = SubSeq(b, 1, 9)
  <2>1. Len(d.bytes) = 9 /\ d.bytes \in Seq(Byte)
    <3>1. SubSeq(b, 1, 9) \in Seq(Byte) /\ Len(SubSeq(b, 1, 9)) = 9
      <4>1. b \in Seq(Byte) /\ Len(b) = 10
        BY <1>2
      <4>2. QED
        BY <4>1, WithoutLast, Zenon
    <3>2. QED
      BY <1>4, <3>1
  <2>2. QED
    BY <2>1 DEF Wellformed
<1>5. ASSUME NEW i \in 1 .. 10, NEW v \in Byte, d.bytes = [b EXCEPT ![i] = v]
      PROVE  d.bytes \in Seq(Byte) /\ ~Wellformed(d.bytes, type)
  <2>1. PICK c : c = d.bytes
    OBVIOUS
  <2>2. /\ c \in Seq(Byte) /\ Len(c) = 10 /\ c[i] = v
        /\ \A j \in 1 .. 10 : j /= i => c[j] = b[j]
    BY <1>2, <1>5, <2>1, ExceptSeq
  <2>3. v /= b[i]
    <3>1. v = b[i] => c = b
      BY <1>2, <1>5, <2>1
    <3>2. QED
      BY <1>1, <2>1, <3>1
  <2>4. ASSUME Wellformed(c, type)
        PROVE  FALSE
    <3>1. /\ c[1] = 170 /\ c[2] = 85 /\ c[9] = 13 /\ c[10] = 10
          /\ c[6] = type /\ c[8] = calculateChecksum(c)
      BY <2>4 DEF Wellformed
    <3>2. i \in {3, 4, 5, 7, 8}
      BY <1>2, <2>2, <2>3, <3>1
    <3>3. CASE i = 8
      <4>1. c[3] = b[3] /\ c[4] = b[4] /\ c[5] = b[5] /\ c[6] = b[6] /\ c[7] = b[7]
        BY <2>2, <3>3
      <4>2. calculateChecksum(c) = calculateChecksum(b)
        BY <4>1 DEF calculateChecksum
      <4>3. QED
        BY <1>2, <2>2, <2>3, <3>1, <3>3, <4>2
    <3>4. CASE i /= 8
      <4>1. i \in 3 .. 7 /\ \A j \in (3 .. 7) \ {i} : b[j] = c[j]
        BY <2>2, <3>2, <3>4
      <4>2. c[8] = b[8]
        BY <2>2, <3>4
      <4>3. calculateChecksum(b) = calculateChecksum(c)
        BY <1>2, <3>1, <4>2
      <4>4. Len(b) >= 7 /\ Len(c) >= 7
        BY <1>2, <2>2
      <4>5. b \in Seq(Byte) /\ c \in Seq(Byte)
        BY <1>2, <2>2
      <4>6. b[i] = c[i]
        BY <4>1, <4>3, <4>4, <4>5, OneByteShows, Zenon
      <4>7. QED
        BY <2>2, <2>3, <4>6
    <3>5. QED
      BY <3>3, <3>4
  <2>5. QED
    BY <2>1, <2>2, <2>4
<1>6. \/ d.bytes = SubSeq(b, 1, 9)
      \/ \E i \in 1 .. 10, v \in DamagedBytes : d.bytes = [b EXCEPT ![i] = v]
  BY <1>1, <1>3 DEF Damage
<1>7. DamagedBytes \subseteq Byte
  BY ReliableSerialAssumption
<1>8. QED
  BY <1>4, <1>5, <1>6, <1>7

----------------------------------------------------------------------------
(* The inductive invariant.                                                  *)

Frame == [bytes : Seq(Byte), damaged : BOOLEAN]

\* What may be on the line to the device: a request as it was encoded, or a
\* damaged frame, which the device does not decode.
OnToDevice ==
  {f \in Frame : \/ \E r \in Requests : f = Intact(encodeRequest(r))
                 \/ f.damaged /\ ~decodeRequest(f.bytes)}

\* What may be on the line to the gateway when the device has cached S.
OnToGateway(S) ==
  {f \in Frame : \/ \E a \in S : f = Intact(encodeAck(a))
                 \/ f.damaged /\ ~decodeAck(f.bytes)}

Executed(sequence) ==
  \E i \in 1 .. Len(executions) : executions[i].sequence = sequence

LineInv ==
  /\ toDevice \in Seq(OnToDevice)
  /\ toGateway \in Seq(OnToGateway(ackCache))

\* The cache holds an Ok for each SEQ executed, and for no other.
CacheInv ==
  /\ executions \in Seq(Requests)
  /\ \A a \in ackCache : /\ a \in AckFrame /\ a.result = ResultCode.Ok
                         /\ Executed(a.sequence)
  /\ \A i \in 1 .. Len(executions) : Cached(executions[i].sequence) /= {}
  /\ \A i, j \in 1 .. Len(executions) :
       executions[i].sequence = executions[j].sequence => i = j

StatsInv ==
  /\ stats \in [received : Nat, executed : Nat, duplicates : Nat]
  /\ stats.executed = Len(executions)
  /\ stats.received = stats.executed + stats.duplicates

Inv == LineInv /\ CacheInv /\ StatsInv /\ AcksAreTrue

\* A sequence over a set is one over a larger set.
LEMMA SeqGrows ==
  ASSUME NEW S, NEW T, S \subseteq T, NEW q \in Seq(S)
  PROVE  q \in Seq(T)
<1>1. q \in [1 .. Len(q) -> S] /\ Len(q) \in Nat
  OBVIOUS
<1>2. q \in [1 .. Len(q) -> T]
  BY <1>1
<1>3. QED
  BY <1>1, <1>2, SeqDef

\* A request that the device decodes is one that the gateway sent.
LEMMA DecodedIsSent ==
  ASSUME NEW f \in OnToDevice, decodeRequest(f.bytes)
  PROVE  RequestOf(f.bytes) \in Requests
<1>1. PICK r \in Requests : f = Intact(encodeRequest(r))
  BY DEF OnToDevice
<1>2. f.bytes = encodeRequest(r)
  BY <1>1 DEF Intact
<1>3. r \in RequestFrame
  BY ReliableSerialAssumption
<1>4. QED
  BY <1>2, <1>3, RequestRoundTrip

\* What is put on the line may be there.
LEMMA SentIsOnLine ==
  /\ \A r \in Requests : Intact(encodeRequest(r)) \in OnToDevice
  /\ \A S : \A a \in S : a \in AckFrame => Intact(encodeAck(a)) \in OnToGateway(S)
<1>1. ASSUME NEW b \in Seq(Byte)
      PROVE  Intact(b) \in Frame
  BY DEF Intact, Frame
<1>2. ASSUME NEW r \in Requests
      PROVE  Intact(encodeRequest(r)) \in OnToDevice
  <2>1. r \in RequestFrame
    BY ReliableSerialAssumption
  <2>2. r.sequence \in Nat /\ r.command \in Byte /\ FrameType.Request \in Byte
    BY <2>1 DEF RequestFrame, CommandCode, Byte, FrameType
  <2>3. encodeRequest(r) \in Seq(Byte)
    <3>1. PICK n \in Nat, t \in Byte, c \in Byte :
            n = r.sequence /\ t = FrameType.Request /\ c = r.command
      BY <2>2
    <3>2. encode(n, t, c) \in Seq(Byte)
      BY EncodeBytes
    <3>3. QED
      BY <3>1, <3>2 DEF encodeRequest
  <2>4. QED
    BY <1>1, <2>3 DEF OnToDevice
<1>3. ASSUME NEW S, NEW a \in S, a \in AckFrame
      PROVE  Intact(encodeAck(a)) \in OnToGateway(S)
  <2>1. a.sequence \in Nat /\ a.result \in Byte /\ FrameType.Ack \in Byte
    BY <1>3 DEF AckFrame, Byte, FrameType
  <2>2. encodeAck(a) \in Seq(Byte)
    <3>1. PICK n \in Nat, t \in Byte, c \in Byte :
            n = a.sequence /\ t = FrameType.Ack /\ c = a.result
      BY <2>1
    <3>2. encode(n, t, c) \in Seq(Byte)
      BY EncodeBytes
    <3>3. QED
      BY <3>1, <3>2 DEF encodeAck
  <2>3. QED
    BY <1>1, <2>2 DEF OnToGateway
<1>4. QED
  BY <1>2, <1>3

\* The line turns what may be there into what may be there.
LEMMA DisturbedIsOnLine ==
  /\ \A q \in Seq(OnToDevice) :
       q /= <<>> /\ ~Head(q).damaged => Disturbed(q) \subseteq Seq(OnToDevice)
  /\ \A S : (\A a \in S : a \in AckFrame) =>
       \A q \in Seq(OnToGateway(S)) :
         q /= <<>> /\ ~Head(q).damaged => Disturbed(q) \subseteq Seq(OnToGateway(S))
<1>1. ASSUME NEW T, NEW q \in Seq(T), q /= <<>>,
             \A d \in Damage(Head(q)) : d.bytes /= Head(q).bytes => d \in T
      PROVE  Disturbed(q) \subseteq Seq(T)
  <2>1. Tail(q) \in Seq(T)
    BY <1>1
  <2>2. ASSUME NEW d \in T
        PROVE  <<d>> \o Tail(q) \in Seq(T)
    BY <2>1, <2>2
  <2>3. QED
    BY <1>1, <2>1, <2>2 DEF Disturbed
<1>2. ASSUME NEW b, NEW d \in Damage(Intact(b)), d.bytes \in Seq(Byte)
      PROVE  d \in Frame /\ d.damaged
  <2>1. d.damaged = TRUE /\ d = [bytes |-> d.bytes, damaged |-> TRUE]
    BY <1>2 DEF Damage
  <2>2. QED
    BY <1>2, <2>1 DEF Frame
<1>3. ASSUME NEW q \in Seq(OnToDevice), q /= <<>>, ~Head(q).damaged
      PROVE  Disturbed(q) \subseteq Seq(OnToDevice)
  <2>1. Head(q) \in OnToDevice
    BY <1>3
  <2>2. PICK r \in Requests : Head(q) = Intact(encodeRequest(r))
    BY <1>3, <2>1 DEF OnToDevice
  <2>3. r \in RequestFrame
    BY ReliableSerialAssumption
  <2>4. r.sequence \in Nat /\ r.command \in Byte /\ FrameType.Request \in Byte
    BY <2>3 DEF RequestFrame, CommandCode, Byte, FrameType
  <2>5. Head(q).bytes = encodeRequest(r)
    BY <2>2 DEF Intact
  <2>6. ASSUME NEW d \in Damage(Head(q)), d.bytes /= Head(q).bytes
        PROVE  d \in OnToDevice
    <3>1. d.bytes \in Seq(Byte) /\ ~decodeRequest(d.bytes)
      BY <2>2, <2>4, <2>5, <2>6, DamageDetected DEF encodeRequest, decodeRequest
    <3>2. d \in Frame /\ d.damaged
      BY <1>2, <2>2, <2>6, <3>1
    <3>3. QED
      BY <3>1, <3>2 DEF OnToDevice
  <2>7. QED
    BY <1>1, <1>3, <2>6
<1>4. ASSUME NEW S, \A a \in S : a \in AckFrame,
             NEW q \in Seq(OnToGateway(S)), q /= <<>>, ~Head(q).damaged
      PROVE  Disturbed(q) \subseteq Seq(OnToGateway(S))
  <2>1. Head(q) \in OnToGateway(S)
    BY <1>4
  <2>2. PICK a \in S : Head(q) = Intact(encodeAck(a))
    BY <1>4, <2>1 DEF OnToGateway
  <2>3. a.sequence \in Nat /\ a.result \in Byte /\ FrameType.Ack \in Byte
    BY <1>4 DEF AckFrame, Byte, FrameType
  <2>4. Head(q).bytes = encodeAck(a)
    BY <2>2 DEF Intact
  <2>5. ASSUME NEW d \in Damage(Head(q)), d.bytes /= Head(q).bytes
        PROVE  d \in OnToGateway(S)
    <3>1. d.bytes \in Seq(Byte) /\ ~decodeAck(d.bytes)
      BY <2>2, <2>3, <2>4, <2>5, DamageDetected DEF encodeAck, decodeAck
    <3>2. d \in Frame /\ d.damaged
      BY <1>2, <2>2, <2>5, <3>1
    <3>3. QED
      BY <3>1, <3>2 DEF OnToGateway
  <2>6. QED
    BY <1>1, <1>4, <2>5
<1>5. QED
  BY <1>3, <1>4

\* The device executes a request whose SEQ it has not cached, and answers.
LEMMA ExecuteStep ==
  ASSUME Inv, NEW r \in Requests, NEW ack,
         Cached(r.sequence) = {}, ack = [sequence |-> r.sequence, result |-> ResultCode.Ok],
         toDevice' \in Seq(OnToDevice),
         stats' = [stats EXCEPT !.received = @ + 1, !.executed = @ + 1],
         executions' = Append(executions, r),
         ackCache' = ackCache \cup {ack},
         toGateway' = Append(toGateway, Intact(encodeAck(ack))),
         acks' = acks
  PROVE  Inv'
<1>1. executions \in Seq(Requests)
  BY DEF Inv, CacheInv
<1>2. /\ executions' \in Seq(Requests)
      /\ Len(executions') = Len(executions) + 1 /\ Len(executions) \in Nat
      /\ executions'[Len(executions) + 1] = r
      /\ \A i \in 1 .. Len(executions) : executions'[i] = executions[i]
      /\ \A i \in 1 .. Len(executions') : i \in 1 .. Len(executions) \/ i = Len(executions) + 1
  BY <1>1
<1>3. ack \in AckFrame /\ ack.sequence = r.sequence /\ ack.result = ResultCode.Ok
  <2>1. r \in RequestFrame
    BY ReliableSerialAssumption
  <2>2. QED
    BY <2>1 DEF RequestFrame, AckFrame, ResultCode
<1>4. LineInv'
  <2>1. OnToGateway(ackCache) \subseteq OnToGateway(ackCache')
    BY DEF OnToGateway
  <2>2. toGateway \in Seq(OnToGateway(ackCache'))
    BY <2>1, SeqGrows DEF Inv, LineInv
  <2>3. Intact(encodeAck(ack)) \in OnToGateway(ackCache')
    BY <1>3, SentIsOnLine
  <2>4. toGateway' \in Seq(OnToGateway(ackCache'))
    BY <2>2, <2>3
  <2>5. QED
    BY <2>4 DEF LineInv, OnToDevice
<1>5. \A n : Executed(n) => Executed(n)'
  BY <1>2 DEF Executed
<1>6. CacheInv'
  <2>1. ASSUME NEW a \in ackCache'
        PROVE  a \in AckFrame /\ a.result = ResultCode.Ok /\ Executed(a.sequence)'
    <3>1. CASE a \in ackCache
      BY <1>5, <3>1 DEF Inv, CacheInv
    <3>2. CASE a = ack
      <4>1. Len(executions) + 1 \in 1 .. Len(executions')
        BY <1>2
      <4>2. Executed(a.sequence)'
        BY <1>2, <1>3, <3>2, <4>1 DEF Executed
      <4>3. QED
        BY <1>3, <3>2, <4>2
    <3>3. QED
      BY <3>1, <3>2
  <2>2. ASSUME NEW i \in 1 .. Len(executions')
        PROVE  \E a \in ackCache' : a.sequence = executions'[i].sequence
    <3>1. CASE i \in 1 .. Len(executions)
      BY <1>2, <3>1 DEF Inv, CacheInv, Cached
    <3>2. CASE i = Len(executions) + 1
      BY <1>2, <1>3, <3>2
    <3>3. QED
      BY <1>2, <3>1, <3>2
  <2>3. \A i \in 1 .. Len(executions) : executions[i].sequence /= r.sequence
    BY DEF Inv, CacheInv, Cached
  <2>4. ASSUME NEW i \in 1 .. Len(executions'), NEW j \in 1 .. Len(executions'),
               executions'[i].sequence = executions'[j].sequence
        PROVE  i = j
    <3>1. CASE i \in 1 .. Len(executions) /\ j \in 1 .. Len(executions)
      BY <1>2, <2>4, <3>1 DEF Inv, CacheInv
    <3>2. CASE ~(i \in 1 .. Len(executions) /\ j \in 1 .. Len(executions))
      BY <1>2, <2>3, <2>4, <3>2
    <3>3. QED
      BY <3>1, <3>2
  <2>5. \A i \in 1 .. Len(executions') : Cached(executions[i].sequence)' /= {}
    BY <2>2 DEF Cached
  <2>6. QED
    BY <1>2, <2>1, <2>4, <2>5 DEF CacheInv
<1>7. StatsInv'
  <2>1. StatsInv
    BY DEF Inv
  <2>2. stats' = [received |-> stats.received + 1, executed |-> stats.executed + 1,
                  duplicates |-> stats.duplicates]
    BY <2>1 DEF StatsInv
  <2>3. /\ stats.received \in Nat /\ stats.executed \in Nat /\ stats.duplicates \in Nat
        /\ stats.executed = Len(executions)
        /\ stats.received = stats.executed + stats.duplicates
    BY <2>1 DEF StatsInv
  <2>4. QED
    BY <1>2, <2>2, <2>3 DEF StatsInv
<1>8. AcksAreTrue'
  <2>1. AcksAreTrue
    BY DEF Inv
  <2>2. \A a \in acks' : a.result = ResultCode.Ok /\ Executed(a.sequence)
    BY <2>1 DEF AcksAreTrue, Executed
  <2>3. \A a \in acks' : a.result = ResultCode.Ok
                          /\ \E i \in 1 .. Len(executions') :
                               executions'[i].sequence = a.sequence
    BY <1>5, <2>2 DEF Executed
  <2>4. QED
    BY <2>3 DEF AcksAreTrue
<1>9. QED
  BY <1>4, <1>6, <1>7, <1>8 DEF Inv

\* Inv is inductive.
LEMMA InvInductive ==
  /\ Init => Inv
  /\ Inv /\ [Next]_vars => Inv'
<1>1. Init => Inv
  <2> SUFFICES ASSUME Init
               PROVE  Inv
    OBVIOUS
  <2>1. /\ toDevice = <<>> /\ toGateway = <<>> /\ executions = <<>> /\ acks = {}
        /\ ackCache = {} /\ stats = [received |-> 0, executed |-> 0, duplicates |-> 0]
        /\ Len(executions) = 0
    BY DEF Init
  <2>2. LineInv
    BY <2>1 DEF LineInv
  <2>3. CacheInv
    BY <2>1 DEF CacheInv
  <2>4. StatsInv /\ AcksAreTrue
    BY <2>1 DEF StatsInv, AcksAreTrue
  <2>5. QED
    BY <2>2, <2>3, <2>4 DEF Inv
<1>2. ASSUME Inv, [Next]_vars
      PROVE  Inv'
  <2>1. /\ toDevice \in Seq(OnToDevice)
        /\ toGateway \in Seq(OnToGateway(ackCache))
        /\ \A a \in ackCache : a \in AckFrame
    BY <1>2 DEF Inv, LineInv, CacheInv
  \* A step that leaves the device alone.
  <2>2. ASSUME UNCHANGED <<ackCache, stats, executions>>,
               toDevice' \in Seq(OnToDevice),
               toGateway' \in Seq(OnToGateway(ackCache)),
               AcksAreTrue'
        PROVE  Inv'
    <3>1. LineInv'
      BY <2>2 DEF LineInv, OnToDevice, OnToGateway
    <3>2. CacheInv' /\ StatsInv'
      BY <1>2, <2>2 DEF Inv, CacheInv, StatsInv, Executed, Cached
    <3>3. QED
      BY <2>2, <3>1, <3>2 DEF Inv
  <2>3. ASSUME UNCHANGED <<acks, executions>>
        PROVE  AcksAreTrue'
    BY <1>2, <2>3 DEF Inv, AcksAreTrue
  <2>4. ASSUME NEW r \in Requests, Send(r)
        PROVE  Inv'
    <3>1. /\ UNCHANGED <<ackCache, stats, executions, acks, toGateway>>
          /\ toDevice' = Append(toDevice, Intact(encodeRequest(r)))
      BY <2>4 DEF Send, device
    <3>2. toDevice' \in Seq(OnToDevice)
      <4>1. Intact(encodeRequest(r)) \in OnToDevice
        BY SentIsOnLine
      <4>2. QED
        BY <2>1, <3>1, <4>1
    <3>3. QED
      BY <2>1, <2>2, <2>3, <3>1, <3>2
  <2>5. CASE DeviceReceive
    <3>1. /\ toDevice /= <<>> /\ toDevice' = Tail(toDevice) /\ acks' = acks
          /\ handleRequest(Head(toDevice).bytes)
      BY <2>5 DEF DeviceReceive
    <3>2. Head(toDevice) \in OnToDevice /\ toDevice' \in Seq(OnToDevice)
      BY <2>1, <3>1
    <3>3. PICK bytes : bytes = Head(toDevice).bytes
      OBVIOUS
    <3>4. CASE ~decodeRequest(bytes)
      <4>1. UNCHANGED <<ackCache, stats, executions, toGateway>>
        BY <3>1, <3>3, <3>4 DEF handleRequest, device
      <4>2. QED
        BY <2>1, <2>2, <2>3, <3>1, <3>2, <4>1
    <3>5. CASE decodeRequest(bytes)
      <4>1. PICK r \in Requests : r = RequestOf(bytes)
        BY <3>2, <3>3, <3>5, DecodedIsSent
      <4>2. CASE Cached(r.sequence) = {}
        <5>1. PICK ack : ack = [sequence |-> r.sequence, result |-> ResultCode.Ok]
          OBVIOUS
        <5>2. /\ stats' = [stats EXCEPT !.received = @ + 1, !.executed = @ + 1]
              /\ executions' = Append(executions, r)
              /\ ackCache' = ackCache \cup {ack}
              /\ toGateway' = Append(toGateway, Intact(encodeAck(ack)))
          BY <3>1, <3>3, <3>5, <4>1, <4>2, <5>1 DEF handleRequest
        <5>3. QED
          BY <1>2, <3>1, <3>2, <4>2, <5>1, <5>2, ExecuteStep
      <4>3. CASE Cached(r.sequence) /= {}
        <5>1. PICK ack : ack = CHOOSE a \in Cached(r.sequence) : TRUE
          OBVIOUS
        <5>2. ack \in ackCache
          BY <4>3, <5>1 DEF Cached
        <5>3. /\ stats' = [stats EXCEPT !.received = @ + 1, !.duplicates = @ + 1]
              /\ UNCHANGED <<executions, ackCache>>
              /\ toGateway' = Append(toGateway, Intact(encodeAck(ack)))
          BY <3>1, <3>3, <3>5, <4>1, <4>3, <5>1 DEF handleRequest
        <5>4. toGateway' \in Seq(OnToGateway(ackCache))
          <6>1. Intact(encodeAck(ack)) \in OnToGateway(ackCache)
            BY <2>1, <5>2, SentIsOnLine
          <6>2. QED
            BY <2>1, <5>3, <6>1
        <5>5. LineInv'
          BY <3>2, <5>3, <5>4 DEF LineInv, OnToDevice, OnToGateway
        <5>6. CacheInv'
          BY <1>2, <5>3 DEF Inv, CacheInv, Executed, Cached
        <5>7. StatsInv'
          <6>1. StatsInv
            BY <1>2 DEF Inv
          <6>2. stats' = [received |-> stats.received + 1, executed |-> stats.executed,
                          duplicates |-> stats.duplicates + 1]
            BY <5>3, <6>1 DEF StatsInv
          <6>3. /\ stats.received \in Nat /\ stats.executed \in Nat
                /\ stats.duplicates \in Nat
                /\ stats.executed = Len(executions)
                /\ stats.received = stats.executed + stats.duplicates
            BY <6>1 DEF StatsInv
          <6>4. QED
            BY <5>3, <6>2, <6>3 DEF StatsInv
        <5>8. QED
          BY <2>3, <3>1, <5>3, <5>5, <5>6, <5>7 DEF Inv
      <4>4. QED
        BY <4>2, <4>3
    <3>6. QED
      BY <3>4, <3>5
  <2>6. CASE GatewayReceive
    <3>1. /\ UNCHANGED <<ackCache, stats, executions, toDevice>>
          /\ toGateway /= <<>> /\ toGateway' = Tail(toGateway)
          /\ acks' = IF decodeAck(Head(toGateway).bytes)
                     THEN acks \cup {AckOf(Head(toGateway).bytes)} ELSE acks
      BY <2>6 DEF GatewayReceive, device
    <3>2. /\ Head(toGateway) \in OnToGateway(ackCache)
          /\ toGateway' \in Seq(OnToGateway(ackCache))
      BY <2>1, <3>1
    <3>3. ASSUME decodeAck(Head(toGateway).bytes)
          PROVE  AckOf(Head(toGateway).bytes) \in ackCache
      <4>1. PICK a \in ackCache : Head(toGateway) = Intact(encodeAck(a))
        BY <3>2, <3>3 DEF OnToGateway
      <4>2. Head(toGateway).bytes = encodeAck(a)
        BY <4>1 DEF Intact
      <4>3. QED
        BY <2>1, <4>2, AckRoundTrip
    <3>4. AcksAreTrue'
      <4>1. \A a \in acks' : a \in acks \/ a \in ackCache
        BY <3>1, <3>3
      <4>2. \A a \in acks : a.result = ResultCode.Ok /\ Executed(a.sequence)
        BY <1>2 DEF Inv, AcksAreTrue, Executed
      <4>3. \A a \in ackCache : a.result = ResultCode.Ok /\ Executed(a.sequence)
        BY <1>2 DEF Inv, CacheInv
      <4>4. QED
        BY <3>1, <4>1, <4>2, <4>3 DEF AcksAreTrue, Executed
    <3>5. QED
      BY <2>1, <2>2, <3>1, <3>2, <3>4
  <2>7. CASE Disturb
    <3>1. UNCHANGED <<ackCache, stats, executions, acks>>
      BY <2>7 DEF Disturb, device
    <3>2. /\ toDevice' \in Seq(OnToDevice)
          /\ toGateway' \in Seq(OnToGateway(ackCache))
      <4>1. CASE /\ toDevice /= <<>> /\ ~Head(toDevice).damaged
                 /\ toDevice' \in Disturbed(toDevice)
                 /\ toGateway' = toGateway
        BY <2>1, <4>1, DisturbedIsOnLine
      <4>2. CASE /\ toGateway /= <<>> /\ ~Head(toGateway).damaged
                 /\ toGateway' \in Disturbed(toGateway)
                 /\ toDevice' = toDevice
        BY <2>1, <4>2, DisturbedIsOnLine
      <4>3. QED
        BY <2>7, <4>1, <4>2 DEF Disturb
    <3>3. QED
      BY <2>2, <2>3, <3>1, <3>2
  <2>8. CASE UNCHANGED vars
    <3>1. UNCHANGED <<ackCache, stats, executions, acks, toDevice, toGateway>>
      BY <2>8 DEF vars, line, device
    <3>2. QED
      BY <2>1, <2>2, <2>3, <3>1
  <2>9. QED
    BY <1>2, <2>4, <2>5, <2>6, <2>7, <2>8 DEF Next
<1>3. QED
  BY <1>1, <1>2

\* However often frames are lost, damaged, delayed and sent again, the device
\* executes only requests of the gateway, each at most once, and counts them.
THEOREM RequestsExecutedOnce == Spec => []ExecutedOnceAsSent
<1>1. Inv => ExecutedOnceAsSent
  <2> SUFFICES ASSUME Inv
               PROVE  ExecutedOnceAsSent
    OBVIOUS
  <2>1. \A i \in 1 .. Len(executions) : executions[i] \in Requests
    BY DEF Inv, CacheInv
  <2>2. QED
    BY <2>1 DEF Inv, CacheInv, StatsInv, ExecutedOnceAsSent
<1>2. QED
  BY <1>1, InvInductive, PTL DEF Spec

\* Every ACK the gateway accepts says Ok about a request that was executed.
THEOREM AcceptedAcksAreTrue == Spec => []AcksAreTrue
<1>1. Inv => AcksAreTrue
  BY DEF Inv
<1>2. QED
  BY <1>1, InvInductive, PTL DEF Spec

============================================================================
