------------------------- MODULE SerialFrameProofs -------------------------
(***************************************************************************)
(* StreamParser finds exactly the frames of the stream, for every stream,    *)
(* and every way of cutting it.                                              *)
(*                                                                           *)
(* The buffer is always a suffix of the stream.  A position in front of it   *)
(* is decided: a frame was returned from there, or bytes that have already   *)
(* arrived refute it, so that no later byte can make it a frame.  The last   *)
(* part is what makes it safe to drop all nine bytes of a frame: nothing     *)
(* that begins inside of a frame can be one (NothingInside).                 *)
(*                                                                           *)
(* The second half is about the other stream parser, hand_bridge_node's      *)
(* receive thread: for every line parse_ack accepts what the protocol means  *)
(* (ParserIsProtocol), and exactly the lines of the stream reach it.         *)
(***************************************************************************)
EXTENDS SerialFrame, UartRx, FiniteSetTheorems, SequenceTheorems, TLAPS

Base == Len(stream) - Len(buffer_)

IsSuffix ==
  /\ Len(buffer_) <= Len(stream)
  /\ \A i \in 1 .. Len(buffer_) : buffer_[i] = stream[Base + i]

\* Bytes that have arrived show that no frame begins at p.
Refuted(p) ==
  \/ stream[p] /= kHeader1
  \/ p + 1 <= Len(stream) /\ stream[p + 1] /= kHeader2
  \/ p + 2 <= Len(stream) /\ stream[p + 2] /= kPayloadLength
  \/ p + 5 <= Len(stream) /\ stream[p + 5] \notin WireCommand
  \/ /\ p + 6 <= Len(stream)
     /\ stream[p + 6] /= Checksum(stream[p + 2], stream[p + 3], stream[p + 4],
                                  stream[p + 5])
  \/ p + 7 <= Len(stream) /\ stream[p + 7] /= kTail1
  \/ p + 8 <= Len(stream) /\ stream[p + 8] /= kTail2

Returned(p) == \E i \in 1 .. Len(at) : at[i] = p

Decided == \A p \in 1 .. Base : Refuted(p) \/ Returned(p)

Behind == \A i \in 1 .. Len(at) : at[i] + 8 <= Base

Inv == TypeOK /\ IsSuffix /\ OnlyFrames /\ Behind /\ Decided /\ BufferBounded

USE DEF kHeader1, kHeader2, kTail1, kTail2, kPayloadLength, FrameSize

\* encode produces a frame, and decode recovers its SEQ and its command.
THEOREM RoundTrip ==
  ASSUME NEW f \in Frame
  PROVE  decode(encode(f)) = "None" /\ outFrame(encode(f)) = f
<1> DEFINE high == (f.sequence \div 256) % 256
           low == f.sequence % 256
<1>1. /\ high \in Byte /\ low \in Byte
      /\ high * 256 + low = f.sequence
  BY DEF Frame, Byte, WireCommand
<1>2. encode(f) = <<170, 85, 3, high, low, f.command,
                    Checksum(3, high, low, f.command), 13, 10>>
  BY DEF encode
<1>3. f = [sequence |-> f.sequence, command |-> f.command]
  BY DEF Frame
<1>4. f.command \in WireCommand
  BY DEF Frame, WireCommand
<1> HIDE DEF high, low
<1>5. Len(encode(f)) = 9
  BY <1>2
<1>6. decode(encode(f)) = "None"
  BY <1>2, <1>4, <1>5 DEF decode, isKnownCommand, WireCommand
<1>7. outFrame(encode(f)) = [sequence |-> high * 256 + low, command |-> f.command]
  BY <1>2 DEF outFrame
<1> QED
  BY <1>1, <1>3, <1>6, <1>7

\* No frame begins inside of a frame, whatever follows it.
LEMMA NothingInside ==
  ASSUME stream \in Seq(Byte), NEW p \in Nat, FrameAt(p),
         NEW q \in (p + 1) .. (p + 8)
  PROVE  Refuted(q)
<1>1. /\ p >= 1 /\ p + 8 <= Len(stream)
      /\ stream[p + 1] = 85 /\ stream[p + 2] = 3
      /\ stream[p + 5] \in WireCommand
      /\ stream[p + 7] = 13 /\ stream[p + 8] = 10
  BY DEF FrameAt, WireCommand
<1>2. CASE q = p + 1
  BY <1>1, <1>2 DEF Refuted
<1>3. CASE q = p + 2
  BY <1>1, <1>3 DEF Refuted
<1>4. CASE q = p + 3
  <2>1. q + 5 = p + 8
    BY <1>4
  <2>2. q + 5 <= Len(stream) /\ stream[q + 5] \notin WireCommand
    BY <1>1, <2>1 DEF WireCommand
  <2> QED
    BY <2>2 DEF Refuted
<1>5. CASE q = p + 4
  <2>1. q + 1 = p + 5
    BY <1>5
  <2>2. q + 1 <= Len(stream) /\ stream[q + 1] /= 85
    BY <1>1, <2>1 DEF WireCommand
  <2> QED
    BY <2>2 DEF Refuted
<1>6. CASE q = p + 5
  BY <1>1, <1>6, SMTT(40) DEF Refuted
<1>7. CASE q = p + 6
  BY <1>1, <1>7 DEF Refuted
<1>8. CASE q = p + 7
  BY <1>1, <1>8 DEF Refuted
<1>9. CASE q = p + 8
  BY <1>1, <1>9 DEF Refuted
<1> QED
  BY <1>2, <1>3, <1>4, <1>5, <1>6, <1>7, <1>8, <1>9

\* What is refuted is no frame, whatever arrives later.
LEMMA RefutedIsNoFrame ==
  ASSUME stream \in Seq(Byte), NEW p \in Nat, Refuted(p)
  PROVE  ~FrameAt(p)
  BY DEF Refuted, FrameAt

\* Dropping the front of the buffer.
LEMMA Drop ==
  ASSUME stream \in Seq(Byte), buffer_ \in Seq(Byte), IsSuffix,
         NEW k \in 1 .. (Len(buffer_) + 1),
         buffer_' = From(k), stream' = stream
  PROVE  /\ buffer_' \in Seq(Byte)
         /\ Len(buffer_') = Len(buffer_) - k + 1
         /\ IsSuffix'
         /\ Base' = Base + k - 1
<1>1. /\ buffer_' \in Seq(Byte)
      /\ Len(buffer_') = Len(buffer_) - k + 1
      /\ \A i \in 1 .. Len(buffer_') : buffer_'[i] = buffer_[k + i - 1]
  BY DEF From
<1>2. Base' = Base + k - 1
  BY <1>1 DEF Base
<1>3. \A i \in 1 .. Len(buffer_') : buffer_'[i] = stream[Base + k - 1 + i]
  BY <1>1 DEF IsSuffix, Base
<1>4. Base \in Int
  BY DEF Base
<1>5. \A i \in 1 .. Len(buffer_') : buffer_'[i] = stream'[Base' + i]
  BY <1>2, <1>3, <1>4
<1>6. Len(buffer_') <= Len(stream')
  BY <1>1 DEF IsSuffix
<1> QED
  BY <1>1, <1>2, <1>5, <1>6 DEF IsSuffix

\* A position of the buffer that is no header, or that is not followed by one.
LEMMA NoHeaderThere ==
  ASSUME stream \in Seq(Byte), buffer_ \in Seq(Byte), IsSuffix,
         NEW j \in 1 .. (Len(buffer_) - 1), j \notin Headers
  PROVE  Refuted(Base + j)
<1>1. Base \in Nat /\ Base + Len(buffer_) = Len(stream)
  BY DEF Base, IsSuffix
<1>2. buffer_[j] = stream[Base + j] /\ buffer_[j + 1] = stream[Base + (j + 1)]
  BY DEF IsSuffix
<1>3. Base + (j + 1) = (Base + j) + 1 /\ (Base + j) + 1 <= Len(stream)
  BY <1>1
<1>4. buffer_[j] /= 170 \/ buffer_[j + 1] /= 85
  BY DEF Headers
<1> QED
  BY <1>2, <1>3, <1>4 DEF Refuted

\* The bytes of a candidate are bytes of the stream.
LEMMA CandidateBytes ==
  ASSUME stream \in Seq(Byte), buffer_ \in Seq(Byte), IsSuffix,
         NEW i \in 1 .. Len(buffer_), i + 8 <= Len(buffer_)
  PROVE  /\ Base + i \in Nat /\ Base + i >= 1 /\ (Base + i) + 8 <= Len(stream)
         /\ Len(Candidate(i)) = 9
         /\ \A m \in 1 .. 9 : Candidate(i)[m] = stream[(Base + i) + (m - 1)]
<1>1. Base \in Nat /\ Base + Len(buffer_) = Len(stream)
  BY DEF Base, IsSuffix
<1>2. Len(Candidate(i)) = 9 /\ \A m \in 1 .. 9 : Candidate(i)[m] = buffer_[i + m - 1]
  BY DEF Candidate
<1>3. \A m \in 1 .. 9 : buffer_[i + m - 1] = stream[Base + (i + m - 1)]
  BY DEF IsSuffix
<1>4. ASSUME NEW m \in 1 .. 9
      PROVE  Candidate(i)[m] = stream[(Base + i) + (m - 1)]
  <2>1. Candidate(i)[m] = stream[Base + (i + m - 1)]
    BY <1>2, <1>3
  <2>2. Base + (i + m - 1) = (Base + i) + (m - 1)
    BY <1>1
  <2> QED
    BY <2>1, <2>2, Zenon
<1>5. Base + i \in Nat /\ Base + i >= 1 /\ (Base + i) + 8 <= Len(stream)
  BY <1>1
<1> QED
  BY <1>2, <1>4, <1>5, Zenon

\* decode accepts exactly the frames.
LEMMA DecodeExact ==
  ASSUME stream \in Seq(Byte), buffer_ \in Seq(Byte), IsSuffix,
         NEW i \in 1 .. Len(buffer_), i + 8 <= Len(buffer_)
  PROVE  /\ decode(Candidate(i)) = "None" => FrameAt(Base + i)
         /\ decode(Candidate(i)) /= "None" => Refuted(Base + i)
         /\ outFrame(Candidate(i)) =
              [sequence |-> stream[(Base + i) + 3] * 256 + stream[(Base + i) + 4],
               command |-> stream[(Base + i) + 5]]
<1> DEFINE p == Base + i
           c == Candidate(i)
<1>1. p \in Nat /\ p >= 1 /\ p + 8 <= Len(stream)
  BY CandidateBytes
<1>2. Len(c) = 9
  BY CandidateBytes
<1>3. /\ c[1] = stream[p] /\ c[2] = stream[p + 1] /\ c[3] = stream[p + 2]
      /\ c[4] = stream[p + 3] /\ c[5] = stream[p + 4] /\ c[6] = stream[p + 5]
      /\ c[7] = stream[p + 6] /\ c[8] = stream[p + 7] /\ c[9] = stream[p + 8]
  <2>1. \A m \in 1 .. 9 : c[m] = stream[p + (m - 1)]
    BY CandidateBytes
  <2> HIDE DEF p, c
  <2>2. /\ c[1] = stream[p + (1 - 1)] /\ c[2] = stream[p + (2 - 1)]
        /\ c[3] = stream[p + (3 - 1)] /\ c[4] = stream[p + (4 - 1)]
        /\ c[5] = stream[p + (5 - 1)] /\ c[6] = stream[p + (6 - 1)]
        /\ c[7] = stream[p + (7 - 1)] /\ c[8] = stream[p + (8 - 1)]
        /\ c[9] = stream[p + (9 - 1)]
    BY <2>1
  <2>3. /\ p + (1 - 1) = p /\ p + (2 - 1) = p + 1 /\ p + (3 - 1) = p + 2
        /\ p + (4 - 1) = p + 3 /\ p + (5 - 1) = p + 4 /\ p + (6 - 1) = p + 5
        /\ p + (7 - 1) = p + 6 /\ p + (8 - 1) = p + 7 /\ p + (9 - 1) = p + 8
    BY <1>1
  <2> QED
    BY <2>2, <2>3, Zenon
<1> HIDE DEF p, c
<1>4. ASSUME decode(c) = "None"
      PROVE  FrameAt(p)
  <2>1. /\ c[1] = 170 /\ c[2] = 85 /\ c[3] = 3 /\ c[8] = 13 /\ c[9] = 10
        /\ c[7] = Checksum(c[3], c[4], c[5], c[6]) /\ c[6] \in WireCommand
    BY <1>2, <1>4 DEF decode, isKnownCommand
  <2> QED
    BY <1>1, <1>3, <2>1 DEF FrameAt
<1>5. ASSUME decode(c) /= "None"
      PROVE  Refuted(p)
  <2>1. \/ c[1] /= 170 \/ c[2] /= 85 \/ c[3] /= 3 \/ c[8] /= 13 \/ c[9] /= 10
        \/ c[7] /= Checksum(c[3], c[4], c[5], c[6]) \/ c[6] \notin WireCommand
    BY <1>2, <1>5 DEF decode, isKnownCommand
  <2>2. \/ stream[p] /= 170 \/ stream[p + 1] /= 85 \/ stream[p + 2] /= 3
        \/ stream[p + 7] /= 13 \/ stream[p + 8] /= 10
        \/ stream[p + 6] /= Checksum(stream[p + 2], stream[p + 3], stream[p + 4],
                                     stream[p + 5])
        \/ stream[p + 5] \notin WireCommand
    BY <1>3, <2>1, ZenonT(60)
  <2>3. /\ p + 1 <= Len(stream) /\ p + 2 <= Len(stream) /\ p + 5 <= Len(stream)
        /\ p + 6 <= Len(stream) /\ p + 7 <= Len(stream) /\ p + 8 <= Len(stream)
    BY <1>1
  <2> QED
    BY <2>2, <2>3, Zenon DEF Refuted
<1>6. outFrame(c) = [sequence |-> stream[p + 3] * 256 + stream[p + 4],
                     command |-> stream[p + 5]]
  BY <1>3 DEF outFrame
<1> QED
  BY <1>4, <1>5, <1>6 DEF p, c

\* A step that drops refuted positions only.
LEMMA DropRefuted ==
  ASSUME Inv,
         NEW k \in 1 .. (Len(buffer_) + 1),
         buffer_' = From(k),
         UNCHANGED <<frames, stream, at, appends>>,
         pc' \in {"idle", "scan"},
         pc' = "idle" => Len(buffer_) - k + 1 < 9,
         \A j \in 1 .. (k - 1) : Refuted(Base + j)
  PROVE  Inv'
<1>1. /\ stream \in Seq(Byte) /\ buffer_ \in Seq(Byte) /\ IsSuffix
      /\ stream' = stream /\ at' = at /\ frames' = frames
  BY DEF Inv, TypeOK
<1>2. /\ buffer_' \in Seq(Byte)
      /\ Len(buffer_') = Len(buffer_) - k + 1
      /\ IsSuffix'
      /\ Base' = Base + k - 1
  BY <1>1, Drop
<1>3. Base \in Nat
  BY <1>1 DEF Base, IsSuffix
<1>4. TypeOK'
  BY <1>1, <1>2 DEF Inv, TypeOK
<1>5. OnlyFrames'
  <2>1. \A p : FrameAt(p)' <=> FrameAt(p)
    BY <1>1 DEF FrameAt
  <2>2. OnlyFrames
    BY DEF Inv
  <2> QED
    BY <1>1, <2>1, <2>2 DEF OnlyFrames
<1>6. Behind'
  BY <1>1, <1>2, <1>3, SMTT(40) DEF Inv, TypeOK, Behind
<1>7. Decided'
  <2>1. SUFFICES ASSUME NEW p \in 1 .. Base'
                 PROVE  Refuted(p) \/ Returned(p)
    BY <1>1, SMTT(40) DEF Decided, Refuted, Returned
  <2>2. CASE p <= Base
    BY <2>2, <1>3 DEF Inv, Decided
  <2>3. CASE p > Base
    <3>1. p - Base \in 1 .. (k - 1) /\ p = Base + (p - Base)
      BY <2>3, <1>2, <1>3
    <3> QED
      BY <3>1
  <2> QED
    BY <2>2, <2>3, <1>2, <1>3
<1>8. BufferBounded'
  BY <1>2 DEF BufferBounded
<1> QED
  BY <1>2, <1>4, <1>5, <1>6, <1>7, <1>8 DEF Inv

\* The invariant holds before the first byte.
LEMMA InitInv == Init => Inv
<1> SUFFICES ASSUME Init PROVE Inv
  OBVIOUS
<1>1. Len(buffer_) = 0 /\ Len(stream) = 0 /\ Len(at) = 0 /\ Len(frames) = 0
  BY DEF Init
<1>2. TypeOK
  BY SerialFrameAssumption DEF Init, TypeOK, SerialFrameAssumption
<1>3. IsSuffix /\ Behind /\ Decided /\ BufferBounded
  BY <1>1 DEF IsSuffix, Behind, Decided, Base, BufferBounded
<1>4. OnlyFrames
  BY <1>1 DEF OnlyFrames
<1> QED
  BY <1>2, <1>3, <1>4 DEF Inv

\* More bytes at the end change nothing of what has been decided.
LEMMA AppendKeeps ==
  ASSUME Inv, NEW bytes \in Chunks, append(bytes)
  PROVE  Inv'
<1>1. /\ stream \in Seq(Byte) /\ buffer_ \in Seq(Byte) /\ bytes \in Seq(Byte)
      /\ at \in Seq(Nat)
  BY SerialFrameAssumption DEF SerialFrameAssumption, Inv, TypeOK
<1>2. /\ stream' = stream \o bytes /\ buffer_' = buffer_ \o bytes
      /\ at' = at /\ frames' = frames /\ pc' = "scan"
      /\ appends' = appends + 1 /\ appends < MaxAppends
  BY DEF append
<1>3. /\ Len(stream') = Len(stream) + Len(bytes)
      /\ Len(buffer_') = Len(buffer_) + Len(bytes)
      /\ stream' \in Seq(Byte) /\ buffer_' \in Seq(Byte)
      /\ \A i \in 1 .. Len(stream) : stream'[i] = stream[i]
      /\ \A i \in 1 .. Len(buffer_) : buffer_'[i] = buffer_[i]
      /\ \A i \in 1 .. Len(bytes) : stream'[Len(stream) + i] = bytes[i]
      /\ \A i \in 1 .. Len(bytes) : buffer_'[Len(buffer_) + i] = bytes[i]
  BY <1>1, <1>2
<1>4. /\ Base' = Base /\ Base \in Nat /\ Base + Len(buffer_) = Len(stream)
      /\ Len(buffer_) \in Nat /\ Len(stream) \in Nat /\ Len(bytes) \in Nat
  BY <1>1, <1>3 DEF Base, Inv, IsSuffix
<1>5. TypeOK'
  <2>1. appends' \in 0 .. MaxAppends
    BY <1>2, SerialFrameAssumption DEF SerialFrameAssumption, Inv, TypeOK
  <2> QED
    BY <2>1, <1>2, <1>3 DEF Inv, TypeOK
<1>6. IsSuffix'
  <2>1. ASSUME NEW i \in 1 .. Len(buffer_')
        PROVE  buffer_'[i] = stream'[Base' + i]
    <3>1. CASE i <= Len(buffer_)
      <4>1. i \in 1 .. Len(buffer_) /\ Base + i \in 1 .. Len(stream)
        BY <3>1, <1>3, <1>4, <1>1
      <4>2. buffer_[i] = stream[Base + i]
        BY <4>1 DEF Inv, IsSuffix
      <4> QED
        BY <4>1, <4>2, <1>3, <1>4
    <3>2. CASE i > Len(buffer_)
      <4> DEFINE j == i - Len(buffer_)
      <4>1. j \in 1 .. Len(bytes) /\ i = Len(buffer_) + j /\ Base + i = Len(stream) + j
        <5>1. i \in Nat /\ i <= Len(buffer_) + Len(bytes)
          BY <1>3, <1>4
        <5> QED
          BY <3>2, <1>4, <5>1
      <4> HIDE DEF j
      <4>2. buffer_'[Len(buffer_) + j] = stream'[Len(stream) + j]
        BY <4>1, <1>3
      <4> QED
        BY <4>1, <4>2, <1>4, Zenon
    <3> QED
      BY <3>1, <3>2, <1>1, <1>3
  <2>2. Len(buffer_') <= Len(stream')
    BY <1>1, <1>3 DEF Inv, IsSuffix
  <2> QED
    BY <2>1, <2>2 DEF IsSuffix
<1>7. ASSUME NEW p \in Nat, FrameAt(p)
      PROVE  /\ FrameAt(p)'
             /\ stream'[p + 3] = stream[p + 3] /\ stream'[p + 4] = stream[p + 4]
             /\ stream'[p + 5] = stream[p + 5]
  <2>0. p >= 1 /\ p + 8 <= Len(stream)
    BY <1>7, <1>4 DEF FrameAt
  <2>1. /\ p \in 1 .. Len(stream) /\ p + 1 \in 1 .. Len(stream)
        /\ p + 2 \in 1 .. Len(stream) /\ p + 3 \in 1 .. Len(stream)
        /\ p + 4 \in 1 .. Len(stream) /\ p + 5 \in 1 .. Len(stream)
        /\ p + 6 \in 1 .. Len(stream) /\ p + 7 \in 1 .. Len(stream)
        /\ p + 8 \in 1 .. Len(stream) /\ p \in 1 .. (Len(stream') - 8)
    BY <2>0, <1>3, <1>4
  <2>2. /\ stream'[p] = stream[p] /\ stream'[p + 1] = stream[p + 1]
        /\ stream'[p + 2] = stream[p + 2] /\ stream'[p + 3] = stream[p + 3]
        /\ stream'[p + 4] = stream[p + 4] /\ stream'[p + 5] = stream[p + 5]
        /\ stream'[p + 6] = stream[p + 6] /\ stream'[p + 7] = stream[p + 7]
        /\ stream'[p + 8] = stream[p + 8]
    BY <2>1, <1>3
  <2> QED
    BY <1>7, <2>1, <2>2, ZenonT(60) DEF FrameAt
<1>8. OnlyFrames'
  <2>1. \A i \in 1 .. Len(at) : at[i] \in Nat
    BY <1>1
  <2>2. OnlyFrames
    BY DEF Inv
  <2>3. Len(at') = Len(frames') /\ \A i, j \in 1 .. Len(at') : i < j => at'[i] < at'[j]
    BY <1>2, <2>2 DEF OnlyFrames
  <2>4. ASSUME NEW i \in 1 .. Len(at)
        PROVE  /\ FrameAt(at[i])'
               /\ frames'[i] = [sequence |-> stream'[at'[i] + 3] * 256
                                               + stream'[at'[i] + 4],
                                command |-> stream'[at'[i] + 5]]
    <3>1. /\ at[i] \in Nat /\ FrameAt(at[i])
          /\ frames[i] = [sequence |-> stream[at[i] + 3] * 256 + stream[at[i] + 4],
                          command |-> stream[at[i] + 5]]
      BY <2>1, <2>2 DEF OnlyFrames
    <3> DEFINE p == at[i]
    <3>2. /\ FrameAt(p)'
          /\ stream'[p + 3] = stream[p + 3] /\ stream'[p + 4] = stream[p + 4]
          /\ stream'[p + 5] = stream[p + 5]
      <4>1. \A q \in Nat : FrameAt(q) =>
              /\ stream'[q + 3] = stream[q + 3] /\ stream'[q + 4] = stream[q + 4]
              /\ stream'[q + 5] = stream[q + 5]
        BY <1>7
      <4>2. \A q \in Nat : FrameAt(q) => FrameAt(q)'
        BY <1>7
      <4>3. at'[i] = at[i]
        BY <1>2
      <4> QED
        BY <3>1, <4>1, <4>2, <4>3
    <3> QED
      BY <1>2, <3>1, <3>2
  <2>5. Len(at') = Len(at)
    BY <1>2
  <2> QED
    BY <2>3, <2>4, <2>5, Zenon DEF OnlyFrames
<1>9. ASSUME NEW p \in 1 .. Len(stream), Refuted(p)
      PROVE  Refuted(p)'
  <2>1. \A m \in 0 .. 8 : p + m <= Len(stream) =>
           p + m <= Len(stream') /\ stream'[p + m] = stream[p + m]
    BY <1>1, <1>3
  <2>2. stream'[p] = stream[p]
    BY <1>3
  <2>3. /\ p + 1 <= Len(stream) => p + 1 <= Len(stream') /\ stream'[p + 1] = stream[p + 1]
        /\ p + 2 <= Len(stream) => p + 2 <= Len(stream') /\ stream'[p + 2] = stream[p + 2]
        /\ p + 3 <= Len(stream) => stream'[p + 3] = stream[p + 3]
        /\ p + 4 <= Len(stream) => stream'[p + 4] = stream[p + 4]
        /\ p + 5 <= Len(stream) => p + 5 <= Len(stream') /\ stream'[p + 5] = stream[p + 5]
        /\ p + 6 <= Len(stream) => p + 6 <= Len(stream') /\ stream'[p + 6] = stream[p + 6]
        /\ p + 7 <= Len(stream) => p + 7 <= Len(stream') /\ stream'[p + 7] = stream[p + 7]
        /\ p + 8 <= Len(stream) => p + 8 <= Len(stream') /\ stream'[p + 8] = stream[p + 8]
    BY <2>1
  <2>4. p + 6 <= Len(stream) => /\ p + 2 <= Len(stream) /\ p + 3 <= Len(stream)
                                /\ p + 4 <= Len(stream) /\ p + 5 <= Len(stream)
    BY <1>1
  <2>5. CASE stream[p] /= 170
    BY <2>5, <2>2 DEF Refuted
  <2>6. CASE p + 1 <= Len(stream) /\ stream[p + 1] /= 85
    BY <2>6, <2>3 DEF Refuted
  <2>7. CASE p + 2 <= Len(stream) /\ stream[p + 2] /= 3
    BY <2>7, <2>3 DEF Refuted
  <2>8. CASE p + 5 <= Len(stream) /\ stream[p + 5] \notin WireCommand
    BY <2>8, <2>3 DEF Refuted
  <2>9. CASE /\ p + 6 <= Len(stream)
             /\ stream[p + 6] /= Checksum(stream[p + 2], stream[p + 3], stream[p + 4],
                                          stream[p + 5])
    BY <2>9, <2>3, <2>4, Zenon DEF Refuted
  <2>10. CASE p + 7 <= Len(stream) /\ stream[p + 7] /= 13
    BY <2>10, <2>3 DEF Refuted
  <2>11. CASE p + 8 <= Len(stream) /\ stream[p + 8] /= 10
    BY <2>11, <2>3 DEF Refuted
  <2> QED
    BY <1>9, <2>5, <2>6, <2>7, <2>8, <2>9, <2>10, <2>11, Zenon DEF Refuted
<1>10. Decided'
  <2>1. \A p \in 1 .. Base : p \in 1 .. Len(stream)
    BY <1>1, <1>4
  <2> QED
    BY <1>2, <1>4, <1>9, <2>1, Zenon DEF Inv, Decided, Returned
<1>11. Behind' /\ BufferBounded'
  BY <1>2, <1>4 DEF Inv, Behind, BufferBounded
<1> QED
  BY <1>5, <1>6, <1>8, <1>10, <1>11 DEF Inv

\* Before the first header of the buffer no frame begins.
LEMMA FirstHeader ==
  ASSUME Inv, NEW i \in Headers, IsFirstHeader(i)
  PROVE  /\ i \in Nat /\ i >= 1 /\ i + 1 <= Len(buffer_)
         /\ Base \in Nat
         /\ \A j \in 1 .. (i - 1) : Refuted(Base + j)
<1>1. stream \in Seq(Byte) /\ buffer_ \in Seq(Byte) /\ IsSuffix
  BY DEF Inv, TypeOK
<1>2. i \in Nat /\ i >= 1 /\ i + 1 <= Len(buffer_)
  BY <1>1 DEF Headers
<1>3. Base \in Nat
  BY <1>1 DEF Base, IsSuffix
<1>4. ASSUME NEW j \in 1 .. (i - 1)
      PROVE  Refuted(Base + j)
  <2>1. j \in 1 .. (Len(buffer_) - 1)
    BY <1>1, <1>2
  <2>2. j \notin Headers
    BY <1>2 DEF IsFirstHeader
  <2> QED
    BY <1>1, <2>1, <2>2, NoHeaderThere
<1> QED
  BY <1>2, <1>3, <1>4

\* A turn that finds fewer than two bytes keeps the invariant.
LEMMA ScanShortKeeps == ASSUME Inv, ScanShort PROVE Inv'
<1>1. buffer_ \in Seq(Byte) /\ Len(buffer_) \in Nat /\ Len(buffer_) < 2
  BY DEF Inv, TypeOK, ScanShort
<1>2. buffer_' = From(1)
  BY <1>1 DEF ScanShort, From
<1>3. /\ 1 \in 1 .. (Len(buffer_) + 1)
      /\ UNCHANGED <<frames, stream, at, appends>>
      /\ pc' \in {"idle", "scan"}
      /\ Len(buffer_) - 1 + 1 < 9
      /\ \A j \in 1 .. (1 - 1) : Refuted(Base + j)
  BY <1>1 DEF ScanShort
<1> QED
  BY <1>2, <1>3, DropRefuted

\* A turn that drops bytes without a header keeps it.
LEMMA ScanNoHeaderKeeps == ASSUME Inv, ScanNoHeader PROVE Inv'
<1> DEFINE n == Len(buffer_)
<1>1. /\ stream \in Seq(Byte) /\ buffer_ \in Seq(Byte) /\ IsSuffix
      /\ n \in Nat /\ n >= 2
  BY DEF Inv, TypeOK, ScanNoHeader
<1>2. ASSUME NEW j \in 1 .. (n - 1)
      PROVE  Refuted(Base + j)
  <2>1. j \notin Headers
    BY DEF ScanNoHeader
  <2> QED
    BY <1>1, <2>1, NoHeaderThere
<1>3. UNCHANGED <<frames, stream, at, appends>> /\ pc' \in {"idle", "scan"}
  BY DEF ScanNoHeader
<1>4. CASE buffer_[n] = 170
  <2>1. buffer_' = From(n)
    BY <1>1, <1>4 DEF ScanNoHeader, From
  <2>2. n \in 1 .. (n + 1) /\ n - n + 1 < 9
    BY <1>1
  <2> QED
    BY <1>2, <1>3, <2>1, <2>2, DropRefuted
<1>5. CASE buffer_[n] /= 170
  <2>1. buffer_' = From(n + 1)
    BY <1>1, <1>5 DEF ScanNoHeader, From
  <2>2. n + 1 \in 1 .. (n + 1) /\ n - (n + 1) + 1 < 9
    BY <1>1
  <2>3. Refuted(Base + n)
    <3>1. buffer_[n] = stream[Base + n]
      BY <1>1 DEF IsSuffix
    <3> QED
      BY <3>1, <1>5 DEF Refuted
  <2>4. \A j \in 1 .. ((n + 1) - 1) : Refuted(Base + j)
    <3>1. \A j \in 1 .. ((n + 1) - 1) : j = n \/ j \in 1 .. (n - 1)
      BY <1>1
    <3> QED
      BY <1>2, <2>3, <3>1
  <2> QED
    BY <1>3, <2>1, <2>2, <2>4, DropRefuted
<1> QED
  BY <1>4, <1>5

\* A turn that waits for the rest of a frame keeps it.
LEMMA ScanIncompleteKeeps == ASSUME Inv, ScanIncomplete PROVE Inv'
<1>1. PICK i \in Headers : IsFirstHeader(i) /\ Incomplete(i) /\ buffer_' = From(i)
  BY DEF ScanIncomplete
<1>2. /\ i \in Nat /\ i >= 1 /\ i + 1 <= Len(buffer_)
      /\ \A j \in 1 .. (i - 1) : Refuted(Base + j)
  BY <1>1, FirstHeader
<1>3. UNCHANGED <<frames, stream, at, appends>> /\ pc' \in {"idle", "scan"}
  BY DEF ScanIncomplete
<1>4. Len(buffer_) \in Nat
  BY DEF Inv, TypeOK
<1>5. i \in 1 .. (Len(buffer_) + 1) /\ Len(buffer_) - i + 1 < 9
  BY <1>1, <1>2, <1>4 DEF Incomplete
<1> QED
  BY <1>1, <1>2, <1>3, <1>5, DropRefuted

\* A turn that skips a header of no frame keeps it.
LEMMA ScanRejectKeeps == ASSUME Inv, ScanReject PROVE Inv'
<1>1. PICK i \in Headers :
        /\ IsFirstHeader(i) /\ ~Incomplete(i)
        /\ buffer_[i + 2] = 3 => decode(Candidate(i)) /= "None"
        /\ buffer_' = From(i + 1)
  BY DEF ScanReject
<1>2. /\ i \in Nat /\ i >= 1 /\ i + 1 <= Len(buffer_) /\ Base \in Nat
      /\ \A j \in 1 .. (i - 1) : Refuted(Base + j)
  BY <1>1, FirstHeader
<1>3. /\ UNCHANGED <<frames, stream, at, appends>>
      /\ pc' = "scan"
  BY DEF ScanReject
<1>4. /\ stream \in Seq(Byte) /\ buffer_ \in Seq(Byte) /\ IsSuffix
      /\ Len(buffer_) \in Nat /\ Base + Len(buffer_) = Len(stream)
  BY DEF Inv, TypeOK, Base, IsSuffix
<1>5. Refuted(Base + i)
  <2>1. CASE buffer_[i + 2] /= 3
    <3>1. i + 2 <= Len(buffer_)
      BY <1>1, <1>2, <1>4, <2>1 DEF Incomplete
    <3>2. buffer_[i + 2] = stream[Base + (i + 2)]
      BY <1>2, <1>4, <3>1 DEF IsSuffix
    <3>3. Base + (i + 2) = (Base + i) + 2 /\ (Base + i) + 2 <= Len(stream)
      BY <1>2, <1>4, <3>1
    <3> QED
      BY <2>1, <3>2, <3>3 DEF Refuted
  <2>2. CASE buffer_[i + 2] = 3
    <3>1. i + 8 <= Len(buffer_) /\ i \in 1 .. Len(buffer_)
      BY <1>1, <1>2, <1>4, <2>2 DEF Incomplete
    <3> QED
      BY <1>1, <1>4, <2>2, <3>1, DecodeExact
  <2> QED
    BY <2>1, <2>2
<1>6. \A j \in 1 .. ((i + 1) - 1) : Refuted(Base + j)
  <2>1. \A j \in 1 .. ((i + 1) - 1) : j = i \/ j \in 1 .. (i - 1)
    BY <1>2
  <2> QED
    BY <1>2, <1>5, <2>1
<1>7. i + 1 \in 1 .. (Len(buffer_) + 1)
  BY <1>2, <1>4
<1> QED
  BY <1>1, <1>3, <1>6, <1>7, DropRefuted

\* A turn that returns a frame keeps it.
LEMMA ScanFrameKeeps == ASSUME Inv, ScanFrame PROVE Inv'
<1>1. PICK i \in Headers :
        /\ IsFirstHeader(i) /\ ~Incomplete(i)
        /\ buffer_[i + 2] = 3 /\ decode(Candidate(i)) = "None"
        /\ frames' = Append(frames, outFrame(Candidate(i)))
        /\ at' = Append(at, Len(stream) - Len(buffer_) + i)
        /\ buffer_' = From(i + 9)
  BY DEF ScanFrame
<1>2. /\ i \in Nat /\ i >= 1 /\ i + 1 <= Len(buffer_) /\ Base \in Nat
      /\ \A j \in 1 .. (i - 1) : Refuted(Base + j)
  BY <1>1, FirstHeader
<1>3. pc' = "scan" /\ pc = "scan" /\ stream' = stream /\ appends' = appends
  BY DEF ScanFrame
<1>4. /\ stream \in Seq(Byte) /\ buffer_ \in Seq(Byte) /\ IsSuffix
      /\ at \in Seq(Nat) /\ frames \in Seq(Frame) /\ appends \in 0 .. MaxAppends
      /\ Len(buffer_) \in Nat /\ Base + Len(buffer_) = Len(stream)
      /\ OnlyFrames /\ Behind /\ Decided
  BY DEF Inv, TypeOK, Base, IsSuffix
<1>5. i + 8 <= Len(buffer_) /\ i \in 1 .. Len(buffer_) /\ i + 9 \in 1 .. (Len(buffer_) + 1)
  BY <1>1, <1>2, <1>4, SMTT(40) DEF Incomplete
<1> DEFINE p == Base + i
           f == [sequence |-> stream[p + 3] * 256 + stream[p + 4],
                 command |-> stream[p + 5]]
           n == Len(at)
<1>6. FrameAt(p) /\ outFrame(Candidate(i)) = f
  BY <1>1, <1>4, <1>5, DecodeExact
<1>7. /\ buffer_' \in Seq(Byte) /\ IsSuffix'
      /\ Base' = Base + (i + 9) - 1
  BY <1>1, <1>3, <1>4, <1>5, Drop
<1>8. p \in Nat /\ Base' = p + 8 /\ p > Base
  BY <1>2, <1>7
<1>9. at' = Append(at, p) /\ frames' = Append(frames, f)
  BY <1>1, <1>6 DEF Base
<1>10. f \in Frame
  <2>1. stream[p + 3] \in Byte /\ stream[p + 4] \in Byte /\ stream[p + 5] \in WireCommand
    <3> HIDE DEF p
    <3>1. p + 3 \in 1 .. Len(stream) /\ p + 4 \in 1 .. Len(stream)
      BY <1>4, <1>6, <1>8 DEF FrameAt
    <3>2. stream[p + 5] \in WireCommand
      BY <1>6 DEF FrameAt
    <3> QED
      BY <1>4, <3>1, <3>2
  <2> DEFINE h == stream[p + 3]
             l == stream[p + 4]
  <2> HIDE DEF h, l
  <2>2. h \in Nat /\ h < 256 /\ l \in Nat /\ l < 256
    BY <2>1 DEF h, l, Byte
  <2>3. h * 256 + l \in {m \in Nat : m < 65536}
    BY <2>2
  <2> QED
    BY <2>1, <2>3 DEF h, l, Frame
<1> HIDE DEF p, f
<1>11. TypeOK'
  <2>1. frames' \in Seq(Frame) /\ at' \in Seq(Nat)
    BY <1>4, <1>8, <1>9, <1>10
  <2> QED
    BY <1>3, <1>4, <1>7, <2>1 DEF TypeOK
<1>12. /\ n \in Nat /\ Len(frames) = n /\ Len(at') = n + 1 /\ Len(frames') = n + 1
       /\ at'[n + 1] = p /\ frames'[n + 1] = f
       /\ \A j \in 1 .. n : at'[j] = at[j] /\ frames'[j] = frames[j]
  <2>1. Len(frames) = n /\ n \in Nat
    BY <1>4 DEF OnlyFrames
  <2> QED
    BY <1>4, <1>9, <2>1
<1>13. \A j \in 1 .. (n + 1) : j = n + 1 \/ j \in 1 .. n
  BY <1>12
<1> HIDE DEF n
<1>14. OnlyFrames'
  <2>1. \A q : FrameAt(q)' <=> FrameAt(q)
    BY <1>3 DEF FrameAt
  <2>2. ASSUME NEW j \in 1 .. (n + 1)
        PROVE  /\ FrameAt(at'[j])
               /\ frames'[j] = [sequence |-> stream[at'[j] + 3] * 256 + stream[at'[j] + 4],
                                command |-> stream[at'[j] + 5]]
    <3>1. CASE j = n + 1
      BY <3>1, <1>6, <1>12 DEF f
    <3>2. CASE j \in 1 .. n
      BY <3>2, <1>4, <1>12, ZenonT(60) DEF OnlyFrames, n
    <3> QED
      BY <3>1, <3>2, <1>13
  <2>3. ASSUME NEW j \in 1 .. (n + 1), NEW k \in 1 .. (n + 1), j < k
        PROVE  at'[j] < at'[k]
    <3>1. j \in 1 .. n
      BY <2>3, <1>12
    <3>2. at[j] \in Nat /\ at[j] + 8 <= Base
      BY <3>1, <1>4 DEF Behind, n
    <3>3. CASE k = n + 1
      BY <3>1, <3>2, <3>3, <1>2, <1>8, <1>12
    <3>4. CASE k \in 1 .. n
      BY <2>3, <3>1, <3>4, <1>4, <1>12 DEF OnlyFrames, n
    <3> QED
      BY <3>3, <3>4, <1>13
  <2>4. OnlyFrames' <=>
          /\ Len(at') = Len(frames')
          /\ \A j \in 1 .. Len(at') :
               /\ FrameAt(at[j])'
               /\ frames'[j] = [sequence |-> stream'[at'[j] + 3] * 256 + stream'[at'[j] + 4],
                                command |-> stream'[at'[j] + 5]]
          /\ \A j, k \in 1 .. Len(at') : j < k => at'[j] < at'[k]
    BY Zenon DEF OnlyFrames
  <2>5. \A j \in 1 .. (n + 1) : FrameAt(at[j])'
    BY <2>1, <2>2, <1>3, ZenonT(60) DEF FrameAt
  <2> QED
    BY <2>2, <2>3, <2>4, <2>5, <1>3, <1>12
<1>15. Behind'
  <2>1. ASSUME NEW j \in 1 .. (n + 1)
        PROVE  at'[j] + 8 <= Base'
    <3>1. CASE j = n + 1
      BY <3>1, <1>8, <1>12
    <3>2. CASE j \in 1 .. n
      <4>1. at[j] \in Nat /\ at[j] + 8 <= Base
        BY <3>2, <1>4 DEF Behind, n
      <4> QED
        BY <3>2, <4>1, <1>2, <1>8, <1>12
    <3> QED
      BY <3>1, <3>2, <1>13
  <2> QED
    BY <2>1, <1>12 DEF Behind
<1>16. Decided'
  <2>1. ASSUME NEW q \in 1 .. (p + 8)
        PROVE  Refuted(q) \/ Returned(q)'
    <3>1. CASE q <= Base
      <4>1. Refuted(q) \/ Returned(q)
        BY <3>1, <1>2, <1>4 DEF Decided
      <4>2. Returned(q) => Returned(q)'
        BY <1>12 DEF Returned, n
      <4> QED
        BY <4>1, <4>2
    <3>2. CASE q > Base /\ q < p
      <4>1. q - Base \in 1 .. (i - 1) /\ Base + (q - Base) = q
        BY <3>2, <1>2, <1>8 DEF p
      <4> QED
        BY <4>1, <1>2
    <3>3. CASE q = p
      BY <3>3, <1>12 DEF Returned
    <3>4. CASE q > p
      <4>1. q \in (p + 1) .. (p + 8)
        BY <3>4, <1>8
      <4> QED
        BY <4>1, <1>4, <1>6, <1>8, NothingInside
    <3> QED
      BY <3>1, <3>2, <3>3, <3>4, <1>2, <1>8
  <2>2. \A q : Refuted(q)' <=> Refuted(q)
    BY <1>3 DEF Refuted
  <2> QED
    BY <2>1, <2>2, <1>8 DEF Decided
<1>17. BufferBounded'
  BY <1>3 DEF BufferBounded
<1> QED
  BY <1>7, <1>11, <1>14, <1>15, <1>16, <1>17 DEF Inv

\* Every step keeps the invariant.
LEMMA NextKeeps == Inv /\ [Next]_vars => Inv'
<1> SUFFICES ASSUME Inv, [Next]_vars PROVE Inv'
  OBVIOUS
<1>1. CASE UNCHANGED vars
  <2>1. /\ pc' = pc /\ buffer_' = buffer_ /\ frames' = frames /\ stream' = stream
        /\ at' = at /\ appends' = appends
    BY <1>1 DEF vars
  <2>2. Len(buffer_) \in Nat /\ buffer_' = From(1)
    BY <2>1 DEF Inv, TypeOK, From
  <2>3. /\ 1 \in 1 .. (Len(buffer_) + 1)
        /\ pc' = "idle" => Len(buffer_) - 1 + 1 < 9
        /\ \A j \in 1 .. (1 - 1) : Refuted(Base + j)
    BY <2>1, <2>2 DEF Inv, BufferBounded
  <2>4. pc' \in {"idle", "scan"}
    BY <2>1 DEF Inv, TypeOK
  <2> QED
    BY <2>1, <2>2, <2>3, <2>4, DropRefuted
<1>2. CASE Append_
  BY <1>2, AppendKeeps DEF Append_
<1>3. CASE extractFrames
  BY <1>3, ScanShortKeeps, ScanNoHeaderKeeps, ScanIncompleteKeeps, ScanRejectKeeps,
     ScanFrameKeeps DEF extractFrames
<1> QED
  BY <1>1, <1>2, <1>3 DEF Next

\* The invariant holds at all times.
LEMMA Invariance == Spec => []Inv
  BY InitInv, NextKeeps, PTL DEF Spec

\* extractFrames returns frames of the stream only, in order and unchanged.
THEOREM FramesOnly == Spec => []OnlyFrames
<1>1. Inv => OnlyFrames
  BY DEF Inv
<1> QED
  BY <1>1, Invariance, PTL

\* No complete frame is missed, wherever the stream was cut and whatever noise
\* precedes it.
THEOREM FramesFound == Spec => []EveryFrameFound
<1>1. Inv => EveryFrameFound
  <2> SUFFICES ASSUME Inv, pc = "idle", NEW p \in 1 .. Len(stream), FrameAt(p)
               PROVE  \E i \in 1 .. Len(at) : at[i] = p
    BY DEF EveryFrameFound
  <2>1. /\ stream \in Seq(Byte) /\ Len(stream) \in Nat /\ Len(buffer_) \in Nat
        /\ Len(buffer_) < 9
    BY DEF Inv, TypeOK, BufferBounded
  <2>2. p + 8 <= Len(stream)
    BY <2>1 DEF FrameAt
  <2>3. p \in 1 .. Base
    BY <2>1, <2>2 DEF Base
  <2> QED
    BY <2>1, <2>3, RefutedIsNoFrame DEF Inv, Decided, Returned
<1> QED
  BY <1>1, Invariance, PTL

\* Between the calls the parser keeps less than one frame.
THEOREM BufferStaysSmall == Spec => []BufferBounded
<1>1. Inv => BufferBounded
  BY DEF Inv
<1> QED
  BY <1>1, Invariance, PTL

\* The buffer, the frames and the stream keep their types.
THEOREM ParserTypeCorrect == Spec => []TypeOK
<1>1. Inv => TypeOK
  BY DEF Inv
<1> QED
  BY <1>1, Invariance, PTL
----------------------------------------------------------------------------
(* parse_ack reads what the protocol writes.                                *)

\* A set of numbers that is not empty has a least one.
LEMMA LeastNat ==
  ASSUME NEW T \in SUBSET Nat, T # {}
  PROVE  \E m \in T : \A k \in T : m <= k
<1>1. PICK R : R = OpToRel(<, Nat)
  OBVIOUS
<1>2. IsWellFoundedOn(R, Nat)
  BY <1>1, NatLessThanWellFounded
<1>3. PICK m \in T : \A k \in T : ~ (<<k, m>> \in R)
  BY <1>2, WFMin
<1>4. ASSUME NEW k \in T PROVE m <= k
  <2>1. ~ (k < m)
    BY <1>1, <1>3 DEF OpToRel
  <2>2. QED
    BY <2>1
<1>5. QED
  BY <1>3, <1>4

\* Induction on the numbers up to n, for a set of them.
LEMMA UpTo ==
  ASSUME NEW n \in Nat, NEW T, 0 \in T, \A k \in 1 .. n : k - 1 \in T => k \in T
  PROVE  \A k \in 0 .. n : k \in T
<1>1. PICK B : B = {k \in 0 .. n : k \notin T}
  OBVIOUS
<1>2. \A k : k \in B <=> k \in 0 .. n /\ k \notin T
  BY <1>1
<1>3. B \in SUBSET Nat
  BY <1>2
<1>4. ASSUME B # {} PROVE FALSE
  <2>1. PICK m \in B : \A k \in B : m <= k
    BY <1>3, <1>4, LeastNat
  <2>2. m \in 0 .. n /\ m \notin T /\ m # 0
    BY <1>2, <2>1
  <2>3. m \in 1 .. n /\ m - 1 \in 0 .. n
    BY <2>2
  <2>4. m - 1 \notin T
    BY <2>2, <2>3
  <2>5. m - 1 \in B
    BY <1>2, <2>3, <2>4
  <2>6. m <= m - 1
    BY <2>1, <2>5
  <2>7. QED
    BY <2>2, <2>6
<1>5. QED
  BY <1>2, <1>4

\* The digits and their values.
LEMMA DigitIs == /\ Digit = {"d0", "d1", "d2", "d3", "d4", "d5", "d6", "d7", "d8", "d9"}
                 /\ \A c \in Digit : DigitValue[c] \in 0 .. 9
<1>1. Digit = {"d0", "d1", "d2", "d3", "d4", "d5", "d6", "d7", "d8", "d9"}
  BY DEF Digit, DigitValue
<1>2. \A c \in Digit : DigitValue[c] \in 0 .. 9
  BY <1>1 DEF DigitValue
<1>3. QED
  BY <1>1, <1>2

\* v gives the value of every prefix of ds.
Values(v, ds) ==
  /\ v = [k \in 0 .. Len(ds) |-> v[k]]
  /\ v[0] = 0
  /\ \A k \in 1 .. Len(ds) : v[k] = v[k - 1] * 10 + DigitValue[ds[k]]

\* The recursion of Decimal has a solution.
LEMMA DecimalIs ==
  ASSUME NEW ds \in Seq(Digit)
  PROVE  \E v : Values(v, ds) /\ Decimal(ds) = v[Len(ds)]
<1>1. PICK n \in Nat : n = Len(ds)
  BY LenProperties
<1> DEFINE P(v, m) == /\ v = [k \in 0 .. m |-> v[k]] /\ v[0] = 0
                      /\ \A k \in 1 .. m : v[k] = v[k - 1] * 10 + DigitValue[ds[k]]
           T == {m \in 0 .. n : \E v : P(v, m)}
<1> HIDE DEF P
<1>2. 0 \in T
  <2>1. PICK v : v = [k \in 0 .. 0 |-> 0]
    OBVIOUS
  <2>2. P(v, 0)
    BY <2>1 DEF P
  <2>3. QED
    BY <2>2
<1>3. ASSUME NEW m \in 1 .. n, m - 1 \in T PROVE m \in T
  <2>1. PICK v : P(v, m - 1)
    BY <1>3
  <2>2. PICK w : w = [k \in 0 .. m |-> IF k < m THEN v[k] ELSE v[m - 1] * 10 + DigitValue[ds[m]]]
    OBVIOUS
  <2>3. /\ w[m] = v[m - 1] * 10 + DigitValue[ds[m]]
        /\ \A k \in 0 .. m - 1 : w[k] = v[k]
    BY <2>2
  <2>4. w = [k \in 0 .. m |-> w[k]]
    BY <2>2
  <2>5. w[0] = 0
    BY <2>1, <2>3 DEF P
  <2>6. ASSUME NEW k \in 1 .. m PROVE w[k] = w[k - 1] * 10 + DigitValue[ds[k]]
    <3>1. CASE k = m
      BY <3>1, <2>3
    <3>2. CASE k # m
      <4>1. k \in 1 .. m - 1 /\ k \in 0 .. m - 1 /\ k - 1 \in 0 .. m - 1
        BY <3>2
      <4>2. QED
        BY <4>1, <2>1, <2>3 DEF P
    <3>3. QED
      BY <3>1, <3>2
  <2>7. P(w, m)
    BY <2>4, <2>5, <2>6 DEF P
  <2>8. QED
    BY <2>7
<1>4. n \in T
  <2> HIDE DEF T
  <2>1. \A k \in 0 .. n : k \in T
    BY <1>2, <1>3, UpTo
  <2>2. QED
    BY <2>1
<1>5. PICK u : P(u, n)
  BY <1>4
<1> DEFINE G(v) == [k \in 0 .. Len(ds) |-> IF k = 0 THEN 0 ELSE v[k - 1] * 10 + DigitValue[ds[k]]]
<1>6. u = G(u)
  <2>1. \A k \in 0 .. n : u[k] = IF k = 0 THEN 0 ELSE u[k - 1] * 10 + DigitValue[ds[k]]
    <3>1. ASSUME NEW k \in 0 .. n, k # 0 PROVE u[k] = u[k - 1] * 10 + DigitValue[ds[k]]
      <4>1. k \in 1 .. n
        BY <3>1
      <4>2. QED
        BY <4>1, <1>5 DEF P
    <3>2. QED
      BY <3>1, <1>5 DEF P
  <2>2. u = [k \in 0 .. n |-> u[k]]
    BY <1>5 DEF P
  <2>3. QED
    BY <2>1, <2>2, <1>1
<1>7. PICK v : v = CHOOSE x : x = G(x)
  OBVIOUS
<1>8. v = G(v)
  BY <1>6, <1>7
<1>9. Decimal(ds) = v[Len(ds)]
  BY <1>7 DEF Decimal
<1>10. Values(v, ds)
  BY <1>1, <1>8 DEF Values
<1>11. QED
  BY <1>9, <1>10

\* One turn of parse_ack's loop over the digits.
NextSeq(text, value, n) ==
  IF value /= Rejected /\ Fits(value, DigitValue[text[n]])
  THEN value * 10 + DigitValue[text[n]]
  ELSE Rejected

\* The recursion of ParsedSeq has a solution.
LEMMA ParsedIs ==
  ASSUME NEW text \in Seq(Char), text # <<>>
  PROVE  /\ ParsedSeq(text)[1] = 0
         /\ \A n \in 2 .. Len(text) :
               ParsedSeq(text)[n] = NextSeq(text, ParsedSeq(text)[n - 1], n)
<1>1. PICK l \in Nat : l + 1 = Len(text)
  <2>1. Len(text) \in Nat /\ Len(text) # 0
    BY LenProperties, EmptySeq
  <2>2. Len(text) - 1 \in Nat /\ Len(text) - 1 + 1 = Len(text)
    BY <2>1
  <2>3. QED
    BY <2>2
<1> DEFINE P(v, m) == /\ v = [k \in 1 .. m + 1 |-> v[k]] /\ v[1] = 0
                      /\ \A k \in 2 .. m + 1 : v[k] = NextSeq(text, v[k - 1], k)
           T == {m \in 0 .. l : \E v : P(v, m)}
<1> HIDE DEF P
<1>2. 0 \in T
  <2>1. PICK v : v = [k \in 1 .. 0 + 1 |-> 0]
    OBVIOUS
  <2>2. P(v, 0)
    BY <2>1 DEF P
  <2>3. QED
    BY <2>2
<1>3. ASSUME NEW m \in 1 .. l, m - 1 \in T PROVE m \in T
  <2>1. PICK v : P(v, m - 1)
    BY <1>3
  <2>2. PICK w : w = [k \in 1 .. m + 1 |-> IF k < m + 1 THEN v[k] ELSE NextSeq(text, v[m], m + 1)]
    OBVIOUS
  <2>3. /\ w[m + 1] = NextSeq(text, v[m], m + 1)
        /\ \A k \in 1 .. m : w[k] = v[k]
    BY <2>2
  <2>4. w = [k \in 1 .. m + 1 |-> w[k]]
    BY <2>2
  <2>5. v[1] = 0 /\ \A k \in 2 .. m : v[k] = NextSeq(text, v[k - 1], k)
    <3>1. m - 1 + 1 = m
      OBVIOUS
    <3>2. QED
      BY <2>1, <3>1 DEF P
  <2>6. w[1] = 0
    BY <2>3, <2>5
  <2>7. ASSUME NEW k \in 2 .. m + 1 PROVE w[k] = NextSeq(text, w[k - 1], k)
    <3>1. CASE k = m + 1
      <4>1. k - 1 = m /\ m \in 1 .. m
        BY <3>1
      <4>2. QED
        BY <3>1, <4>1, <2>3
    <3>2. CASE k # m + 1
      <4>1. k \in 2 .. m /\ k \in 1 .. m /\ k - 1 \in 1 .. m
        BY <3>2
      <4>2. QED
        BY <4>1, <2>3, <2>5
    <3>3. QED
      BY <3>1, <3>2
  <2>8. P(w, m)
    BY <2>4, <2>6, <2>7 DEF P
  <2>9. QED
    BY <2>8
<1>4. l \in T
  <2> HIDE DEF T
  <2>1. \A k \in 0 .. l : k \in T
    BY <1>2, <1>3, UpTo
  <2>2. QED
    BY <2>1
<1>5. PICK u : P(u, l)
  BY <1>4
<1> DEFINE G(v) == [n \in 1 .. Len(text) |-> IF n = 1 THEN 0 ELSE NextSeq(text, v[n - 1], n)]
<1>6. u = G(u)
  <2>1. ASSUME NEW k \in 1 .. l + 1, k # 1 PROVE u[k] = NextSeq(text, u[k - 1], k)
    <3>1. k \in 2 .. l + 1
      BY <2>1
    <3>2. QED
      BY <3>1, <1>5 DEF P
  <2>2. \A k \in 1 .. l + 1 : u[k] = IF k = 1 THEN 0 ELSE NextSeq(text, u[k - 1], k)
    BY <2>1, <1>5 DEF P
  <2>3. u = [k \in 1 .. l + 1 |-> u[k]]
    BY <1>5 DEF P
  <2>4. QED
    BY <2>2, <2>3, <1>1
<1>7. PICK v : v = CHOOSE x : x = G(x)
  OBVIOUS
<1>8. v = G(v)
  BY <1>6, <1>7
<1>9. ParsedSeq(text) = v
  BY <1>7 DEF ParsedSeq, NextSeq
<1>10. v[1] = 0 /\ \A n \in 2 .. Len(text) : v[n] = NextSeq(text, v[n - 1], n)
  <2>1. Len(text) \in Nat /\ 1 \in 1 .. Len(text)
    BY <1>1
  <2>2. \A n \in 2 .. Len(text) : n \in 1 .. Len(text) /\ n # 1
    BY <2>1
  <2>3. QED
    BY <1>8, <2>1, <2>2
<1>11. QED
  BY <1>9, <1>10

\* The test before the multiplication is the test of the result.
LEMMA FitsIs ==
  ASSUME NEW x \in Nat, NEW digit \in 0 .. 9
  PROVE  Fits(x, digit) <=> x * 10 + digit <= MaxSeq
<1>1. MaxSeq \in Nat /\ MaxSeq >= 9
  BY UartRxAssumption
<1>2. PICK a \in Nat : a = MaxSeq - digit
  BY <1>1
<1>3. x <= a \div 10 <=> x * 10 <= a
  OBVIOUS
<1>4. QED
  BY <1>1, <1>2, <1>3 DEF Fits

\* parse_ack reads the number the digits denote, or rejects it because it is too
\* large, at whatever digit the test fails.
LEMMA ParsedIsDecimal ==
  ASSUME NEW text \in Seq(Char), NEW pos \in 1 .. Len(text),
         \A k \in 2 .. pos : text[k] \in Digit,
         NEW ds \in Seq(Digit), Len(ds) = pos - 1, \A k \in 1 .. pos - 1 : ds[k] = text[k + 1]
  PROVE  /\ Decimal(ds) \in Nat
         /\ ParsedSeq(text)[pos] = IF Decimal(ds) <= MaxSeq THEN Decimal(ds) ELSE Rejected
<1>1. PICK n \in Nat : n = pos - 1 /\ n = Len(ds) /\ n + 1 = pos
  BY LenProperties
<1>2. PICK v : Values(v, ds) /\ Decimal(ds) = v[Len(ds)]
  BY DecimalIs
<1>3. PICK w : w = ParsedSeq(text)
  OBVIOUS
<1>4. text # <<>> /\ n + 1 <= Len(text) /\ Len(text) \in Nat
  BY <1>1, LenProperties, EmptySeq
<1>5. w[1] = 0 /\ \A k \in 1 .. n : w[k + 1] = NextSeq(text, w[k], k + 1)
  <2>1. \A k \in 1 .. n : k + 1 \in 2 .. Len(text) /\ k + 1 - 1 = k
    BY <1>4
  <2>2. QED
    BY <2>1, <1>3, <1>4, ParsedIs
<1>6. v[0] = 0 /\ \A k \in 1 .. n : v[k] = v[k - 1] * 10 + DigitValue[ds[k]]
  BY <1>1, <1>2 DEF Values
<1>7. MaxSeq \in Nat
  BY UartRxAssumption
<1> DEFINE Q(k) == v[k] \in Nat /\ w[k + 1] = IF v[k] <= MaxSeq THEN v[k] ELSE Rejected
           T == {k \in 0 .. n : Q(k)}
<1> HIDE DEF Q
<1>8. 0 \in T
  <2>1. 0 + 1 = 1
    OBVIOUS
  <2>2. Q(0)
    BY <2>1, <1>5, <1>6, <1>7 DEF Q
  <2>3. QED
    BY <2>2
<1>9. ASSUME NEW k \in 1 .. n, k - 1 \in T PROVE k \in T
  <2>1. PICK x \in Nat : x = v[k - 1] /\ w[k] = IF x <= MaxSeq THEN x ELSE Rejected
    <3>1. k - 1 + 1 = k
      OBVIOUS
    <3>2. QED
      BY <3>1, <1>9 DEF Q
  <2>2. ds[k] = text[k + 1] /\ ds[k] \in Digit
    BY <1>1
  <2>3. PICK digit \in 0 .. 9 : digit = DigitValue[ds[k]]
    BY <2>2, DigitIs
  <2>4. v[k] = x * 10 + digit
    BY <1>6, <2>1, <2>3
  <2>5. w[k + 1] = IF w[k] /= Rejected /\ Fits(w[k], digit) THEN w[k] * 10 + digit ELSE Rejected
    BY <1>5, <2>2, <2>3 DEF NextSeq
  <2>6. CASE x <= MaxSeq
    <3>1. w[k] = x /\ x # Rejected
      BY <2>1, <2>6 DEF Rejected
    <3>2. Fits(x, digit) <=> x * 10 + digit <= MaxSeq
      BY FitsIs
    <3>3. w[k + 1] = IF Fits(x, digit) THEN x * 10 + digit ELSE Rejected
      BY <2>5, <3>1
    <3>4. PICK y \in Nat : y = x * 10 + digit
      OBVIOUS
    <3>5. w[k + 1] = IF y <= MaxSeq THEN y ELSE Rejected
      BY <3>2, <3>3, <3>4
    <3>6. QED
      BY <3>4, <3>5, <2>4 DEF Q
  <2>7. CASE ~(x <= MaxSeq)
    <3>1. w[k] = Rejected
      BY <2>1, <2>7
    <3>2. w[k + 1] = Rejected
      BY <2>5, <3>1
    <3>3. ~(x * 10 + digit <= MaxSeq) /\ x * 10 + digit \in Nat
      BY <2>7, <1>7
    <3>4. QED
      BY <3>2, <3>3, <2>4 DEF Q
  <2>8. QED
    BY <2>6, <2>7
<1>10. Q(n)
  <2>1. \A k \in 0 .. n : k \in T
    <3> HIDE DEF T
    <3>1. QED
      BY <1>8, <1>9, UpTo
  <2>2. QED
    BY <2>1
<1>11. QED
  BY <1>1, <1>2, <1>3, <1>10 DEF Q

\* A set of numbers with a bound has a largest one.
LEMMA LargestOf ==
  ASSUME NEW n \in Nat, NEW S \in SUBSET (1 .. n), S # {}
  PROVE  \E m \in S : \A k \in S : k <= m
<1>1. PICK T \in SUBSET Nat : T = {m \in Nat : \A k \in S : k <= m}
  OBVIOUS
<1>2. n \in T
  BY <1>1
<1>3. PICK m \in T : \A k \in T : m <= k
  BY <1>2, LeastNat
<1>4. m \in Nat /\ \A k \in S : k \in Nat /\ k >= 1 /\ k <= m
  BY <1>1, <1>3
<1>5. CASE m \in S
  BY <1>4, <1>5
<1>6. CASE m \notin S
  <2>1. PICK k \in S : TRUE
    OBVIOUS
  <2>2. m - 1 \in Nat
    BY <1>4, <2>1
  <2>3. \A j \in S : j <= m - 1
    BY <1>4, <1>6
  <2>4. m - 1 \in T
    BY <1>1, <2>2, <2>3
  <2>5. QED
    BY <1>3, <1>4, <2>4
<1>7. QED
  BY <1>5, <1>6

\* The run of digits behind "ACK:".
LEMMA DigitsEndIs ==
  ASSUME NEW text \in Seq(Char), text # <<>>, NEW pos, pos = DigitsEnd(text)
  PROVE  /\ pos \in 1 .. Len(text)
         /\ \A k \in 2 .. pos : text[k] \in Digit
         /\ pos < Len(text) => text[pos + 1] \notin Digit
<1>1. PICK l \in Nat : l = Len(text)
  BY LenProperties
<1>2. l # 0
  BY <1>1, EmptySeq
<1>3. PICK S : S = {n \in 1 .. l : \A k \in 2 .. n : text[k] \in Digit}
  OBVIOUS
<1>4. \A n : n \in S <=> n \in 1 .. l /\ \A k \in 2 .. n : text[k] \in Digit
  BY <1>3
<1>5. S \in SUBSET (1 .. l)
  BY <1>4
<1>6. 1 \in S
  BY <1>2, <1>4
<1>7. \E m \in S : \A k \in S : k <= m
  BY <1>5, <1>6, LargestOf
<1>8. \E m \in S : \A k \in S : m >= k
  BY <1>5, <1>7
<1>9. pos = CHOOSE m \in S : \A k \in S : m >= k
  BY <1>1, <1>3 DEF DigitsEnd, Max
<1>10. pos \in S /\ \A k \in S : pos >= k
  BY <1>8, <1>9
<1>11. ASSUME pos < l, text[pos + 1] \in Digit PROVE FALSE
  <2>1. pos \in 1 .. l /\ \A k \in 2 .. pos : text[k] \in Digit
    BY <1>4, <1>10
  <2>2. pos + 1 \in 1 .. l /\ \A k \in 2 .. pos + 1 : k \in 2 .. pos \/ k = pos + 1
    BY <1>11, <2>1
  <2>3. pos + 1 \in S
    BY <1>4, <1>11, <2>1, <2>2
  <2>4. pos >= pos + 1
    BY <1>10, <2>3
  <2>5. QED
    BY <2>1, <2>4
<1>12. QED
  BY <1>1, <1>4, <1>10, <1>11

\* The text of an ACK: its first character, the digits, a blank and the status.
AckText(text, d, st) ==
  /\ Len(text) = Len(d) + 3
  /\ text[1] = "ACK:"
  /\ \A k \in 1 .. Len(d) : text[k + 1] = d[k]
  /\ text[Len(d) + 2] = " " /\ text[Len(d) + 3] = st

\* The same line with a CR behind it.
AckLineCR(line, d, st) ==
  /\ Len(line) = Len(d) + 4
  /\ line[1] = "ACK:"
  /\ \A k \in 1 .. Len(d) : line[k + 1] = d[k]
  /\ line[Len(d) + 2] = " " /\ line[Len(d) + 3] = st /\ line[Len(d) + 4] = "CR"

\* The characters of an ACK are distinct: a status is no digit, blank or CR.
LEMMA Letters ==
  /\ \A st \in AckStatus : st \in Char /\ st # "CR" /\ st # " " /\ st \notin Digit
  /\ \A c \in Digit : c \in Char /\ c # "CR" /\ c # " "
  /\ {"ACK:", " ", "CR"} \subseteq Char
BY DigitIs DEF AckStatus, Char

\* Short sequences.
LEMMA Tuples ==
  ASSUME NEW S, NEW x \in S, NEW y \in S, NEW z \in S
  PROVE  <<x>> \in Seq(S) /\ <<x, y>> \in Seq(S) /\ <<x, y, z>> \in Seq(S)
OBVIOUS

\* z is the start of an ACK, the n digits d and the rest b.
AckPlaces(z, d, n, b) ==
  /\ z \in Seq(Char) /\ Len(z) = n + 1 + Len(b) /\ z[1] = "ACK:"
  /\ \A k \in 1 .. n : z[k + 1] = d[k]
  /\ \A k \in 1 .. Len(b) : z[n + 1 + k] = b[k]

\* A line put together from its parts, read place by place.
LEMMA AckParts ==
  ASSUME NEW d \in Seq(Char), NEW b \in Seq(Char), NEW n \in Nat, n = Len(d),
         NEW z, z = <<"ACK:">> \o d \o b
  PROVE  AckPlaces(z, d, n, b)
<1>1. "ACK:" \in Char
  BY Letters
<1>2. PICK a \in Seq(Char) : a = <<"ACK:">>
  <2>1. <<"ACK:">> \in Seq(Char)
    BY <1>1, Tuples, Zenon
  <2>2. QED
    BY <2>1, Zenon
<1>3. Len(a) = 1 /\ a[1] = "ACK:"
  BY <1>2
<1>4. PICK e \in Seq(Char) : e = a \o d
  BY ConcatProperties
<1>5. PICK m \in Nat : m = 1 + n
  OBVIOUS
<1>6. Len(e) = m /\ \A i \in 1 .. m : e[i] = IF i <= 1 THEN a[i] ELSE d[i - 1]
  <2>1. /\ Len(a \o d) = Len(a) + Len(d)
        /\ \A i \in 1 .. Len(a) + Len(d) : (a \o d)[i] = IF i <= Len(a) THEN a[i] ELSE d[i - Len(a)]
    BY ConcatProperties
  <2>2. QED
    BY <2>1, <1>3, <1>4, <1>5
<1>7. z \in Seq(Char) /\ z = e \o b
  <2>1. z = e \o b
    BY <1>2, <1>4
  <2>2. QED
    BY <2>1, ConcatProperties
<1>8. PICK h \in Nat : h = Len(b)
  BY LenProperties
<1>9. Len(z) = m + h /\ \A i \in 1 .. m + h : z[i] = IF i <= m THEN e[i] ELSE b[i - m]
  <2>1. /\ Len(e \o b) = Len(e) + Len(b)
        /\ \A i \in 1 .. Len(e) + Len(b) : (e \o b)[i] = IF i <= Len(e) THEN e[i] ELSE b[i - Len(e)]
    BY ConcatProperties
  <2>2. QED
    BY <2>1, <1>6, <1>7, <1>8
<1>10. z[1] = "ACK:"
  <2>1. 1 \in 1 .. m + h /\ 1 <= m /\ 1 \in 1 .. m /\ 1 <= 1
    BY <1>5
  <2>2. z[1] = e[1]
    BY <2>1, <1>9
  <2>3. e[1] = a[1]
    BY <2>1, <1>6
  <2>4. QED
    BY <2>2, <2>3, <1>3
<1>11. ASSUME NEW k \in 1 .. n PROVE z[k + 1] = d[k]
  <2>1. k + 1 \in 1 .. m + h /\ k + 1 <= m /\ k + 1 \in 1 .. m /\ ~(k + 1 <= 1) /\ k + 1 - 1 = k
    BY <1>5
  <2>2. z[k + 1] = e[k + 1]
    BY <2>1, <1>9
  <2>3. e[k + 1] = d[k + 1 - 1]
    BY <2>1, <1>6
  <2>4. QED
    BY <2>1, <2>2, <2>3
<1>12. ASSUME NEW k \in 1 .. h PROVE z[m + k] = b[k]
  <2>1. m + k \in 1 .. m + h /\ ~(m + k <= m) /\ m + k - m = k
    OBVIOUS
  <2>2. z[m + k] = b[m + k - m]
    BY <2>1, <1>9
  <2>3. QED
    BY <2>1, <2>2
<1>13. n + 1 = m /\ n + 1 + h = m + h
  BY <1>5
<1>14. QED
  BY <1>7, <1>8, <1>9, <1>10, <1>11, <1>12, <1>13 DEF AckPlaces

\* The ACK as the protocol writes it, read place by place.
LEMMA AckTextIs ==
  ASSUME NEW line \in Seq(Char), NEW d \in Seq(Digit), NEW st \in AckStatus
  PROVE  line = <<"ACK:">> \o d \o <<" ", st>> <=> AckText(line, d, st)
<1>1. PICK n \in Nat : n = Len(d)
  BY LenProperties
<1>2. st \in Char /\ " " \in Char /\ Digit \subseteq Char
  BY Letters
<1>3. PICK b \in Seq(Char) : b = <<" ", st>>
  <2>1. <<" ", st>> \in Seq(Char)
    BY <1>2, Tuples, Zenon
  <2>2. QED
    BY <2>1, Zenon
<1>4. Len(b) = 2 /\ b[1] = " " /\ b[2] = st
  BY <1>3
<1>5. d \in Seq(Char)
  BY <1>2, SeqMonotonic
<1>6. PICK z : z = <<"ACK:">> \o d \o b
  OBVIOUS
<1>7. /\ z \in Seq(Char) /\ Len(z) = n + 1 + 2 /\ z[1] = "ACK:"
      /\ \A k \in 1 .. n : z[k + 1] = d[k]
      /\ \A k \in 1 .. 2 : z[n + 1 + k] = b[k]
  <2>1. AckPlaces(z, d, n, b)
    BY <1>1, <1>5, <1>6, AckParts, Zenon
  <2>2. QED
    BY <2>1, <1>4 DEF AckPlaces
<1>8. n + 1 + 2 = n + 3 /\ n + 1 + 1 = n + 2 /\ 1 \in 1 .. 2 /\ 2 \in 1 .. 2
  OBVIOUS
<1>9. Len(z) = n + 3 /\ z[n + 2] = " " /\ z[n + 3] = st
  BY <1>4, <1>7, <1>8
<1>10. AckText(z, d, st)
  BY <1>1, <1>7, <1>9 DEF AckText
<1>11. ASSUME AckText(line, d, st) PROVE line = z
  <2>1. /\ Len(line) = n + 3 /\ line[1] = "ACK:" /\ line[n + 2] = " " /\ line[n + 3] = st
        /\ \A k \in 1 .. n : line[k + 1] = d[k]
    BY <1>1, <1>11 DEF AckText
  <2>2. ASSUME NEW i \in 1 .. n + 3 PROVE line[i] = z[i]
    <3>1. CASE i \in 2 .. n + 1
      <4>1. PICK k \in 1 .. n : k + 1 = i
        <5>1. i - 1 \in 1 .. n /\ i - 1 + 1 = i
          BY <3>1
        <5>2. QED
          BY <5>1
      <4>2. QED
        BY <4>1, <2>1, <1>7
    <3>2. i = 1 \/ i \in 2 .. n + 1 \/ i = n + 2 \/ i = n + 3
      OBVIOUS
    <3>3. QED
      BY <3>1, <3>2, <2>1, <1>7, <1>9
  <2>3. z \in Seq(Char) /\ Len(line) = Len(z) /\ \A i \in 1 .. Len(line) : line[i] = z[i]
    BY <2>1, <2>2, <1>7, <1>9
  <2>4. QED
    BY <2>3, SeqEqual
<1>12. QED
  BY <1>3, <1>6, <1>10, <1>11

\* The same for the line with a CR.
LEMMA AckLineCRIs ==
  ASSUME NEW line \in Seq(Char), NEW d \in Seq(Digit), NEW st \in AckStatus
  PROVE  line = <<"ACK:">> \o d \o <<" ", st, "CR">> <=> AckLineCR(line, d, st)
<1>1. PICK n \in Nat : n = Len(d)
  BY LenProperties
<1>2. st \in Char /\ " " \in Char /\ "CR" \in Char /\ Digit \subseteq Char
  BY Letters
<1>3. PICK b \in Seq(Char) : b = <<" ", st, "CR">>
  <2>1. <<" ", st, "CR">> \in Seq(Char)
    BY <1>2, Tuples, Zenon
  <2>2. QED
    BY <2>1, Zenon
<1>4. Len(b) = 3 /\ b[1] = " " /\ b[2] = st /\ b[3] = "CR"
  BY <1>3
<1>5. d \in Seq(Char)
  BY <1>2, SeqMonotonic
<1>6. PICK z : z = <<"ACK:">> \o d \o b
  OBVIOUS
<1>7. /\ z \in Seq(Char) /\ Len(z) = n + 1 + 3 /\ z[1] = "ACK:"
      /\ \A k \in 1 .. n : z[k + 1] = d[k]
      /\ \A k \in 1 .. 3 : z[n + 1 + k] = b[k]
  <2>1. AckPlaces(z, d, n, b)
    BY <1>1, <1>5, <1>6, AckParts, Zenon
  <2>2. QED
    BY <2>1, <1>4 DEF AckPlaces
<1>8. /\ n + 1 + 3 = n + 4 /\ n + 1 + 2 = n + 3 /\ n + 1 + 1 = n + 2
      /\ 1 \in 1 .. 3 /\ 2 \in 1 .. 3 /\ 3 \in 1 .. 3
  OBVIOUS
<1>9. Len(z) = n + 4 /\ z[n + 2] = " " /\ z[n + 3] = st /\ z[n + 4] = "CR"
  BY <1>4, <1>7, <1>8
<1>10. AckLineCR(z, d, st)
  BY <1>1, <1>7, <1>9 DEF AckLineCR
<1>11. ASSUME AckLineCR(line, d, st) PROVE line = z
  <2>1. /\ Len(line) = n + 4 /\ line[1] = "ACK:" /\ line[n + 2] = " " /\ line[n + 3] = st
        /\ line[n + 4] = "CR" /\ \A k \in 1 .. n : line[k + 1] = d[k]
    BY <1>1, <1>11 DEF AckLineCR
  <2>2. ASSUME NEW i \in 1 .. n + 4 PROVE line[i] = z[i]
    <3>1. CASE i \in 2 .. n + 1
      <4>1. PICK k \in 1 .. n : k + 1 = i
        <5>1. i - 1 \in 1 .. n /\ i - 1 + 1 = i
          BY <3>1
        <5>2. QED
          BY <5>1
      <4>2. QED
        BY <4>1, <2>1, <1>7
    <3>2. i = 1 \/ i \in 2 .. n + 1 \/ i = n + 2 \/ i = n + 3 \/ i = n + 4
      OBVIOUS
    <3>3. QED
      BY <3>1, <3>2, <2>1, <1>7, <1>9
  <2>3. z \in Seq(Char) /\ Len(line) = Len(z) /\ \A i \in 1 .. Len(line) : line[i] = z[i]
    BY <2>1, <2>2, <1>7, <1>9
  <2>4. QED
    BY <2>3, SeqEqual
<1>12. QED
  BY <1>3, <1>6, <1>10, <1>11

\* Without its CR a line is the text of an ACK if it is one with or without CR.
LEMMA WithoutCRIs ==
  ASSUME NEW line \in Seq(Char), NEW d \in Seq(Digit), NEW st \in AckStatus
  PROVE  /\ WithoutCR(line) \in Seq(Char)
         /\ AckText(WithoutCR(line), d, st) <=> AckText(line, d, st) \/ AckLineCR(line, d, st)
<1>1. PICK l \in Nat, n \in Nat : l = Len(line) /\ n = Len(d)
  BY LenProperties
<1>2. st # "CR"
  BY Letters
<1>3. CASE line # <<>> /\ line[l] = "CR"
  <2>1. PICK t : t = SubSeq(line, 1, l - 1)
    OBVIOUS
  <2>2. l # 0
    BY <1>1, <1>3, EmptySeq
  <2>3. l - 1 \in Int /\ 1 \in Int
    OBVIOUS
  <2>4. \A i \in 1 .. l - 1 : line[i] \in Char
    BY <1>1, LenProperties
  <2>5. /\ t \in Seq(Char) /\ Len(t) = (IF 1 <= l - 1 THEN l - 1 - 1 + 1 ELSE 0)
        /\ \A i \in 1 .. l - 1 - 1 + 1 : t[i] = line[1 + i - 1]
    BY <2>1, <2>3, <2>4, SubSeqProperties
  <2>6. Len(t) = l - 1 /\ \A i \in 1 .. l - 1 : t[i] = line[i]
    <3>1. l - 1 - 1 + 1 = l - 1 /\ \A i \in 1 .. l - 1 : 1 + i - 1 = i
      OBVIOUS
    <3>2. Len(t) = l - 1
      BY <2>2, <2>5
    <3>3. QED
      BY <3>1, <3>2, <2>5
  <2>7. WithoutCR(line) = t
    BY <2>1, <1>1, <1>3 DEF WithoutCR
  <2>8. ~AckText(line, d, st)
    BY <1>1, <1>2, <1>3 DEF AckText
  <2>9. CASE l = n + 4
    <3>1. /\ Len(t) = n + 3 /\ t[1] = line[1] /\ t[n + 2] = line[n + 2] /\ t[n + 3] = line[n + 3]
          /\ \A k \in 1 .. n : t[k + 1] = line[k + 1]
      <4>1. /\ l - 1 = n + 3 /\ 1 \in 1 .. l - 1 /\ n + 2 \in 1 .. l - 1 /\ n + 3 \in 1 .. l - 1
            /\ \A k \in 1 .. n : k + 1 \in 1 .. l - 1
        BY <2>9
      <4>2. QED
        BY <4>1, <2>6
    <3>2. AckText(t, d, st) <=> AckLineCR(line, d, st)
      BY <3>1, <2>9, <1>1, <1>3 DEF AckText, AckLineCR
    <3>3. QED
      BY <3>2, <2>5, <2>7, <2>8
  <2>10. CASE l # n + 4
    <3>1. Len(t) # n + 3
      BY <2>6, <2>10
    <3>2. ~AckText(t, d, st) /\ ~AckLineCR(line, d, st)
      BY <3>1, <2>10, <1>1 DEF AckText, AckLineCR
    <3>3. QED
      BY <3>2, <2>5, <2>7, <2>8
  <2>11. QED
    BY <2>9, <2>10
<1>4. CASE ~(line # <<>> /\ line[l] = "CR")
  <2>1. WithoutCR(line) = line
    BY <1>1, <1>4 DEF WithoutCR
  <2>2. ~AckLineCR(line, d, st)
    <3>1. ASSUME AckLineCR(line, d, st) PROVE FALSE
      <4>1. l = n + 4 /\ line[l] = "CR"
        BY <3>1, <1>1 DEF AckLineCR
      <4>2. line = <<>>
        BY <4>1, <1>4
      <4>3. l = 0
        BY <4>2, <1>1
      <4>4. QED
        BY <4>1, <4>3
    <3>2. QED
      BY <3>1
  <2>3. QED
    BY <2>1, <2>2
<1>5. QED
  BY <1>3, <1>4

\* The digits of a text, from place 2 on.
LEMMA DigitsOf ==
  ASSUME NEW text \in Seq(Char), NEW pos \in 1 .. Len(text), \A k \in 2 .. pos : text[k] \in Digit
  PROVE  /\ SubSeq(text, 2, pos) \in Seq(Digit)
         /\ Len(SubSeq(text, 2, pos)) = pos - 1
         /\ \A k \in 1 .. pos - 1 : SubSeq(text, 2, pos)[k] = text[k + 1]
<1>1. pos \in Nat /\ 2 \in Int /\ pos \in Int
  BY LenProperties
<1>2. /\ SubSeq(text, 2, pos) \in Seq(Digit)
      /\ Len(SubSeq(text, 2, pos)) = IF 2 <= pos THEN pos - 2 + 1 ELSE 0
      /\ \A i \in 1 .. pos - 2 + 1 : SubSeq(text, 2, pos)[i] = text[2 + i - 1]
  BY <1>1, SubSeqProperties
<1>3. pos >= 1
  BY <1>1, LenProperties
<1>4. (IF 2 <= pos THEN pos - 2 + 1 ELSE 0) = pos - 1 /\ pos - 2 + 1 = pos - 1
  BY <1>1, <1>3
<1>5. \A i \in 1 .. pos - 1 : 2 + i - 1 = i + 1
  BY <1>1
<1>6. QED
  BY <1>2, <1>4, <1>5

\* A text is an ACK, and x is its number and status.
IsAck(text, x) ==
  \E d \in Seq(Digit), st \in AckStatus :
    d # <<>> /\ Decimal(d) <= MaxSeq /\ x = <<Decimal(d), st>> /\ AckText(text, d, st)

\* parse_ack accepts exactly the texts of ACKs.
LEMMA ParseAckIs ==
  ASSUME NEW line \in Seq(Char), NEW x
  PROVE  x \in parse_ack(line) <=> IsAck(WithoutCR(line), x)
<1>1. PICK t \in Seq(Char) : t = WithoutCR(line)
  <2>1. WithoutCR(line) \in Seq(Char)
    <3>1. <<>> \in Seq(Digit) /\ "OK" \in AckStatus
      BY DEF AckStatus
    <3>2. QED
      BY <3>1, WithoutCRIs
  <2>2. QED
    BY <2>1
<1>2. PICK l \in Nat : l = Len(t)
  BY LenProperties
<1>3. PICK pos : pos = DigitsEnd(t)
  OBVIOUS
<1>4. PICK seq : seq = ParsedSeq(t)[pos]
  OBVIOUS
<1>5. x \in parse_ack(line) <=>
         /\ t # <<>> /\ t[1] = "ACK:" /\ seq # Rejected /\ pos > 1
         /\ pos + 1 <= l /\ t[pos + 1] = " "
         /\ \E st \in AckStatus : x = <<seq, st>> /\ SubSeq(t, pos + 2, l) = <<st>>
  BY <1>1, <1>2, <1>3, <1>4 DEF parse_ack
<1>6. ASSUME t # <<>>, t[1] = "ACK:", seq # Rejected, pos > 1, pos + 1 <= l, t[pos + 1] = " ",
             NEW st \in AckStatus, x = <<seq, st>>, SubSeq(t, pos + 2, l) = <<st>>
      PROVE  IsAck(t, x)
  <2>1. pos \in 1 .. l /\ \A k \in 2 .. pos : t[k] \in Digit
    BY <1>2, <1>3, <1>6, DigitsEndIs
  <2>2. pos \in Nat /\ pos + 2 \in Int /\ l \in Int
    BY <2>1
  <2>3. \A i \in pos + 2 .. l : t[i] \in Char
    BY <1>2, <2>1, LenProperties
  <2>4. /\ Len(SubSeq(t, pos + 2, l)) = (IF pos + 2 <= l THEN l - (pos + 2) + 1 ELSE 0)
        /\ \A i \in 1 .. l - (pos + 2) + 1 : SubSeq(t, pos + 2, l)[i] = t[pos + 2 + i - 1]
    BY <2>2, <2>3, SubSeqProperties
  <2>5. Len(SubSeq(t, pos + 2, l)) = 1 /\ SubSeq(t, pos + 2, l)[1] = st
    <3>1. Len(<<st>>) = 1 /\ <<st>>[1] = st
      OBVIOUS
    <3>2. SubSeq(t, pos + 2, l) = <<st>>
      BY <1>6
    <3>3. QED
      BY <3>1, <3>2
  <2>6. l = pos + 2
    BY <2>2, <2>4, <2>5
  <2>7. t[pos + 2] = st
    <3>1. 1 \in 1 .. l - (pos + 2) + 1 /\ pos + 2 + 1 - 1 = pos + 2
      BY <2>2, <2>6
    <3>2. QED
      BY <3>1, <2>4, <2>5
  <2>8. PICK d \in Seq(Digit) : /\ Len(d) = pos - 1
                                /\ \A k \in 1 .. pos - 1 : d[k] = t[k + 1]
    BY <1>2, <2>1, DigitsOf
  <2>9. /\ Decimal(d) \in Nat
        /\ seq = IF Decimal(d) <= MaxSeq THEN Decimal(d) ELSE Rejected
    BY <1>2, <1>4, <2>1, <2>8, ParsedIsDecimal
  <2>10. Decimal(d) <= MaxSeq /\ seq = Decimal(d)
    BY <2>9, <1>6
  <2>11. d # <<>>
    <3>1. pos > 1
      BY <1>6
    <3>2. Len(d) # 0
      BY <2>2, <2>8, <3>1
    <3>3. QED
      BY <3>2
  <2>12. AckText(t, d, st)
    <3>1. Len(d) + 3 = l /\ Len(d) + 2 = pos + 1 /\ Len(d) + 3 = pos + 2
      BY <2>2, <2>6, <2>8
    <3>2. QED
      BY <3>1, <1>2, <1>6, <2>7, <2>8 DEF AckText
  <2>13. QED
    BY <2>10, <2>11, <2>12, <1>6 DEF IsAck
<1>7. ASSUME NEW d \in Seq(Digit), NEW st \in AckStatus, d # <<>>, Decimal(d) <= MaxSeq,
             x = <<Decimal(d), st>>, AckText(t, d, st)
      PROVE  x \in parse_ack(line)
  <2>1. PICK n \in Nat : n = Len(d) /\ n >= 1
    <3>1. Len(d) \in Nat /\ Len(d) # 0
      BY <1>7, EmptySeq, LenProperties
    <3>2. QED
      BY <3>1
  <2>2. /\ l = n + 3 /\ t[1] = "ACK:" /\ t[n + 2] = " " /\ t[n + 3] = st
        /\ \A k \in 1 .. n : t[k + 1] = d[k]
    BY <1>2, <1>7, <2>1 DEF AckText
  <2>3. t # <<>>
    <3>1. l = n + 3
      BY <2>2
    <3>2. l # 0
      BY <3>1
    <3>3. QED
      BY <3>2, <1>2
  <2>4. /\ pos \in 1 .. l /\ \A k \in 2 .. pos : t[k] \in Digit
        /\ pos < l => t[pos + 1] \notin Digit
    BY <1>2, <1>3, <2>3, DigitsEndIs
  <2>5. \A k \in 2 .. n + 1 : t[k] \in Digit
    <3>1. ASSUME NEW k \in 2 .. n + 1 PROVE t[k] \in Digit
      <4>1. PICK j \in 1 .. n : j + 1 = k
        <5>1. k - 1 \in 1 .. n /\ k - 1 + 1 = k
          OBVIOUS
        <5>2. QED
          BY <5>1
      <4>2. d[j] \in Digit
        BY <2>1, ElementOfSeq
      <4>3. QED
        BY <4>1, <4>2, <2>2
    <3>2. QED
      BY <3>1
  <2>6. " " \notin Digit
    BY Letters
  <2>7. ~(pos < n + 1)
    <3>1. ASSUME pos < n + 1 PROVE FALSE
      <4>1. pos + 1 \in 2 .. n + 1 /\ pos < l
        <5>1. l = n + 3 /\ pos \in 1 .. l
          BY <2>2, <2>4
        <5>2. QED
          BY <3>1, <5>1
      <4>2. QED
        BY <4>1, <2>4, <2>5
    <3>2. QED
      BY <3>1
  <2>8. ~(pos > n + 1)
    <3>1. ASSUME pos > n + 1 PROVE FALSE
      <4>1. n + 2 \in 2 .. pos
        BY <3>1, <2>4
      <4>2. QED
        BY <4>1, <2>2, <2>4, <2>6
    <3>2. QED
      BY <3>1
  <2>9. pos = n + 1
    BY <2>4, <2>7, <2>8
  <2>10. Len(d) = pos - 1 /\ \A k \in 1 .. pos - 1 : d[k] = t[k + 1]
    <3>1. pos - 1 = n
      BY <2>9
    <3>2. QED
      BY <3>1, <2>1, <2>2
  <2>11. /\ Decimal(d) \in Nat
         /\ seq = IF Decimal(d) <= MaxSeq THEN Decimal(d) ELSE Rejected
    BY <1>2, <1>4, <2>4, <2>10, ParsedIsDecimal
  <2>12. seq = Decimal(d) /\ seq # Rejected
    BY <2>11, <1>7 DEF Rejected
  <2>13. pos > 1 /\ pos + 1 <= l /\ pos + 1 = n + 2 /\ pos + 2 = n + 3 /\ l = n + 3
    <3>1. l = n + 3
      BY <2>2
    <3>2. QED
      BY <3>1, <2>1, <2>9
  <2>14. SubSeq(t, pos + 2, l) = <<st>>
    <3>1. PICK m \in Nat : m = n + 3
      OBVIOUS
    <3>2. \A i \in m .. m : t[i] \in Char
      <4>1. l = m
        BY <3>1, <2>2
      <4>2. m \in 1 .. Len(t)
        BY <4>1, <3>1, <1>2
      <4>3. t[m] \in Char
        BY <4>2, ElementOfSeq
      <4>4. QED
        BY <4>3
    <3>3. /\ SubSeq(t, m, m) \in Seq(Char)
          /\ Len(SubSeq(t, m, m)) = (IF m <= m THEN m - m + 1 ELSE 0)
          /\ \A i \in 1 .. m - m + 1 : SubSeq(t, m, m)[i] = t[m + i - 1]
      BY <3>2, SubSeqProperties
    <3>4. Len(SubSeq(t, m, m)) = 1 /\ SubSeq(t, m, m)[1] = t[m]
      <4>1. m - m + 1 = 1 /\ 1 \in 1 .. 1 /\ m + 1 - 1 = m
        OBVIOUS
      <4>2. QED
        BY <4>1, <3>3
    <3>5. PICK u \in Seq(Char) : u = SubSeq(t, m, m)
      BY <3>3
    <3>6. Len(u) = 1 /\ u[1] = st
      BY <3>1, <3>4, <3>5, <2>2
    <3>7. st \in Char
      BY Letters
    <3>8. <<st>> \in Seq(Char) /\ Len(<<st>>) = 1 /\ <<st>>[1] = st
      BY <3>7
    <3>9. u = <<st>>
      <4>1. \A i \in 1 .. 1 : i = 1
        OBVIOUS
      <4>2. QED
        BY <4>1, <3>6, <3>8, SeqEqual
    <3>10. QED
      BY <3>1, <3>5, <3>9, <2>13
  <2>15. QED
    BY <1>5, <1>7, <2>2, <2>3, <2>12, <2>13, <2>14
<1>8. QED
  BY <1>1, <1>5, <1>6, <1>7 DEF IsAck

\* The protocol's reading of a line with the digits d and the status st.
ReadsAs(line, d, st, x) ==
  /\ \A i \in 1 .. Len(d) : d[i] \in Digit
  /\ Decimal(d) <= MaxSeq /\ x = <<Decimal(d), st>>
  /\ \/ line = <<"ACK:">> \o d \o <<" ", st>>
     \/ line = <<"ACK:">> \o d \o <<" ", st, "CR">>

\* That reading accepts the same texts.
LEMMA MeaningIs ==
  ASSUME NEW line \in Seq(Char), NEW x
  PROVE  x \in Meaning(line) <=> IsAck(WithoutCR(line), x)
<1>1. PICK l \in Nat : l = Len(line)
  BY LenProperties
<1>2. x \in Meaning(line) <=>
        \E k \in 2 .. l, st \in AckStatus : ReadsAs(line, SubSeq(line, 2, k), st, x)
  <2> DEFINE Ds == {ds \in {SubSeq(line, 2, k) : k \in 2 .. l} :
                      (\A k \in 1 .. Len(ds) : ds[k] \in Digit) /\ Decimal(ds) <= MaxSeq}
             Sts(d) == {st \in AckStatus : \/ line = <<"ACK:">> \o d \o <<" ", st>>
                                           \/ line = <<"ACK:">> \o d \o <<" ", st, "CR">>}
  <2>1. Meaning(line) = UNION {{<<Decimal(d), status>> : status \in Sts(d)} : d \in Ds}
    BY <1>1 DEF Meaning
  <2> HIDE DEF Ds, Sts
  <2>2. x \in Meaning(line) <=> \E d \in Ds : \E st \in Sts(d) : x = <<Decimal(d), st>>
    BY <2>1
  <2>3. \A d : d \in Ds <=> /\ \E k \in 2 .. l : d = SubSeq(line, 2, k)
                            /\ \A i \in 1 .. Len(d) : d[i] \in Digit
                            /\ Decimal(d) <= MaxSeq
    BY DEF Ds
  <2>4. \A d, st : st \in Sts(d) <=> /\ st \in AckStatus
                                     /\ \/ line = <<"ACK:">> \o d \o <<" ", st>>
                                        \/ line = <<"ACK:">> \o d \o <<" ", st, "CR">>
    BY DEF Sts
  <2>5. ASSUME NEW d \in Ds, NEW st \in Sts(d), x = <<Decimal(d), st>>
        PROVE  \E k \in 2 .. l, s \in AckStatus : ReadsAs(line, SubSeq(line, 2, k), s, x)
    <3>1. PICK k \in 2 .. l : d = SubSeq(line, 2, k)
      BY <2>3
    <3>2. ReadsAs(line, d, st, x) /\ st \in AckStatus
      BY <2>3, <2>4, <2>5 DEF ReadsAs
    <3>3. QED
      BY <3>1, <3>2
  <2>6. ASSUME NEW k \in 2 .. l, NEW st \in AckStatus, ReadsAs(line, SubSeq(line, 2, k), st, x)
        PROVE  \E d \in Ds : \E s \in Sts(d) : x = <<Decimal(d), s>>
    <3>1. PICK d : d = SubSeq(line, 2, k)
      OBVIOUS
    <3>2. ReadsAs(line, d, st, x)
      BY <2>6, <3>1
    <3>3. d \in Ds /\ st \in Sts(d) /\ x = <<Decimal(d), st>>
      BY <2>3, <2>4, <3>1, <3>2 DEF ReadsAs
    <3>4. QED
      BY <3>3
  <2>7. QED
    BY <2>2, <2>5, <2>6
<1>3. ASSUME NEW k \in 2 .. l, NEW st \in AckStatus, NEW d, d = SubSeq(line, 2, k),
             ReadsAs(line, d, st, x)
      PROVE  IsAck(WithoutCR(line), x)
  <2>1. \A i \in 2 .. k : line[i] \in Char
    BY <1>1, LenProperties
  <2>2. d \in Seq(Char) /\ Len(d) = IF 2 <= k THEN k - 2 + 1 ELSE 0
    <3>1. 2 \in Int /\ k \in Int
      OBVIOUS
    <3>2. /\ SubSeq(line, 2, k) \in Seq(Char)
          /\ Len(SubSeq(line, 2, k)) = IF 2 <= k THEN k - 2 + 1 ELSE 0
      BY <3>1, <2>1, SubSeqProperties
    <3>3. QED
      BY <3>2, <1>3
  <2>3. Len(d) # 0
    BY <2>2
  <2>4. d \in Seq(Digit)
    <3>1. Len(d) \in Nat /\ d \in [1 .. Len(d) -> Char]
      BY <2>2, LenProperties
    <3>2. d \in [1 .. Len(d) -> Digit]
      BY <3>1, <1>3 DEF ReadsAs
    <3>3. QED
      BY <3>1, <3>2, SeqDef
  <2>5. d # <<>>
    BY <2>3
  <2>6. AckText(line, d, st) \/ AckLineCR(line, d, st)
    BY <2>4, <1>3, AckTextIs, AckLineCRIs DEF ReadsAs
  <2>7. AckText(WithoutCR(line), d, st)
    BY <2>4, <2>6, WithoutCRIs
  <2>8. QED
    BY <2>4, <2>5, <2>7, <1>3 DEF IsAck, ReadsAs
<1>4. ASSUME NEW d \in Seq(Digit), NEW st \in AckStatus, d # <<>>, Decimal(d) <= MaxSeq,
             x = <<Decimal(d), st>>, AckText(WithoutCR(line), d, st)
      PROVE  x \in Meaning(line)
  <2>1. PICK n \in Nat : n = Len(d) /\ n >= 1
    <3>1. Len(d) \in Nat /\ Len(d) # 0
      BY <1>4, EmptySeq, LenProperties
    <3>2. QED
      BY <3>1
  <2>2. AckText(line, d, st) \/ AckLineCR(line, d, st)
    BY <1>4, WithoutCRIs
  <2>3. PICK k \in Nat : k = n + 1
    OBVIOUS
  <2>4. l >= n + 3 /\ \A i \in 1 .. n : line[i + 1] = d[i]
    <3>1. (l = n + 3 \/ l = n + 4) /\ \A i \in 1 .. n : line[i + 1] = d[i]
      BY <1>1, <2>1, <2>2 DEF AckText, AckLineCR
    <3>2. QED
      BY <3>1
  <2>5. k \in 2 .. l /\ k \in 1 .. l
    BY <2>1, <2>3, <2>4
  <2>6. \A i \in 2 .. k : line[i] \in Digit
    <3>1. ASSUME NEW i \in 2 .. k PROVE line[i] \in Digit
      <4>1. PICK j \in 1 .. n : j + 1 = i
        <5>1. i - 1 \in 1 .. n /\ i - 1 + 1 = i
          BY <2>3
        <5>2. QED
          BY <5>1
      <4>2. d[j] \in Digit
        BY <2>1, ElementOfSeq
      <4>3. QED
        BY <4>1, <4>2, <2>4
    <3>2. QED
      BY <3>1
  <2>7. PICK e \in Seq(Digit) : /\ e = SubSeq(line, 2, k) /\ Len(e) = k - 1
                                /\ \A i \in 1 .. k - 1 : e[i] = line[i + 1]
    BY <1>1, <2>5, <2>6, DigitsOf
  <2>8. k - 1 = n
    BY <2>3
  <2>9. e = d
    BY <2>1, <2>4, <2>7, <2>8, SeqEqual
  <2>10. \A i \in 1 .. Len(d) : d[i] \in Digit
    BY ElementOfSeq
  <2>11. line = <<"ACK:">> \o d \o <<" ", st>> \/ line = <<"ACK:">> \o d \o <<" ", st, "CR">>
    <3>1. AckText(line, d, st) => line = <<"ACK:">> \o d \o <<" ", st>>
      BY AckTextIs
    <3>2. AckLineCR(line, d, st) => line = <<"ACK:">> \o d \o <<" ", st, "CR">>
      BY AckLineCRIs
    <3>3. QED
      BY <2>2, <3>1, <3>2
  <2>12. d = SubSeq(line, 2, k)
    BY <2>7, <2>9
  <2>13. QED
    <3>1. ReadsAs(line, d, st, x)
      BY <1>4, <2>10, <2>11 DEF ReadsAs
    <3>2. ReadsAs(line, SubSeq(line, 2, k), st, x)
      BY <3>1, <2>12
    <3>3. QED
      BY <1>2, <2>5, <3>2
<1>5. QED
  BY <1>2, <1>3, <1>4 DEF IsAck

\* What the code accepts is what the protocol means, for every line.
LEMMA ParserIsProtocol ==
  ASSUME NEW line \in Seq(Char)
  PROVE  parse_ack(line) = Meaning(line)
BY ParseAckIs, MeaningIs

----------------------------------------------------------------------------
(* The lines of uart_rx_worker.                                             *)

RxType ==
  /\ sent \in Nat /\ wire \in Seq(Char) /\ taken \in Nat /\ left \in Nat
  /\ rx_pc \in {"top", "read", "chars", "done"}
  /\ rx_line \in Seq(Char) /\ discard_line \in BOOLEAN /\ rx_stop \in BOOLEAN
  /\ taken + left <= Len(wire)
  /\ rx_pc = "chars" => left >= 1

\* The line being assembled starts at b; it is kept in rx_line as long as it is
\* not too long, and dropped from then on.
LineFrom(b) ==
  /\ b = 1 \/ wire[b - 1] = "LF"
  /\ \A k \in b .. taken : wire[k] /= "LF"
  /\ discard_line => rx_line = <<>> /\ taken + 1 - b > LineLimit
  /\ ~discard_line => /\ Len(rx_line) = taken + 1 - b /\ taken + 1 - b <= LineLimit
                      /\ \A k \in 1 .. taken + 1 - b : rx_line[k] = wire[b + k - 1]

RxInv == /\ RxType
         /\ \E b \in 1 .. taken + 1 : LineFrom(b)
         /\ AcksExact

\* The line that ends at a place starts behind the last line end before it.
LEMMA OneStart ==
  ASSUME RxType, NEW b \in 1 .. taken + 1, LineFrom(b),
         NEW f \in 1 .. taken + 1, IsLine(f, taken + 1)
  PROVE  f = b
<1>1. PICK n \in Nat : n = taken
  BY DEF RxType
<1>2. /\ \A k \in f .. n + 1 - 1 : wire[k] /= "LF"
      /\ f = 1 \/ wire[f - 1] = "LF"
  BY <1>1 DEF IsLine
<1>3. /\ \A k \in b .. n : wire[k] /= "LF"
      /\ b = 1 \/ wire[b - 1] = "LF"
  BY <1>1 DEF LineFrom
<1>4. f \in 1 .. n + 1 /\ b \in 1 .. n + 1
  BY <1>1
<1>5. ASSUME f < b PROVE FALSE
  <2>1. b - 1 \in f .. n + 1 - 1 /\ b # 1
    BY <1>4, <1>5
  <2>2. QED
    BY <2>1, <1>2, <1>3
<1>6. ASSUME b < f PROVE FALSE
  <2>1. f - 1 \in b .. n /\ f # 1
    BY <1>4, <1>6
  <2>2. QED
    BY <2>1, <1>2, <1>3
<1>7. QED
  BY <1>4, <1>5, <1>6

\* A character more that ends no line.
LEMMA NoLineEnds ==
  ASSUME RxType, wire[taken + 1] # "LF"
  PROVE  AcksOfLine(taken + 1) = {}
<1>1. PICK n \in Nat : n = taken
  BY DEF RxType
<1>2. \A f : ~IsLine(f, n + 1)
  BY <1>1 DEF IsLine
<1>3. PICK F : F = {f \in 1 .. n + 1 : n + 1 - f <= LineLimit /\ IsLine(f, n + 1)}
  OBVIOUS
<1>4. F = {}
  BY <1>2, <1>3
<1>5. AcksOfLine(n + 1) = UNION {{<<n + 1, m[1], m[2]>> :
                                    m \in Meaning(SubSeq(wire, first, n + 1 - 1))} : first \in F}
  BY <1>3 DEF AcksOfLine
<1>6. AcksOfLine(n + 1) = {}
  BY <1>4, <1>5
<1>7. QED
  BY <1>1, <1>6

\* The line that ends with the next character is the one in rx_line, and when it
\* was dropped it was too long.
LEMMA LineEnds ==
  ASSUME RxType, NEW b \in 1 .. taken + 1, LineFrom(b), wire[taken + 1] = "LF",
         taken + 1 <= Len(wire)
  PROVE  AcksOfLine(taken + 1)
           = IF discard_line THEN {}
             ELSE {<<taken + 1, m[1], m[2]>> : m \in Meaning(rx_line)}
<1>1. PICK n \in Nat : n = taken
  BY DEF RxType
<1>2. LineLimit \in Nat /\ b \in 1 .. n + 1
  BY <1>1, UartRxAssumption
<1>3. PICK F : F = {f \in 1 .. n + 1 : n + 1 - f <= LineLimit /\ IsLine(f, n + 1)}
  OBVIOUS
<1>4. AcksOfLine(n + 1) = UNION {{<<n + 1, m[1], m[2]>> :
                                    m \in Meaning(SubSeq(wire, first, n + 1 - 1))} : first \in F}
  BY <1>3 DEF AcksOfLine
<1>5. \A f \in F : f = b
  BY <1>1, <1>3, OneStart
<1>6. CASE discard_line
  <2>1. n + 1 - b > LineLimit
    BY <1>1, <1>6 DEF LineFrom
  <2>2. b \notin F
    BY <1>2, <1>3, <2>1
  <2>3. F = {}
    BY <1>5, <2>2
  <2>4. AcksOfLine(n + 1) = {}
    BY <1>4, <2>3
  <2>5. QED
    BY <1>1, <1>6, <2>4
<1>7. CASE ~discard_line
  <2>1. /\ Len(rx_line) = n + 1 - b /\ n + 1 - b <= LineLimit
        /\ \A k \in 1 .. n + 1 - b : rx_line[k] = wire[b + k - 1]
    BY <1>1, <1>7 DEF LineFrom
  <2>2. IsLine(b, n + 1)
    <3>1. n + 1 - 1 = n
      OBVIOUS
    <3>2. QED
      BY <1>1, <3>1 DEF IsLine, LineFrom
  <2>3. F = {b}
    <3>1. b \in F
      BY <1>2, <1>3, <2>1, <2>2
    <3>2. QED
      BY <3>1, <1>5
  <2>4. AcksOfLine(n + 1) = {<<n + 1, m[1], m[2]>> : m \in Meaning(SubSeq(wire, b, n + 1 - 1))}
    BY <1>4, <2>3
  <2>5. SubSeq(wire, b, n + 1 - 1) = rx_line
    <3>1. n + 1 - 1 = n /\ b \in Int /\ n \in Int
      OBVIOUS
    <3>2. \A i \in b .. n : wire[i] \in Char
      <4>1. wire \in Seq(Char) /\ Len(wire) \in Nat /\ n + 1 <= Len(wire)
        BY <1>1, LenProperties DEF RxType
      <4>2. \A i \in b .. n : i \in 1 .. Len(wire)
        BY <4>1, <1>2
      <4>3. QED
        BY <4>1, <4>2, ElementOfSeq
    <3>3. /\ SubSeq(wire, b, n) \in Seq(Char)
          /\ Len(SubSeq(wire, b, n)) = IF b <= n THEN n - b + 1 ELSE 0
          /\ \A i \in 1 .. n - b + 1 : SubSeq(wire, b, n)[i] = wire[b + i - 1]
      BY <3>1, <3>2, SubSeqProperties
    <3>4. (IF b <= n THEN n - b + 1 ELSE 0) = n + 1 - b /\ n - b + 1 = n + 1 - b
      BY <1>2
    <3>5. PICK u \in Seq(Char) : u = SubSeq(wire, b, n)
      BY <3>3
    <3>6. Len(u) = n + 1 - b /\ \A i \in 1 .. n + 1 - b : u[i] = wire[b + i - 1]
      BY <3>3, <3>4, <3>5
    <3>7. rx_line \in Seq(Char)
      BY DEF RxType
    <3>8. u = rx_line
      BY <2>1, <3>6, <3>7, SeqEqual
    <3>9. QED
      BY <3>1, <3>5, <3>8
  <2>6. QED
    BY <1>1, <1>7, <2>4, <2>5
<1>8. QED
  BY <1>6, <1>7

\* What is said of the characters taken, when more arrive.
LEMMA MoreArrives ==
  ASSUME RxType, NEW piece \in Seq(Char), wire' = wire \o piece, taken' = taken,
         NEW e \in 1 .. taken
  PROVE  AcksOfLine(e)' = AcksOfLine(e)
<1>1. wire \in Seq(Char) /\ Len(wire) \in Nat /\ e \in 1 .. Len(wire) /\ Len(piece) \in Nat
  BY LenProperties DEF RxType
<1>2. \A i \in 1 .. Len(wire) : wire'[i] = wire[i]
  <2>1. \A i \in 1 .. Len(wire) + Len(piece) : (wire \o piece)[i]
            = IF i <= Len(wire) THEN wire[i] ELSE piece[i - Len(wire)]
    BY <1>1, ConcatProperties
  <2>2. \A i \in 1 .. Len(wire) : i \in 1 .. Len(wire) + Len(piece) /\ i <= Len(wire)
    BY <1>1
  <2>3. QED
    BY <2>1, <2>2
<1>3. ASSUME NEW f \in 1 .. e
      PROVE  /\ IsLine(f, e)' <=> IsLine(f, e)
             /\ SubSeq(wire', f, e - 1) = SubSeq(wire, f, e - 1)
  <2>1. /\ \A k \in f .. e - 1 : k \in 1 .. Len(wire)
        /\ f # 1 => f - 1 \in 1 .. Len(wire)
    BY <1>1
  <2>2. IsLine(f, e)' <=> IsLine(f, e)
    BY <1>1, <1>2, <2>1 DEF IsLine
  <2>3. \A k \in f .. e - 1 : wire'[k] = wire[k] /\ wire[k] \in Char
    BY <1>1, <1>2, <2>1, ElementOfSeq
  <2>4. PICK g \in Int : g = e - 1
    OBVIOUS
  <2>5. /\ SubSeq(wire, f, g) \in Seq(Char)
        /\ Len(SubSeq(wire, f, g)) = IF f <= g THEN g - f + 1 ELSE 0
        /\ \A i \in 1 .. g - f + 1 : SubSeq(wire, f, g)[i] = wire[f + i - 1]
    BY <2>3, <2>4, SubSeqProperties
  <2>6. /\ SubSeq(wire', f, g) \in Seq(Char)
        /\ Len(SubSeq(wire', f, g)) = IF f <= g THEN g - f + 1 ELSE 0
        /\ \A i \in 1 .. g - f + 1 : SubSeq(wire', f, g)[i] = wire'[f + i - 1]
    <3>1. PICK w : w = wire'
      OBVIOUS
    <3>2. \A k \in f .. g : w[k] \in Char
      BY <2>3, <2>4, <3>1
    <3>3. /\ SubSeq(w, f, g) \in Seq(Char)
          /\ Len(SubSeq(w, f, g)) = IF f <= g THEN g - f + 1 ELSE 0
          /\ \A i \in 1 .. g - f + 1 : SubSeq(w, f, g)[i] = w[f + i - 1]
      BY <3>2, SubSeqProperties
    <3>4. QED
      BY <3>1, <3>3
  <2>7. \A i \in 1 .. g - f + 1 : f + i - 1 \in f .. e - 1
    BY <2>4
  <2>8. PICK u \in Seq(Char), v \in Seq(Char) : u = SubSeq(wire, f, g) /\ v = SubSeq(wire', f, g)
    BY <2>5, <2>6
  <2>9. PICK h \in Nat : h = IF f <= g THEN g - f + 1 ELSE 0
    <3>1. (IF f <= g THEN g - f + 1 ELSE 0) \in Nat
      OBVIOUS
    <3>2. QED
      BY <3>1
  <2>10. Len(u) = h /\ Len(v) = h
    BY <2>5, <2>6, <2>8, <2>9
  <2>11. \A i \in 1 .. h : i \in 1 .. g - f + 1
    BY <2>9
  <2>12. \A i \in 1 .. h : u[i] = v[i]
    BY <2>3, <2>5, <2>6, <2>7, <2>8, <2>11
  <2>13. u = v
    BY <2>10, <2>12, SeqEqual
  <2>14. QED
    BY <2>2, <2>4, <2>8, <2>13
<1>4. PICK F : F = {f \in 1 .. e : e - f <= LineLimit /\ IsLine(f, e)}
  OBVIOUS
<1>5. F = {f \in 1 .. e : e - f <= LineLimit /\ IsLine(f, e)'}
  BY <1>3, <1>4
<1>6. AcksOfLine(e) = UNION {{<<e, m[1], m[2]>> : m \in Meaning(SubSeq(wire, first, e - 1))} :
                             first \in F}
  BY <1>4 DEF AcksOfLine
<1>7. AcksOfLine(e)' = UNION {{<<e, m[1], m[2]>> : m \in Meaning(SubSeq(wire', first, e - 1))} :
                              first \in F}
  BY <1>5 DEF AcksOfLine, Meaning, Decimal
<1>8. \A f \in F : SubSeq(wire', f, e - 1) = SubSeq(wire, f, e - 1)
  BY <1>3, <1>4
<1>9. QED
  BY <1>6, <1>7, <1>8

\* Nothing is said of a line but what was sent.
LEMMA SameWire ==
  ASSUME wire' = wire, NEW e
  PROVE  AcksOfLine(e)' = AcksOfLine(e)
BY DEF AcksOfLine, IsLine, Meaning, Decimal

\* The ACKs expected after the next character are those expected before it and
\* those of the line it ends.
LEMMA OneMore ==
  ASSUME RxType, AcksExact, wire' = wire, taken' = taken + 1,
         acks' = acks \cup AcksOfLine(taken + 1)
  PROVE  AcksExact'
<1>1. PICK n \in Nat : n = taken
  BY DEF RxType
<1>2. \A e : AcksOfLine(e)' = AcksOfLine(e)
  BY SameWire
<1>3. PICK A : A = UNION {AcksOfLine(e) : e \in 1 .. n + 1}
  OBVIOUS
<1>4. AcksExact' <=> acks' = A
  BY <1>1, <1>2, <1>3 DEF AcksExact
<1>5. acks = UNION {AcksOfLine(e) : e \in 1 .. n}
  BY <1>1 DEF AcksExact
<1>6. \A x : x \in acks <=> \E e \in 1 .. n : x \in AcksOfLine(e)
  BY <1>5
<1>7. \A x : x \in A <=> \E e \in 1 .. n + 1 : x \in AcksOfLine(e)
  BY <1>3
<1>8. /\ \A e \in 1 .. n + 1 : e \in 1 .. n \/ e = n + 1
      /\ \A e \in 1 .. n : e \in 1 .. n + 1
      /\ n + 1 \in 1 .. n + 1
  OBVIOUS
<1>9. \A x : x \in A <=> x \in acks \/ x \in AcksOfLine(n + 1)
  BY <1>6, <1>7, <1>8
<1>10. QED
  BY <1>1, <1>4, <1>9

\* What every turn of the loop over the buffer does.
LEMMA TakeEffect ==
  ASSUME RxInv, TakeChar, rx_line' \in Seq(Char), discard_line' \in BOOLEAN
  PROVE  /\ RxType /\ RxType' /\ AcksExact /\ taken \in Nat
         /\ taken' = taken + 1 /\ wire' = wire /\ taken + 1 <= Len(wire)
         /\ wire[taken + 1] \in Char
<1>1. /\ RxType /\ AcksExact
  BY DEF RxInv
<1>2. /\ wire \in Seq(Char) /\ taken \in Nat /\ left \in Nat /\ taken + left <= Len(wire)
      /\ left >= 1 /\ Len(wire) \in Nat
  BY <1>1, LenProperties DEF RxType, TakeChar
<1>3. taken + 1 \in 1 .. Len(wire) /\ taken + 1 <= Len(wire)
  BY <1>2
<1>4. wire[taken + 1] \in Char
  BY <1>2, <1>3, ElementOfSeq
<1>5. /\ taken' = taken + 1 /\ left' = left - 1 /\ wire' = wire /\ sent' = sent /\ rx_stop' = rx_stop
      /\ rx_pc' = IF left = 1 THEN "top" ELSE "chars"
  BY DEF TakeChar
<1>6. /\ taken' \in Nat /\ left' \in Nat /\ taken' + left' <= Len(wire)
      /\ rx_pc' = "chars" => left' >= 1
  BY <1>2, <1>5
<1>7. RxType'
  BY <1>1, <1>5, <1>6 DEF RxType
<1>8. QED
  BY <1>1, <1>2, <1>3, <1>4, <1>5, <1>7

\* A line end hands the ACK of the line over and starts the next line.
LEMMA RxLineEndStep ==
  ASSUME RxInv, RxLineEnd
  PROVE  RxInv'
<1>1. PICK b \in 1 .. taken + 1 : LineFrom(b)
  BY DEF RxInv
<1>2. TakeChar /\ rx_line' = <<>> /\ discard_line' = FALSE /\ wire[taken + 1] = "LF"
  BY DEF RxLineEnd, ch
<1>3. rx_line' \in Seq(Char) /\ discard_line' \in BOOLEAN
  <2>1. rx_line' = <<>> /\ discard_line' = FALSE
    BY <1>2
  <2>2. <<>> \in Seq(Char)
    BY EmptySeq
  <2>3. QED
    BY <2>1, <2>2
<1>4. /\ RxType /\ RxType' /\ AcksExact /\ taken \in Nat
      /\ taken' = taken + 1 /\ wire' = wire /\ taken + 1 <= Len(wire)
  BY <1>2, <1>3, TakeEffect
<1>5. AcksOfLine(taken + 1)
        = IF discard_line THEN {}
          ELSE {<<taken + 1, m[1], m[2]>> : m \in Meaning(rx_line)}
  BY <1>1, <1>2, <1>4, LineEnds
<1>6. rx_line \in Seq(Char)
  BY <1>4 DEF RxType
<1>7. parse_ack(rx_line) = Meaning(rx_line)
  BY <1>6, ParserIsProtocol
<1>8. rx_line = <<>> => Meaning(rx_line) = {}
  <2>1. WithoutCR(<<>>) = <<>>
    BY DEF WithoutCR
  <2>2. parse_ack(<<>>) = {}
    BY <2>1 DEF parse_ack
  <2>3. QED
    BY <2>2, <1>7
<1>9. acks' = acks \cup AcksOfLine(taken + 1)
  <2>1. acks' = IF discard_line \/ rx_line = <<>> THEN acks
                ELSE acks \cup {<<taken + 1, m[1], m[2]>> : m \in Meaning(rx_line)}
    BY <1>7 DEF RxLineEnd
  <2>2. CASE discard_line
    BY <2>1, <2>2, <1>5
  <2>3. CASE ~discard_line /\ rx_line = <<>>
    <3>1. AcksOfLine(taken + 1) = {}
      BY <2>3, <1>5, <1>8
    <3>2. QED
      BY <2>1, <2>3, <3>1
  <2>4. CASE ~discard_line /\ rx_line # <<>>
    BY <2>1, <2>4, <1>5
  <2>5. QED
    BY <2>2, <2>3, <2>4
<1>10. AcksExact'
  BY <1>4, <1>9, OneMore
<1>11. \E c \in 1 .. taken' + 1 : LineFrom(c)'
  <2>1. PICK n \in Nat : n = taken
    BY <1>4
  <2>2. PICK c \in Nat : c = n + 2
    OBVIOUS
  <2>3. c \in 1 .. taken' + 1 /\ c - 1 = taken + 1 /\ taken' + 1 - c = 0 /\ taken' < c
    BY <1>4, <2>1, <2>2
  <2>4. wire'[c - 1] = "LF"
    BY <1>2, <1>4, <2>3
  <2>5. (\A k \in c .. taken' : FALSE) /\ \A k \in 1 .. 0 : FALSE
    BY <1>4, <2>1, <2>2
  <2>6. LineLimit \in Nat /\ 0 <= LineLimit
    BY UartRxAssumption
  <2>7. Len(rx_line') = 0
    BY <1>2
  <2>8. LineFrom(c)'
    BY <1>2, <2>3, <2>4, <2>5, <2>6, <2>7 DEF LineFrom
  <2>9. QED
    BY <2>3, <2>8
<1>12. QED
  BY <1>4, <1>10, <1>11 DEF RxInv

\* A character is kept.
LEMMA RxKeepStep ==
  ASSUME RxInv, RxKeep
  PROVE  RxInv'
<1>1. PICK b \in 1 .. taken + 1 : LineFrom(b)
  BY DEF RxInv
<1>2. /\ TakeChar /\ rx_line' = Append(rx_line, wire[taken + 1]) /\ discard_line' = discard_line
      /\ acks' = acks /\ ~discard_line /\ wire[taken + 1] # "LF" /\ Len(rx_line) < LineLimit
  BY DEF RxKeep, ch
<1>3. rx_line \in Seq(Char) /\ discard_line \in BOOLEAN /\ wire \in Seq(Char) /\ taken \in Nat
  BY DEF RxInv, RxType
<1>4. taken + 1 <= Len(wire)
  <2>1. left \in Nat /\ left >= 1 /\ taken + left <= Len(wire) /\ Len(wire) \in Nat
    BY <1>2, LenProperties DEF RxInv, RxType, TakeChar
  <2>2. QED
    BY <2>1, <1>3
<1>5. wire[taken + 1] \in Char
  <2>1. taken + 1 \in 1 .. Len(wire)
    BY <1>3, <1>4, LenProperties
  <2>2. QED
    BY <2>1, <1>3, ElementOfSeq
<1>6. rx_line' \in Seq(Char) /\ discard_line' \in BOOLEAN
  BY <1>2, <1>3, <1>5, AppendProperties
<1>7. /\ RxType /\ RxType' /\ AcksExact
      /\ taken' = taken + 1 /\ wire' = wire
  BY <1>2, <1>6, TakeEffect
<1>8. AcksExact'
  <2>1. AcksOfLine(taken + 1) = {}
    BY <1>2, <1>7, NoLineEnds
  <2>2. acks' = acks \cup AcksOfLine(taken + 1)
    BY <2>1, <1>2
  <2>3. QED
    BY <2>2, <1>7, OneMore
<1>9. LineFrom(b)' /\ b \in 1 .. taken' + 1
  <2>1. PICK n \in Nat, m \in Nat : n = taken /\ m = Len(rx_line)
    BY <1>3, LenProperties
  <2>2. PICK s \in Seq(Char), c \in Char : s = rx_line /\ c = wire[n + 1]
    BY <1>3, <1>5, <2>1
  <2>3. /\ m = n + 1 - b /\ m <= LineLimit /\ \A k \in 1 .. m : s[k] = wire[b + k - 1]
        /\ b = 1 \/ wire[b - 1] = "LF"
        /\ \A k \in b .. n : wire[k] /= "LF"
    BY <1>1, <1>2, <2>1, <2>2 DEF LineFrom
  <2>4. m < LineLimit /\ LineLimit \in Nat /\ b \in 1 .. n + 1
    BY <1>2, <2>1, UartRxAssumption
  <2>5. rx_line' = Append(s, c)
    BY <1>2, <2>1, <2>2
  <2>6. PICK h \in Nat : h = m + 1
    OBVIOUS
  <2>7. Len(rx_line') = h /\ rx_line'[h] = c /\ \A k \in 1 .. m : rx_line'[k] = s[k]
    BY <2>1, <2>2, <2>5, <2>6, AppendProperties
  <2>8. taken' + 1 - b = h /\ h <= LineLimit /\ taken' = n + 1
    BY <1>7, <2>1, <2>3, <2>4, <2>6
  <2>9. \A k \in 1 .. h : rx_line'[k] = wire[b + k - 1]
    <3>1. b + h - 1 = n + 1
      BY <2>3, <2>4, <2>6
    <3>2. \A k \in 1 .. h : k \in 1 .. m \/ k = h
      BY <2>6
    <3>3. QED
      BY <3>1, <3>2, <2>2, <2>3, <2>7
  <2>10. \A k \in b .. n + 1 : wire[k] /= "LF"
    <3>1. \A k \in b .. n + 1 : k \in b .. n \/ k = n + 1
      BY <2>4
    <3>2. wire[n + 1] # "LF"
      BY <1>2, <2>1
    <3>3. QED
      BY <3>1, <3>2, <2>3
  <2>11. LineFrom(b)'
    BY <1>2, <1>7, <2>3, <2>7, <2>8, <2>9, <2>10 DEF LineFrom
  <2>12. b \in 1 .. taken' + 1
    BY <2>4, <2>8
  <2>13. QED
    BY <2>11, <2>12
<1>10. QED
  BY <1>7, <1>8, <1>9 DEF RxInv

\* A line that is too long is dropped, and the rest of it with it.
LEMMA RxDropStep ==
  ASSUME RxInv, RxTooLong \/ RxDiscard
  PROVE  RxInv'
<1>1. PICK b \in 1 .. taken + 1 : LineFrom(b)
  BY DEF RxInv
<1>2. /\ TakeChar /\ acks' = acks /\ wire[taken + 1] # "LF" /\ discard_line' = TRUE
      /\ \/ ~discard_line /\ Len(rx_line) >= LineLimit /\ rx_line' = <<>>
         \/ discard_line /\ rx_line' = rx_line
  BY DEF RxTooLong, RxDiscard, ch, RxInv, RxType
<1>3. LineLimit \in Nat /\ taken \in Nat /\ b \in Nat
  BY UartRxAssumption DEF RxInv, RxType
<1>4. rx_line' = <<>> /\ taken + 1 - b >= LineLimit
  <2>1. CASE discard_line
    BY <1>1, <1>2, <1>3, <2>1 DEF LineFrom
  <2>2. CASE ~discard_line
    BY <1>1, <1>2, <1>3, <2>2 DEF LineFrom
  <2>3. QED
    BY <2>1, <2>2
<1>5. rx_line' \in Seq(Char) /\ discard_line' \in BOOLEAN
  BY <1>2, <1>4
<1>6. /\ RxType /\ RxType' /\ AcksExact /\ taken' = taken + 1 /\ wire' = wire
  BY <1>2, <1>5, TakeEffect
<1>7. AcksExact'
  <2>1. AcksOfLine(taken + 1) = {}
    BY <1>2, <1>6, NoLineEnds
  <2>2. acks' = acks \cup AcksOfLine(taken + 1)
    BY <2>1, <1>2
  <2>3. QED
    BY <2>2, <1>6, OneMore
<1>8. LineFrom(b)' /\ b \in 1 .. taken' + 1
  <2>1. PICK n \in Nat : n = taken
    BY <1>3
  <2>2. taken' = n + 1 /\ taken' + 1 - b > LineLimit /\ b \in 1 .. taken' + 1
    BY <1>3, <1>4, <1>6, <2>1
  <2>3. \A k \in b .. n + 1 : k \in b .. n \/ k = n + 1
    BY <1>3
  <2>4. /\ b = 1 \/ wire[b - 1] = "LF"
        /\ \A k \in b .. n : wire[k] /= "LF"
    BY <1>1, <2>1 DEF LineFrom
  <2>5. wire[n + 1] # "LF"
    BY <1>2, <2>1
  <2>6. \A k \in b .. n + 1 : wire[k] /= "LF"
    BY <2>3, <2>4, <2>5
  <2>7. LineFrom(b)'
    BY <1>2, <1>4, <1>6, <2>2, <2>4, <2>6 DEF LineFrom
  <2>8. QED
    BY <2>2, <2>7
<1>9. QED
  BY <1>6, <1>7, <1>8 DEF RxInv

\* The device sends.
LEMMA DeviceSendStep ==
  ASSUME RxInv, DeviceSend
  PROVE  RxInv'
<1>1. PICK piece \in Pieces : wire' = wire \o piece
  BY DEF DeviceSend
<1>2. piece \in Seq(Char)
  BY UartRxAssumption
<1>3. RxType /\ AcksExact
  BY DEF RxInv
<1>4. /\ taken' = taken /\ left' = left /\ rx_pc' = rx_pc /\ rx_line' = rx_line /\ sent' = sent + 1
      /\ discard_line' = discard_line /\ rx_stop' = rx_stop /\ acks' = acks
  BY DEF DeviceSend
<1>5. /\ wire' \in Seq(Char) /\ Len(wire') = Len(wire) + Len(piece)
      /\ \A i \in 1 .. Len(wire) + Len(piece) :
            wire'[i] = IF i <= Len(wire) THEN wire[i] ELSE piece[i - Len(wire)]
  BY <1>1, <1>2, <1>3, ConcatProperties DEF RxType
<1>6. /\ Len(wire) \in Nat /\ Len(piece) \in Nat /\ taken \in Nat /\ left \in Nat
      /\ taken + left <= Len(wire)
  BY <1>2, <1>3, LenProperties DEF RxType
<1>7. RxType'
  <2>1. taken + left <= Len(wire')
    BY <1>5, <1>6
  <2>2. sent + 1 \in Nat
    BY <1>3 DEF RxType
  <2>3. QED
    BY <1>3, <1>4, <1>5, <2>1, <2>2 DEF RxType
<1>8. AcksExact'
  <2>1. \A e \in 1 .. taken : AcksOfLine(e)' = AcksOfLine(e)
    BY <1>1, <1>2, <1>3, <1>4, MoreArrives
  <2>2. QED
    BY <2>1, <1>3, <1>4 DEF AcksExact
<1>9. PICK b \in 1 .. taken + 1 : LineFrom(b)
  BY DEF RxInv
<1>10. \A i \in 1 .. taken : wire'[i] = wire[i]
  <2>1. \A i \in 1 .. taken : i \in 1 .. Len(wire) + Len(piece) /\ i <= Len(wire)
    BY <1>6
  <2>2. QED
    BY <2>1, <1>5
<1>11. LineFrom(b)'
  <2>1. PICK n \in Nat : n = taken /\ n = taken'
    BY <1>4, <1>6
  <2>2. /\ b # 1 => b - 1 \in 1 .. n
        /\ \A k \in b .. n : k \in 1 .. n
        /\ \A k \in 1 .. n + 1 - b : b + k - 1 \in 1 .. n
    <3>1. b \in 1 .. n + 1
      BY <2>1
    <3>2. QED
      BY <3>1
  <2>3. /\ b = 1 \/ wire'[b - 1] = "LF"
        /\ \A k \in b .. n : wire'[k] /= "LF"
    BY <1>9, <1>10, <2>1, <2>2 DEF LineFrom
  <2>4. \A k \in 1 .. n + 1 - b : wire'[b + k - 1] = wire[b + k - 1]
    BY <1>10, <2>1, <2>2
  <2>5. /\ discard_line => rx_line = <<>> /\ n + 1 - b > LineLimit
        /\ ~discard_line => /\ Len(rx_line) = n + 1 - b /\ n + 1 - b <= LineLimit
                            /\ \A k \in 1 .. n + 1 - b : rx_line[k] = wire[b + k - 1]
    BY <1>9, <2>1 DEF LineFrom
  <2>6. QED
    BY <1>4, <2>1, <2>3, <2>4, <2>5 DEF LineFrom
<1>12. QED
  BY <1>4, <1>7, <1>8, <1>9, <1>11 DEF RxInv

\* The steps that take no character and receive none.
LEMMA RxQuietStep ==
  ASSUME RxInv, RxType', wire' = wire, taken' = taken, acks' = acks,
         rx_line' = rx_line, discard_line' = discard_line
  PROVE  RxInv'
<1>1. \A e : AcksOfLine(e)' = AcksOfLine(e)
  BY SameWire
<1>2. AcksExact'
  BY <1>1 DEF RxInv, AcksExact
<1>3. PICK b \in 1 .. taken + 1 : LineFrom(b)
  BY DEF RxInv
<1>4. LineFrom(b)'
  BY <1>3 DEF LineFrom
<1>5. QED
  BY <1>2, <1>3, <1>4 DEF RxInv

\* However read() cuts the stream, exactly the ACKs in it reach on_ack, for any
\* line limit, any buffer and any largest SEQ of at least one digit
\* (hand_bridge_node.cpp 580-698, ack_parser.cpp).
THEOREM AcksAreExact == RxSpec => []AcksExact
<1>1. RxInit => RxInv
  <2> SUFFICES ASSUME RxInit PROVE RxInv
    OBVIOUS
  <2>1. /\ sent = 0 /\ wire = <<>> /\ taken = 0 /\ left = 0 /\ rx_pc = "top" /\ rx_line = <<>>
        /\ discard_line = FALSE /\ rx_stop = FALSE /\ acks = {}
    BY DEF RxInit
  <2>2. Len(<<>>) = 0 /\ <<>> \in Seq(Char) /\ LineLimit \in Nat
    BY UartRxAssumption
  <2>3. RxType
    <3>1. taken + left <= Len(wire) /\ 0 \in Nat
      BY <2>1, <2>2
    <3>2. QED
      BY <2>1, <2>2, <3>1 DEF RxType
  <2>4. AcksExact
    <3>1. 1 .. 0 = {}
      OBVIOUS
    <3>2. UNION {AcksOfLine(e) : e \in 1 .. taken} = {}
      BY <2>1, <3>1
    <3>3. QED
      BY <2>1, <3>2 DEF AcksExact
  <2>5. LineFrom(1) /\ 1 \in 1 .. taken + 1
    BY <2>1, <2>2 DEF LineFrom
  <2>6. QED
    BY <2>3, <2>4, <2>5 DEF RxInv
<1>2. RxInv /\ [RxNext]_rxVars => RxInv'
  <2> SUFFICES ASSUME RxInv, [RxNext]_rxVars PROVE RxInv'
    OBVIOUS
  <2>1. RxType
    BY DEF RxInv
  <2>2. CASE RxLineEnd
    BY <2>2, RxLineEndStep
  <2>3. CASE RxKeep
    BY <2>3, RxKeepStep
  <2>4. CASE RxTooLong \/ RxDiscard
    BY <2>4, RxDropStep
  <2>5. CASE DeviceSend
    BY <2>5, DeviceSendStep
  <2>6. CASE RxRead
    <3>1. /\ sent' = sent /\ wire' = wire /\ taken' = taken /\ rx_line' = rx_line /\ acks' = acks
          /\ discard_line' = discard_line /\ rx_stop' = rx_stop /\ rx_pc' = "chars"
      BY <2>6 DEF RxRead
    <3>2. PICK n \in 1 .. BufSize : taken + n <= Len(wire) /\ left' = n
      BY <2>6 DEF RxRead
    <3>3. left' \in Nat /\ left' >= 1 /\ taken' + left' <= Len(wire')
      BY <3>1, <3>2, UartRxAssumption
    <3>4. RxType'
      BY <2>1, <3>1, <3>3 DEF RxType
    <3>5. QED
      BY <3>1, <3>4, RxQuietStep
  <2>7. CASE RxCheckStop \/ RxNothing \/ RxError
    <3>1. /\ sent' = sent /\ wire' = wire /\ taken' = taken /\ rx_line' = rx_line /\ acks' = acks
          /\ discard_line' = discard_line /\ rx_stop' = rx_stop /\ left' = left
          /\ rx_pc' \in {"top", "read", "done"}
      BY <2>7 DEF RxCheckStop, RxNothing, RxError
    <3>2. RxType'
      BY <2>1, <3>1 DEF RxType
    <3>3. QED
      BY <3>1, <3>2, RxQuietStep
  <2>8. CASE SetStop \/ UNCHANGED rxVars
    <3>1. /\ sent' = sent /\ wire' = wire /\ taken' = taken /\ rx_line' = rx_line /\ acks' = acks
          /\ discard_line' = discard_line /\ rx_stop' \in BOOLEAN /\ left' = left
          /\ rx_pc' = rx_pc
      BY <2>1, <2>8 DEF SetStop, rxVars, RxType
    <3>2. RxType'
      BY <2>1, <3>1 DEF RxType
    <3>3. QED
      BY <3>1, <3>2, RxQuietStep
  <2>9. QED
    BY <2>2, <2>3, <2>4, <2>5, <2>6, <2>7, <2>8 DEF RxNext, uart_rx_worker, Stopped
<1>3. RxInv => AcksExact
  BY DEF RxInv
<1>4. QED
  BY <1>1, <1>2, <1>3, PTL DEF RxSpec
============================================================================
