---------------------------- MODULE SerialFrame ----------------------------
(***************************************************************************)
(* cpp_modules/serial_frame_demo: a frame is AA 55, a length, two bytes of   *)
(* SEQ, a command, a checksum and 0D 0A.  FrameCodec translates between      *)
(* frames and bytes, StreamParser finds the frames in a stream that arrives  *)
(* in pieces, with noise between, before and instead of frames.  One         *)
(* iteration of the loop of extractFrames is one step.                       *)
(***************************************************************************)
EXTENDS Integers, Sequences, FiniteSets

CONSTANTS Chunks,       \* what one read may deliver
          MaxAppends    \* bound on the number of reads

Byte == {n \in Nat : n < 256}

ASSUME SerialFrameAssumption ==
  /\ Chunks \subseteq Seq(Byte)
  /\ MaxAppends \in Nat

kHeader1 == 170
kHeader2 == 85
kTail1 == 13
kTail2 == 10
kPayloadLength == 3
FrameSize == kPayloadLength + 6
WireCommand == {1, 2, 3, 4}
Frame == [sequence : {n \in Nat : n < 65536}, command : WireCommand]
----------------------------------------------------------------------------
(* FrameCodec.                                                              *)

\* The exclusive or of two bytes.
Xor(a, b) ==
  LET bit(n) == n * (((a \div n) + (b \div n)) % 2)
  IN bit(1) + bit(2) + bit(4) + bit(8) + bit(16) + bit(32) + bit(64) + bit(128)

\* calculateChecksum over the length, the SEQ and the command.
Checksum(length, high, low, command) == Xor(Xor(Xor(length, high), low), command)

encode(frame) ==
  LET high == (frame.sequence \div 256) % 256
      low == frame.sequence % 256
  IN <<kHeader1, kHeader2, kPayloadLength, high, low, frame.command,
       Checksum(kPayloadLength, high, low, frame.command), kTail1, kTail2>>

isKnownCommand(command) == command \in WireCommand

\* The error decode reports, "None" when the bytes are a frame.
decode(bytes) ==
  IF Len(bytes) < 3 THEN "InvalidLength"
  ELSE IF bytes[1] /= kHeader1 \/ bytes[2] /= kHeader2 THEN "InvalidHeader"
  ELSE IF bytes[3] /= kPayloadLength \/ Len(bytes) /= FrameSize THEN "InvalidLength"
  ELSE IF bytes[8] /= kTail1 \/ bytes[9] /= kTail2 THEN "InvalidTail"
  ELSE IF bytes[7] /= Checksum(bytes[3], bytes[4], bytes[5], bytes[6])
       THEN "ChecksumMismatch"
  ELSE IF ~isKnownCommand(bytes[6]) THEN "UnknownCommand"
  ELSE "None"

\* Mutant: the SEQ bytes are swapped.
outFrame_swapped(bytes) == [sequence |-> bytes[5] * 256 + bytes[4], command |-> bytes[6]]

\* What decode stores in outFrame.
outFrame(bytes) == [sequence |-> bytes[4] * 256 + bytes[5], command |-> bytes[6]]
----------------------------------------------------------------------------
(* StreamParser.                                                            *)

VARIABLES
  pc,           \* "idle" between the calls, "scan" in extractFrames
  buffer_,
  frames,       \* all frames returned so far
  \* History:
  stream,       \* all bytes appended so far
  at,           \* where in the stream each frame was found
  appends       \* calls of append

vars == <<pc, buffer_, frames, stream, at, appends>>

Init ==
  /\ pc = "idle"
  /\ buffer_ = <<>>
  /\ frames = <<>>
  /\ stream = <<>>
  /\ at = <<>>
  /\ appends = 0

append(bytes) ==
  /\ pc = "idle"
  /\ appends < MaxAppends
  /\ buffer_' = buffer_ \o bytes
  /\ stream' = stream \o bytes
  /\ appends' = appends + 1
  /\ pc' = "scan"
  /\ UNCHANGED <<frames, at>>

Headers == {i \in 1 .. (Len(buffer_) - 1) :
              buffer_[i] = kHeader1 /\ buffer_[i + 1] = kHeader2}

\* The buffer from position i on.
From(i) == SubSeq(buffer_, i, Len(buffer_))

\* Position i of the first header.
IsFirstHeader(i) == i \in Headers /\ \A j \in Headers : i <= j

ScanShort ==
  /\ pc = "scan"
  /\ Len(buffer_) < 2
  /\ pc' = "idle"
  /\ UNCHANGED <<buffer_, frames, stream, at, appends>>

\* Nothing to keep but a last byte that may be half of a header.
ScanNoHeader ==
  /\ pc = "scan"
  /\ Len(buffer_) >= 2
  /\ Headers = {}
  /\ buffer_' = IF buffer_[Len(buffer_)] = kHeader1 THEN <<kHeader1>> ELSE <<>>
  /\ pc' = "idle"
  /\ UNCHANGED <<frames, stream, at, appends>>

\* A header, but too few bytes to tell.
Incomplete(i) ==
  LET rest == Len(buffer_) - i + 1
  IN rest < FrameSize /\ (rest >= 3 => buffer_[i + 2] = kPayloadLength)

\* Mutant: the bytes before the header stay in the buffer.
ScanIncomplete_keeps_noise ==
  /\ pc = "scan"
  /\ \E i \in Headers : IsFirstHeader(i) /\ Incomplete(i)
  /\ pc' = "idle"
  /\ UNCHANGED <<buffer_, frames, stream, at, appends>>

ScanIncomplete ==
  /\ pc = "scan"
  /\ \E i \in Headers :
       /\ IsFirstHeader(i)
       /\ Incomplete(i)
       /\ buffer_' = From(i)
  /\ pc' = "idle"
  /\ UNCHANGED <<frames, stream, at, appends>>

Candidate(i) == SubSeq(buffer_, i, i + FrameSize - 1)

\* Mutant: the whole candidate goes.
ScanReject_whole ==
  /\ pc = "scan"
  /\ \E i \in Headers :
       /\ IsFirstHeader(i)
       /\ ~Incomplete(i)
       /\ buffer_[i + 2] = kPayloadLength => decode(Candidate(i)) /= "None"
       /\ buffer_' = IF buffer_[i + 2] /= kPayloadLength THEN From(i + 1)
                                                         ELSE From(i + FrameSize)
  /\ UNCHANGED <<pc, frames, stream, at, appends>>

\* A wrong length or an illegal candidate: one byte is dropped, and the search
\* starts again behind it.
ScanReject ==
  /\ pc = "scan"
  /\ \E i \in Headers :
       /\ IsFirstHeader(i)
       /\ ~Incomplete(i)
       /\ buffer_[i + 2] = kPayloadLength => decode(Candidate(i)) /= "None"
       /\ buffer_' = From(i + 1)
  /\ UNCHANGED <<pc, frames, stream, at, appends>>

ScanFrame ==
  /\ pc = "scan"
  /\ \E i \in Headers :
       /\ IsFirstHeader(i)
       /\ ~Incomplete(i)
       /\ buffer_[i + 2] = kPayloadLength
       /\ decode(Candidate(i)) = "None"
       /\ frames' = Append(frames, outFrame(Candidate(i)))
       /\ at' = Append(at, Len(stream) - Len(buffer_) + i)
       /\ buffer_' = From(i + FrameSize)
  /\ UNCHANGED <<pc, stream, appends>>

extractFrames == ScanShort \/ ScanNoHeader \/ ScanIncomplete \/ ScanReject \/ ScanFrame

Append_ == \E bytes \in Chunks : append(bytes)

Next == \/ Append_
        \/ extractFrames
        \/ pc = "idle" /\ appends = MaxAppends /\ UNCHANGED vars

Spec == Init /\ [][Next]_vars
----------------------------------------------------------------------------
TypeOK ==
  /\ pc \in {"idle", "scan"}
  /\ buffer_ \in Seq(Byte)
  /\ frames \in Seq(Frame)
  /\ stream \in Seq(Byte)
  /\ at \in Seq(Nat)
  /\ appends \in 0 .. MaxAppends

\* Nine bytes of the stream from position p on are a frame; defined without
\* decode, from the description of the format.
FrameAt(p) ==
  /\ p \in 1 .. (Len(stream) - 8)
  /\ stream[p] = kHeader1 /\ stream[p + 1] = kHeader2
  /\ stream[p + 2] = kPayloadLength
  /\ stream[p + 5] \in WireCommand
  /\ stream[p + 6] = Checksum(stream[p + 2], stream[p + 3], stream[p + 4], stream[p + 5])
  /\ stream[p + 7] = kTail1 /\ stream[p + 8] = kTail2

\* What is returned are frames of the stream, from left to right, each once,
\* with the SEQ and the command that were sent.
OnlyFrames ==
  /\ Len(at) = Len(frames)
  /\ \A i \in 1 .. Len(at) :
       /\ FrameAt(at[i])
       /\ frames[i] = [sequence |-> stream[at[i] + 3] * 256 + stream[at[i] + 4],
                       command |-> stream[at[i] + 5]]
  /\ \A i, j \in 1 .. Len(at) : i < j => at[i] < at[j]

\* Whenever extractFrames has returned, every frame that is complete in the
\* stream has been returned: the pieces the stream was cut into, noise that
\* looks like a header and broken frames in front of it hide none.
EveryFrameFound ==
  pc = "idle" => \A p \in 1 .. Len(stream) : FrameAt(p) => \E i \in 1 .. Len(at) : at[i] = p

\* Between the calls the parser holds less than one frame.
BufferBounded == pc = "idle" => Len(buffer_) < FrameSize

============================================================================
