------------------------------- MODULE UartRx -------------------------------
(***************************************************************************)
(* The receive path of hand_bridge_node: uart_rx_worker cuts the bytes that *)
(* read() delivers into lines and parse_ack decides which lines are ACKs    *)
(* (hand_bridge_node.cpp, ack_parser.cpp).  Module HandBridge takes the     *)
(* result, a run of ACK lines per read(), as given.                         *)
(*                                                                          *)
(* "ACK:" and the status words are one character each: what the code does   *)
(* with their letters does not depend on where read() cuts them.  The line  *)
(* limit counts these characters.                                           *)
(***************************************************************************)
EXTENDS Integers, Sequences, FiniteSetsExt

CONSTANTS MaxSeq,      \* numeric_limits<uint32_t>::max()
          LineLimit,   \* 95: the longest line that is kept
          BufSize,     \* 128: the most characters one read() returns
          Pieces,      \* what the device and the noise put on the wire
          MaxPieces    \* bound on the pieces sent

DigitValue == [d0 |-> 0, d1 |-> 1, d2 |-> 2, d3 |-> 3, d4 |-> 4,
               d5 |-> 5, d6 |-> 6, d7 |-> 7, d8 |-> 8, d9 |-> 9]

Digit == DOMAIN DigitValue

AckStatus == {"IN_PROGRESS", "OK", "PREEMPTED", "BUSY", "ERROR"}

Char == Digit \cup AckStatus \cup {"ACK:", " ", "CR", "LF", "other"}

ASSUME UartRxAssumption ==
  /\ MaxSeq \in Nat /\ MaxSeq >= 9
  /\ LineLimit \in Nat \ {0}
  /\ BufSize \in Nat \ {0}
  /\ MaxPieces \in Nat
  /\ Pieces \subseteq Seq(Char)

VARIABLES
  sent,           \* pieces sent so far (bounds the model)
  wire,           \* every character that arrived at the UART, in order
  taken,          \* how many of them the loop over the buffer has handled
  left,           \* characters of buffer the loop has still to handle
  rx_pc,          \* "top", "read", "chars", "done"
  rx_line,
  discard_line,
  rx_stop,        \* rx_stop_
  acks            \* history: <<taken, seq, status>> of each call of on_ack

rxVars == <<sent, wire, taken, left, rx_pc, rx_line, discard_line, rx_stop, acks>>

RxInit ==
  /\ sent = 0
  /\ wire = <<>>
  /\ taken = 0
  /\ left = 0
  /\ rx_pc = "top"
  /\ rx_line = <<>>
  /\ discard_line = FALSE
  /\ rx_stop = FALSE
  /\ acks = {}
----------------------------------------------------------------------------
(* parse_ack.                                                               *)

\* Appending the digit keeps the number within 32 bits.
Fits(value, digit) == value <= (MaxSeq - digit) \div 10

Rejected == -1

\* parsed_seq after the characters 2 .. n of text, all of them digits.
ParsedSeq(text) ==
  LET value[n \in 1 .. Len(text)] ==
        IF n = 1 THEN 0
        ELSE LET digit == DigitValue[text[n]]
             IN  IF value[n - 1] /= Rejected /\ Fits(value[n - 1], digit)
                 THEN value[n - 1] * 10 + digit
                 ELSE Rejected
  IN  value

\* The last position of the run of digits that starts at 2.
DigitsEnd(text) ==
  Max({n \in 1 .. Len(text) : \A k \in 2 .. n : text[k] \in Digit})

\* The text without the line end: LF was removed, one CR may precede it.
WithoutCR(line) ==
  IF line /= <<>> /\ line[Len(line)] = "CR"
  THEN SubSeq(line, 1, Len(line) - 1)
  ELSE line

\* The set of the <<seq, status>> parse_ack returns: one, or none when it
\* returns false.
parse_ack(line) ==
  LET text == WithoutCR(line)
  IN  IF text = <<>> \/ text[1] /= "ACK:"
      THEN {}
      ELSE LET pos == DigitsEnd(text)
               seq == ParsedSeq(text)[pos]
           IN  {<<seq, status>> : status \in
                  {st \in AckStatus :
                     /\ seq /= Rejected
                     /\ pos > 1
                     /\ pos + 1 <= Len(text) /\ text[pos + 1] = " "
                     /\ SubSeq(text, pos + 2, Len(text)) = <<st>>}}
----------------------------------------------------------------------------
(* The device, the destructor.                                              *)

DeviceSend ==
  /\ sent < MaxPieces
  /\ sent' = sent + 1
  /\ \E piece \in Pieces : wire' = wire \o piece
  /\ UNCHANGED <<taken, left, rx_pc, rx_line, discard_line, rx_stop, acks>>

SetStop ==
  /\ ~rx_stop
  /\ rx_stop' = TRUE
  /\ UNCHANGED <<sent, wire, taken, left, rx_pc, rx_line, discard_line, acks>>
----------------------------------------------------------------------------
(* uart_rx_worker.                                                          *)

RxCheckStop ==
  /\ rx_pc = "top"
  /\ rx_pc' = IF rx_stop THEN "done" ELSE "read"
  /\ UNCHANGED <<sent, wire, taken, left, rx_line, discard_line, rx_stop, acks>>

\* read() returns some of the characters that are there.
RxRead ==
  /\ rx_pc = "read"
  /\ \E n \in 1 .. BufSize :
       /\ taken + n <= Len(wire)
       /\ left' = n
  /\ rx_pc' = "chars"
  /\ UNCHANGED <<sent, wire, taken, rx_line, discard_line, rx_stop, acks>>

\* VTIME expired, or EINTR, EAGAIN.
RxNothing ==
  /\ rx_pc = "read"
  /\ rx_pc' = "top"
  /\ UNCHANGED <<sent, wire, taken, left, rx_line, discard_line, rx_stop, acks>>

RxError ==
  /\ rx_pc = "read"
  /\ rx_pc' = "done"
  /\ UNCHANGED <<sent, wire, taken, left, rx_line, discard_line, rx_stop, acks>>

\* One turn of the loop over the buffer.
TakeChar ==
  /\ rx_pc = "chars"
  /\ taken' = taken + 1
  /\ left' = left - 1
  /\ rx_pc' = IF left = 1 THEN "top" ELSE "chars"
  /\ UNCHANGED <<sent, wire, rx_stop>>

ch == wire[taken + 1]

\* A line ends.  RetryPolicy::on_ack is called for what parse_ack accepts.
RxLineEnd ==
  /\ TakeChar
  /\ ch = "LF"
  /\ acks' = IF discard_line \/ rx_line = <<>>
             THEN acks
             ELSE acks \cup {<<taken + 1, a[1], a[2]>> : a \in parse_ack(rx_line)}
  /\ rx_line' = <<>>
  /\ discard_line' = FALSE

RxKeep ==
  /\ TakeChar
  /\ ch /= "LF" /\ ~discard_line
  /\ Len(rx_line) < LineLimit
  /\ rx_line' = Append(rx_line, ch)
  /\ UNCHANGED <<discard_line, acks>>

\* Mutant: the rest of a line that is too long is taken for a line.
RxTooLong_forgets ==
  /\ TakeChar
  /\ ch /= "LF" /\ ~discard_line
  /\ Len(rx_line) >= LineLimit
  /\ rx_line' = <<>>
  /\ UNCHANGED <<discard_line, acks>>

RxTooLong ==
  /\ TakeChar
  /\ ch /= "LF" /\ ~discard_line
  /\ Len(rx_line) >= LineLimit
  /\ rx_line' = <<>>
  /\ discard_line' = TRUE
  /\ UNCHANGED acks

RxDiscard ==
  /\ TakeChar
  /\ ch /= "LF" /\ discard_line
  /\ UNCHANGED <<rx_line, discard_line, acks>>

Stopped == rx_pc = "done" /\ UNCHANGED rxVars

uart_rx_worker == RxCheckStop \/ RxRead \/ RxNothing \/ RxError \/ RxLineEnd
                    \/ RxKeep \/ RxTooLong \/ RxDiscard

RxNext == uart_rx_worker \/ DeviceSend \/ SetStop \/ Stopped

RxSpec == RxInit /\ [][RxNext]_rxVars
----------------------------------------------------------------------------
(* Properties.                                                              *)

\* The number that a run of digits denotes, whatever its size.
Decimal(ds) ==
  LET value[n \in 0 .. Len(ds)] ==
        IF n = 0 THEN 0 ELSE value[n - 1] * 10 + DigitValue[ds[n]]
  IN  value[Len(ds)]

\* What the protocol says a line means: ACK:<seq> <status>, with or without CR.
Meaning(line) ==
  UNION {{<<Decimal(d), status>> : status \in
            {st \in AckStatus : \/ line = <<"ACK:">> \o d \o <<" ", st>>
                                \/ line = <<"ACK:">> \o d \o <<" ", st, "CR">>}} :
         d \in {ds \in {SubSeq(line, 2, k) : k \in 2 .. Len(line)} :
                  /\ \A k \in 1 .. Len(ds) : ds[k] \in Digit
                  /\ Decimal(ds) <= MaxSeq}}

IsLine(first, end) ==
  /\ wire[end] = "LF"
  /\ \A k \in first .. (end - 1) : wire[k] /= "LF"
  /\ first = 1 \/ wire[first - 1] = "LF"

\* The ACKs of the line that ends there, if there is one and it is not too long.
AcksOfLine(end) ==
  UNION {{<<end, m[1], m[2]>> : m \in Meaning(SubSeq(wire, first, end - 1))} :
         first \in {f \in 1 .. end : end - f <= LineLimit /\ IsLine(f, end)}}

\* Exactly the ACKs of the stream reach RetryPolicy::on_ack, each once, however
\* read() cuts the stream and whenever it times out in the middle of a line:
\* every line within the limit that the protocol gives a meaning, no part of a
\* line that is too long, no number that 32 bits cannot hold, no invented ACK.
AcksExact == acks = UNION {AcksOfLine(end) : end \in 1 .. taken}
============================================================================
