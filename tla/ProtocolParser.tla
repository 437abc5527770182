--------------------------- MODULE ProtocolParser ---------------------------
(***************************************************************************)
(* cpp_modules/protocol_parser: from the text of a command to the command.   *)
(* A text is a sequence of tokens: white space characters and words, the     *)
(* longest runs without white space.  A token is its letters in upper case and the case they came in;   *)
(* a token without letters counts as upper case.                             *)
(***************************************************************************)
EXTENDS Integers, Sequences

WhiteSpace == {"space", "tab", "CR", "LF"}
Words == {"OPEN", "GRAB", "RELEASE", "STOP"}
Token == [word : STRING, case : {"upper", "lower", "mixed"}]

\* std::toupper on every character of the token.
ToUpper(token) == [token EXCEPT !.case = "upper"]

\* Mutant: only the front is trimmed.
normalizeInput_front_only(payload) ==
  LET text == {i \in 1 .. Len(payload) : payload[i].word \notin WhiteSpace}
  IN IF text = {} THEN <<>>
     ELSE LET first == CHOOSE i \in text : \A j \in text : i <= j
          IN [i \in 1 .. (Len(payload) - first + 1) |-> ToUpper(payload[first + i - 1])]

normalizeInput(payload) ==
  LET text == {i \in 1 .. Len(payload) : payload[i].word \notin WhiteSpace}
  IN IF text = {} THEN <<>>
     ELSE LET first == CHOOSE i \in text : \A j \in text : i <= j
              last == CHOOSE i \in text : \A j \in text : j <= i
          IN [i \in 1 .. (last - first + 1) |-> ToUpper(payload[first + i - 1])]

\* The keys of commandMap_ are in upper case.
parse(payload) ==
  LET normalized == normalizeInput(payload)
  IN IF \E w \in Words : normalized = <<[word |-> w, case |-> "upper"]>>
     THEN normalized[1].word ELSE "Unknown"

isValid(command) == command /= "Unknown"
----------------------------------------------------------------------------
(* What the parser is for: its reference, which uses of the definitions above *)
(* only the two sets of words.                                               *)

\* A text stands for a word if the word, in whatever case, is all there is
\* besides white space.
Means(payload, word) ==
  \E k \in 1 .. Len(payload) :
    /\ payload[k].word = word
    /\ \A i \in 1 .. Len(payload) : i /= k => payload[i].word \in WhiteSpace

\* The command to be read from a text.
Reads(payload, command) ==
  IF \E word \in Words : Means(payload, word)
  THEN command \in Words /\ Means(payload, command)
  ELSE command = "Unknown"
============================================================================
