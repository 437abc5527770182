----------------------------- MODULE MCStreams -----------------------------
(***************************************************************************)
(* The two parsers that find messages in a stream which arrives in pieces:   *)
(* the frames of serial_frame_demo and the ACK lines of hand_bridge_node.  A *)
(* behaviour runs one of them and leaves the other in its initial state.     *)
(***************************************************************************)
EXTENDS SerialFrame, UartRx

\* A frame whose SEQ looks like a tail, cut at every place, and noise that
\* resembles parts of a frame.
F == encode([sequence |-> 3338, command |-> 4])
Cuts == {SubSeq(F, 1, k) : k \in 1 .. 9} \cup {SubSeq(F, k + 1, 9) : k \in 1 .. 8}
Illegal == {[F EXCEPT ![6] = 5, ![7] = Checksum(3, 13, 10, 5)],
            [F EXCEPT ![7] = 0], [F EXCEPT ![8] = 0]}
MCChunks == Cuts \cup Illegal \cup {<<0, 126>>, <<kHeader1, kHeader2, 7>>}

\* The start of an ACK, the digits that make 12 (the largest SEQ) and 13, two
\* line ends, a whole ACK, and noise that fills a line up to the limit.
MCPieces == {<<"ACK:", "d1">>, <<"d2">>, <<"d3">>, <<" ", "OK", "LF">>,
             <<" ", "BUSY", "CR", "LF">>, <<"ACK:", "d0", "d2", " ", "ERROR", "LF">>,
             <<"other", "other", "other", "other", "other", "other">>}

VARIABLE parser                                             \* the parser that runs

mcvars == <<parser, vars, rxVars>>

MCInit == parser \in {"frames", "lines"} /\ Init /\ RxInit

MCNext == /\ UNCHANGED parser
          /\ \/ parser = "frames" /\ Next /\ UNCHANGED rxVars
             \/ parser = "lines" /\ RxNext /\ UNCHANGED vars

MCSpec == MCInit /\ [][MCNext]_mcvars
============================================================================
