------------------------- MODULE MCReliableSerial -------------------------
(* The request of the demo and a second one whose bytes differ from the      *)
(* first in one place of the SEQ.  A damaged byte becomes a type, a command, *)
(* a byte of one of the SEQs or of a header.                                 *)
EXTENDS ReliableSerial
MCRequests == {[sequence |-> 3, command |-> 2], [sequence |-> 259, command |-> 4]}
MCDamagedBytes == {0, 1, 2, 4, 170}
============================================================================
