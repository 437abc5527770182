--------------------------- MODULE MCThreadDemo ---------------------------
(* Five samples, as in the demo.                                             *)
EXTENDS ThreadDemo
============================================================================
