----------------------------- MODULE MCGateway -----------------------------
(* Names the bounds of Gateway for TLC; the values are in the cfg files.     *)
EXTENDS Gateway
============================================================================
