---------------------------- MODULE MCHandBridge ----------------------------
(* HandBridge as TLC checks it; the .cfg files give the bounds.             *)
EXTENDS HandBridge
============================================================================
