---------------------------- MODULE BoundedFifo ----------------------------
(***************************************************************************)
(* What a bounded first-in first-out queue promises, whatever it is made of. *)
(* RingBuffer (practice/day02) and BoundedQueue (test/day09) implement it.   *)
(***************************************************************************)
EXTENDS Integers, Sequences

CONSTANTS Value, Capacity

VARIABLES
  contents,     \* the values in the queue, oldest first
  closed,       \* nothing is accepted any more
  out,          \* the value handed out last
  result        \* the answer to the last call

vars == <<contents, closed, out, result>>

Init ==
  /\ contents = <<>>
  /\ closed = FALSE
  /\ out \in Value
  /\ result = "none"

Put(v) ==
  /\ ~closed
  /\ Len(contents) < Capacity
  /\ contents' = Append(contents, v)
  /\ result' = "ok"
  /\ UNCHANGED <<closed, out>>

Take ==
  /\ contents /= <<>>
  /\ out' = Head(contents)
  /\ contents' = Tail(contents)
  /\ result' = "ok"
  /\ UNCHANGED closed

\* A call is turned away only for the reason it is given.
Refuse ==
  /\ \/ result' = "full" /\ Len(contents) = Capacity
     \/ result' = "empty" /\ contents = <<>>
     \/ result' = "closed" /\ closed
  /\ UNCHANGED <<contents, closed, out>>

Close == closed' = TRUE /\ UNCHANGED <<contents, out, result>>

Next == (\E v \in Value : Put(v)) \/ Take \/ Refuse \/ Close

Spec == Init /\ [][Next]_vars
============================================================================
