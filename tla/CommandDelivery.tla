-------------------------- MODULE CommandDelivery --------------------------
(***************************************************************************)
(* What hand_bridge_node promises the users of /hand_command and            *)
(* /hand_status, without threads, queues, timers or ACK statuses:           *)
(*   - a command has one outcome, and the outcome is final;                 *)
(*   - a command is written to the device at most MaxSends times, only      *)
(*     while it is open;                                                    *)
(*   - a STOP withdraws every ordinary command that is still open in the    *)
(*     step that admits it, so none of them is written after it.            *)
(***************************************************************************)
EXTENDS Integers

CONSTANTS Ids,        \* what names a command
          MaxSends    \* the first transmission and the retries

VARIABLES phase,      \* "unknown", "open", "withdrawn" or "closed"
          stops,      \* the commands that are STOPs
          sends       \* how often each command was written

cdVars == <<phase, stops, sends>>

CDInit ==
  /\ phase = [c \in Ids |-> "unknown"]
  /\ stops = {}
  /\ sends = [c \in Ids |-> 0]

OpenOrdinary == {c \in Ids : phase[c] = "open" /\ c \notin stops}

WithdrawOrdinary ==
  [c \in Ids |-> IF c \in OpenOrdinary THEN "withdrawn" ELSE phase[c]]

Submit(c) ==
  /\ phase[c] = "unknown"
  /\ phase' = [phase EXCEPT ![c] = "open"]
  /\ UNCHANGED <<stops, sends>>

SubmitStop(c) ==
  /\ phase[c] = "unknown"
  /\ phase' = [WithdrawOrdinary EXCEPT ![c] = "open"]
  /\ stops' = stops \cup {c}
  /\ UNCHANGED sends

\* A STOP that finds every number taken still withdraws.
RefusedStop ==
  /\ \A c \in Ids : phase[c] /= "unknown"
  /\ phase' = WithdrawOrdinary
  /\ UNCHANGED <<stops, sends>>

Send(c) ==
  /\ phase[c] = "open"
  /\ sends[c] < MaxSends
  /\ sends' = [sends EXCEPT ![c] = @ + 1]
  /\ UNCHANGED <<phase, stops>>

\* Answers and exhausted retries end commands; several may end together.
Close(C) ==
  /\ \A c \in C : phase[c] \in {"open", "withdrawn"}
  /\ phase' = [c \in Ids |-> IF c \in C THEN "closed" ELSE phase[c]]
  /\ UNCHANGED <<stops, sends>>

CDNext ==
  \/ \E c \in Ids : Submit(c) \/ SubmitStop(c) \/ Send(c)
  \/ RefusedStop
  \/ \E C \in SUBSET Ids : Close(C)

CDSpec == CDInit /\ [][CDNext]_cdVars
============================================================================
