---------------------------- MODULE RetryPolicy ----------------------------
(***************************************************************************)
(* hand_bridge::RetryPolicy (hand_bridge/retry_policy.hpp): the table of    *)
(* the commands sent to the robot hand, keyed by SEQ, and the operations    *)
(* that the threads of hand_bridge_node apply to it under ack_mutex_.       *)
(*                                                                          *)
(* The std::map requests_ is a total function on the SEQs a uint32_t can    *)
(* name; state "NONE" is a SEQ that is not in the map.  The frame text is a *)
(* function of the SEQ and is left out.  Time points are left out as well:  *)
(* deadline holds the ticks that remain until the code's                    *)
(* "now < request.deadline" becomes false.                                  *)
(***************************************************************************)
EXTENDS Integers

CONSTANTS SeqMod,       \* 2^32 in the code: the SEQ counter wraps to 0 here
          MaxRetries,   \* MAX_RETRIES
          AckTimeout,   \* ACK_TIMEOUT, in ticks
          ExecTimeout   \* EXEC_TIMEOUT, in ticks

ASSUME RetryPolicyAssumption ==
  /\ SeqMod \in Nat /\ SeqMod >= 2
  /\ MaxRetries \in Nat
  /\ AckTimeout \in Nat
  /\ ExecTimeout \in Nat

Seqs == 1 .. (SeqMod - 1)

AckStatus == {"OK", "BUSY", "PREEMPTED", "ERROR", "IN_PROGRESS"}

\* The commands the host still has to do something about.
Live == {"QUEUED", "WAITING_ACK", "EXECUTING", "RETRY_QUEUED"}

\* The outcomes no later event may change.
Final == {"SUCCEEDED", "PREEMPTED", "BUSY", "ERROR", "RESULT_UNKNOWN"}

RequestState == Live \cup Final \cup {"SUPERSEDED"}

Request == [is_stop      : BOOLEAN,
            state        : RequestState \cup {"NONE"},
            retries_used : 0 .. MaxRetries,
            deadline     : Nat]

NoRequest ==
  [is_stop |-> FALSE, state |-> "NONE", retries_used |-> 0, deadline |-> 0]

NoRequests == [s \in Seqs |-> NoRequest]

Registered(reqs, s) == reqs[s].state /= "NONE"
----------------------------------------------------------------------------
\* Mutant: the SEQ that is reused after a wrap takes over the old entry.
start_overwrites(reqs, s, is_stop) ==
  [reqs EXCEPT ![s] = [NoRequest EXCEPT !.is_stop = is_stop,
                                        !.state = "QUEUED"]]

\* emplace leaves a table that already holds the SEQ alone.
start(reqs, s, is_stop) ==
  IF Registered(reqs, s)
  THEN reqs
  ELSE [reqs EXCEPT ![s] = [NoRequest EXCEPT !.is_stop = is_stop,
                                             !.state = "QUEUED"]]

\* Mutant: whatever is in the queue is sent.
should_transmit_always(reqs, s) == Registered(reqs, s)

should_transmit(reqs, s) == reqs[s].state \in {"QUEUED", "RETRY_QUEUED"}

mark_sent(reqs, s) ==
  IF reqs[s].state \in {"QUEUED", "RETRY_QUEUED"}
  THEN [reqs EXCEPT ![s].state = "WAITING_ACK", ![s].deadline = AckTimeout]
  ELSE reqs

mark_send_failed(reqs, s) ==
  IF reqs[s].state \in {"QUEUED", "RETRY_QUEUED"}
  THEN [reqs EXCEPT ![s].state = "RESULT_UNKNOWN"]
  ELSE reqs

\* Mutant: a finished request takes another answer.
AckAccepted_finished(request, status) ==
  request.state \notin {"NONE", "QUEUED"}

\* Which ACK lines change a request: a superseded one still learns how its
\* command ended, a queued or finished one takes no ACK.
AckAccepted(request, status) ==
  \/ /\ request.state = "SUPERSEDED"
     /\ status \in {"PREEMPTED", "OK", "ERROR"}
  \/ request.state \in {"WAITING_ACK", "EXECUTING", "RETRY_QUEUED"}

\* The state an accepted ACK other than IN_PROGRESS leads to.
AckOutcome(status) == IF status = "OK" THEN "SUCCEEDED" ELSE status

on_ack(reqs, s, status) ==
  IF ~AckAccepted(reqs[s], status)
  THEN reqs
  ELSE IF status = "IN_PROGRESS"
  THEN [reqs EXCEPT ![s].state = "EXECUTING", ![s].deadline = ExecTimeout]
  ELSE [reqs EXCEPT ![s].state = AckOutcome(status)]

\* Mutant: only the first answer is waited for with a deadline.
Expired_waiting_only(request) ==
  request.state = "WAITING_ACK" /\ request.deadline = 0

Expired(request) ==
  /\ request.state \in {"WAITING_ACK", "EXECUTING"}
  /\ request.deadline = 0

\* Mutant: retries are not limited.
PollRequest_unlimited(request) ==
  IF ~Expired(request)
  THEN request
  ELSE [request EXCEPT !.state = "RETRY_QUEUED", !.retries_used = @ + 1]

\* What poll makes of one request; RetryDue is what it puts in its output.
PollRequest(request) ==
  IF ~Expired(request)
  THEN request
  ELSE IF request.retries_used >= MaxRetries
  THEN [request EXCEPT !.state = "RESULT_UNKNOWN"]
  ELSE [request EXCEPT !.state = "RETRY_QUEUED",
                       !.retries_used = @ + 1]

RetryDue(request) == Expired(request) /\ request.retries_used < MaxRetries

poll(reqs) == [s \in Seqs |-> PollRequest(reqs[s])]

PollOutput(reqs) == {s \in Seqs : RetryDue(reqs[s])}

cancel_non_stop(reqs) ==
  [s \in Seqs |-> IF ~reqs[s].is_stop /\ reqs[s].state \in Live
                  THEN [reqs[s] EXCEPT !.state = "SUPERSEDED"]
                  ELSE reqs[s]]

\* One tick of steady_clock.
Elapse(reqs) ==
  [s \in Seqs |-> [reqs[s] EXCEPT !.deadline = IF @ > 0 THEN @ - 1 ELSE 0]]
============================================================================
