------------------------- MODULE HandBridgeProofs -------------------------
(***************************************************************************)
(* Theorems about HandBridge for every SeqMod, MaxRetries, timeout and      *)
(* MaxCommands: the checks of MCHandBridge fix them to small values.        *)
(* First types, the life of one request and how often it is written; then   *)
(* what a STOP guarantees and which outcomes are deserved, and that the      *)
(* node implements CommandDelivery; at the end the frames between the        *)
(* callback, the retry thread, the queue and the transmit thread, and the    *)
(* order in which the destructor takes them down.                            *)
(***************************************************************************)
EXTENDS HandBridge, FiniteSetTheorems, TLAPS

----------------------------------------------------------------------------
(* What the operations of RetryPolicy make of a well-formed table.          *)

\* The table operations keep the table well formed.
LEMMA PolicyType ==
  ASSUME NEW reqs \in [Seqs -> Request], NEW s \in Seqs,
         NEW is_stop \in BOOLEAN, NEW status \in AckStatus
  PROVE  /\ start(reqs, s, is_stop) \in [Seqs -> Request]
         /\ mark_sent(reqs, s) \in [Seqs -> Request]
         /\ mark_send_failed(reqs, s) \in [Seqs -> Request]
         /\ on_ack(reqs, s, status) \in [Seqs -> Request]
         /\ poll(reqs) \in [Seqs -> Request]
         /\ cancel_non_stop(reqs) \in [Seqs -> Request]
         /\ Elapse(reqs) \in [Seqs -> Request]
<1>1. NoRequest \in Request
  BY RetryPolicyAssumption
     DEF RetryPolicyAssumption, NoRequest, Request
<1>2. start(reqs, s, is_stop) \in [Seqs -> Request]
  BY <1>1 DEF start, Registered, Request, RequestState, Live
<1>3. mark_sent(reqs, s) \in [Seqs -> Request]
  BY RetryPolicyAssumption
     DEF RetryPolicyAssumption, mark_sent, Request, RequestState, Live
<1>4. mark_send_failed(reqs, s) \in [Seqs -> Request]
  BY DEF mark_send_failed, Request, RequestState, Final
<1>5. on_ack(reqs, s, status) \in [Seqs -> Request]
  <2>1. CASE status = "IN_PROGRESS"
    <3>1. ExecTimeout \in Nat
      BY RetryPolicyAssumption DEF RetryPolicyAssumption
    <3>2. [reqs[s] EXCEPT !.state = "EXECUTING", !.deadline = ExecTimeout] \in Request
      BY <3>1, RetryPolicyAssumption
         DEF RetryPolicyAssumption, Request, RequestState, Live
    <3>3. on_ack(reqs, s, status) \in
            {reqs, [reqs EXCEPT ![s] =
                      [@ EXCEPT !.state = "EXECUTING", !.deadline = ExecTimeout]]}
      BY <2>1 DEF on_ack
    <3>4. QED
      BY <3>2, <3>3
  <2>2. CASE status /= "IN_PROGRESS"
    <3>1. AckOutcome(status) \in RequestState \cup {"NONE"}
      BY <2>2 DEF AckOutcome, AckStatus, RequestState, Final
    <3>2. QED
      BY <2>2, <3>1 DEF on_ack, Request
  <2>3. QED
    BY <2>1, <2>2
<1>6. ASSUME NEW request \in Request
      PROVE  PollRequest(request) \in Request
  <2>1. CASE RetryDue(request)
    <3>1. request.retries_used + 1 \in 0 .. MaxRetries
      BY <2>1, RetryPolicyAssumption
         DEF RetryPolicyAssumption, RetryDue, Request
    <3>2. PollRequest(request) = [request EXCEPT !.state = "RETRY_QUEUED",
                                                 !.retries_used = @ + 1]
      BY <2>1, RetryPolicyAssumption
         DEF RetryPolicyAssumption, RetryDue, PollRequest, Request
    <3>3. QED
      BY <3>1, <3>2 DEF Request, RequestState, Live
  <2>2. CASE ~RetryDue(request)
    <3>1. \/ PollRequest(request) = request
          \/ PollRequest(request) = [request EXCEPT !.state = "RESULT_UNKNOWN"]
      BY <2>2, RetryPolicyAssumption
         DEF RetryPolicyAssumption, RetryDue, PollRequest, Request
    <3>2. QED
      BY <3>1 DEF Request, RequestState, Final
  <2>3. QED
    BY <2>1, <2>2
<1>7. poll(reqs) \in [Seqs -> Request]
  BY <1>6 DEF poll
<1>8. cancel_non_stop(reqs) \in [Seqs -> Request]
  BY DEF cancel_non_stop, Request, RequestState
<1>9. Elapse(reqs) \in [Seqs -> Request]
  BY DEF Elapse, Request
<1>10. QED
  BY <1>2, <1>3, <1>4, <1>5, <1>7, <1>8, <1>9
----------------------------------------------------------------------------
(* Type correctness.                                                        *)

\* Either end of the queue may be pushed to.
LEMMA PushType ==
  ASSUME NEW q \in Seq(Seqs), NEW s \in Seqs
  PROVE  <<s>> \o q \in Seq(Seqs) /\ Append(q, s) \in Seq(Seqs)
OBVIOUS

\* Init establishes TypeOK.
LEMMA InitType == Init => TypeOK
<1>1. NoRequest \in Request
  BY RetryPolicyAssumption
     DEF RetryPolicyAssumption, NoRequest, Request
<1>2. NoRequests \in [Seqs -> Request]
  BY <1>1 DEF NoRequests
<1>3. SUFFICES ASSUME Init PROVE TypeOK
  OBVIOUS
<1>4. queue \in Seq(Seqs)
  BY <1>3 DEF Init
<1>5. next_seq \in 0 .. (SeqMod - 1)
  BY <1>3, RetryPolicyAssumption DEF RetryPolicyAssumption, Init
<1>6. submitted \in 0 .. MaxCommands /\ rx_lines \in 0 .. MaxLines
  BY <1>3, HandBridgeAssumption DEF HandBridgeAssumption, Init
<1>7. /\ tx_pc \in {"check", "done"}
      /\ rx_pc \in {"top", "done"}
      /\ rt_pc \in {"top", "done"}
  BY <1>3 DEF Init
<1>8. written \in [Seqs -> Nat]
  BY <1>3 DEF Init
<1>9. /\ fd_open \in BOOLEAN
      /\ retry_stop \in BOOLEAN
      /\ rx_stop \in BOOLEAN
      /\ stop_worker \in BOOLEAN
  BY <1>3, Zenon DEF Init
<1>10. /\ latest = 0
       /\ requests = NoRequests
       /\ cb_frame = None
       /\ tx_frame = None
       /\ rx_lines = 0
       /\ rt_frames = {}
       /\ dt_pc = "spin"
       /\ foreign = {}
  BY <1>3, Zenon DEF Init
<1>11. QED
  BY <1>2, <1>4, <1>5, <1>6, <1>7, <1>8, <1>9, <1>10 DEF TypeOK, None

\* Every step of every thread keeps TypeOK.
LEMMA NextType == TypeOK /\ [Next]_vars => TypeOK'
<1> SUFFICES ASSUME TypeOK, [Next]_vars
             PROVE  TypeOK'
  OBVIOUS
<1> USE RetryPolicyAssumption, HandBridgeAssumption
    DEF RetryPolicyAssumption, HandBridgeAssumption
<1>1. CASE SeqExhausted
  BY <1>1 DEF TypeOK, SeqExhausted, Accepting, Advance, policy, tx, rx, rt,
              flags, Seqs
<1>2. ASSUME NEW is_stop \in BOOLEAN, RegisterCommand(is_stop)
      PROVE  TypeOK'
  <2>1. next_seq \in Seqs
    BY <1>2 DEF TypeOK, RegisterCommand, Seqs
  <2>2. requests' \in [Seqs -> Request]
    <3>1. cancel_non_stop(requests) \in [Seqs -> Request]
      BY <2>1, PolicyType DEF TypeOK, AckStatus
    <3>2. QED
      BY <1>2, <2>1, <3>1, PolicyType DEF TypeOK, RegisterCommand, AckStatus
  <2>3. latest' \in Seqs \cup {0} /\ cb_frame' \in Seqs \cup {None}
    BY <1>2, <2>1 DEF TypeOK, RegisterCommand
  <2>4. submitted' \in 0 .. MaxCommands /\ next_seq' \in 0 .. (SeqMod - 1)
    BY <1>2 DEF TypeOK, RegisterCommand, Accepting, Advance
  <2>5. QED
    BY <1>2, <2>2, <2>3, <2>4 DEF TypeOK, RegisterCommand, tx, rx, rt, flags
<1>3. CASE EnqueueCommand
  <2>1. queue' \in Seq(Seqs)
    <3>1. cb_frame \in Seqs
      BY <1>3 DEF TypeOK, EnqueueCommand
    <3>2. QED
      BY <1>3, <3>1, PushType DEF TypeOK, EnqueueCommand, enqueue_uart_command,
                                  push
  <2>2. QED
    BY <1>3, <2>1 DEF TypeOK, EnqueueCommand, enqueue_uart_command, Awakened,
                      policy, tx, rx, rt, flags
<1>4. CASE TxWait \/ TxStop \/ TxSpuriousWakeup
  BY <1>4 DEF TypeOK, TxWait, TxStop, TxSpuriousWakeup, policy, callback, rx,
              rt, flags
<1>5. CASE TxPop
  BY <1>5 DEF TypeOK, TxPop, policy, callback, rx, rt, flags, None, Seqs
<1>6. CASE TxSkip
  BY <1>6 DEF TypeOK, TxSkip, policy, callback, rx, rt, flags, None
<1>7. CASE TxSend
  <2>1. tx_frame \in Seqs
    BY <1>7 DEF TypeOK, TxSend
  <2>2. requests' \in [Seqs -> Request]
    BY <1>7, <2>1, PolicyType DEF TypeOK, TxSend, AckStatus
  <2>3. written' \in [Seqs -> Nat]
    BY <1>7, <2>1 DEF TypeOK, TxSend
  <2>4. QED
    BY <1>7, <2>2, <2>3 DEF TypeOK, TxSend, callback, rx, rt, flags, None
<1>8. CASE TxSendFailed
  <2>1. tx_frame \in Seqs
    BY <1>8 DEF TypeOK, TxSendFailed
  <2>2. requests' \in [Seqs -> Request]
    BY <1>8, <2>1, PolicyType DEF TypeOK, TxSendFailed, AckStatus
  <2>3. QED
    BY <1>8, <2>2 DEF TypeOK, TxSendFailed, callback, rx, rt, flags, None
<1>9. CASE RxCheckStop \/ RxRead \/ RxError \/ RxInvalidLine
  BY <1>9 DEF TypeOK, RxCheckStop, RxRead, RxError, RxInvalidLine, policy,
              callback, tx, rt, flags
<1>10. CASE RxLineAny
  <2>1. PICK s \in Seqs, status \in AckStatus, own \in BOOLEAN :
          RxLine(s, status, own)
    BY <1>10 DEF RxLineAny
  <2>2. requests' \in [Seqs -> Request]
    BY <2>1, PolicyType DEF TypeOK, RxLine
  <2>3. rx_lines' \in 0 .. MaxLines /\ ((rx_pc' = "lines") <=> (rx_lines' > 0))
    BY <2>1 DEF TypeOK, RxLine
  <2>4. QED
    BY <2>1, <2>2, <2>3 DEF TypeOK, RxLine, callback, tx, rt, flags
<1>11. CASE RetryCheckStop \/ RetryLookStop \/ RetryRest
  BY <1>11 DEF TypeOK, RetryCheckStop, RetryLookStop, RetryRest, policy,
               callback, tx, rx, flags
<1>12. CASE RetryPoll
  <2>1. requests' \in [Seqs -> Request]
    <3>1. 1 \in Seqs
      BY DEF Seqs
    <3>2. QED
      BY <1>12, <3>1, PolicyType DEF TypeOK, RetryPoll, AckStatus
  <2>2. rt_frames' \in SUBSET Seqs
    BY <1>12 DEF RetryPoll, PollOutput
  <2>3. QED
    BY <1>12, <2>1, <2>2 DEF TypeOK, RetryPoll, callback, tx, rx, flags
<1>13. CASE RetryEnqueue
  <2>1. PICK s \in rt_frames : /\ enqueue_uart_command(s, FALSE)
                               /\ rt_frames' = rt_frames \ {s}
    BY <1>13 DEF RetryEnqueue
  <2>2. queue' \in Seq(Seqs)
    <3>1. s \in Seqs
      BY DEF TypeOK
    <3>2. QED
      BY <2>1, <3>1, PushType DEF TypeOK, enqueue_uart_command, push
  <2>3. tx_pc' \in {tx_pc, Awakened}
    BY <2>1 DEF enqueue_uart_command
  <2>4. QED
    BY <1>13, <2>1, <2>2, <2>3 DEF TypeOK, RetryEnqueue, Awakened, policy,
                                   callback, rx, flags
<1>14. CASE DtorSetFlags
  BY <1>14 DEF TypeOK, DtorSetFlags, policy, callback, tx, rx, rt
<1>15. CASE Destructor
  <2> USE DEF TypeOK, policy, callback, tx, rx, rt, flags
  <2>1. CASE DtorStopWorker
    BY <2>1 DEF DtorStopWorker
  <2>2. CASE DtorNotify
    BY <2>2 DEF DtorNotify, Awakened
  <2>3. CASE DtorJoinRetry \/ DtorJoinTx \/ DtorJoinRx
    BY <2>3 DEF DtorJoinRetry, DtorJoinTx, DtorJoinRx
  <2>4. CASE DtorClose
    <3>1. fd_open' \in BOOLEAN
      BY <2>4, Zenon DEF DtorClose
    <3>2. dt_pc' = "gone"
      BY <2>4 DEF DtorClose
    <3>3. UNCHANGED <<policy, callback, queue, tx, rx, rt, flags>>
      BY <2>4 DEF DtorClose
    <3>4. QED
      BY <3>1, <3>2, <3>3
  <2>5. QED
    BY <1>15, <2>1, <2>2, <2>3, <2>4 DEF Destructor
<1>16. CASE Tick
  <2>1. requests' \in [Seqs -> Request]
    <3>1. 1 \in Seqs
      BY DEF Seqs
    <3>2. QED
      BY <1>16, <3>1, PolicyType DEF TypeOK, Tick, AckStatus
  <2>2. QED
    BY <1>16, <2>1 DEF TypeOK, Tick, callback, tx, rx, rt, flags
<1>17. CASE UNCHANGED vars
  BY <1>17 DEF TypeOK, vars, policy, callback, tx, rx, rt, flags
<1>18. QED
  BY <1>1, <1>2, <1>3, <1>4, <1>5, <1>6, <1>7, <1>8, <1>9, <1>10, <1>11,
     <1>12, <1>13, <1>14, <1>15, <1>16, <1>17
     DEF Next, Callback, uart_tx_worker, uart_rx_worker, retry_worker, Exited

\* Every variable keeps its type, retries_used stays within MAX_RETRIES, and a
\* worker holds a frame or lines exactly at the steps that use them.
THEOREM TypeCorrect == Spec => []TypeOK
  BY InitType, NextType, PTL DEF Spec
----------------------------------------------------------------------------
(* The life of one request: what a step of any thread may do to it.         *)

Keeps(s) == /\ requests'[s].is_stop = requests[s].is_stop
            /\ requests'[s].retries_used = requests[s].retries_used

Moves(s, from, to) == State(s) \in from /\ requests'[s].state \in to

Unsent(s) == written'[s] = written[s]

Stays(s) == Keeps(s) /\ Unsent(s) /\ requests'[s].state = State(s)

Registers(s) == /\ s = next_seq
                /\ Moves(s, {"NONE"}, {"QUEUED"})
                /\ submitted' /= submitted
                /\ Unsent(s)
                /\ requests'[s].retries_used = requests[s].retries_used

Withdrawn(s) == /\ Moves(s, Live, {"SUPERSEDED"})
                /\ ~requests[s].is_stop
                /\ submitted' /= submitted
                /\ Keeps(s) /\ Unsent(s)

Sent(s) == /\ Moves(s, {"QUEUED", "RETRY_QUEUED"}, {"WAITING_ACK"})
           /\ Keeps(s)
           /\ written'[s] = written[s] + 1

GivenUp(s) == Moves(s, Live, {"RESULT_UNKNOWN"}) /\ Keeps(s) /\ Unsent(s)

Started(s) == /\ Moves(s, {"WAITING_ACK", "EXECUTING", "RETRY_QUEUED"},
                       {"EXECUTING"})
              /\ Keeps(s) /\ Unsent(s)

Answered(s) == /\ Moves(s, {"WAITING_ACK", "EXECUTING", "RETRY_QUEUED",
                            "SUPERSEDED"},
                        Final \ {"RESULT_UNKNOWN"})
               /\ written[s] > 0 \/ s \in PriorSession
               /\ Keeps(s) /\ Unsent(s)

Retried(s) == /\ Moves(s, {"WAITING_ACK", "EXECUTING"}, {"RETRY_QUEUED"})
              /\ requests'[s].is_stop = requests[s].is_stop
              /\ requests'[s].retries_used = requests[s].retries_used + 1
              /\ Unsent(s)

RequestStep(s) ==
  \/ Stays(s) \/ Registers(s) \/ Withdrawn(s) \/ Sent(s) \/ GivenUp(s)
  \/ Started(s) \/ Answered(s) \/ Retried(s)

\* A step that leaves the table and the writes alone.
LEMMA QuietStep ==
  UNCHANGED <<requests, written>> => \A s \in Seqs : Stays(s)
BY DEF Stays, Keeps, Unsent, State

\* An entry that is not registered is empty.
EmptyInv ==
  \A s \in Seqs : State(s) = "NONE" => /\ requests[s].retries_used = 0
                                       /\ requests[s].is_stop = FALSE

\* Every step of every thread is, for every request, one of the steps above.
LEMMA RequestLife ==
  ASSUME TypeOK, EmptyInv, [Next]_vars
  PROVE  \A s \in Seqs : RequestStep(s)
<1> SUFFICES ASSUME NEW s \in Seqs
             PROVE  RequestStep(s)
  OBVIOUS
<1> USE RetryPolicyAssumption DEF RetryPolicyAssumption
<1>1. CASE UNCHANGED <<requests, written>>
  BY <1>1, QuietStep DEF RequestStep
<1>2. ASSUME NEW is_stop \in BOOLEAN, RegisterCommand(is_stop)
      PROVE  RequestStep(s)
  <2>1. next_seq \in Seqs
    BY <1>2 DEF TypeOK, RegisterCommand, Seqs
  <2> DEFINE base == IF is_stop THEN cancel_non_stop(requests) ELSE requests
  <2>2. /\ base \in [Seqs -> Request]
        /\ requests' = start(base, next_seq, is_stop)
        /\ written' = written
    BY <1>2, <2>1, PolicyType DEF RegisterCommand, TypeOK, AckStatus
  <2>3. \/ base[s] = requests[s]
        \/ /\ base[s] = [requests[s] EXCEPT !.state = "SUPERSEDED"]
           /\ State(s) \in Live /\ ~requests[s].is_stop
    BY DEF cancel_non_stop, State
  <2>4. requests[s] \in Request
    BY DEF TypeOK
  <2> HIDE DEF base
  <2>5. CASE s = next_seq /\ base[s].state = "NONE"
    <3>1. requests'[s] = [NoRequest EXCEPT !.is_stop = is_stop,
                                           !.state = "QUEUED"]
      BY <2>1, <2>2, <2>5 DEF start, Registered
    <3>2. State(s) = "NONE"
      BY <2>3, <2>4, <2>5 DEF State, Request
    <3>3. requests[s].retries_used = 0
      BY <3>2 DEF EmptyInv
    <3>4. submitted' /= submitted
      BY <1>2 DEF RegisterCommand, Advance, TypeOK
    <3>5. QED
      BY <2>2, <2>5, <3>1, <3>2, <3>3, <3>4
         DEF RequestStep, Registers, Moves, Unsent, NoRequest
  <2>6. CASE ~(s = next_seq /\ base[s].state = "NONE")
    <3>1. requests'[s] = base[s]
      BY <2>1, <2>2, <2>6 DEF start, Registered
    <3>2. submitted' /= submitted
      BY <1>2 DEF RegisterCommand, Advance, TypeOK
    <3>3. QED
      BY <2>2, <2>3, <2>4, <3>1, <3>2
         DEF RequestStep, Stays, Withdrawn, Moves, Keeps, Unsent, State, Request
  <2>7. QED
    BY <2>5, <2>6
<1>3. CASE TxSend
  <2>1. tx_frame \in Seqs
    BY <1>3 DEF TypeOK, TxSend
  <2>2. CASE s = tx_frame
    BY <1>3, <2>1, <2>2 DEF TxSend, mark_sent, should_transmit, RequestStep,
       Sent, Moves, Keeps, State, TypeOK, Request
  <2>3. CASE s /= tx_frame
    BY <1>3, <2>1, <2>3 DEF TxSend, mark_sent, RequestStep, Stays, Keeps,
       Unsent, State, TypeOK
  <2>4. QED
    BY <2>2, <2>3
<1>4. CASE TxSendFailed
  <2>1. tx_frame \in Seqs
    BY <1>4 DEF TypeOK, TxSendFailed
  <2>2. CASE s = tx_frame
    BY <1>4, <2>1, <2>2 DEF TxSendFailed, mark_send_failed, should_transmit,
       RequestStep, GivenUp, Moves, Keeps, Unsent, State, TypeOK, Request, Live
  <2>3. CASE s /= tx_frame
    BY <1>4, <2>1, <2>3 DEF TxSendFailed, mark_send_failed, RequestStep, Stays,
       Keeps, Unsent, State, TypeOK
  <2>4. QED
    BY <2>2, <2>3
<1>5. CASE RxLineAny
  <2>1. PICK a \in Seqs, status \in AckStatus, own \in BOOLEAN :
          RxLine(a, status, own)
    BY <1>5 DEF RxLineAny
  <2>2. CASE s /= a \/ ~AckAccepted(requests[a], status)
    BY <2>1, <2>2 DEF RxLine, on_ack, RequestStep, Stays, Keeps, Unsent, State,
       TypeOK
  <2>3. CASE s = a /\ AckAccepted(requests[a], status) /\ status = "IN_PROGRESS"
    BY <2>1, <2>3 DEF RxLine, on_ack, AckAccepted, RequestStep, Started, Moves,
       Keeps, Unsent, State, TypeOK, Request
  <2>4. CASE s = a /\ AckAccepted(requests[a], status) /\ status /= "IN_PROGRESS"
    <3>1. AckOutcome(status) \in Final \ {"RESULT_UNKNOWN"}
      BY <2>4 DEF AckOutcome, AckStatus, Final
    <3>2. requests'[s] = [requests[s] EXCEPT !.state = AckOutcome(status)]
      BY <2>1, <2>4 DEF RxLine, on_ack, TypeOK
    <3>3. State(s) \in {"WAITING_ACK", "EXECUTING", "RETRY_QUEUED", "SUPERSEDED"}
      BY <2>4 DEF AckAccepted, State
    <3>4. requests[s] \in Request
      BY DEF TypeOK
    <3>5. written' = written /\ (written[s] > 0 \/ s \in PriorSession)
      BY <2>1, <2>4 DEF RxLine
    <3>6. QED
      BY <3>1, <3>2, <3>3, <3>4, <3>5
         DEF RequestStep, Answered, Moves, Keeps, Unsent, Request
  <2>5. QED
    BY <2>2, <2>3, <2>4
<1>6. CASE RetryPoll
  <2>1. requests'[s] = PollRequest(requests[s]) /\ written' = written
    BY <1>6 DEF RetryPoll, poll
  <2>2. requests[s] \in Request
    BY DEF TypeOK
  <2>3. CASE RetryDue(requests[s])
    <3>1. requests'[s] = [requests[s] EXCEPT !.state = "RETRY_QUEUED",
                            !.retries_used = requests[s].retries_used + 1]
      BY <2>1, <2>2, <2>3 DEF PollRequest, RetryDue, Request
    <3>2. State(s) \in {"WAITING_ACK", "EXECUTING"}
      BY <2>3 DEF RetryDue, Expired, State
    <3>3. QED
      BY <2>1, <2>2, <3>1, <3>2 DEF RequestStep, Retried, Moves, Unsent, Request
  <2>4. CASE ~RetryDue(requests[s])
    <3>1. \/ requests'[s] = requests[s]
          \/ /\ requests'[s] = [requests[s] EXCEPT !.state = "RESULT_UNKNOWN"]
             /\ State(s) \in Live
      BY <2>1, <2>2, <2>4 DEF PollRequest, RetryDue, Expired, Request, State,
         Live
    <3>2. QED
      BY <2>1, <2>2, <3>1 DEF RequestStep, Stays, GivenUp, Moves, Keeps, Unsent,
         State, Request
  <2>5. QED
    BY <2>3, <2>4
<1>7. CASE Tick
  BY <1>7 DEF Tick, Elapse, RequestStep, Stays, Keeps, Unsent, State, TypeOK,
     Request
<1>8. QED
  BY <1>1, <1>2, <1>3, <1>4, <1>5, <1>6, <1>7
     DEF Next, Callback, uart_tx_worker, uart_rx_worker, retry_worker,
         Destructor, Exited, vars, policy, SeqExhausted, EnqueueCommand, TxWait,
         TxStop, TxPop, TxSkip, TxSpuriousWakeup, RxCheckStop, RxRead, RxError,
         RxInvalidLine, RetryCheckStop, RetryLookStop, RetryEnqueue,
         RetryRest, DtorSetFlags, DtorStopWorker, DtorNotify, DtorJoinRetry,
         DtorJoinTx, DtorJoinRx, DtorClose

----------------------------------------------------------------------------
(* Transmissions.  BoundedTransmissions is not inductive: that a queued      *)
(* retry may be written needs written <= retries_used while it is queued.   *)

SendInv ==
  \A s \in Seqs :
    /\ State(s) \in {"NONE", "QUEUED"} => written[s] = 0
    /\ State(s) \in {"WAITING_ACK", "EXECUTING", "RETRY_QUEUED"} => written[s] > 0
    /\ State(s) = "RETRY_QUEUED" => written[s] <= requests[s].retries_used
    /\ written[s] <= 1 + requests[s].retries_used

TableInv == TypeOK /\ EmptyInv /\ SendInv

\* The table is consistent initially and stays so.
LEMMA TableInductive ==
  /\ Init => TableInv
  /\ TableInv /\ [Next]_vars => TableInv'
<1>1. Init => EmptyInv /\ SendInv
  BY DEF Init, EmptyInv, SendInv, State, NoRequests, NoRequest
<1>2. ASSUME TableInv, [Next]_vars
      PROVE  TableInv'
  <2>1. TypeOK /\ TypeOK'
    BY <1>2, NextType DEF TableInv
  <2>2. \A s \in Seqs : RequestStep(s)
    BY <1>2, RequestLife DEF TableInv
  <2>3. ASSUME NEW s \in Seqs
        PROVE  /\ written[s] \in Nat
               /\ requests[s].retries_used \in Nat
               /\ State(s) \in RequestState \cup {"NONE"}
    <3>1. written[s] \in Nat /\ requests[s] \in Request
      BY <2>1 DEF TypeOK
    <3>2. QED
      BY <3>1, RetryPolicyAssumption
         DEF RetryPolicyAssumption, Request, State
  <2>4. ASSUME NEW s \in Seqs, State(s)' = "NONE"
        PROVE  requests'[s].retries_used = 0 /\ requests'[s].is_stop = FALSE
    <3>1. Stays(s)
      BY <2>2, <2>4 DEF RequestStep, Stays, Registers, Withdrawn, Sent, GivenUp,
                        Started, Answered, Retried, Moves, State, Final
    <3>2. QED
      BY <1>2, <2>4, <3>1 DEF Stays, Keeps, State, TableInv, EmptyInv
  <2>5. ASSUME NEW s \in Seqs
        PROVE  /\ State(s)' \in {"NONE", "QUEUED"} => written'[s] = 0
               /\ State(s)' \in {"WAITING_ACK", "EXECUTING", "RETRY_QUEUED"}
                    => written'[s] > 0
               /\ State(s)' = "RETRY_QUEUED"
                    => written'[s] <= requests'[s].retries_used
               /\ written'[s] <= 1 + requests'[s].retries_used
    <3>1. RequestStep(s)
      BY <2>2
    <3> USE <1>2, <2>3 DEF TableInv, SendInv, State, Keeps, Unsent, Moves
    <3>2. CASE Stays(s)
      BY <3>2 DEF Stays
    <3>3. CASE Registers(s)
      BY <3>3 DEF Registers
    <3>4. CASE Withdrawn(s) \/ GivenUp(s)
      BY <3>4 DEF Withdrawn, GivenUp
    <3>5. CASE Sent(s)
      BY <3>5 DEF Sent
    <3>6. CASE Started(s)
      BY <3>6 DEF Started
    <3>7. CASE Answered(s)
      BY <3>7 DEF Answered, Final
    <3>8. CASE Retried(s)
      BY <3>8 DEF Retried
    <3>9. QED
      BY <3>1, <3>2, <3>3, <3>4, <3>5, <3>6, <3>7, <3>8 DEF RequestStep
  <2>6. EmptyInv'
    BY <2>4 DEF EmptyInv, State
  <2>7. SendInv'
    BY <2>5 DEF SendInv, State
  <2>8. QED
    BY <2>1, <2>6, <2>7 DEF TableInv
<1>3. QED
  BY <1>1, <1>2, InitType DEF TableInv

\* The conjunction is an invariant of the node.
LEMMA TableInvariant == Spec => []TableInv
  BY TableInductive, PTL DEF Spec

\* No command is written to the UART more than 1 + MAX_RETRIES times.
THEOREM TransmissionsBounded == Spec => []BoundedTransmissions
<1>1. TableInv => BoundedTransmissions
  BY RetryPolicyAssumption
     DEF RetryPolicyAssumption, TableInv, TypeOK, Request, SendInv,
         BoundedTransmissions
<1>2. QED
  BY <1>1, TableInvariant, PTL

\* An outcome is never replaced and a superseded command never revives.
THEOREM OutcomesFinal == Spec => ResolvedIsFinal
<1> DEFINE A == \A s \in Seqs :
                  /\ State(s) \in Final => requests'[s].state = State(s)
                  /\ State(s) = "SUPERSEDED"
                       => requests'[s].state \in Final \cup {"SUPERSEDED"}
<1>1. TableInv /\ [Next]_vars => [A]_vars
  <2> SUFFICES ASSUME TableInv, [Next]_vars, NEW s \in Seqs
               PROVE  /\ State(s) \in Final => requests'[s].state = State(s)
                      /\ State(s) = "SUPERSEDED"
                           => requests'[s].state \in Final \cup {"SUPERSEDED"}
    OBVIOUS
  <2>1. RequestStep(s)
    BY RequestLife DEF TableInv
  <2>2. QED
    BY <2>1 DEF RequestStep, Stays, Registers, Withdrawn, Sent, GivenUp,
                Started, Answered, Retried, Moves, Live, Final
<1>2. QED
  BY <1>1, TableInvariant, PTL DEF Spec, ResolvedIsFinal

\* A SEQ names one command for the life of the process.
THEOREM SeqsAreNeverReused == Spec => SeqNamesOneCommand
<1> DEFINE A == \A s \in Seqs :
                  Registered(requests, s)
                    => /\ requests'[s].is_stop = requests[s].is_stop
                       /\ State(s) /= "QUEUED"
                            => requests'[s].state \notin {"QUEUED", "NONE"}
<1>1. TableInv /\ [Next]_vars => [A]_vars
  <2> SUFFICES ASSUME TableInv, [Next]_vars, NEW s \in Seqs,
                      Registered(requests, s)
               PROVE  /\ requests'[s].is_stop = requests[s].is_stop
                      /\ State(s) /= "QUEUED"
                            => requests'[s].state \notin {"QUEUED", "NONE"}
    OBVIOUS
  <2>1. RequestStep(s)
    BY RequestLife DEF TableInv
  <2>2. QED
    BY <2>1 DEF RequestStep, Stays, Registers, Withdrawn, Sent, GivenUp,
                Started, Answered, Retried, Moves, Keeps, Live, Final,
                Registered, State
<1>2. QED
  BY <1>1, TableInvariant, PTL DEF Spec, SeqNamesOneCommand

----------------------------------------------------------------------------
(* A STOP supersedes every older ordinary command.  The induction needs     *)
(* that SEQs are handed out without gaps: a command registered after a STOP *)
(* has a greater SEQ, also when the counter has wrapped.                    *)

NextInv == \A s \in Seqs : s < next_seq => Registered(requests, s)

PrefixInv == \A s, t \in Seqs :
               s < t /\ Registered(requests, t) => Registered(requests, s)

StopInv == TableInv /\ NextInv /\ PrefixInv /\ StopSupersedesOlder

\* The SEQ counter steps by one or wraps to 0.
LEMMA CounterStep ==
  ASSUME TypeOK
  PROVE  (next_seq + 1) % SeqMod \in {0, next_seq + 1}
<1>1. SeqMod \in Nat /\ SeqMod >= 2 /\ next_seq \in 0 .. (SeqMod - 1)
  BY RetryPolicyAssumption DEF RetryPolicyAssumption, TypeOK
<1>2. QED
  BY <1>1

\* Only RegisterCommand registers a command.
LEMMA OnlyCallbackRegisters ==
  ASSUME TypeOK, EmptyInv, [Next]_vars,
         ~ \E is_stop \in BOOLEAN : RegisterCommand(is_stop)
  PROVE  \A s \in Seqs : /\ RequestStep(s) /\ ~Registers(s)
                         /\ requests'[s].is_stop = requests[s].is_stop
                         /\ Registered(requests', s) <=> Registered(requests, s)
<1> SUFFICES ASSUME NEW s \in Seqs
             PROVE  /\ RequestStep(s) /\ ~Registers(s)
                    /\ requests'[s].is_stop = requests[s].is_stop
                    /\ Registered(requests', s) <=> Registered(requests, s)
  OBVIOUS
<1>1. RequestStep(s)
  BY RequestLife
<1>2. ~Registers(s)
  <2>1. CASE SeqExhausted
    BY <2>1 DEF SeqExhausted, Registers, Seqs
  <2>2. CASE ~SeqExhausted
    <3>1. submitted' = submitted
      BY <2>2 DEF Next, Callback, uart_tx_worker, uart_rx_worker, retry_worker,
         Destructor, Exited, vars, callback, EnqueueCommand, TxWait, TxStop,
         TxPop, TxSkip, TxSend, TxSendFailed, TxSpuriousWakeup, RxCheckStop,
         RxRead, RxError, RxLineAny, RxLine, RxInvalidLine, RetryCheckStop,
         RetryLookStop, RetryPoll, RetryEnqueue, RetryRest, DtorSetFlags,
         DtorStopWorker, DtorNotify, DtorJoinRetry, DtorJoinTx, DtorJoinRx,
    DtorClose, Tick <3>2. QED
      BY <3>1 DEF Registers
  <2>3. QED
    BY <2>1, <2>2
<1>3. QED
  BY <1>1, <1>2 DEF RequestStep, Stays, Withdrawn, Sent, GivenUp, Started,
     Answered, Retried, Moves, Keeps, Registered, State, Live, Final

\* What RegisterCommand does to the table.
LEMMA RegisterEffect ==
  ASSUME TypeOK, NEW is_stop \in BOOLEAN, RegisterCommand(is_stop)
  PROVE  /\ next_seq \in Seqs
         /\ Registered(requests', next_seq)
         /\ next_seq' \in {0, next_seq + 1}
         /\ \A s \in Seqs : s /= next_seq
              => /\ Registered(requests', s) <=> Registered(requests, s)
                 /\ requests'[s].is_stop = requests[s].is_stop
                 /\ requests'[s].state \in Live => State(s) \in Live
         /\ is_stop => \A s \in Seqs :
              s /= next_seq /\ ~requests[s].is_stop
                => requests'[s].state \notin Live
         /\ Registered(requests, next_seq)
              => /\ requests'[next_seq].is_stop = requests[next_seq].is_stop
                 /\ Registered(requests, next_seq)
                 /\ requests'[next_seq].state \in Live => State(next_seq) \in Live
         /\ ~Registered(requests, next_seq)
              => requests'[next_seq].is_stop = is_stop
<1>1. next_seq \in Seqs
  BY DEF TypeOK, RegisterCommand, Seqs
<1> DEFINE base == IF is_stop THEN cancel_non_stop(requests) ELSE requests
<1>2. /\ base \in [Seqs -> Request]
      /\ requests' = start(base, next_seq, is_stop)
  BY <1>1, PolicyType DEF RegisterCommand, TypeOK, AckStatus
<1>3. ASSUME NEW s \in Seqs
      PROVE  /\ base[s].is_stop = requests[s].is_stop
             /\ base[s].state \in Live => State(s) \in Live
             /\ (base[s].state = "NONE") <=> (State(s) = "NONE")
             /\ is_stop /\ ~requests[s].is_stop => base[s].state \notin Live
  <2>1. requests[s] \in Request
    BY DEF TypeOK
  <2>2. CASE is_stop /\ ~requests[s].is_stop /\ State(s) \in Live
    <3>1. base[s] = [requests[s] EXCEPT !.state = "SUPERSEDED"]
      BY <2>2 DEF cancel_non_stop, State
    <3>2. QED
      BY <2>1, <2>2, <3>1 DEF Request, Live, State
  <2>3. CASE ~(is_stop /\ ~requests[s].is_stop /\ State(s) \in Live)
    <3>1. base[s] = requests[s]
      BY <2>3 DEF cancel_non_stop, State
    <3>2. QED
      BY <2>3, <3>1 DEF State
  <2>4. QED
    BY <2>2, <2>3
<1> HIDE DEF base
<1>4. \A s \in Seqs : s /= next_seq => requests'[s] = base[s]
  BY <1>1, <1>2 DEF start
<1>5. base[next_seq].state /= "NONE" => requests'[next_seq] = base[next_seq]
  BY <1>1, <1>2 DEF start, Registered
<1>6. base[next_seq].state = "NONE"
        => /\ requests'[next_seq].state = "QUEUED"
           /\ requests'[next_seq].is_stop = is_stop
  BY <1>1, <1>2 DEF start, Registered, NoRequest
<1>7. next_seq' \in {0, next_seq + 1}
  BY CounterStep DEF RegisterCommand, Advance
<1>8. QED
  BY <1>1, <1>3, <1>4, <1>5, <1>6, <1>7 DEF Registered, State, Live

\* StopInv is inductive.
LEMMA StopInductive ==
  /\ Init => StopInv
  /\ StopInv /\ [Next]_vars => StopInv'
<1>1. Init => StopInv
  BY TableInductive, RetryPolicyAssumption
     DEF RetryPolicyAssumption, Init, StopInv, NextInv, PrefixInv,
         StopSupersedesOlder, RegisteredStop, Registered, NoRequests, NoRequest,
         Seqs
<1>2. ASSUME StopInv, [Next]_vars
      PROVE  StopInv'
  <2>1. TypeOK /\ EmptyInv /\ TableInv'
    BY <1>2, TableInductive DEF StopInv, TableInv
  <2>2. CASE \E is_stop \in BOOLEAN : RegisterCommand(is_stop)
    <3>1. PICK is_stop \in BOOLEAN : RegisterCommand(is_stop)
      BY <2>2
    <3> HIDE <2>2
    <3>2. NextInv'
      BY <1>2, <2>1, <3>1, RegisterEffect DEF StopInv, NextInv, TypeOK, Seqs
    <3>3. PrefixInv'
      BY <1>2, <2>1, <3>1, RegisterEffect
         DEF StopInv, NextInv, PrefixInv, TypeOK, Seqs
    <3>4. ASSUME NEW s \in Seqs, NEW t \in Seqs, RegisteredStop(t)', s < t,
                 ~requests'[s].is_stop
          PROVE  requests'[s].state \notin Live
      <4>1. CASE t = next_seq /\ ~Registered(requests, t)
        <5>1. s /= next_seq
          BY <3>4, <4>1 DEF Seqs
        <5>2. is_stop
          BY <2>1, <3>1, <3>4, <4>1, RegisterEffect DEF RegisteredStop
        <5>3. ~requests[s].is_stop
          BY <2>1, <3>1, <3>4, <5>1, RegisterEffect
        <5>4. QED
          BY <2>1, <3>1, <5>1, <5>2, <5>3, RegisterEffect
      <4>2. CASE ~(t = next_seq /\ ~Registered(requests, t))
        <5>1. RegisteredStop(t)
          BY <2>1, <3>1, <3>4, <4>2, RegisterEffect DEF RegisteredStop
        <5>2. Registered(requests, s)
          BY <1>2, <3>4, <5>1 DEF StopInv, PrefixInv, RegisteredStop
        <5>3. ~requests[s].is_stop
          BY <2>1, <3>1, <3>4, <5>2, RegisterEffect
        <5>4. State(s) \notin Live
          BY <1>2, <3>4, <5>1, <5>3 DEF StopInv, StopSupersedesOlder
        <5>5. QED
          BY <2>1, <3>1, <5>2, <5>4, RegisterEffect
      <4>3. QED
        BY <4>1, <4>2
    <3>5. StopSupersedesOlder'
      BY <3>4 DEF StopSupersedesOlder, State
    <3>6. QED
      BY <2>1, <3>2, <3>3, <3>5 DEF StopInv
  <2>3. CASE ~ \E is_stop \in BOOLEAN : RegisterCommand(is_stop)
    <3>1. \A s \in Seqs :
            /\ RequestStep(s) /\ ~Registers(s)
            /\ requests'[s].is_stop = requests[s].is_stop
            /\ Registered(requests', s) <=> Registered(requests, s)
      BY <1>2, <2>1, <2>3, OnlyCallbackRegisters
    <3>2. next_seq' \in {next_seq, 1}
      <4>1. CASE SeqExhausted
        BY <2>1, <4>1, CounterStep DEF SeqExhausted, Advance
      <4>2. CASE ~SeqExhausted
        BY <1>2, <2>3, <4>2
           DEF Next, Callback, uart_tx_worker, uart_rx_worker, retry_worker,
           Destructor, Exited, vars, callback, EnqueueCommand, TxWait, TxStop,
           TxPop, TxSkip, TxSend, TxSendFailed, TxSpuriousWakeup, RxCheckStop,
           RxRead, RxError, RxLineAny, RxLine, RxInvalidLine, RetryCheckStop,
           RetryLookStop, RetryPoll, RetryEnqueue, RetryRest, DtorSetFlags,
           DtorStopWorker, DtorNotify, DtorJoinRetry, DtorJoinTx, DtorJoinRx,
      DtorClose, Tick <4>3. QED
        BY <4>1, <4>2
    <3>3. NextInv' /\ PrefixInv'
      BY <1>2, <3>1, <3>2 DEF StopInv, NextInv, PrefixInv, Seqs
    <3>4. \A s \in Seqs : requests'[s].state \in Live => State(s) \in Live
      BY <3>1 DEF RequestStep, Stays, Withdrawn, Sent, GivenUp, Started,
         Answered, Retried, Moves, State, Live, Final
    <3>5. StopSupersedesOlder'
      BY <1>2, <3>1, <3>4 DEF StopInv, StopSupersedesOlder, RegisteredStop,
         Registered, State
    <3>6. QED
      BY <2>1, <3>3, <3>5 DEF StopInv
  <2>4. QED
    BY <2>2, <2>3
<1>3. QED
  BY <1>1, <1>2

\* StopInv holds in every reachable state.
LEMMA StopInvariant == Spec => []StopInv
  BY StopInductive, PTL DEF Spec

\* Once a STOP is registered no older ordinary command is live.
THEOREM StopWithdrawsOlder == Spec => []StopSupersedesOlder
<1>1. StopInv => StopSupersedesOlder
  BY DEF StopInv
<1>2. QED
  BY <1>1, StopInvariant, PTL

\* Once a STOP is registered no older ordinary command is written, wherever
\* its frame is.
THEOREM NoOldCommandWritten == Spec => NoOldCommandAfterStop
<1> DEFINE A == \A s, t \in Seqs :
                  RegisteredStop(t) /\ s < t /\ ~requests[s].is_stop
                    => written'[s] = written[s]
<1>1. StopInv /\ [Next]_vars => [A]_vars
  <2> SUFFICES ASSUME StopInv, [Next]_vars, NEW s \in Seqs, NEW t \in Seqs,
                      RegisteredStop(t), s < t, ~requests[s].is_stop
               PROVE  written'[s] = written[s]
    OBVIOUS
  <2>1. RequestStep(s)
    BY RequestLife DEF StopInv, TableInv
  <2>2. State(s) \notin Live
    BY DEF StopInv, StopSupersedesOlder
  <2>3. QED
    BY <2>1, <2>2 DEF RequestStep, Stays, Registers, Withdrawn, Sent, GivenUp,
       Started, Answered, Retried, Moves, Unsent, Live
<1>2. QED
  BY <1>1, StopInvariant, PTL DEF Spec, NoOldCommandAfterStop
----------------------------------------------------------------------------
(* Why a request ended.  Both halves of OutcomesDeserved speak of this run   *)
(* of the node before 2^32 commands: a STOP that is refused because the      *)
(* counter wrapped withdraws without being registered, and an ACK that       *)
(* belongs to an earlier run answers what was never written.  Up to there    *)
(* the SEQs in use are exactly 1 .. submitted, so the STOP that withdraws a  *)
(* command is itself registered, with a greater SEQ.                         *)

Answer == {"SUCCEEDED", "BUSY", "ERROR", "PREEMPTED"}

CountInv ==
  /\ submitted + 1 < SeqMod => next_seq = submitted + 1
  /\ \A s \in Seqs : Registered(requests, s) => s <= submitted

SupersededInv == submitted < SeqMod => SupersededByStop

AnsweredInv == foreign = {} => \A s \in Seqs : State(s) \in Answer => written[s] > 0

ReasonInv == TableInv /\ CountInv /\ SupersededInv /\ AnsweredInv

\* Only the callback counts commands and withdraws requests.
LEMMA OnlyCallbackWithdraws ==
  ASSUME TypeOK, EmptyInv, [Next]_vars,
         ~ \E is_stop \in BOOLEAN : RegisterCommand(is_stop)
  PROVE  /\ \/ UNCHANGED <<submitted, next_seq>>
            \/ Accepting /\ submitted' = submitted + 1 /\ next_seq = 0
         /\ \A s \in Seqs : ~Withdrawn(s)
<1>1. CASE SeqExhausted
  <2>1. Accepting /\ submitted' = submitted + 1 /\ next_seq = 0
    BY <1>1 DEF SeqExhausted, Advance
  <2>2. requests' = requests
    BY <1>1 DEF SeqExhausted, policy
  <2>3. QED
    BY <2>1, <2>2 DEF Withdrawn, Moves, State, Live
<1>2. CASE ~SeqExhausted
  <2>1. UNCHANGED <<submitted, next_seq>>
    BY <1>2 DEF Next, Callback, uart_tx_worker, uart_rx_worker, retry_worker,
       Destructor, Exited, vars, callback, EnqueueCommand, TxWait, TxStop,
       TxPop, TxSkip, TxSend, TxSendFailed, TxSpuriousWakeup, RxCheckStop,
       RxRead, RxError, RxLineAny, RxLine, RxInvalidLine, RetryCheckStop,
       RetryLookStop, RetryPoll, RetryEnqueue, RetryRest, DtorSetFlags,
       DtorStopWorker, DtorNotify, DtorJoinRetry, DtorJoinTx, DtorJoinRx,
  DtorClose, Tick <2>2. QED
    BY <2>1 DEF Withdrawn
<1>3. QED
  BY <1>1, <1>2

\* An answer that is new in this step belongs to a frame of this run, unless the
\* step notes an answer to an earlier one.
LEMMA NewAnswers ==
  ASSUME TypeOK, [Next]_vars, foreign' = {}
  PROVE  /\ foreign = {}
         /\ \A s \in Seqs : requests'[s].state \in Answer
              => State(s) \in Answer \/ written[s] > 0
<1> USE RetryPolicyAssumption DEF RetryPolicyAssumption
<1> DEFINE Goal == /\ foreign = {}
                   /\ \A s \in Seqs : requests'[s].state \in Answer
                        => State(s) \in Answer \/ written[s] > 0
<1>1. CASE UNCHANGED <<requests, foreign>>
  BY <1>1 DEF State
<1>2. ASSUME NEW is_stop \in BOOLEAN, RegisterCommand(is_stop)
      PROVE  Goal
  <2>1. next_seq \in Seqs
    BY <1>2 DEF TypeOK, RegisterCommand, Seqs
  <2>2. ASSUME NEW s \in Seqs
        PROVE  requests'[s].state \in {State(s), "SUPERSEDED", "QUEUED"}
    <3>1. requests[s] \in Request
      BY DEF TypeOK
    <3>2. \/ requests'[s] = [NoRequest EXCEPT !.is_stop = is_stop,
                                              !.state = "QUEUED"]
          \/ requests'[s] = requests[s]
          \/ requests'[s] = [requests[s] EXCEPT !.state = "SUPERSEDED"]
      BY <1>2, <2>1 DEF RegisterCommand, start, cancel_non_stop, TypeOK
    <3>3. QED
      BY <3>1, <3>2 DEF NoRequest, Request, State
  <2>3. foreign' = foreign
    BY <1>2 DEF RegisterCommand
  <2>4. QED
    BY <2>2, <2>3 DEF Answer
<1>3. CASE TxSend \/ TxSendFailed
  <2>1. tx_frame \in Seqs /\ foreign' = foreign
    BY <1>3 DEF TypeOK, TxSend, TxSendFailed
  <2>2. ASSUME NEW s \in Seqs
        PROVE  requests'[s].state \in {State(s), "WAITING_ACK", "RESULT_UNKNOWN"}
    <3>1. requests[s] \in Request
      BY DEF TypeOK
    <3>2. \/ requests'[s] = requests[s]
          \/ requests'[s] = [requests[s] EXCEPT !.state = "RESULT_UNKNOWN"]
          \/ requests'[s] = [requests[s] EXCEPT !.state = "WAITING_ACK",
                                               !.deadline = AckTimeout]
      <4>1. CASE TxSend
        BY <2>1, <4>1 DEF TxSend, mark_sent, TypeOK
      <4>2. CASE TxSendFailed
        BY <2>1, <4>2 DEF TxSendFailed, mark_send_failed, TypeOK
      <4>3. QED
        BY <1>3, <4>1, <4>2
    <3>3. QED
      BY <3>1, <3>2 DEF Request, State
  <2>3. QED
    BY <2>1, <2>2 DEF Answer
<1>4. CASE RxLineAny
  <2>1. PICK a \in Seqs, status \in AckStatus, own \in BOOLEAN :
          RxLine(a, status, own)
    BY <1>4 DEF RxLineAny
  <2>2. foreign = {} /\ (~own => ~AckAccepted(requests[a], status))
    BY <2>1 DEF RxLine
  <2>3. CASE ~AckAccepted(requests[a], status)
    BY <2>1, <2>2, <2>3 DEF RxLine, on_ack, State
  <2>4. CASE own
    <3>1. written[a] > 0
      BY <2>1, <2>4 DEF RxLine
    <3>2. \A s \in Seqs : s /= a => requests'[s] = requests[s]
      BY <2>1 DEF RxLine, on_ack, TypeOK
    <3>3. QED
      BY <2>2, <3>1, <3>2 DEF State
  <2>5. QED
    BY <2>2, <2>3, <2>4
<1>5. CASE RetryPoll
  <2>1. foreign' = foreign
    BY <1>5 DEF RetryPoll
  <2>2. ASSUME NEW s \in Seqs
        PROVE  requests'[s].state \in {State(s), "RETRY_QUEUED", "RESULT_UNKNOWN"}
    <3>1. requests[s] \in Request /\ requests'[s] = PollRequest(requests[s])
      BY <1>5 DEF RetryPoll, poll, TypeOK
    <3>2. QED
      BY <3>1 DEF PollRequest, State, Request
  <2>3. QED
    BY <2>1, <2>2 DEF Answer
<1>6. CASE Tick
  BY <1>6 DEF Tick, Elapse, State, TypeOK, Request
<1>7. QED
  BY <1>1, <1>2, <1>3, <1>4, <1>5, <1>6
     DEF Next, Callback, uart_tx_worker, uart_rx_worker, retry_worker,
         Destructor, Exited, vars, policy, SeqExhausted, EnqueueCommand, TxWait,
         TxStop, TxPop, TxSkip, TxSpuriousWakeup, RxCheckStop, RxRead, RxError,
         RxInvalidLine, RetryCheckStop, RetryLookStop, RetryEnqueue,
         RetryRest, DtorSetFlags, DtorStopWorker, DtorNotify, DtorJoinRetry,
         DtorJoinTx, DtorJoinRx, DtorClose

\* ReasonInv is inductive.
LEMMA ReasonInductive ==
  /\ Init => ReasonInv
  /\ ReasonInv /\ [Next]_vars => ReasonInv'
<1>1. Init => ReasonInv
  BY TableInductive, RetryPolicyAssumption
     DEF RetryPolicyAssumption, Init, ReasonInv, CountInv, SupersededInv,
         SupersededByStop, AnsweredInv, Answer, State, Registered, NoRequests,
         NoRequest
<1>2. ASSUME ReasonInv, [Next]_vars
      PROVE  ReasonInv'
  <2>1. TypeOK /\ EmptyInv /\ TableInv'
    BY <1>2, TableInductive DEF ReasonInv, TableInv
  <2>2. \A s \in Seqs : RequestStep(s)
    BY <1>2, <2>1, RequestLife
  <2>3. submitted \in Nat /\ SeqMod \in Nat
    BY <2>1, RetryPolicyAssumption, HandBridgeAssumption
       DEF RetryPolicyAssumption, HandBridgeAssumption, TypeOK
  <2>4. AnsweredInv'
    <3> SUFFICES ASSUME foreign' = {}, NEW s \in Seqs,
                        requests'[s].state \in Answer
                 PROVE  written'[s] > 0
      BY DEF AnsweredInv, State
    <3>1. foreign = {} /\ (State(s) \in Answer \/ written[s] > 0)
      BY <1>2, <2>1, NewAnswers
    <3>2. written[s] > 0
      BY <1>2, <3>1 DEF ReasonInv, AnsweredInv
    <3>3. written'[s] \in {written[s], written[s] + 1} /\ written[s] \in Nat
      BY <2>1, <2>2 DEF TypeOK, RequestStep, Stays, Registers, Withdrawn, Sent,
         GivenUp, Started, Answered, Retried, Unsent
    <3>4. QED
      BY <3>2, <3>3
  <2>5. CASE \E is_stop \in BOOLEAN : RegisterCommand(is_stop)
    <3>1. PICK is_stop \in BOOLEAN : RegisterCommand(is_stop)
      BY <2>5
    <3> HIDE <2>5
    <3>2. /\ submitted' = submitted + 1
          /\ next_seq \in Seqs
          /\ next_seq' \in {0, next_seq + 1}
          /\ submitted + 1 < SeqMod => next_seq = submitted + 1
      BY <1>2, <2>1, <3>1, RegisterEffect
         DEF RegisterCommand, Advance, ReasonInv, CountInv
    <3>3. \A s \in Seqs : s /= next_seq
            => (Registered(requests', s) <=> Registered(requests, s))
      BY <2>1, <3>1, RegisterEffect
    <3>4. CountInv'
      <4>1. ASSUME submitted' + 1 < SeqMod
            PROVE  next_seq' = submitted' + 1
        <5>1. next_seq = submitted + 1 /\ next_seq' = (next_seq + 1) % SeqMod
          BY <2>3, <3>1, <3>2, <4>1 DEF RegisterCommand, Advance
        <5>2. next_seq + 1 < SeqMod
          BY <3>2, <4>1, <5>1
        <5>3. QED
          BY <2>3, <3>2, <5>1, <5>2
      <4>2. ASSUME NEW s \in Seqs, Registered(requests', s)
            PROVE  s <= submitted'
        <5>1. CASE submitted + 1 < SeqMod
          BY <1>2, <2>3, <3>2, <3>3, <4>2, <5>1 DEF ReasonInv, CountInv, Seqs
        <5>2. CASE submitted + 1 >= SeqMod
          BY <2>3, <3>2, <5>2 DEF Seqs
        <5>3. QED
          BY <2>3, <5>1, <5>2
      <4>3. QED
        BY <4>1, <4>2 DEF CountInv
    <3>5. SupersededInv'
      <4> SUFFICES ASSUME submitted' < SeqMod, NEW s \in Seqs,
                          requests'[s].state = "SUPERSEDED"
                   PROVE  /\ ~requests'[s].is_stop
                          /\ \E t \in Seqs : s < t /\ RegisteredStop(t)'
        BY DEF SupersededInv, SupersededByStop, State
      <4>1. next_seq = submitted + 1 /\ ~Registered(requests, next_seq)
        BY <1>2, <2>3, <3>2 DEF ReasonInv, CountInv
      <4>2. /\ Registered(requests', next_seq)
            /\ requests'[next_seq].is_stop = is_stop
        BY <2>1, <3>1, <4>1, RegisterEffect
      <4>3. CASE Stays(s)
        <5>1. /\ ~requests'[s].is_stop
              /\ \E t \in Seqs : s < t /\ RegisteredStop(t)
          BY <1>2, <2>3, <3>2, <4>3 DEF Stays, Keeps, State, ReasonInv,
             SupersededInv, SupersededByStop
        <5>2. PICK t \in Seqs : s < t /\ RegisteredStop(t)
          BY <5>1
        <5>3. RegisteredStop(t)'
          BY <2>1, <3>1, <4>1, <5>2, RegisterEffect DEF RegisteredStop
        <5>4. QED
          BY <5>1, <5>2, <5>3
      <4>4. CASE Withdrawn(s)
        <5>1. ~requests'[s].is_stop /\ s < next_seq
          BY <1>2, <2>3, <4>1, <4>4 DEF Withdrawn, Moves, Keeps, ReasonInv,
             CountInv, Registered, State, Live, Seqs
        <5>2. is_stop
          BY <2>1, <3>1, <3>2, <4>4, <5>1 DEF Withdrawn, Moves, State, Live,
             RegisterCommand, start, TypeOK, Seqs
        <5>3. QED
          BY <3>2, <4>2, <5>1, <5>2 DEF RegisteredStop
      <4>5. QED
        BY <2>2, <4>3, <4>4 DEF RequestStep, Registers, Sent, GivenUp, Started,
           Answered, Retried, Moves, Final
    <3>6. QED
      BY <2>1, <2>4, <3>4, <3>5 DEF ReasonInv
  <2>6. CASE ~ \E is_stop \in BOOLEAN : RegisterCommand(is_stop)
    <3>1. \A s \in Seqs :
            /\ requests'[s].is_stop = requests[s].is_stop
            /\ Registered(requests', s) <=> Registered(requests, s)
            /\ ~Registers(s) /\ ~Withdrawn(s)
      BY <1>2, <2>1, <2>6, OnlyCallbackRegisters, OnlyCallbackWithdraws
    <3>2. \/ UNCHANGED <<submitted, next_seq>>
          \/ Accepting /\ submitted' = submitted + 1 /\ next_seq = 0
      BY <1>2, <2>1, <2>6, OnlyCallbackWithdraws
    <3>3. CountInv'
      BY <1>2, <2>3, <3>1, <3>2 DEF ReasonInv, CountInv, Seqs
    <3>4. SupersededInv'
      <4>1. \A s \in Seqs : requests'[s].state = "SUPERSEDED"
              => State(s) = "SUPERSEDED"
        BY <2>2, <3>1 DEF RequestStep, Stays, Sent, GivenUp, Started, Answered,
           Retried, Moves, Final
      <4>2. submitted' < SeqMod => submitted < SeqMod
        BY <2>3, <3>2
      <4>3. QED
        BY <1>2, <3>1, <4>1, <4>2
           DEF ReasonInv, SupersededInv, SupersededByStop, RegisteredStop, State
    <3>5. QED
      BY <2>1, <2>4, <3>3, <3>4 DEF ReasonInv
  <2>7. QED
    BY <2>5, <2>6
<1>3. QED
  BY <1>1, <1>2

\* Before the SEQ counter wraps, and while no ACK of an earlier run was taken, a
\* superseded command was withdrawn by a registered later STOP, and an answer
\* (and a success that /hand_status reports) belongs to a command that was
\* completely written.
THEOREM OutcomesAreDeserved ==
  Spec => [](submitted < SeqMod /\ foreign = {} => OutcomesDeserved)
<1>1. ReasonInv => (submitted < SeqMod /\ foreign = {} => OutcomesDeserved)
  <2> SUFFICES ASSUME ReasonInv, submitted < SeqMod, foreign = {}
               PROVE  OutcomesDeserved
    OBVIOUS
  <2>1. SupersededByStop
    BY DEF ReasonInv, SupersededInv
  <2>2. \A s \in Seqs :
          State(s) \in Answer \cup {"WAITING_ACK", "EXECUTING", "RETRY_QUEUED"}
            => written[s] > 0
    BY DEF ReasonInv, AnsweredInv, TableInv, SendInv
  <2>3. status_callback.success
          => /\ status_callback.seq \in Seqs
             /\ State(status_callback.seq) = "SUCCEEDED"
    BY DEF ReasonInv, TableInv, TypeOK, status_callback, State
  <2>4. QED
    BY <2>1, <2>2, <2>3 DEF OutcomesDeserved, OutcomeOnlyAfterSend, Answer
<1>2. Spec => []ReasonInv
  BY ReasonInductive, PTL DEF Spec
<1>3. QED
  BY <1>1, <1>2, PTL
----------------------------------------------------------------------------
(* hand_bridge_node implements CommandDelivery: forgetting the threads, the *)
(* queue, the timers and the ACK statuses, every step is a step of the      *)
(* promise or changes nothing it speaks of.                                 *)

\* When the next SEQ is 0 or taken, every SEQ is taken.
FullInv == next_seq = 0 \/ (next_seq \in Seqs /\ Registered(requests, next_seq))
             => \A s \in Seqs : Registered(requests, s)

RefInv == StopInv /\ FullInv

\* RefInv is inductive.
LEMMA RefInductive ==
  /\ Init => RefInv
  /\ RefInv /\ [Next]_vars => RefInv'
<1>1. Init => RefInv
  <2>1. Init => FullInv
    BY RetryPolicyAssumption
       DEF RetryPolicyAssumption, Init, FullInv, NoRequests, NoRequest,
           Registered, Seqs
  <2>2. QED
    BY <2>1, StopInductive DEF RefInv
<1>2. ASSUME RefInv, [Next]_vars
      PROVE  RefInv'
  <2>1. StopInv /\ StopInv' /\ TypeOK /\ TypeOK' /\ EmptyInv
    BY <1>2, StopInductive DEF RefInv, StopInv, TableInv
  <2> SUFFICES FullInv'
    BY <2>1 DEF RefInv
  <2>2. CASE \E is_stop \in BOOLEAN : RegisterCommand(is_stop)
    <3>1. PICK is_stop \in BOOLEAN : RegisterCommand(is_stop)
      BY <2>2
    <3> HIDE <2>2
    <3>2. CASE Registered(requests, next_seq)
      BY <1>2, <2>1, <3>1, <3>2, RegisterEffect DEF RefInv, FullInv
    <3>3. CASE ~Registered(requests, next_seq)
      <4>1. next_seq \in Seqs
        BY <2>1, <3>1, RegisterEffect
      <4>2. \A s \in Seqs : s > next_seq => ~Registered(requests, s)
        BY <2>1, <3>3, <4>1 DEF StopInv, PrefixInv, Seqs
      <4>3. \A s \in Seqs : s <= next_seq => Registered(requests', s)
        BY <2>1, <3>1, <4>1, RegisterEffect DEF StopInv, NextInv, Seqs
      <4>4. CASE next_seq' = 0
        <5>1. next_seq = SeqMod - 1
          <6>1. SeqMod \in Nat /\ SeqMod >= 2 /\ next_seq \in 0 .. (SeqMod - 1)
            BY <2>1, RetryPolicyAssumption DEF RetryPolicyAssumption, TypeOK
          <6>2. (next_seq + 1) % SeqMod = 0
            BY <3>1, <4>4 DEF RegisterCommand, Advance
          <6>3. QED
            BY <6>1, <6>2
        <5>2. QED
          BY <4>3, <5>1 DEF FullInv, Seqs
      <4>5. CASE next_seq' = next_seq + 1
        <5>1. next_seq' \in Seqs => ~Registered(requests', next_seq')
          BY <2>1, <3>1, <4>1, <4>2, <4>5, RegisterEffect DEF Seqs
        <5>2. QED
          BY <4>1, <4>5, <5>1 DEF FullInv, Seqs
      <4>6. QED
        BY <2>1, <3>1, <4>4, <4>5, RegisterEffect
    <3>4. QED
      BY <3>2, <3>3
  <2>3. CASE ~ \E is_stop \in BOOLEAN : RegisterCommand(is_stop)
    <3>1. \A s \in Seqs : Registered(requests', s) <=> Registered(requests, s)
      BY <1>2, <2>1, <2>3, OnlyCallbackRegisters
    <3>2. CASE SeqExhausted
      BY <1>2, <3>1, <3>2 DEF SeqExhausted, RefInv, FullInv
    <3>3. CASE ~SeqExhausted
      <4>1. next_seq' = next_seq
        BY <1>2, <2>3, <3>3
           DEF Next, Callback, uart_tx_worker, uart_rx_worker, retry_worker,
           Destructor, Exited, vars, callback, EnqueueCommand, TxWait, TxStop,
           TxPop, TxSkip, TxSend, TxSendFailed, TxSpuriousWakeup, RxCheckStop,
           RxRead, RxError, RxLineAny, RxLine, RxInvalidLine, RetryCheckStop,
           RetryLookStop, RetryPoll, RetryEnqueue, RetryRest, DtorSetFlags,
           DtorStopWorker, DtorNotify, DtorJoinRetry, DtorJoinTx, DtorJoinRx,
      DtorClose, Tick <4>2. QED
        BY <1>2, <3>1, <4>1 DEF RefInv, FullInv
    <3>4. QED
      BY <3>2, <3>3
  <2>4. QED
    BY <2>2, <2>3
<1>3. QED
  BY <1>1, <1>2

\* RefInv holds in every reachable state.
LEMMA RefInvariant == Spec => []RefInv
  BY RefInductive, PTL DEF Spec
----------------------------------------------------------------------------
(* The step simulation.                                                     *)

\* The phase of a request in each of its states.
LEMMA PhaseOf ==
  ASSUME NEW st \in RequestState \cup {"NONE"}
  PROVE  /\ (Phase(st) = "unknown") <=> (st = "NONE")
         /\ (Phase(st) = "open") <=> (st \in Live)
         /\ (Phase(st) = "withdrawn") <=> (st = "SUPERSEDED")
         /\ (Phase(st) = "closed") <=> (st \in Final)
BY DEF Phase, RequestState, Live, Final

\* A step of the device, of a timer or of a failed write closes requests.
LEMMA SimulateClose ==
  ASSUME TypeOK, TypeOK', EmptyInv, [Next]_vars,
         UNCHANGED <<submitted, written>>
  PROVE  \E C \in SUBSET Seqs : Delivery!Close(C)
<1> DEFINE C == {s \in Seqs : /\ State(s) \notin Final
                              /\ requests'[s].state \in Final}
<1>1. ASSUME NEW s \in Seqs
      PROVE  /\ requests'[s].is_stop = requests[s].is_stop
             /\ s \in C => State(s) \in Live \cup {"SUPERSEDED"}
             /\ s \in C => requests'[s].state \in Final
             /\ s \notin C => Phase(requests'[s].state) = Phase(State(s))
  <2>1. RequestStep(s)
    BY RequestLife
  <2>2. ~Registers(s) /\ ~Withdrawn(s) /\ ~Sent(s)
    <3>1. written[s] \in Nat /\ written'[s] = written[s]
      BY DEF TypeOK
    <3>2. QED
      BY <3>1 DEF Registers, Withdrawn, Sent
  <2>3. /\ State(s) \in RequestState \cup {"NONE"}
        /\ requests'[s].state \in RequestState \cup {"NONE"}
    <3>1. requests[s] \in Request /\ requests'[s] \in Request
      BY DEF TypeOK
    <3>2. QED
      BY <3>1 DEF Request, State
  <2>4. CASE Stays(s)
    BY <2>4 DEF Stays, Keeps
  <2>5. CASE GivenUp(s) \/ Answered(s)
    BY <2>5 DEF GivenUp, Answered, Moves, Keeps, Live, Final
  <2>6. CASE Started(s) \/ Retried(s)
    <3>1. State(s) \in Live /\ requests'[s].state \in Live
      BY <2>6 DEF Started, Retried, Moves, Live
    <3>2. State(s) \notin Final /\ requests'[s].state \notin Final
      BY <3>1 DEF Live, Final
    <3>3. Phase(State(s)) = "open" /\ Phase(requests'[s].state) = "open"
      BY <2>3, <3>1, PhaseOf
    <3>4. requests'[s].is_stop = requests[s].is_stop
      BY <2>6 DEF Started, Retried, Keeps
    <3>5. QED
      BY <3>2, <3>3, <3>4
  <2>7. QED
    BY <2>1, <2>2, <2>4, <2>5, <2>6 DEF RequestStep
<1>2. \A s \in C : phaseBar[s] \in {"open", "withdrawn"}
  <2> SUFFICES ASSUME NEW s \in C
               PROVE  phaseBar[s] \in {"open", "withdrawn"}
    OBVIOUS
  <2>1. State(s) \in Live \cup {"SUPERSEDED"}
    BY <1>1
  <2>2. QED
    BY <2>1, PhaseOf DEF phaseBar, RequestState
<1>3. phaseBar' = [s \in Seqs |-> IF s \in C THEN "closed" ELSE phaseBar[s]]
  <2>1. \A s \in Seqs : Phase(requests'[s].state)
                          = IF s \in C THEN "closed" ELSE Phase(State(s))
    BY <1>1, PhaseOf DEF RequestState
  <2>2. phaseBar' = [s \in Seqs |-> Phase(requests'[s].state)]
    BY DEF phaseBar, State
  <2> HIDE DEF C
  <2>3. QED
    BY <2>1, <2>2 DEF phaseBar
<1>4. stopsBar' = stopsBar
  BY <1>1 DEF stopsBar
<1>5. QED
  <2>1. Delivery!Close(C)
    BY <1>2, <1>3, <1>4 DEF Delivery!Close
  <2>2. QED
    BY <2>1

\* A completed write is a Send, within the budget.
LEMMA SimulateSend ==
  ASSUME RefInv, TxSend
  PROVE  tx_frame \in Seqs /\ Delivery!Send(tx_frame)
<1>1. TypeOK /\ SendInv
  BY DEF RefInv, StopInv, TableInv
<1>2. tx_frame \in Seqs /\ State(tx_frame) \in {"QUEUED", "RETRY_QUEUED"}
  BY <1>1 DEF TxSend, TypeOK, should_transmit, State
<1>3. written[tx_frame] < 1 + MaxRetries
  <2>1. requests[tx_frame] \in Request /\ written[tx_frame] \in Nat
    BY <1>1, <1>2 DEF TypeOK
  <2>2. QED
    BY <1>1, <1>2, <2>1, RetryPolicyAssumption
       DEF RetryPolicyAssumption, SendInv, Request
<1>4. /\ requests'[tx_frame] = [requests[tx_frame] EXCEPT
                                  !.state = "WAITING_ACK", !.deadline = AckTimeout]
      /\ \A s \in Seqs : s /= tx_frame => requests'[s] = requests[s]
  BY <1>1, <1>2 DEF TxSend, mark_sent, State, TypeOK
<1>5. /\ requests'[tx_frame].state = "WAITING_ACK"
      /\ requests'[tx_frame].is_stop = requests[tx_frame].is_stop
  BY <1>1, <1>2, <1>4 DEF TypeOK, Request
<1>6. Phase(State(tx_frame)) = "open" /\ Phase("WAITING_ACK") = "open"
  BY <1>2, PhaseOf DEF RequestState, Live
<1>7. phaseBar' = phaseBar
  BY <1>4, <1>5, <1>6 DEF phaseBar, State
<1>8. stopsBar' = stopsBar
  BY <1>4, <1>5 DEF stopsBar
<1>9. QED
  BY <1>2, <1>3, <1>6, <1>7, <1>8 DEF Delivery!Send, TxSend, phaseBar

\* Registering a command is a Submit or a SubmitStop; when the SEQ is taken, a
\* STOP still withdraws and an ordinary command leaves no trace.
LEMMA SimulateRegister ==
  ASSUME RefInv, NEW is_stop \in BOOLEAN, RegisterCommand(is_stop)
  PROVE  Delivery!CDNext \/ UNCHANGED Delivery!cdVars
<1>1. TypeOK /\ EmptyInv
  BY DEF RefInv, StopInv, TableInv
<1>2. next_seq \in Seqs /\ written' = written
  BY <1>1 DEF TypeOK, RegisterCommand, Seqs
<1> DEFINE base == IF is_stop THEN cancel_non_stop(requests) ELSE requests
<1>3. requests' = start(base, next_seq, is_stop) /\ base \in [Seqs -> Request]
  BY <1>1, <1>2, PolicyType DEF RegisterCommand, TypeOK, AckStatus
<1>4. ASSUME NEW s \in Seqs
      PROVE  /\ base[s].is_stop = requests[s].is_stop
             /\ Phase(base[s].state) =
                  IF is_stop /\ phaseBar[s] = "open" /\ s \notin stopsBar
                  THEN "withdrawn" ELSE phaseBar[s]
  <2>1. requests[s] \in Request /\ State(s) \in RequestState \cup {"NONE"}
    BY <1>1 DEF TypeOK, Request, State
  <2>2. phaseBar[s] = Phase(State(s)) /\ (s \in stopsBar <=> requests[s].is_stop)
    BY DEF phaseBar, stopsBar
  <2>3. CASE is_stop /\ ~requests[s].is_stop /\ State(s) \in Live
    <3>1. base[s] = [requests[s] EXCEPT !.state = "SUPERSEDED"]
      BY <2>3 DEF cancel_non_stop, State
    <3>2. base[s].state = "SUPERSEDED" /\ base[s].is_stop = requests[s].is_stop
      BY <2>1, <3>1 DEF Request
    <3>3. Phase("SUPERSEDED") = "withdrawn"
      BY PhaseOf DEF RequestState
    <3>4. phaseBar[s] = "open"
      BY <2>1, <2>2, <2>3, PhaseOf
    <3>5. QED
      BY <2>2, <2>3, <3>2, <3>3, <3>4
  <2>4. CASE ~(is_stop /\ ~requests[s].is_stop /\ State(s) \in Live)
    <3>1. base[s] = requests[s]
      BY <2>4 DEF cancel_non_stop, State
    <3>2. ~(is_stop /\ phaseBar[s] = "open" /\ s \notin stopsBar)
      BY <2>1, <2>2, <2>4, PhaseOf
    <3>3. QED
      BY <2>2, <3>1, <3>2 DEF State
  <2>5. QED
    BY <2>3, <2>4
<1>5. (base[next_seq].state = "NONE") <=> (State(next_seq) = "NONE")
  BY <1>2 DEF cancel_non_stop, State, Live
<1> DEFINE after == [s \in Seqs |-> Phase(base[s].state)]
<1>6. after = IF is_stop THEN Delivery!WithdrawOrdinary ELSE phaseBar
  <2>1. CASE is_stop
    <3>1. after = [s \in Seqs |-> IF phaseBar[s] = "open" /\ s \notin stopsBar
                                  THEN "withdrawn" ELSE phaseBar[s]]
      BY <1>4, <2>1
    <3>2. QED
      BY <2>1, <3>1 DEF Delivery!WithdrawOrdinary, Delivery!OpenOrdinary
  <2>2. CASE ~is_stop
    BY <2>2 DEF phaseBar, State
  <2>3. QED
    BY <2>1, <2>2
<1> HIDE DEF base
<1>7. CASE State(next_seq) /= "NONE"
  <2>1. requests' = base
    BY <1>3, <1>5, <1>7 DEF start, Registered
  <2>2. phaseBar' = after
    BY <2>1 DEF phaseBar, State
  <2>3. stopsBar' = stopsBar
    BY <1>4, <2>1 DEF stopsBar
  <2>4. CASE is_stop
    <3>1. \A s \in Seqs : State(s) /= "NONE"
      BY <1>2, <1>7 DEF RefInv, FullInv, Registered, State
    <3>2. \A s \in Seqs : phaseBar[s] /= "unknown"
      <4> SUFFICES ASSUME NEW s \in Seqs
                   PROVE  phaseBar[s] /= "unknown"
        OBVIOUS
      <4>1. State(s) \in RequestState \cup {"NONE"}
        BY <1>1 DEF TypeOK, Request, State
      <4>2. QED
        BY <3>1, <4>1, PhaseOf DEF phaseBar
    <3>3. Delivery!RefusedStop
      BY <1>2, <1>6, <2>2, <2>3, <2>4, <3>2 DEF Delivery!RefusedStop
    <3>4. QED
      BY <3>3 DEF Delivery!CDNext
  <2>5. CASE ~is_stop
    BY <1>2, <1>6, <2>2, <2>3, <2>5 DEF Delivery!cdVars
  <2>6. QED
    BY <2>4, <2>5
<1>8. CASE State(next_seq) = "NONE"
  <2>1. /\ requests'[next_seq].state = "QUEUED"
        /\ requests'[next_seq].is_stop = is_stop
        /\ \A s \in Seqs : s /= next_seq => requests'[s] = base[s]
    BY <1>2, <1>3, <1>5, <1>8 DEF start, Registered, NoRequest
  <2>2. phaseBar[next_seq] = "unknown" /\ Phase("QUEUED") = "open"
    BY <1>2, <1>8, PhaseOf DEF phaseBar, RequestState, Live
  <2>3. phaseBar' = [after EXCEPT ![next_seq] = "open"]
    BY <1>2, <2>1, <2>2 DEF phaseBar, State
  <2>4. next_seq \notin stopsBar
    BY <1>1, <1>8 DEF stopsBar, EmptyInv
  <2>5. CASE is_stop
    <3>1. stopsBar' = stopsBar \cup {next_seq}
      BY <1>2, <1>4, <2>1, <2>5 DEF stopsBar
    <3>2. Delivery!SubmitStop(next_seq)
      BY <1>2, <1>6, <2>2, <2>3, <2>5, <3>1 DEF Delivery!SubmitStop
    <3>3. QED
      BY <1>2, <3>2 DEF Delivery!CDNext
  <2>6. CASE ~is_stop
    <3>1. stopsBar' = stopsBar
      BY <1>2, <1>4, <2>1, <2>4, <2>6 DEF stopsBar
    <3>2. Delivery!Submit(next_seq)
      BY <1>2, <1>6, <2>2, <2>3, <2>6, <3>1 DEF Delivery!Submit
    <3>3. QED
      BY <1>2, <3>2 DEF Delivery!CDNext
  <2>7. QED
    BY <2>5, <2>6
<1>9. QED
  BY <1>7, <1>8

\* The initial states of the node are initial states of the promise.
LEMMA SimulateInit == Init => Delivery!CDInit
<1> SUFFICES ASSUME Init PROVE Delivery!CDInit
  OBVIOUS
<1>1. \A s \in Seqs : State(s) = "NONE" /\ requests[s].is_stop = FALSE
  BY DEF Init, NoRequests, NoRequest, State
<1>2. Phase("NONE") = "unknown"
  BY PhaseOf
<1>3. phaseBar = [s \in Seqs |-> "unknown"]
  BY <1>1, <1>2 DEF phaseBar
<1>4. stopsBar = {}
  BY <1>1 DEF stopsBar
<1>5. written = [s \in Seqs |-> 0]
  BY DEF Init
<1>6. QED
  BY <1>3, <1>4, <1>5 DEF Delivery!CDInit

\* Every step of the node is a step of the promise or changes nothing of it.
LEMMA SimulateNext ==
  RefInv /\ RefInv' /\ [Next]_vars => [Delivery!CDNext]_(Delivery!cdVars)
<1> SUFFICES ASSUME RefInv, RefInv', [Next]_vars
             PROVE  Delivery!CDNext \/ UNCHANGED Delivery!cdVars
  OBVIOUS
<1>1. TypeOK /\ TypeOK' /\ EmptyInv
  BY DEF RefInv, StopInv, TableInv
<1>2. CASE \E is_stop \in BOOLEAN : RegisterCommand(is_stop)
  BY <1>2, SimulateRegister
<1>3. CASE TxSend
  BY <1>3, SimulateSend DEF Delivery!CDNext
<1>4. CASE SeqExhausted
  BY <1>4 DEF SeqExhausted, policy, Delivery!cdVars, phaseBar, stopsBar, State
<1>5. CASE UNCHANGED <<submitted, written>>
  BY <1>1, <1>5, SimulateClose DEF Delivery!CDNext
<1>6. QED
  BY <1>2, <1>3, <1>4, <1>5
     DEF Next, Callback, uart_tx_worker, uart_rx_worker, retry_worker,
     Destructor, Exited, vars, policy, callback, EnqueueCommand, TxWait, TxStop,
     TxPop, TxSkip, TxSendFailed, TxSpuriousWakeup, RxCheckStop, RxRead,
     RxError, RxLineAny, RxLine, RxInvalidLine, RetryCheckStop, RetryLookStop,
     RetryPoll, RetryEnqueue, RetryRest, DtorSetFlags, DtorStopWorker,
     DtorNotify, DtorJoinRetry, DtorJoinTx, DtorJoinRx, DtorClose, Tick

\* The node keeps the promise of CommandDelivery to its users.
THEOREM NodeImplementsDelivery == Spec => ImplementsDelivery
  BY SimulateInit, SimulateNext, RefInvariant, PTL
     DEF Spec, ImplementsDelivery, Delivery!CDSpec
----------------------------------------------------------------------------
(* No request is stranded.                                                  *)

InQueue(q, s) == \E i \in 1 .. Len(q) : q[i] = s

\* What a push and a pop do to the frames in the queue.
LEMMA QueueFrames ==
  ASSUME NEW q \in Seq(Seqs), NEW f \in Seqs, NEW s \in Seqs
  PROVE  /\ InQueue(Append(q, f), f)
         /\ InQueue(q, s) => InQueue(Append(q, f), s)
         /\ InQueue(<<f>> \o q, f)
         /\ InQueue(q, s) => InQueue(<<f>> \o q, s)
         /\ q /= <<>> /\ InQueue(q, s) => Head(q) = s \/ InQueue(Tail(q), s)
<1>1. InQueue(Append(q, f), f)
  <2>1. Len(q) + 1 \in 1 .. Len(Append(q, f)) /\ Append(q, f)[Len(q) + 1] = f
    OBVIOUS
  <2>2. QED
    BY <2>1 DEF InQueue
<1>2. InQueue(q, s) => InQueue(Append(q, f), s)
  BY DEF InQueue
<1>3. InQueue(<<f>> \o q, f)
  <2>1. 1 \in 1 .. Len(<<f>> \o q) /\ (<<f>> \o q)[1] = f
    OBVIOUS
  <2>2. QED
    BY <2>1 DEF InQueue
<1>4. InQueue(q, s) => InQueue(<<f>> \o q, s)
  <2> SUFFICES ASSUME NEW i \in 1 .. Len(q), q[i] = s
               PROVE  InQueue(<<f>> \o q, s)
    BY DEF InQueue
  <2>1. i + 1 \in 1 .. Len(<<f>> \o q) /\ (<<f>> \o q)[i + 1] = s
    OBVIOUS
  <2>2. QED
    BY <2>1 DEF InQueue
<1>5. q /= <<>> /\ InQueue(q, s) => Head(q) = s \/ InQueue(Tail(q), s)
  <2> SUFFICES ASSUME q /= <<>>, NEW i \in 1 .. Len(q), q[i] = s, Head(q) /= s
               PROVE  InQueue(Tail(q), s)
    BY DEF InQueue
  <2>1. i /= 1
    OBVIOUS
  <2>2. i - 1 \in 1 .. Len(Tail(q)) /\ Tail(q)[i - 1] = s
    BY <2>1
  <2>3. QED
    BY <2>2 DEF InQueue
<1>6. QED
  BY <1>1, <1>2, <1>3, <1>4, <1>5

\* A push adds no other frame and a pop adds none.
LEMMA FramesOfQueue ==
  ASSUME NEW q \in Seq(Seqs), NEW f \in Seqs, NEW s \in Seqs
  PROVE  /\ InQueue(Append(q, f), s) => s = f \/ InQueue(q, s)
         /\ InQueue(<<f>> \o q, s) => s = f \/ InQueue(q, s)
         /\ q /= <<>> /\ (Head(q) = s \/ InQueue(Tail(q), s)) => InQueue(q, s)
<1>1. InQueue(Append(q, f), s) => s = f \/ InQueue(q, s)
  BY DEF InQueue
<1>2. InQueue(<<f>> \o q, s) => s = f \/ InQueue(q, s)
  <2> SUFFICES ASSUME NEW i \in 1 .. Len(<<f>> \o q), (<<f>> \o q)[i] = s, s /= f
               PROVE  InQueue(q, s)
    BY DEF InQueue
  <2>1. i - 1 \in 1 .. Len(q) /\ q[i - 1] = s
    OBVIOUS
  <2>2. QED
    BY <2>1 DEF InQueue
<1>3. q /= <<>> /\ Head(q) = s => InQueue(q, s)
  <2> SUFFICES ASSUME q /= <<>>, Head(q) = s PROVE InQueue(q, s)
    OBVIOUS
  <2>1. 1 \in 1 .. Len(q) /\ q[1] = s
    OBVIOUS
  <2>2. QED
    BY <2>1 DEF InQueue
<1>4. q /= <<>> /\ InQueue(Tail(q), s) => InQueue(q, s)
  <2> SUFFICES ASSUME q /= <<>>, NEW i \in 1 .. Len(Tail(q)), Tail(q)[i] = s
               PROVE  InQueue(q, s)
    BY DEF InQueue
  <2>1. i + 1 \in 1 .. Len(q) /\ q[i + 1] = s
    OBVIOUS
  <2>2. QED
    BY <2>1 DEF InQueue
<1>5. QED
  BY <1>1, <1>2, <1>3, <1>4

\* The destructor's flags come before it takes the queue away, it never runs
\* inside the callback, and the retry thread forgets no frame between rounds.
FlagInv ==
  /\ rt_pc \notin {"frames", "enqueue"} => rt_frames = {}
  /\ stop_worker => retry_stop
  /\ dt_pc = "spin" => ~retry_stop
  /\ dt_pc /= "spin" => retry_stop
  /\ cb_frame /= None => dt_pc = "spin"

WayInv == TableInv /\ FlagInv /\ NoStrandedRequest

\* FlagInv is inductive.
LEMMA FlagInductive ==
  /\ Init => FlagInv
  /\ TypeOK /\ FlagInv /\ [Next]_vars => FlagInv'
<1>1. Init => FlagInv
  BY DEF Init, FlagInv
<1>2. ASSUME TypeOK, FlagInv, [Next]_vars
      PROVE  FlagInv'
  <2> USE <1>2 DEF FlagInv, callback, rt, flags
  <2>1. CASE SeqExhausted \/ EnqueueCommand
    BY <2>1 DEF SeqExhausted, EnqueueCommand
  <2>2. CASE \E is_stop \in BOOLEAN : RegisterCommand(is_stop)
    BY <2>2 DEF RegisterCommand, Accepting
  <2>3. CASE uart_tx_worker \/ TxSpuriousWakeup
    BY <2>3 DEF uart_tx_worker, TxWait, TxStop, TxPop, TxSkip, TxSend,
                TxSendFailed, TxSpuriousWakeup
  <2>4. CASE uart_rx_worker
    BY <2>4 DEF uart_rx_worker, RxCheckStop, RxRead, RxError, RxLineAny,
                RxLine, RxInvalidLine
  <2>5. CASE RetryCheckStop \/ RetryPoll \/ RetryLookStop \/ RetryRest
    BY <2>5 DEF RetryCheckStop, RetryLookStop, RetryPoll, RetryRest
  <2>6. CASE RetryEnqueue
    BY <2>6 DEF RetryEnqueue
  <2>7. CASE DtorSetFlags
    BY <2>7 DEF DtorSetFlags
  <2>8. CASE Destructor
    BY <2>8 DEF Destructor, DtorStopWorker, DtorNotify, DtorJoinRetry,
                DtorJoinTx, DtorJoinRx, DtorClose
  <2>9. CASE Tick
    BY <2>9 DEF Tick
  <2>10. CASE UNCHANGED vars
    BY <2>10 DEF vars
  <2>11. QED
    BY <2>1, <2>2, <2>3, <2>4, <2>5, <2>6, <2>7, <2>8, <2>9, <2>10
       DEF Next, Callback, retry_worker, Exited
<1>3. QED
  BY <1>1, <1>2

\* A step that keeps every frame on its way and makes no request wait for
\* transmission keeps NoStrandedRequest.
LEMMA NothingLost ==
  ASSUME NoStrandedRequest, ~retry_stop' => ~retry_stop,
         \A s \in Seqs : requests'[s].state \in {"QUEUED", "RETRY_QUEUED"}
           => \/ OnItsWay(s)'
              \/ /\ State(s) \in {"QUEUED", "RETRY_QUEUED"}
                 /\ OnItsWay(s) => OnItsWay(s)'
  PROVE  NoStrandedRequest'
BY DEF NoStrandedRequest, should_transmit, State

\* The threads pass every frame on before they forget it.
LEMMA WayInductive ==
  /\ Init => WayInv
  /\ WayInv /\ [Next]_vars => WayInv'
<1>1. Init => WayInv
  BY TableInductive, FlagInductive
     DEF Init, WayInv, NoStrandedRequest, should_transmit, NoRequests, NoRequest
<1>2. ASSUME WayInv, [Next]_vars
      PROVE  WayInv'
  <2>1. TypeOK /\ EmptyInv /\ TableInv' /\ FlagInv'
    BY <1>2, TableInductive, FlagInductive DEF WayInv, TableInv
  <2> SUFFICES NoStrandedRequest'
    BY <2>1 DEF WayInv
  <2>2. CASE retry_stop'
    BY <2>2 DEF NoStrandedRequest
  <2>3. CASE ~retry_stop'
    <3>1. ~retry_stop /\ ~stop_worker
      <4>1. dt_pc' = "spin"
        BY <2>1, <2>3 DEF FlagInv
      <4>2. dt_pc = "spin"
        BY <1>2, <4>1
           DEF Next, Callback, uart_tx_worker, uart_rx_worker, retry_worker,
           Destructor, Exited, vars, SeqExhausted, RegisterCommand,
           EnqueueCommand, TxWait, TxStop, TxPop, TxSkip, TxSend, TxSendFailed,
           TxSpuriousWakeup, RxCheckStop, RxRead, RxError, RxLineAny, RxLine,
           RxInvalidLine, RetryCheckStop, RetryLookStop, RetryPoll,
           RetryEnqueue, RetryRest, DtorSetFlags, DtorStopWorker, DtorNotify,
           DtorJoinRetry, DtorJoinTx, DtorJoinRx, DtorClose, Tick
      <4>3. QED
        BY <1>2, <4>2 DEF WayInv, FlagInv
    <3>2. NoStrandedRequest /\ FlagInv
      BY <1>2 DEF WayInv
    <3>3. \A s \in Seqs : RequestStep(s)
      BY <1>2, <2>1, RequestLife
    <3> USE <3>1, <3>2 DEF OnItsWay, State
    <3>4. CASE \E is_stop \in BOOLEAN : RegisterCommand(is_stop)
      <4>1. PICK is_stop \in BOOLEAN : RegisterCommand(is_stop)
        BY <3>4
      <4>2. cb_frame = None /\ next_seq \in Seqs
        BY <2>1, <4>1 DEF RegisterCommand, Accepting, TypeOK, Seqs
      <4>3. ASSUME NEW s \in Seqs,
                   requests'[s].state \in {"QUEUED", "RETRY_QUEUED"}
            PROVE  \/ cb_frame' = s
                   \/ State(s) \in {"QUEUED", "RETRY_QUEUED"}
        <5>1. CASE Registers(s)
          <6>1. s = next_seq /\ State(s) = "NONE"
            BY <5>1 DEF Registers, Moves
          <6>2. CASE is_stop
            BY <2>1, <4>1, <6>1, <6>2 DEF RegisterCommand, Registered, TypeOK,
               cancel_non_stop, Live
          <6>3. CASE ~is_stop
            BY <4>1, <6>1, <6>3 DEF RegisterCommand, Registered
          <6>4. QED
            BY <6>2, <6>3
        <5>2. CASE Retried(s)
          <6>1. requests'[s] = [NoRequest EXCEPT !.is_stop = is_stop,
                                                 !.state = "QUEUED"]
                \/ requests'[s] = requests[s]
                \/ requests'[s] = [requests[s] EXCEPT !.state = "SUPERSEDED"]
            BY <2>1, <4>1, <4>2 DEF RegisterCommand, start, cancel_non_stop,
               TypeOK
          <6>2. requests[s] \in Request
            BY <2>1 DEF TypeOK
          <6>3. QED
            BY <4>3, <5>2, <6>1, <6>2 DEF Retried, Moves, NoRequest, Request
        <5>3. QED
          BY <3>3, <4>3, <5>1, <5>2 DEF RequestStep, Stays, Withdrawn, Sent,
             GivenUp, Started, Answered, Moves, Final
      <4>4. QED
        BY <2>1, <4>1, <4>2, <4>3, NothingLost
           DEF RegisterCommand, tx, rt, None, Seqs
    <3>5. CASE EnqueueCommand
      <4>1. cb_frame \in Seqs
        BY <2>1, <3>5 DEF EnqueueCommand, TypeOK
      <4>2. /\ requests' = requests
            /\ UNCHANGED <<tx_frame, rt_frames>>
            /\ \/ queue' = Append(queue, cb_frame)
               \/ queue' = <<cb_frame>> \o queue
        BY <3>5 DEF EnqueueCommand, enqueue_uart_command, push, policy, rt
      <4>3. ASSUME NEW s \in Seqs, OnItsWay(s)
            PROVE  OnItsWay(s)'
        <5>1. /\ InQueue(queue', cb_frame)
              /\ InQueue(queue, s) => InQueue(queue', s)
          BY <2>1, <4>1, <4>2, QueueFrames, ZenonT(60) DEF TypeOK
        <5>2. QED
          BY <4>2, <4>3, <5>1 DEF InQueue
      <4>4. QED
        BY <4>2, <4>3, NothingLost
    <3>6. CASE RetryEnqueue
      <4>1. PICK f \in rt_frames : /\ enqueue_uart_command(f, FALSE)
                                   /\ rt_frames' = rt_frames \ {f}
        BY <3>6 DEF RetryEnqueue
      <4>2. f \in Seqs /\ queue' = Append(queue, f)
        BY <2>1, <4>1 DEF TypeOK, enqueue_uart_command, push
      <4>3. requests' = requests /\ UNCHANGED <<cb_frame, tx_frame>>
        BY <3>6 DEF RetryEnqueue, policy, callback
      <4>4. ASSUME NEW s \in Seqs, OnItsWay(s)
            PROVE  OnItsWay(s)'
        <5>1. /\ InQueue(queue', f)
              /\ InQueue(queue, s) => InQueue(queue', s)
          BY <2>1, <4>2, QueueFrames, ZenonT(60) DEF TypeOK
        <5>2. s = f \/ (s \in rt_frames => s \in rt_frames')
          BY <4>1
        <5>3. QED
          BY <4>3, <4>4, <5>1, <5>2 DEF OnItsWay, InQueue
      <4>5. QED
        BY <4>3, <4>4, NothingLost
    <3>7. CASE TxPop
      <4>1. /\ tx_frame' = Head(queue) /\ queue' = Tail(queue)
            /\ queue /= <<>> /\ tx_frame = None
            /\ UNCHANGED <<requests, cb_frame, rt_frames>>
        BY <2>1, <3>7 DEF TxPop, TypeOK, policy, callback, rt
      <4>2. ASSUME NEW s \in Seqs, OnItsWay(s)
            PROVE  OnItsWay(s)'
        <5>1. InQueue(queue, s) => tx_frame' = s \/ InQueue(queue', s)
          BY <2>1, <4>1, QueueFrames DEF TypeOK
        <5>2. s /= tx_frame
          BY <4>1 DEF None, Seqs
        <5>3. QED
          BY <4>1, <4>2, <5>1, <5>2 DEF InQueue
      <4>3. QED
        BY <4>1, <4>2, NothingLost
    <3>8. CASE TxSkip
      <4>1. \A s \in Seqs : should_transmit(requests, s) => s /= tx_frame
        BY <3>8 DEF TxSkip
      <4>2. QED
        BY <3>8, <4>1 DEF TxSkip, NoStrandedRequest, policy, callback, rt
    <3>9. CASE TxSend \/ TxSendFailed
      <4>1. tx_frame \in Seqs
        BY <2>1, <3>9 DEF TxSend, TxSendFailed, TypeOK
      <4>2. /\ requests'[tx_frame].state \notin {"QUEUED", "RETRY_QUEUED"}
            /\ \A s \in Seqs : s /= tx_frame => requests'[s] = requests[s]
        BY <2>1, <3>9, <4>1 DEF TxSend, TxSendFailed, mark_sent,
           mark_send_failed, should_transmit, TypeOK, Request
      <4>3. UNCHANGED <<cb_frame, rt_frames, queue>>
        BY <3>9 DEF TxSend, TxSendFailed, callback, rt
      <4>4. QED
        BY <4>2, <4>3, NothingLost
    <3>10. CASE RetryPoll
      <4>1. rt_frames = {} /\ UNCHANGED <<cb_frame, tx_frame, queue>>
        BY <3>10 DEF RetryPoll, FlagInv, callback, tx
      <4>2. ASSUME NEW s \in Seqs,
                   requests'[s].state \in {"QUEUED", "RETRY_QUEUED"}
            PROVE  s \in rt_frames' \/ State(s) \in {"QUEUED", "RETRY_QUEUED"}
        <5>1. requests'[s] = PollRequest(requests[s]) /\ requests[s] \in Request
          BY <2>1, <3>10 DEF RetryPoll, poll, TypeOK
        <5>2. RetryDue(requests[s]) => s \in rt_frames'
          BY <3>10 DEF RetryPoll, PollOutput
        <5>3. ~RetryDue(requests[s])
                => \/ requests'[s] = requests[s]
                   \/ requests'[s] = [requests[s] EXCEPT !.state = "RESULT_UNKNOWN"]
          BY <5>1, RetryPolicyAssumption
             DEF RetryPolicyAssumption, PollRequest, RetryDue, Request
        <5>4. QED
          BY <4>2, <5>1, <5>2, <5>3 DEF Request
      <4>3. QED
        BY <4>1, <4>2, NothingLost
    <3>11. CASE RxLineAny \/ Tick
      <4>1. UNCHANGED <<cb_frame, tx_frame, rt_frames, queue>>
        BY <3>11 DEF RxLineAny, RxLine, Tick, callback, tx, rt
      <4>2. UNCHANGED submitted /\ rt_pc' = rt_pc
        BY <3>11 DEF RxLineAny, RxLine, Tick, callback, rt
      <4>3. ASSUME NEW s \in Seqs,
                   requests'[s].state \in {"QUEUED", "RETRY_QUEUED"}
            PROVE  State(s) \in {"QUEUED", "RETRY_QUEUED"}
        <5>1. CASE Tick
          BY <2>1, <4>3, <5>1 DEF Tick, Elapse, TypeOK, Request
        <5>2. CASE RxLineAny
          <6>1. PICK a \in Seqs, status \in AckStatus, own \in BOOLEAN :
                  RxLine(a, status, own)
            BY <5>2 DEF RxLineAny
          <6>2. AckOutcome(status) \notin {"QUEUED", "RETRY_QUEUED"}
            BY DEF AckOutcome, AckStatus
          <6>3. QED
            BY <2>1, <4>3, <6>1, <6>2 DEF RxLine, on_ack, TypeOK, Request
        <5>3. QED
          BY <3>11, <5>1, <5>2
      <4>4. QED
        BY <4>1, <4>3, NothingLost
    <3>12. CASE UNCHANGED <<requests, cb_frame, tx_frame, rt_frames, queue>>
      BY <3>12 DEF NoStrandedRequest
    <3>13. CASE RetryRest
      <4>1. UNCHANGED <<requests, cb_frame, tx_frame, rt_frames, queue>>
        BY <3>13 DEF RetryRest, policy, callback, tx
      <4>2. QED
        BY <3>12, <4>1
    <3>14. CASE DtorSetFlags \/ Destructor
      <4>1. retry_stop'
        BY <1>2, <3>14 DEF DtorSetFlags, Destructor, DtorStopWorker, DtorNotify,
           DtorJoinRetry, DtorJoinTx, DtorJoinRx, DtorClose, flags, WayInv,
           FlagInv
      <4>2. QED
        BY <2>3, <4>1
    <3>15. CASE SeqExhausted \/ TxWait \/ TxStop \/ TxSpuriousWakeup
                \/ RxCheckStop \/ RxRead \/ RxError \/ RxInvalidLine
                \/ RetryCheckStop \/ RetryLookStop \/ UNCHANGED vars
      <4>1. UNCHANGED <<requests, cb_frame, tx_frame, rt_frames, queue>>
        BY <3>15 DEF SeqExhausted, TxWait, TxStop, TxSpuriousWakeup,
           RxCheckStop, RxRead, RxError, RxInvalidLine, RetryCheckStop,
           RetryLookStop, vars, policy, callback, tx, rt
      <4>2. QED
        BY <3>12, <4>1
    <3>16. QED
      BY <1>2, <3>4, <3>5, <3>6, <3>7, <3>8, <3>9, <3>10, <3>11, <3>13, <3>14,
         <3>15
         DEF Next, Callback, uart_tx_worker, uart_rx_worker, retry_worker, Exited
  <2>4. QED
    BY <2>2, <2>3
<1>3. QED
  BY <1>1, <1>2

\* A request that waits to be transmitted is on its way to the transmit
\* thread, in every interleaving, until the node is shut down.
THEOREM NoRequestStranded == Spec => []NoStrandedRequest
<1>1. WayInv => NoStrandedRequest
  BY DEF WayInv
<1>2. Spec => []WayInv
  BY WayInductive, PTL DEF Spec
<1>3. QED
  BY <1>1, <1>2, PTL
----------------------------------------------------------------------------
(* The frames a step moves.                                                 *)

FramesRest == UNCHANGED <<cb_frame, tx_frame, rt_frames, queue>>

FrameCreated ==
  /\ cb_frame = None /\ cb_frame' = next_seq
  /\ next_seq \in Seqs /\ State(next_seq) = "NONE"
  /\ requests'[next_seq].state = "QUEUED"
  /\ UNCHANGED <<tx_frame, rt_frames, queue>>

CommandPushed ==
  /\ cb_frame \in Seqs /\ cb_frame' = None
  /\ queue' = IF requests[cb_frame].is_stop THEN <<cb_frame>> \o queue
              ELSE Append(queue, cb_frame)
  /\ UNCHANGED <<tx_frame, rt_frames>>

RetryPushed(f) ==
  /\ f \in rt_frames /\ rt_frames' = rt_frames \ {f}
  /\ queue' \in {queue, Append(queue, f)}
  /\ UNCHANGED <<cb_frame, tx_frame>>

FramePopped ==
  /\ queue /= <<>> /\ queue' = Tail(queue)
  /\ tx_frame = None /\ tx_frame' = Head(queue)
  /\ UNCHANGED <<cb_frame, rt_frames>>

FrameWritten ==
  /\ tx_frame \in Seqs /\ tx_frame' = None
  /\ written' = [written EXCEPT ![tx_frame] = @ + 1]
  /\ UNCHANGED <<cb_frame, rt_frames, queue>>

FrameDropped ==
  \/ tx_frame' = None /\ UNCHANGED <<cb_frame, rt_frames, queue>>
  \/ rt_frames' = {} /\ UNCHANGED <<cb_frame, tx_frame, queue>>
  \/ queue' = <<>> /\ UNCHANGED <<cb_frame, tx_frame, rt_frames>>

RetriesPolled ==
  /\ rt_frames = {} /\ rt_frames' = PollOutput(requests)
  /\ requests' = poll(requests)
  /\ UNCHANGED <<cb_frame, tx_frame, queue>>

FrameStep ==
  \/ /\ written' = written
     /\ \/ FramesRest \/ FrameCreated \/ CommandPushed \/ FramePopped
        \/ FrameDropped \/ RetriesPolled
        \/ \E f \in Seqs : RetryPushed(f)
  \/ FrameWritten

\* Every step of every thread moves frames in one of these ways.
LEMMA FrameSteps ==
  ASSUME TypeOK, FlagInv, [Next]_vars
  PROVE  FrameStep
<1> USE DEF FrameStep
<1>1. ASSUME NEW is_stop \in BOOLEAN, RegisterCommand(is_stop)
      PROVE  FrameStep
  <2>1. cb_frame = None /\ next_seq \in Seqs /\ written' = written
    BY <1>1 DEF RegisterCommand, Accepting, TypeOK, Seqs
  <2>2. UNCHANGED <<tx_frame, rt_frames, queue>>
    BY <1>1 DEF RegisterCommand, tx, rt
  <2> DEFINE base == IF is_stop THEN cancel_non_stop(requests) ELSE requests
  <2>3. /\ base \in [Seqs -> Request]
        /\ requests' = start(base, next_seq, is_stop)
        /\ cb_frame' = IF Registered(base, next_seq) THEN cb_frame ELSE next_seq
    BY <1>1, <2>1, PolicyType DEF RegisterCommand, TypeOK, AckStatus
  <2>4. base[next_seq].state = "NONE" => State(next_seq) = "NONE"
    <3>1. requests[next_seq] \in Request
      BY <2>1 DEF TypeOK
    <3>2. QED
      BY <2>1, <3>1 DEF cancel_non_stop, State, Request
  <2> HIDE DEF base
  <2>5. base[next_seq].state = "NONE" => requests'[next_seq].state = "QUEUED"
    BY <2>1, <2>3 DEF start, Registered, NoRequest
  <2>6. QED
    BY <2>1, <2>2, <2>3, <2>4, <2>5 DEF FramesRest, FrameCreated, Registered
<1>2. CASE EnqueueCommand
  <2>1. cb_frame \in Seqs /\ ~stop_worker
    BY <1>2 DEF EnqueueCommand, TypeOK, FlagInv
  <2>2. CommandPushed /\ written' = written
    BY <1>2, <2>1 DEF EnqueueCommand, enqueue_uart_command, push, policy, rt,
       CommandPushed
  <2>3. QED
    BY <2>2
<1>3. CASE TxPop
  BY <1>3 DEF TxPop, TypeOK, policy, callback, rt, FramePopped
<1>4. CASE TxSkip \/ TxSendFailed
  BY <1>4 DEF TxSkip, TxSendFailed, policy, callback, rt, FrameDropped
<1>5. CASE TxSend
  BY <1>5 DEF TxSend, TypeOK, callback, rt, FrameWritten
<1>6. CASE RetryEnqueue
  <2>1. PICK f \in rt_frames : /\ enqueue_uart_command(f, FALSE)
                               /\ rt_frames' = rt_frames \ {f}
    BY <1>6 DEF RetryEnqueue
  <2>2. f \in Seqs /\ written' = written /\ UNCHANGED <<cb_frame, tx_frame>>
    BY <1>6 DEF RetryEnqueue, TypeOK, policy, callback
  <2>3. RetryPushed(f)
    BY <2>1, <2>2 DEF RetryPushed, enqueue_uart_command, push
  <2>4. QED
    BY <2>2, <2>3
<1>7. CASE RetryPoll
  BY <1>7 DEF RetryPoll, FlagInv, callback, tx, RetriesPolled
<1>8. CASE RetryRest
  BY <1>8 DEF RetryRest, policy, callback, tx, FrameDropped
<1>9. CASE DtorStopWorker
  BY <1>9 DEF DtorStopWorker, policy, callback, tx, rt, FrameDropped
<1>10. CASE UNCHANGED <<written, cb_frame, tx_frame, rt_frames, queue>>
  BY <1>10 DEF FramesRest
<1>11. CASE RxLineAny \/ Tick
  <2>1. UNCHANGED <<written, cb_frame, tx_frame, rt_frames, queue>>
    BY <1>11 DEF RxLineAny, RxLine, Tick, callback, tx, rt
  <2>2. QED
    BY <1>10, <2>1
<1>12. CASE SeqExhausted \/ TxWait \/ TxStop \/ TxSpuriousWakeup
            \/ RxCheckStop \/ RxRead \/ RxError \/ RxInvalidLine
            \/ RetryCheckStop \/ RetryLookStop \/ UNCHANGED vars
  <2>1. UNCHANGED <<written, cb_frame, tx_frame, rt_frames, queue>>
    BY <1>12 DEF SeqExhausted, TxWait, TxStop, TxSpuriousWakeup, RxCheckStop,
       RxRead, RxError, RxInvalidLine, RetryCheckStop, RetryLookStop, vars,
       policy, callback, tx, rt
  <2>2. QED
    BY <1>10, <2>1
<1>13. CASE DtorSetFlags \/ DtorNotify \/ DtorJoinRetry \/ DtorJoinTx
            \/ DtorJoinRx \/ DtorClose
  <2>1. UNCHANGED <<written, cb_frame, tx_frame, rt_frames, queue>>
    BY <1>13 DEF DtorSetFlags, DtorNotify, DtorJoinRetry, DtorJoinTx,
       DtorJoinRx, DtorClose, policy, callback, tx, rt
  <2>2. QED
    BY <1>10, <2>1
<1>14. QED
  BY <1>1, <1>2, <1>3, <1>4, <1>5, <1>6, <1>7, <1>8, <1>9, <1>11, <1>12, <1>13
     DEF Next, Callback, uart_tx_worker, uart_rx_worker, retry_worker,
         Destructor, Exited

\* A frame exists only for a registered command, and what poll returned has
\* been sent before.
FrameInv ==
  \A s \in Seqs : /\ State(s) = "NONE" => ~OnItsWay(s)
                  /\ s \in rt_frames => State(s) /= "QUEUED"

\* FrameInv is inductive.
LEMMA FrameInductive ==
  /\ Init => FrameInv
  /\ TableInv /\ FlagInv /\ FrameInv /\ [Next]_vars => FrameInv'
<1>1. Init => FrameInv
  BY DEF Init, FrameInv, OnItsWay, None, Seqs
<1>2. ASSUME TableInv, FlagInv, FrameInv, [Next]_vars
      PROVE  FrameInv'
  <2>1. TypeOK /\ FrameStep
    BY <1>2, FrameSteps DEF TableInv
  <2> SUFFICES ASSUME NEW s \in Seqs
               PROVE  /\ State(s)' = "NONE" => ~OnItsWay(s)'
                      /\ s \in rt_frames' => State(s)' /= "QUEUED"
    BY DEF FrameInv
  <2>2. RequestStep(s)
    BY <1>2, RequestLife DEF TableInv
  <2>3. /\ State(s)' = "NONE" => State(s) = "NONE"
        /\ State(s)' = "QUEUED" => State(s) \in {"NONE", "QUEUED"}
    BY <2>2 DEF RequestStep, Stays, Registers, Withdrawn, Sent, GivenUp,
       Started, Answered, Retried, Moves, State, Live, Final
  <2>4. /\ State(s) = "NONE" => ~OnItsWay(s)
        /\ s \in rt_frames => State(s) \notin {"NONE", "QUEUED"}
    BY <1>2 DEF FrameInv, OnItsWay
  <2>5. CASE RetriesPolled
    <3>1. s \in rt_frames' => State(s)' = "RETRY_QUEUED"
      <4>1. /\ requests'[s] = PollRequest(requests[s])
            /\ requests[s] \in Request
            /\ s \in rt_frames' => RetryDue(requests[s])
        BY <2>1, <2>5 DEF RetriesPolled, PollOutput, poll, TypeOK
      <4>2. QED
        BY <4>1, RetryPolicyAssumption DEF RetryPolicyAssumption, PollRequest,
           RetryDue, Request, State
    <3>2. QED
      BY <2>3, <2>4, <2>5, <3>1 DEF RetriesPolled, OnItsWay
  <2>6. CASE FrameCreated
    BY <2>3, <2>4, <2>6 DEF FrameCreated, OnItsWay, State
  <2>7. ASSUME rt_frames' \subseteq rt_frames, OnItsWay(s)' => OnItsWay(s)
        PROVE  /\ State(s)' = "NONE" => ~OnItsWay(s)'
               /\ s \in rt_frames' => State(s)' /= "QUEUED"
    BY <2>3, <2>4, <2>7
  <2>8. CASE CommandPushed
    <3>1. InQueue(queue', s) => s = cb_frame \/ InQueue(queue, s)
      BY <2>1, <2>8, FramesOfQueue DEF CommandPushed, TypeOK
    <3>2. QED
      BY <2>7, <2>8, <3>1 DEF CommandPushed, OnItsWay, InQueue, None, Seqs
  <2>9. CASE FramePopped
    <3>1. (tx_frame' = s \/ InQueue(queue', s)) => InQueue(queue, s)
      BY <2>1, <2>9, FramesOfQueue DEF FramePopped, TypeOK
    <3>2. QED
      BY <2>7, <2>9, <3>1 DEF FramePopped, OnItsWay, InQueue
  <2>10. CASE FrameDropped \/ FrameWritten \/ FramesRest
    BY <2>7, <2>10 DEF FrameDropped, FrameWritten, FramesRest, OnItsWay, None, Seqs
  <2>11. ASSUME NEW f \in Seqs, RetryPushed(f)
         PROVE  /\ State(s)' = "NONE" => ~OnItsWay(s)'
                /\ s \in rt_frames' => State(s)' /= "QUEUED"
    <3>1. InQueue(queue', s) => s = f \/ InQueue(queue, s)
      <4>1. queue \in Seq(Seqs)
        BY <2>1 DEF TypeOK
      <4>2. queue' = queue \/ queue' = Append(queue, f)
        BY <2>11 DEF RetryPushed
      <4>3. InQueue(Append(queue, f), s) => s = f \/ InQueue(queue, s)
        BY <4>1, FramesOfQueue
      <4>4. QED
        BY <4>2, <4>3
    <3>2. QED
      BY <2>7, <2>11, <3>1 DEF RetryPushed, OnItsWay, InQueue
  <2>12. QED
    BY <2>1, <2>5, <2>6, <2>8, <2>9, <2>10, <2>11 DEF FrameStep
<1>3. QED
  BY <1>1, <1>2

FramesInv == TableInv /\ FlagInv /\ FrameInv

\* A STOP that was never sent is behind no ordinary command: the callback puts
\* it in front, and a retry that goes to the back has been sent.
LEMMA FreshStopStep ==
  FramesInv /\ FreshStopFirst /\ [Next]_vars => FreshStopFirst'
<1> SUFFICES ASSUME FramesInv, FreshStopFirst, [Next]_vars
             PROVE  FreshStopFirst'
  OBVIOUS
<1>1. TypeOK /\ FrameStep
  BY FrameSteps DEF FramesInv, TableInv
<1> DEFINE Fresh(s) == requests'[s].is_stop /\ requests'[s].state = "QUEUED"
<1>2. ASSUME NEW s \in Seqs, State(s) /= "NONE"
      PROVE  /\ requests'[s].is_stop = requests[s].is_stop
             /\ Fresh(s) => requests[s].is_stop /\ State(s) = "QUEUED"
  <2>1. RequestStep(s)
    BY RequestLife DEF FramesInv, TableInv
  <2>2. QED
    BY <1>2, <2>1 DEF RequestStep, Stays, Registers, Withdrawn, Sent, GivenUp,
       Started, Answered, Retried, Moves, Keeps, State, Live, Final
<1>3. \A i \in 1 .. Len(queue) : queue[i] \in Seqs /\ State(queue[i]) /= "NONE"
  BY <1>1 DEF TypeOK, FramesInv, FrameInv, OnItsWay
<1>4. ASSUME NEW i \in 1 .. Len(queue), NEW j \in 1 .. Len(queue), i < j,
             Fresh(queue[j])
      PROVE  requests'[queue[i]].is_stop
  BY <1>2, <1>3, <1>4 DEF FreshStopFirst
<1>5. CASE queue' = queue
  BY <1>4, <1>5 DEF FreshStopFirst, State
<1>6. CASE queue' = <<>>
  BY <1>6 DEF FreshStopFirst
<1>7. CASE FramePopped
  <2> SUFFICES ASSUME NEW i \in 1 .. Len(Tail(queue)),
                      NEW j \in 1 .. Len(Tail(queue)), i < j,
                      Fresh(Tail(queue)[j])
               PROVE  requests'[Tail(queue)[i]].is_stop
    BY <1>7 DEF FreshStopFirst, FramePopped, State
  <2>1. /\ i + 1 \in 1 .. Len(queue) /\ Tail(queue)[i] = queue[i + 1]
        /\ j + 1 \in 1 .. Len(queue) /\ Tail(queue)[j] = queue[j + 1]
    BY <1>1, <1>7 DEF FramePopped, TypeOK
  <2>2. i + 1 < j + 1
    OBVIOUS
  <2>3. QED
    BY <1>4, <2>1, <2>2
<1>8. ASSUME NEW f \in Seqs, queue' = <<f>> \o queue, requests'[f].is_stop
      PROVE  FreshStopFirst'
  <2> SUFFICES ASSUME NEW i \in 1 .. Len(<<f>> \o queue),
                      NEW j \in 1 .. Len(<<f>> \o queue), i < j,
                      Fresh((<<f>> \o queue)[j])
               PROVE  requests'[(<<f>> \o queue)[i]].is_stop
    BY <1>8 DEF FreshStopFirst, State
  <2>1. queue \in Seq(Seqs)
    BY <1>1 DEF TypeOK
  <2>2. CASE i = 1
    BY <1>8, <2>1, <2>2
  <2>3. CASE i /= 1
    <3>1. /\ i - 1 \in 1 .. Len(queue) /\ (<<f>> \o queue)[i] = queue[i - 1]
          /\ j - 1 \in 1 .. Len(queue) /\ (<<f>> \o queue)[j] = queue[j - 1]
          /\ i - 1 < j - 1
      BY <2>1, <2>3
    <3>2. QED
      BY <1>4, <3>1
  <2>4. QED
    BY <2>2, <2>3
<1>9. ASSUME NEW f \in Seqs, queue' = Append(queue, f), ~Fresh(f)
      PROVE  FreshStopFirst'
  <2> SUFFICES ASSUME NEW i \in 1 .. Len(Append(queue, f)),
                      NEW j \in 1 .. Len(Append(queue, f)), i < j,
                      Fresh(Append(queue, f)[j])
               PROVE  requests'[Append(queue, f)[i]].is_stop
    BY <1>9 DEF FreshStopFirst, State
  <2>1. queue \in Seq(Seqs)
    BY <1>1 DEF TypeOK
  <2>2. j /= Len(queue) + 1
    BY <1>9, <2>1
  <2>3. /\ i \in 1 .. Len(queue) /\ Append(queue, f)[i] = queue[i]
        /\ j \in 1 .. Len(queue) /\ Append(queue, f)[j] = queue[j]
    BY <2>1, <2>2
  <2>4. QED
    BY <1>4, <2>3
<1>10. CASE CommandPushed
  <2>1. cb_frame \in Seqs /\ State(cb_frame) /= "NONE"
    BY <1>10 DEF CommandPushed, FramesInv, FrameInv, OnItsWay
  <2>2. CASE requests[cb_frame].is_stop
    BY <1>2, <1>8, <1>10, <2>1, <2>2 DEF CommandPushed
  <2>3. CASE ~requests[cb_frame].is_stop
    BY <1>2, <1>9, <1>10, <2>1, <2>3 DEF CommandPushed
  <2>4. QED
    BY <2>2, <2>3
<1>11. ASSUME NEW f \in Seqs, RetryPushed(f)
       PROVE  FreshStopFirst'
  <2>1. State(f) \notin {"NONE", "QUEUED"}
    BY <1>11 DEF RetryPushed, FramesInv, FrameInv, OnItsWay
  <2>2. ~Fresh(f)
    BY <1>2, <2>1
  <2>3. queue' = queue \/ queue' = Append(queue, f)
    BY <1>11 DEF RetryPushed
  <2>4. QED
    BY <1>5, <1>9, <2>2, <2>3
<1>12. QED
  BY <1>1, <1>5, <1>6, <1>7, <1>10, <1>11
     DEF FrameStep, FramesRest, FrameCreated, FrameDropped, FrameWritten,
         RetriesPolled

\* The frames belong to registered commands in every reachable state.
LEMMA FramesInvariant == Spec => []FramesInv
<1>1. Init => FramesInv
  BY TableInductive, FlagInductive, FrameInductive DEF FramesInv
<1>2. FramesInv /\ [Next]_vars => FramesInv'
  BY TableInductive, FlagInductive, FrameInductive DEF FramesInv, TableInv
<1>3. QED
  BY <1>1, <1>2, PTL DEF Spec

\* Ahead of a STOP that was not yet sent there are only STOPs in the queue,
\* whatever the retry thread pushes in the meantime.
THEOREM FreshStopsGoFirst == Spec => []FreshStopFirst
<1>1. Init => FreshStopFirst
  BY DEF Init, FreshStopFirst
<1>2. QED
  BY <1>1, FramesInvariant, FreshStopStep, PTL DEF Spec
----------------------------------------------------------------------------
(* Frames are paid for.  Occurrences is a cardinality, so that a push and a  *)
(* pop are a bijection and one element more or less, with no induction.      *)

Places(q, s) == {i \in 1 .. Len(q) : q[i] = s}

\* A queue holds finitely many frames, an empty one none.
LEMMA OccurrencesType ==
  ASSUME NEW q \in Seq(Seqs), NEW s \in Seqs
  PROVE  /\ IsFiniteSet(Places(q, s))
         /\ Occurrences(q, s) = Cardinality(Places(q, s))
         /\ Occurrences(q, s) \in Nat
         /\ ~InQueue(q, s) => Occurrences(q, s) = 0
<1>1. IsFiniteSet(1 .. Len(q)) /\ Places(q, s) \subseteq 1 .. Len(q)
  BY FS_Interval DEF Places
<1>2. IsFiniteSet(Places(q, s))
  BY <1>1, FS_Subset
<1>3. Occurrences(q, s) = Cardinality(Places(q, s))
  BY DEF Occurrences, Places
<1>4. Cardinality(Places(q, s)) \in Nat
  BY <1>2, FS_CardinalityType
<1>5. ~InQueue(q, s) => Places(q, s) = {}
  BY DEF InQueue, Places
<1>6. QED
  BY <1>2, <1>3, <1>4, <1>5, FS_EmptySet

\* A push to the back adds one occurrence of its frame.
LEMMA OccurrencesAppend ==
  ASSUME NEW q \in Seq(Seqs), NEW f \in Seqs, NEW s \in Seqs
  PROVE  Occurrences(Append(q, f), s) = Occurrences(q, s) + One(f = s)
<1>1. Places(Append(q, f), s)
        = IF f = s THEN Places(q, s) \cup {Len(q) + 1} ELSE Places(q, s)
  BY DEF Places
<1>2. Len(q) + 1 \notin Places(q, s)
  BY DEF Places
<1>3. Append(q, f) \in Seq(Seqs)
  OBVIOUS
<1>4. IsFiniteSet(Places(q, s))
  BY OccurrencesType
<1>5. Cardinality(Places(q, s) \cup {Len(q) + 1}) = Cardinality(Places(q, s)) + 1
  BY <1>2, <1>4, FS_AddElement
<1>6. /\ Occurrences(Append(q, f), s) = Cardinality(Places(Append(q, f), s))
      /\ Occurrences(q, s) = Cardinality(Places(q, s))
      /\ Occurrences(q, s) \in Nat
  BY <1>3, OccurrencesType
<1>7. QED
  BY <1>1, <1>5, <1>6 DEF One

\* So does a push to the front, which shifts the others.
LEMMA OccurrencesFront ==
  ASSUME NEW q \in Seq(Seqs), NEW f \in Seqs, NEW s \in Seqs
  PROVE  Occurrences(<<f>> \o q, s) = Occurrences(q, s) + One(f = s)
<1> DEFINE P == Places(q, s)
           Shifted == {i \in 2 .. Len(q) + 1 : q[i - 1] = s}
           shift == [i \in P |-> i + 1]
<1>1. IsFiniteSet(P) /\ Cardinality(P) \in Nat
  BY OccurrencesType
<1>2. shift \in Bijection(P, Shifted)
  <2>1. shift \in [P -> Shifted]
    BY DEF Places
  <2>2. \A i, j \in P : shift[i] = shift[j] => i = j
    BY DEF Places
  <2>3. \A k \in Shifted : \E i \in P : shift[i] = k
    <3> SUFFICES ASSUME NEW k \in Shifted
                 PROVE  \E i \in P : shift[i] = k
      OBVIOUS
    <3>1. k - 1 \in P /\ shift[k - 1] = k
      BY DEF Places
    <3>2. QED
      BY <3>1
  <2> HIDE DEF P, Shifted, shift
  <2>4. QED
    BY <2>1, <2>2, <2>3 DEF Bijection, Injection, IsInjective, Surjection
<1>3. IsFiniteSet(Shifted) /\ Cardinality(Shifted) = Cardinality(P)
  <2>1. ExistsBijection(P, Shifted)
    BY <1>2 DEF ExistsBijection
  <2> HIDE DEF P, Shifted
  <2>2. QED
    BY <1>1, <2>1, FS_Bijection
<1>4. Places(<<f>> \o q, s) = IF f = s THEN Shifted \cup {1} ELSE Shifted
  <2>1. \A i \in 1 .. Len(q) + 1 :
          (<<f>> \o q)[i] = IF i = 1 THEN f ELSE q[i - 1]
    OBVIOUS
  <2>2. Len(<<f>> \o q) = Len(q) + 1
    OBVIOUS
  <2>3. QED
    BY <2>1, <2>2 DEF Places
<1>5. 1 \notin Shifted
  OBVIOUS
<1>6. /\ Occurrences(<<f>> \o q, s) = Cardinality(Places(<<f>> \o q, s))
      /\ Occurrences(q, s) = Cardinality(P)
  BY DEF Occurrences, Places
<1> HIDE DEF P, Shifted
<1>7. Cardinality(Shifted \cup {1}) = Cardinality(Shifted) + 1
  BY <1>3, <1>5, FS_AddElement
<1>8. QED
  BY <1>1, <1>3, <1>4, <1>6, <1>7 DEF One

\* A pop takes one occurrence of the frame at the head.
LEMMA OccurrencesTail ==
  ASSUME NEW q \in Seq(Seqs), q /= <<>>, NEW s \in Seqs
  PROVE  Occurrences(q, s) = Occurrences(Tail(q), s) + One(Head(q) = s)
<1> DEFINE h == Head(q)
           t == Tail(q)
<1>1. h \in Seqs /\ t \in Seq(Seqs) /\ q = <<h>> \o t
  OBVIOUS
<1> HIDE DEF h, t
<1>2. Occurrences(<<h>> \o t, s) = Occurrences(t, s) + One(h = s)
  BY <1>1, OccurrencesFront
<1>3. QED
  BY <1>1, <1>2 DEF h, t

\* No step makes a frame that is not paid for.
LEMMA FrameBudgetStep ==
  FramesInv /\ FrameBudget /\ [Next]_vars => FrameBudget'
<1> SUFFICES ASSUME FramesInv, FrameBudget, [Next]_vars, NEW s \in Seqs
             PROVE  Copies(s)' + written'[s] <= 1 + requests'[s].retries_used
  BY DEF FrameBudget
<1> DEFINE used == requests[s].retries_used
           occ == Occurrences(queue, s)
<1>1. TypeOK /\ TypeOK' /\ FrameStep
  BY FrameSteps, NextType DEF FramesInv, TableInv
<1>2. used \in Nat /\ written[s] \in Nat
  <2>1. requests[s] \in Request /\ written[s] \in Nat
    BY <1>1 DEF TypeOK
  <2>2. QED
    BY <2>1, RetryPolicyAssumption DEF RetryPolicyAssumption, Request
<1>3. queue \in Seq(Seqs) /\ queue' \in Seq(Seqs) /\ s /= None
  BY <1>1 DEF TypeOK, None, Seqs
<1>4. occ \in Nat /\ Occurrences(queue', s) \in Nat
  BY <1>3, OccurrencesType
<1>5. requests'[s].retries_used \in {used, used + 1}
  <2>1. RequestStep(s)
    BY RequestLife DEF FramesInv, TableInv
  <2>2. QED
    BY <2>1 DEF RequestStep, Stays, Registers, Withdrawn, Sent, GivenUp,
       Started, Answered, Retried, Keeps
<1>6. One(cb_frame = s) + One(tx_frame = s) + One(s \in rt_frames) + occ
        + written[s] <= 1 + used
  BY DEF FrameBudget, Copies
<1>7. Copies(s)' = One(cb_frame' = s) + One(tx_frame' = s)
                     + One(s \in rt_frames') + Occurrences(queue', s)
  BY DEF Copies
<1> DEFINE cb == One(cb_frame = s)
           cbN == One(cb_frame' = s)
           txN == One(tx_frame' = s)
           rtN == One(s \in rt_frames')
           txO == One(tx_frame = s)
           rtO == One(s \in rt_frames)
           occN == Occurrences(queue', s)
<1>8. /\ cb \in {0, 1} /\ cbN \in {0, 1} /\ txO \in {0, 1}
      /\ txN \in {0, 1} /\ rtO \in {0, 1} /\ rtN \in {0, 1}
      /\ occN \in Nat
  BY <1>4 DEF One
<1>9. SUFFICES cbN + txN + rtN + occN + written'[s] <= 1 + requests'[s].retries_used
  BY <1>2, <1>7
<1>10. cb + txO + rtO + occ + written[s] <= 1 + used
  BY <1>6
<1>11. /\ cb_frame' = cb_frame => cbN = cb
       /\ cb_frame' = None => cbN = 0
       /\ cb_frame' /= s => cbN = 0
       /\ tx_frame' = tx_frame => txN = txO
       /\ tx_frame' = None => txN = 0
       /\ tx_frame = None => txO = 0
       /\ rt_frames' = rt_frames => rtN = rtO
       /\ rt_frames' = {} => rtN = 0
       /\ rt_frames = {} => rtO = 0
       /\ queue' = queue => occN = occ
  <2>1. /\ cb_frame' = cb_frame => cbN = cb
        /\ tx_frame' = tx_frame => txN = txO
        /\ rt_frames' = rt_frames => rtN = rtO
        /\ queue' = queue => occN = occ
    OBVIOUS
  <2>2. QED
    BY <1>3, <2>1 DEF One
<1>12. queue' = <<>> => occN = 0
  <2>1. queue' = <<>> => ~InQueue(queue', s)
    BY DEF InQueue
  <2>2. QED
    BY <1>3, <2>1, OccurrencesType
<1> HIDE DEF used, occ, cb, cbN, txN, rtN, txO, rtO, occN
<1> USE <1>2, <1>4, <1>5, <1>8, <1>10
<1>13. CASE written' = written /\ (FramesRest \/ FrameDropped)
  <2>1. CASE FramesRest
    <3>1. cbN = cb /\ txN = txO /\ rtN = rtO /\ occN = occ
      BY <2>1, <1>11, <1>12 DEF FramesRest
    <3>2. QED
      BY <1>13, <3>1
  <2>2. CASE tx_frame' = None /\ UNCHANGED <<cb_frame, rt_frames, queue>>
    <3>1. cbN = cb /\ txN = 0 /\ rtN = rtO /\ occN = occ
      BY <2>2, <1>11, <1>12
    <3>2. QED
      BY <1>13, <3>1
  <2>3. CASE rt_frames' = {} /\ UNCHANGED <<cb_frame, tx_frame, queue>>
    <3>1. cbN = cb /\ txN = txO /\ rtN = 0 /\ occN = occ
      BY <2>3, <1>11, <1>12
    <3>2. QED
      BY <1>13, <3>1
  <2>4. CASE queue' = <<>> /\ UNCHANGED <<cb_frame, tx_frame, rt_frames>>
    <3>1. cbN = cb /\ txN = txO /\ rtN = rtO /\ occN = 0
      BY <2>4, <1>11, <1>12
    <3>2. QED
      BY <1>13, <3>1
  <2>5. QED
    BY <1>13, <2>1, <2>2, <2>3, <2>4 DEF FrameDropped
<1>14. CASE written' = written /\ FrameCreated
  <2>1. CASE s = next_seq
    <3>1. ~OnItsWay(s) /\ written[s] = 0
      BY <1>14, <2>1 DEF FrameCreated, FramesInv, FrameInv, TableInv, SendInv
    <3>2. occ = 0
      BY <1>3, <3>1, OccurrencesType DEF OnItsWay, InQueue, occ
    <3>3. txO = 0 /\ rtO = 0
      BY <3>1 DEF OnItsWay, One, txO, rtO
    <3>4. QED
      BY <1>14, <3>1, <3>2, <3>3, <1>11, <1>12 DEF FrameCreated
  <2>2. CASE s /= next_seq
    BY <1>14, <2>2, <1>11, <1>12 DEF FrameCreated
  <2>3. QED
    BY <2>1, <2>2
<1>15. CASE written' = written /\ CommandPushed
  <2>1. cb_frame \in Seqs
    BY <1>15 DEF CommandPushed
  <2>2. occN = occ + cb
    <3>1. CASE queue' = <<cb_frame>> \o queue
      BY <1>3, <2>1, <3>1, OccurrencesFront DEF occ, occN, cb
    <3>2. CASE queue' = Append(queue, cb_frame)
      BY <1>3, <2>1, <3>2, OccurrencesAppend DEF occ, occN, cb
    <3>3. QED
      BY <1>15, <3>1, <3>2 DEF CommandPushed
  <2>3. QED
    BY <1>15, <2>2, <1>11, <1>12 DEF CommandPushed
<1>16. ASSUME NEW f \in Seqs, written' = written, RetryPushed(f)
       PROVE  cbN + txN + rtN + occN + written'[s] <= 1 + requests'[s].retries_used
  <2>1. CASE f = s
    <3>1. rtO = 1 /\ rtN = 0
      BY <1>16, <2>1 DEF RetryPushed, rtO, rtN, One
    <3>2. occN \in {occ, occ + 1}
      <4>1. One(f = s) = 1
        BY <2>1 DEF One
      <4>2. CASE queue' = Append(queue, f)
        BY <1>3, <4>1, <4>2, OccurrencesAppend DEF occ, occN
      <4>3. QED
        BY <1>16, <4>2, <1>11, <1>12 DEF RetryPushed
    <3>3. QED
      BY <1>16, <3>1, <3>2, <1>11, <1>12 DEF RetryPushed
  <2>2. CASE f /= s
    <3>1. rtN = rtO
      BY <1>16, <2>2 DEF RetryPushed, rtO, rtN, One
    <3>2. occN = occ
      <4>1. One(f = s) = 0
        BY <2>2 DEF One
      <4>2. CASE queue' = Append(queue, f)
        BY <1>3, <4>1, <4>2, OccurrencesAppend DEF occ, occN
      <4>3. QED
        BY <1>16, <4>2, <1>11, <1>12 DEF RetryPushed
    <3>3. QED
      BY <1>16, <3>1, <3>2, <1>11, <1>12 DEF RetryPushed
  <2>3. QED
    BY <2>1, <2>2
<1>17. CASE written' = written /\ FramePopped
  <2>1. occ = occN + txN
    <3>1. occ = Occurrences(Tail(queue), s) + One(Head(queue) = s)
      BY <1>3, <1>17, OccurrencesTail DEF FramePopped, occ
    <3>2. QED
      BY <1>17, <3>1 DEF FramePopped, occN, txN
  <2>2. txO = 0 /\ cbN = cb /\ rtN = rtO
    BY <1>17, <1>11, <1>12 DEF FramePopped
  <2>3. cbN + txN + rtN + occN = cb + txO + rtO + occ
    BY <2>1, <2>2
  <2>4. cbN + txN + rtN + occN + written[s] <= 1 + used
    BY <1>10, <2>3
  <2>5. written'[s] = written[s]
    BY <1>17
  <2>6. QED
    BY <1>2, <1>5, <2>4, <2>5
<1>18. CASE FrameWritten
  <2>1. written'[s] = written[s] + txO
    <3>1. written \in [Seqs -> Nat]
      BY <1>1 DEF TypeOK
    <3>2. CASE tx_frame = s
      <4>1. txO = 1
        BY <3>2 DEF txO, One
      <4>2. written'[s] = written[s] + 1
        BY <1>18, <3>1, <3>2 DEF FrameWritten
      <4>3. QED
        BY <4>1, <4>2
    <3>3. CASE tx_frame /= s
      <4>1. txO = 0
        BY <3>3 DEF txO, One
      <4>2. written'[s] = written[s]
        BY <1>18, <3>1, <3>3 DEF FrameWritten
      <4>3. QED
        BY <4>1, <4>2
    <3>4. QED
      BY <3>2, <3>3
  <2>2. QED
    BY <1>18, <2>1, <1>11, <1>12 DEF FrameWritten
<1>19. CASE written' = written /\ RetriesPolled
  <2>1. s \in rt_frames' => requests'[s].retries_used = used + 1
    <3>1. /\ requests'[s] = PollRequest(requests[s])
          /\ requests[s] \in Request
          /\ s \in rt_frames' => RetryDue(requests[s])
      BY <1>1, <1>19 DEF RetriesPolled, PollOutput, poll, TypeOK
    <3>2. QED
      BY <3>1, RetryPolicyAssumption DEF RetryPolicyAssumption, PollRequest,
         RetryDue, Request, used
  <2>2. s \notin rt_frames' => rtN = 0
    BY DEF rtN, One
  <2>3. QED
    BY <1>19, <2>1, <2>2, <1>11, <1>12 DEF RetriesPolled
<1>20. QED
  BY <1>1, <1>13, <1>14, <1>15, <1>16, <1>17, <1>18, <1>19 DEF FrameStep

\* For every request the frames queued, in hand or written never exceed one plus
\* the retries used: the command queue, which has no limit of its own, is
\* bounded by the number of commands.
THEOREM FramesArePaidFor == Spec => []FrameBudget
<1>1. Init => FrameBudget
  <2> SUFFICES ASSUME Init, NEW s \in Seqs
               PROVE  Copies(s) + written[s] <= 1 + requests[s].retries_used
    BY DEF FrameBudget
  <2>1. queue \in Seq(Seqs) /\ ~InQueue(queue, s)
    BY DEF Init, InQueue
  <2>2. Occurrences(queue, s) = 0
    BY <2>1, OccurrencesType
  <2>3. QED
    BY <2>2 DEF Init, Copies, One, NoRequests, NoRequest, None, Seqs
<1>2. QED
  BY <1>1, FramesInvariant, FrameBudgetStep, PTL DEF Spec
============================================================================
