----------------------------- MODULE HandBridge -----------------------------
(***************************************************************************)
(* hand_bridge_node (ros2_ws/src/hand_bridge/src/hand_bridge_node.cpp): the *)
(* ROS callback thread, the UART transmit, receive and retry threads and    *)
(* the destructor, over the request table of RetryPolicy, the command queue *)
(* and the stop flags they share.                                           *)
(*                                                                          *)
(* A step is what one thread does while it holds one mutex (ack_mutex_ for  *)
(* the table, queue_mutex_ for the queue), or one access to an atomic.      *)
(* The device is the environment: it may answer any command it was sent,    *)
(* with any status, any number of times and at any later moment, so a lost, *)
(* a delayed, a repeated and a reordered ACK are all behaviours of uart_rx. *)
(***************************************************************************)
EXTENDS RetryPolicy, Sequences, FiniteSets

CONSTANTS MaxCommands,   \* bound on the valid commands the callback receives
          MaxLines,      \* bound on the ACK lines one read() returns
          PriorSession   \* SEQs an earlier run of the node used on this device

ASSUME HandBridgeAssumption ==
  /\ MaxCommands \in Nat
  /\ MaxLines \in Nat
  /\ PriorSession \subseteq Seqs

VARIABLES
  submitted,     \* valid commands received so far (bounds the model)
  next_seq,      \* next_seq_
  latest,        \* latest_requested_seq_
  requests,      \* retry_policy_.requests_
  queue,         \* command_queue_, as the SEQs of its frames
  cb_frame,      \* the frame command_callback has registered, not yet queued
  fd_open,       \* uart_fd_ >= 0
  tx_pc,         \* uart_tx_worker: "check", "waiting", "popped", "done"
  tx_frame,      \* the frame uart_tx_worker popped
  rx_pc,         \* uart_rx_worker: "top", "read", "lines", "done"
  rx_lines,      \* ACK lines left in the buffer of uart_rx_worker
  rt_pc,         \* retry_worker: "top", "poll", "frames", "enqueue", "done"
  rt_frames,     \* the frames of poll that retry_worker has not yet queued
  dt_pc,         \* main thread: "spin", then the steps of the destructor
  retry_stop,    \* retry_stop_
  rx_stop,       \* rx_stop_
  stop_worker,   \* stop_worker_
  written,       \* history: complete frames written to the UART, per SEQ
  foreign        \* history: requests changed by an earlier session's ACK

policy == <<requests, written, foreign>>
callback == <<submitted, next_seq, latest, cb_frame>>
tx == <<tx_pc, tx_frame>>
rx == <<rx_pc, rx_lines>>
rt == <<rt_pc, rt_frames>>
flags == <<retry_stop, rx_stop, stop_worker>>

vars == <<policy, callback, queue, fd_open, tx, rx, rt, dt_pc, flags>>

None == 0     \* no frame in hand; SEQ 0 is never a request

\* The constructor.  open_uart may fail: the node then runs on without
\* threads, there is nothing to join and command_callback returns early.
Init ==
  /\ submitted = 0
  /\ next_seq = 1
  /\ latest = 0
  /\ requests = NoRequests
  /\ queue = <<>>
  /\ cb_frame = None
  /\ fd_open \in BOOLEAN
  /\ tx_pc = IF fd_open THEN "check" ELSE "done"
  /\ tx_frame = None
  /\ rx_pc = IF fd_open THEN "top" ELSE "done"
  /\ rx_lines = 0
  /\ rt_pc = IF fd_open THEN "top" ELSE "done"
  /\ rt_frames = {}
  /\ dt_pc = "spin"
  /\ retry_stop = FALSE
  /\ rx_stop = FALSE
  /\ stop_worker = FALSE
  /\ written = [s \in Seqs |-> 0]
  /\ foreign = {}
----------------------------------------------------------------------------
(* The queue.  notify_one follows the push at once: a notification that     *)
(* finds the worker awake has no effect.                                    *)

Awakened == IF tx_pc = "waiting" THEN "check" ELSE tx_pc

\* Mutant: a STOP waits its turn.
push_back_only(s, high_priority) == queue' = Append(queue, s)

push(s, high_priority) ==
  queue' = IF high_priority THEN <<s>> \o queue ELSE Append(queue, s)

\* enqueue_uart_command: refused once the destructor has set stop_worker_.
enqueue_uart_command(s, high_priority) ==
  IF stop_worker
  THEN UNCHANGED <<queue, tx_pc>>
  ELSE push(s, high_priority) /\ tx_pc' = Awakened
----------------------------------------------------------------------------
(* command_callback, on the one thread of rclcpp::spin.  An invalid command *)
(* and a command without UART return before anything changes.               *)

Accepting ==
  /\ dt_pc = "spin"
  /\ cb_frame = None
  /\ fd_open
  /\ submitted < MaxCommands

Advance ==
  /\ submitted' = submitted + 1
  /\ next_seq' = (next_seq + 1) % SeqMod

\* fetch_add returned 0: "SEQ exhausted".
SeqExhausted ==
  /\ Accepting
  /\ next_seq = 0
  /\ Advance
  /\ UNCHANGED <<policy, latest, cb_frame, queue, fd_open, tx, rx, rt, dt_pc,
                 flags>>

\* Mutant: a STOP withdraws the older commands only once it is queued.
RegisterCommand_cancels_nothing(is_stop) ==
  /\ Accepting
  /\ next_seq /= 0
  /\ Advance
  /\ requests' = start(requests, next_seq, is_stop)
  /\ latest' = next_seq /\ cb_frame' = next_seq
  /\ UNCHANGED <<written, foreign, queue, fd_open, tx, rx, rt, dt_pc, flags>>

\* The section under ack_mutex_.  A STOP supersedes first and registers
\* after; when start refuses the SEQ the callback returns.
RegisterCommand(is_stop) ==
  /\ Accepting
  /\ next_seq /= 0
  /\ Advance
  /\ LET base == IF is_stop THEN cancel_non_stop(requests) ELSE requests
     IN  /\ requests' = start(base, next_seq, is_stop)
         /\ IF Registered(base, next_seq)
            THEN UNCHANGED <<latest, cb_frame>>
            ELSE latest' = next_seq /\ cb_frame' = next_seq
  /\ UNCHANGED <<written, foreign, queue, fd_open, tx, rx, rt, dt_pc, flags>>

\* enqueue_uart_command cannot fail here: the destructor runs on this thread,
\* after the callback returned.
EnqueueCommand ==
  /\ cb_frame /= None
  /\ enqueue_uart_command(cb_frame, requests[cb_frame].is_stop)
  /\ cb_frame' = None
  /\ UNCHANGED <<policy, submitted, next_seq, latest, fd_open, tx_frame, rx,
                 rt, dt_pc, flags>>

\* status_callback: what /hand_status answers about the newest command.
status_callback ==
  [seq     |-> latest,
   success |-> latest /= 0 /\ requests[latest].state = "SUCCEEDED"]
----------------------------------------------------------------------------
(* uart_tx_worker.                                                          *)

\* The predicate of queue_cv_.wait is false: sleep.
TxWait ==
  /\ tx_pc = "check"
  /\ ~stop_worker /\ queue = <<>>
  /\ tx_pc' = "waiting"
  /\ UNCHANGED <<policy, callback, queue, fd_open, tx_frame, rx, rt, dt_pc,
                 flags>>

\* A condition variable may wake without a notification.
TxSpuriousWakeup ==
  /\ tx_pc = "waiting"
  /\ tx_pc' = "check"
  /\ UNCHANGED <<policy, callback, queue, fd_open, tx_frame, rx, rt, dt_pc,
                 flags>>

TxStop ==
  /\ tx_pc = "check"
  /\ stop_worker
  /\ tx_pc' = "done"
  /\ UNCHANGED <<policy, callback, queue, fd_open, tx_frame, rx, rt, dt_pc,
                 flags>>

TxPop ==
  /\ tx_pc = "check"
  /\ ~stop_worker /\ queue /= <<>>
  /\ tx_frame' = Head(queue)
  /\ queue' = Tail(queue)
  /\ tx_pc' = "popped"
  /\ UNCHANGED <<policy, callback, fd_open, rx, rt, dt_pc, flags>>

\* The request was answered or superseded while its frame was queued.
TxSkip ==
  /\ tx_pc = "popped"
  /\ ~should_transmit(requests, tx_frame)
  /\ tx_pc' = "check"
  /\ tx_frame' = None
  /\ UNCHANGED <<policy, callback, queue, fd_open, rx, rt, dt_pc, flags>>

\* write_uart and the bookkeeping that follows are one section of ack_mutex_.
TxSend ==
  /\ tx_pc = "popped"
  /\ should_transmit(requests, tx_frame)
  /\ written' = [written EXCEPT ![tx_frame] = @ + 1]
  /\ requests' = mark_sent(requests, tx_frame)
  /\ tx_pc' = "check"
  /\ tx_frame' = None
  /\ UNCHANGED <<foreign, callback, queue, fd_open, rx, rt, dt_pc, flags>>

\* Mutant: the timer starts although the frame was not written.
TxSendFailed_marks_sent ==
  /\ tx_pc = "popped"
  /\ should_transmit(requests, tx_frame)
  /\ requests' = mark_sent(requests, tx_frame)
  /\ tx_pc' = "check"
  /\ tx_frame' = None
  /\ UNCHANGED <<written, foreign, callback, queue, fd_open, rx, rt, dt_pc,
                 flags>>

\* write() failed or returned 0 before the frame was complete.
TxSendFailed ==
  /\ tx_pc = "popped"
  /\ should_transmit(requests, tx_frame)
  /\ requests' = mark_send_failed(requests, tx_frame)
  /\ tx_pc' = "check"
  /\ tx_frame' = None
  /\ UNCHANGED <<written, foreign, callback, queue, fd_open, rx, rt, dt_pc,
                 flags>>
----------------------------------------------------------------------------
(* uart_rx_worker.  Module UartRx models how bytes become lines.            *)

RxCheckStop ==
  /\ rx_pc = "top"
  /\ rx_pc' = IF rx_stop THEN "done" ELSE "read"
  /\ UNCHANGED <<policy, callback, queue, fd_open, tx, rx_lines, rt, dt_pc,
                 flags>>

\* read() times out (VTIME), is interrupted or returns some lines.
RxRead ==
  /\ rx_pc = "read"
  /\ \E n \in 0 .. MaxLines :
       /\ rx_lines' = n
       /\ rx_pc' = IF n = 0 THEN "top" ELSE "lines"
  /\ UNCHANGED <<policy, callback, queue, fd_open, tx, rt, dt_pc, flags>>

\* read() failed: the thread ends, the others do not learn of it.
RxError ==
  /\ rx_pc = "read"
  /\ rx_pc' = "done"
  /\ UNCHANGED <<policy, callback, queue, fd_open, tx, rx_lines, rt, dt_pc,
                 flags>>

\* One parsed line, applied under ack_mutex_.  own: the device answers a
\* frame of this run of the node; otherwise one of an earlier run.
RxLine(s, status, own) ==
  /\ rx_pc = "lines"
  /\ IF own THEN written[s] > 0 ELSE s \in PriorSession
  /\ requests' = on_ack(requests, s, status)
  /\ foreign' = IF ~own /\ AckAccepted(requests[s], status)
                THEN foreign \cup {s} ELSE foreign
  /\ rx_lines' = rx_lines - 1
  /\ rx_pc' = IF rx_lines = 1 THEN "top" ELSE "lines"
  /\ UNCHANGED <<written, callback, queue, fd_open, tx, rt, dt_pc, flags>>

\* A line parse_ack rejects.
RxInvalidLine ==
  /\ rx_pc = "lines"
  /\ rx_lines' = rx_lines - 1
  /\ rx_pc' = IF rx_lines = 1 THEN "top" ELSE "lines"
  /\ UNCHANGED <<policy, callback, queue, fd_open, tx, rt, dt_pc, flags>>
----------------------------------------------------------------------------
(* retry_worker.                                                            *)

RetryCheckStop ==
  /\ rt_pc = "top"
  /\ rt_pc' = IF retry_stop THEN "done" ELSE "poll"
  /\ UNCHANGED <<policy, callback, queue, fd_open, tx, rx, rt_frames, dt_pc,
                 flags>>

RetryPoll ==
  /\ rt_pc = "poll"
  /\ requests' = poll(requests)
  /\ rt_frames' = PollOutput(requests)
  /\ rt_pc' = "frames"
  /\ UNCHANGED <<written, foreign, callback, queue, fd_open, tx, rx, dt_pc,
                 flags>>

\* The loop looks at retry_stop_ before each frame; the destructor may set its
\* flags and clear the queue between this look and the push.
RetryLookStop ==
  /\ rt_pc = "frames"
  /\ rt_frames /= {} /\ ~retry_stop
  /\ rt_pc' = "enqueue"
  /\ UNCHANGED <<policy, callback, queue, fd_open, tx, rx, rt_frames, dt_pc,
                 flags>>

\* Mutant: only the first of several frames is queued.
RetryEnqueue_first_only ==
  /\ rt_pc = "enqueue"
  /\ \E s \in rt_frames :
       /\ \A t \in rt_frames : s <= t
       /\ enqueue_uart_command(s, FALSE)
  /\ rt_frames' = {}
  /\ rt_pc' = "frames"
  /\ UNCHANGED <<policy, callback, fd_open, tx_frame, rx, dt_pc, flags>>

\* Mutant: the frame is queued again on the next round.
RetryEnqueue_keeps_frame ==
  /\ rt_pc = "enqueue"
  /\ \E s \in rt_frames :
       /\ \A t \in rt_frames : s <= t
       /\ enqueue_uart_command(s, FALSE)
  /\ rt_pc' = "frames"
  /\ UNCHANGED <<policy, callback, fd_open, tx_frame, rx, rt_frames, dt_pc,
                 flags>>

\* The frames are queued in the order of the map, at the default (low)
\* priority.
RetryEnqueue ==
  /\ rt_pc = "enqueue"
  /\ \E s \in rt_frames :
       /\ \A t \in rt_frames : s <= t
       /\ enqueue_uart_command(s, FALSE)
       /\ rt_frames' = rt_frames \ {s}
  /\ rt_pc' = "frames"
  /\ UNCHANGED <<policy, callback, fd_open, tx_frame, rx, dt_pc, flags>>

\* End of the loop over the frames, or the break; then the 50 ms sleep.
RetryRest ==
  /\ rt_pc = "frames"
  /\ rt_frames = {} \/ retry_stop
  /\ rt_frames' = {}
  /\ rt_pc' = "top"
  /\ UNCHANGED <<policy, callback, queue, fd_open, tx, rx, dt_pc, flags>>
----------------------------------------------------------------------------
(* The destructor, run by main after rclcpp::spin returned.                 *)

DtorSetFlags ==
  /\ dt_pc = "spin" /\ cb_frame = None
  /\ retry_stop' = TRUE
  /\ rx_stop' = TRUE
  /\ dt_pc' = "clear"
  /\ UNCHANGED <<policy, callback, queue, fd_open, tx, rx, rt, stop_worker>>

DtorStopWorker ==
  /\ dt_pc = "clear"
  /\ stop_worker' = TRUE
  /\ queue' = <<>>
  /\ dt_pc' = "notify"
  /\ UNCHANGED <<policy, callback, fd_open, tx, rx, rt, retry_stop, rx_stop>>

\* Mutant: the sleeping worker is not told.
DtorNotify_forgotten ==
  /\ dt_pc = "notify"
  /\ dt_pc' = "join_retry"
  /\ UNCHANGED <<policy, callback, queue, fd_open, tx, rx, rt, flags>>

DtorNotify ==
  /\ dt_pc = "notify"
  /\ tx_pc' = Awakened
  /\ dt_pc' = "join_retry"
  /\ UNCHANGED <<policy, callback, queue, fd_open, tx_frame, rx, rt, flags>>

DtorJoinRetry ==
  /\ dt_pc = "join_retry" /\ rt_pc = "done"
  /\ dt_pc' = "join_tx"
  /\ UNCHANGED <<policy, callback, queue, fd_open, tx, rx, rt, flags>>

DtorJoinTx ==
  /\ dt_pc = "join_tx" /\ tx_pc = "done"
  /\ dt_pc' = "join_rx"
  /\ UNCHANGED <<policy, callback, queue, fd_open, tx, rx, rt, flags>>

DtorJoinRx ==
  /\ dt_pc = "join_rx" /\ rx_pc = "done"
  /\ dt_pc' = "close"
  /\ UNCHANGED <<policy, callback, queue, fd_open, tx, rx, rt, flags>>

DtorClose ==
  /\ dt_pc = "close"
  /\ fd_open' = FALSE
  /\ dt_pc' = "gone"
  /\ UNCHANGED <<policy, callback, queue, tx, rx, rt, flags>>
----------------------------------------------------------------------------
\* steady_clock advances while a request waits on its deadline.
Tick ==
  /\ \E s \in Seqs : /\ requests[s].state \in {"WAITING_ACK", "EXECUTING"}
                     /\ requests[s].deadline > 0
  /\ requests' = Elapse(requests)
  /\ UNCHANGED <<written, foreign, callback, queue, fd_open, tx, rx, rt,
                 dt_pc, flags>>

\* The process has exited.
Exited == dt_pc = "gone" /\ UNCHANGED vars

Callback == SeqExhausted \/ EnqueueCommand
              \/ \E is_stop \in BOOLEAN : RegisterCommand(is_stop)

uart_tx_worker == TxWait \/ TxStop \/ TxPop \/ TxSkip \/ TxSend \/ TxSendFailed

RxLineAny == \E s \in Seqs, status \in AckStatus, own \in BOOLEAN :
               RxLine(s, status, own)

uart_rx_worker == RxCheckStop \/ RxRead \/ RxError \/ RxLineAny \/ RxInvalidLine

retry_worker == RetryCheckStop \/ RetryPoll \/ RetryLookStop \/ RetryEnqueue
                  \/ RetryRest

Destructor == DtorStopWorker \/ DtorNotify \/ DtorJoinRetry \/ DtorJoinTx
                \/ DtorJoinRx \/ DtorClose

Next == Callback \/ uart_tx_worker \/ TxSpuriousWakeup \/ uart_rx_worker
          \/ retry_worker \/ DtorSetFlags \/ Destructor \/ Tick \/ Exited

Spec == Init /\ [][Next]_vars

\* Every thread is scheduled and time passes.  Commands, ACKs, spurious
\* wake-ups and the end of rclcpp::spin come from outside.
FairSpec == /\ Spec
            /\ WF_vars(EnqueueCommand)
            /\ WF_vars(uart_tx_worker)
            /\ WF_vars(uart_rx_worker)
            /\ WF_vars(retry_worker)
            /\ WF_vars(Destructor)
            /\ WF_vars(Tick)
----------------------------------------------------------------------------
(* Properties.                                                              *)

TypeOK ==
  /\ submitted \in 0 .. MaxCommands
  /\ next_seq \in 0 .. (SeqMod - 1)
  /\ latest \in Seqs \cup {0}
  /\ requests \in [Seqs -> Request]
  /\ queue \in Seq(Seqs)
  /\ cb_frame \in Seqs \cup {None}
  /\ fd_open \in BOOLEAN
  /\ tx_pc \in {"check", "waiting", "popped", "done"}
  /\ tx_frame \in Seqs \cup {None}
  /\ (tx_pc = "popped") <=> (tx_frame /= None)
  /\ rx_pc \in {"top", "read", "lines", "done"}
  /\ rx_lines \in 0 .. MaxLines
  /\ (rx_pc = "lines") <=> (rx_lines > 0)
  /\ rt_pc \in {"top", "poll", "frames", "enqueue", "done"}
  /\ rt_frames \in SUBSET Seqs
  /\ rt_pc = "enqueue" => rt_frames /= {}
  /\ dt_pc \in {"spin", "clear", "notify", "join_retry", "join_tx", "join_rx",
                "close", "gone"}
  /\ retry_stop \in BOOLEAN
  /\ rx_stop \in BOOLEAN
  /\ stop_worker \in BOOLEAN
  /\ written \in [Seqs -> Nat]
  /\ foreign \subseteq Seqs

State(s) == requests[s].state

RegisteredStop(t) == Registered(requests, t) /\ requests[t].is_stop

\* No command is written to the UART more than 1 + MAX_RETRIES times, however
\* poll, late IN_PROGRESS answers and frames still queued interleave.
BoundedTransmissions == \A s \in Seqs : written[s] <= 1 + MaxRetries

\* The frames of request s: in the hands of a thread, or in the queue.
One(b) == IF b THEN 1 ELSE 0

Occurrences(q, s) == Cardinality({i \in 1 .. Len(q) : q[i] = s})

Copies(s) == One(cb_frame = s) + One(tx_frame = s) + One(s \in rt_frames)
               + Occurrences(queue, s)

\* Every frame of a request, queued or in the hands of a thread, is paid for by
\* its registration or by a retry: the unbounded command_queue_ cannot grow
\* past (1 + MAX_RETRIES) frames for a request.
FrameBudget ==
  \A s \in Seqs : Copies(s) + written[s] <= 1 + requests[s].retries_used

\* Once a STOP is registered, no command registered before it is live:
\* cancel_non_stop reaches it wherever its frame is.
StopSupersedesOlder ==
  \A s, t \in Seqs :
    RegisteredStop(t) /\ s < t /\ ~requests[s].is_stop => State(s) \notin Live

\* ... and from then on no byte of it is written, although its frame may still
\* be in command_queue_, in retry_worker's vector or in uart_tx_worker's hand.
NoOldCommandAfterStop ==
  [][\A s, t \in Seqs :
       RegisteredStop(t) /\ s < t /\ ~requests[s].is_stop
         => written'[s] = written[s]]_vars

\* A command is superseded by a STOP that came after it and is registered
\* (while the SEQ counter has not wrapped: see the README on 2^32 commands).
SupersededByStop ==
  \A s \in Seqs :
    State(s) = "SUPERSEDED"
      => /\ ~requests[s].is_stop
         /\ \E t \in Seqs : s < t /\ RegisteredStop(t)

\* A request that waits to be transmitted has a frame somewhere on its way to
\* uart_tx_worker, until the destructor throws the queue away: no interleaving
\* of the four threads leaves it QUEUED or RETRY_QUEUED for ever.
OnItsWay(s) ==
  \/ cb_frame = s
  \/ tx_frame = s
  \/ s \in rt_frames
  \/ \E i \in 1 .. Len(queue) : queue[i] = s

NoStrandedRequest ==
  \A s \in Seqs :
    should_transmit(requests, s) /\ ~retry_stop => OnItsWay(s)

\* Ahead of a STOP that was not yet sent there are only STOPs in the queue.
FreshStopFirst ==
  \A i, j \in 1 .. Len(queue) :
    /\ i < j
    /\ requests[queue[j]].is_stop
    /\ State(queue[j]) = "QUEUED"
    => requests[queue[i]].is_stop

\* The stronger claim, for a STOP that is being retried as well: no ordinary
\* command that is still to be sent is ahead of a STOP that is to be sent.
StopsGoFirst ==
  \A i, j \in 1 .. Len(queue) :
    /\ i < j
    /\ requests[queue[j]].is_stop
    /\ should_transmit(requests, queue[j])
    /\ should_transmit(requests, queue[i])
    => requests[queue[i]].is_stop

\* An outcome, once /hand_status can report it, is never replaced, neither by a
\* late or repeated ACK nor by a timeout; a superseded command never revives.
ResolvedIsFinal ==
  [][\A s \in Seqs :
       /\ State(s) \in Final => requests'[s].state = State(s)
       /\ State(s) = "SUPERSEDED"
            => requests'[s].state \in Final \cup {"SUPERSEDED"}]_vars

\* A SEQ names one command for the life of the process: after the counter
\* wraps, a new command never takes over the entry of an old one.
SeqNamesOneCommand ==
  [][\A s \in Seqs :
       Registered(requests, s)
         => /\ requests'[s].is_stop = requests[s].is_stop
            /\ State(s) /= "QUEUED" => requests'[s].state \notin {"QUEUED", "NONE"}]_vars

\* A timer runs, and the device's answer counts, only for a command that was
\* completely written; in particular /hand_status reports no success without.
OutcomeOnlyAfterSend ==
  /\ \A s \in Seqs :
       State(s) \in {"WAITING_ACK", "EXECUTING", "RETRY_QUEUED", "SUCCEEDED",
                    "BUSY", "ERROR", "PREEMPTED"}
         => written[s] > 0
  /\ status_callback.success => written[status_callback.seq] > 0

\* Every request ended for the reason its state gives: withdrawn by a STOP that
\* came later and is registered, or answered by a device that was sent the
\* complete command, also when write_uart failed in between.
OutcomesDeserved == SupersededByStop /\ OutcomeOnlyAfterSend

\* An ACK changes the request it was sent for and no other.
AckBelongsToRequest == foreign = {}

\* An IN_PROGRESS answer that extends the deadline of a request.
Progress ==
  /\ \E s \in Seqs, own \in BOOLEAN : RxLine(s, "IN_PROGRESS", own)
  /\ requests' /= requests

\* Unless the device answers IN_PROGRESS for ever, every registered command
\* ends: with an outcome, superseded, or RESULT_UNKNOWN when ACKs are lost or
\* the receive thread has died.  (Or the node is shut down first.)
EventuallyResolved ==
  <>[][~Progress]_vars
    => \A s \in Seqs :
         State(s) \in Live ~> (State(s) \notin Live \/ retry_stop)

\* The destructor returns: no join waits on a thread that sleeps on queue_cv_
\* or never looks at its stop flag again.
ShutdownCompletes == (dt_pc = "clear") ~> (dt_pc = "gone")
----------------------------------------------------------------------------
(* The node implements CommandDelivery.                                     *)

Phase(state) ==
  CASE state = "NONE"       -> "unknown"
    [] state \in Live       -> "open"
    [] state = "SUPERSEDED" -> "withdrawn"
    [] state \in Final      -> "closed"

phaseBar == [s \in Seqs |-> Phase(State(s))]

stopsBar == {s \in Seqs : requests[s].is_stop}

Delivery == INSTANCE CommandDelivery
              WITH Ids <- Seqs, MaxSends <- 1 + MaxRetries,
                   phase <- phaseBar, stops <- stopsBar, sends <- written

\* The promise of CommandDelivery to the users of /hand_command.
ImplementsDelivery == Delivery!CDSpec
============================================================================
