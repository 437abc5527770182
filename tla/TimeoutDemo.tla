---------------------------- MODULE TimeoutDemo ----------------------------
(***************************************************************************)
(* cpp_modules/gateway_timeout_demo: a stop-and-wait sender with a timeout  *)
(* and a bounded number of retries, and a simulated device on a thread of   *)
(* its own.  They share txQueue (txMutex, txCondition) and ackMap           *)
(* (ackMutex, ackCondition); ackMap is the set of the SEQs it has an entry  *)
(* for, because every ACK it stores is a success.                           *)
(***************************************************************************)
EXTENDS Integers, Sequences, FiniteSets

CONSTANTS NCommands,    \* the commands of the list, all of them valid
          MaxRetries,   \* kMaxRetries
          LostAcks      \* <<sequence, attempt>> whose ACK the device drops

ASSUME TimeoutDemoAssumption ==
  /\ NCommands \in Nat \ {0}
  /\ MaxRetries \in Nat
  /\ LostAcks \subseteq (1 .. NCommands) \X (1 .. (MaxRetries + 1))

VARIABLES
  sender,       \* "push", "notify", "await", "finish", "notify_all", "done"
  sending,      \* sequence: the command being sent
  attempt,      \* 1 .. kMaxRetries + 1
  retryStats,   \* stats, a RetryStats
  txQueue,
  finished,     \* transmissionFinished
  ackMap,
  device,       \* "check", "waiting", "reply", "done"
  request,      \* the frame the device is working on
  received,     \* history: the frames the device took from the queue
  acked         \* history: the commands the sender counted as acknowledged

senderVars == <<sender, sending, attempt, retryStats, acked>>
deviceVars == <<device, request, received>>
timeoutVars == <<senderVars, deviceVars, txQueue, finished, ackMap>>

Frames == (1 .. NCommands) \X (1 .. (MaxRetries + 1))

TimeoutInit ==
  /\ sender = "push"
  /\ sending = 1
  /\ attempt = 1
  /\ retryStats = [sentFrames |-> 0, acked |-> 0, timeouts |-> 0,
                   retries |-> 0, failed |-> 0]
  /\ txQueue = <<>>
  /\ finished = FALSE
  /\ ackMap = {}
  /\ device = "check"
  /\ request = <<1, 1>>
  /\ received = {}
  /\ acked = {}

DeviceAwakened == IF device = "waiting" THEN "check" ELSE device
----------------------------------------------------------------------------
(* commandSender.                                                           *)

SenderPush ==
  /\ sender = "push"
  /\ txQueue' = Append(txQueue, <<sending, attempt>>)
  /\ retryStats' = [retryStats EXCEPT !.sentFrames = @ + 1]
  /\ sender' = "notify"
  /\ UNCHANGED <<sending, attempt, acked, deviceVars, finished, ackMap>>

SenderNotify ==
  /\ sender = "notify"
  /\ device' = DeviceAwakened
  /\ sender' = "await"
  /\ UNCHANGED <<sending, attempt, retryStats, acked, request, received, txQueue,
                 finished, ackMap>>

\* After the last command the loop is left.
NextCommand ==
  IF sending < NCommands
  THEN sending' = sending + 1 /\ attempt' = 1 /\ sender' = "push"
  ELSE sender' = "finish" /\ UNCHANGED <<sending, attempt>>

\* Mutant: any entry of ackMap answers the request.
SenderReceive_any ==
  /\ sender = "await"
  /\ \E s \in ackMap : ackMap' = ackMap \ {s}
  /\ retryStats' = [retryStats EXCEPT !.acked = @ + 1]
  /\ acked' = acked \cup {sending}
  /\ NextCommand
  /\ UNCHANGED <<deviceVars, txQueue, finished>>

\* wait_for returned true: the entry of this SEQ is there.
SenderReceive ==
  /\ sender = "await"
  /\ sending \in ackMap
  /\ ackMap' = ackMap \ {sending}
  /\ retryStats' = [retryStats EXCEPT !.acked = @ + 1]
  /\ acked' = acked \cup {sending}
  /\ NextCommand
  /\ UNCHANGED <<deviceVars, txQueue, finished>>

\* Mutant: the last timeout of a command counts as a retry.
SenderTimeout_off_by_one ==
  /\ sender = "await"
  /\ sending \notin ackMap
  /\ IF attempt <= MaxRetries + 1
     THEN retryStats' = [retryStats EXCEPT !.timeouts = @ + 1, !.retries = @ + 1]
     ELSE retryStats' = [retryStats EXCEPT !.timeouts = @ + 1, !.failed = @ + 1]
  /\ IF attempt <= MaxRetries
     THEN attempt' = attempt + 1 /\ sender' = "push" /\ UNCHANGED sending
     ELSE NextCommand
  /\ UNCHANGED <<acked, deviceVars, txQueue, finished, ackMap>>

\* wait_for looks at ackMap once more when the time is over, so it returns
\* false only if the entry is not there.
SenderTimeout ==
  /\ sender = "await"
  /\ sending \notin ackMap
  /\ IF attempt <= MaxRetries
     THEN /\ retryStats' = [retryStats EXCEPT !.timeouts = @ + 1, !.retries = @ + 1]
          /\ attempt' = attempt + 1
          /\ sender' = "push"
          /\ UNCHANGED sending
     ELSE /\ retryStats' = [retryStats EXCEPT !.timeouts = @ + 1, !.failed = @ + 1]
          /\ NextCommand
  /\ UNCHANGED <<acked, deviceVars, txQueue, finished, ackMap>>

SenderFinish ==
  /\ sender = "finish"
  /\ finished' = TRUE
  /\ sender' = "notify_all"
  /\ UNCHANGED <<sending, attempt, retryStats, acked, deviceVars, txQueue, ackMap>>

SenderNotifyAll ==
  /\ sender = "notify_all"
  /\ device' = DeviceAwakened
  /\ sender' = "done"
  /\ UNCHANGED <<sending, attempt, retryStats, acked, request, received, txQueue,
                 finished, ackMap>>
----------------------------------------------------------------------------
(* simulatedDevice.                                                         *)

DeviceWait ==
  /\ device = "check"
  /\ txQueue = <<>> /\ ~finished
  /\ device' = "waiting"
  /\ UNCHANGED <<senderVars, request, received, txQueue, finished, ackMap>>

DeviceSpuriousWakeup ==
  /\ device = "waiting"
  /\ device' = "check"
  /\ UNCHANGED <<senderVars, request, received, txQueue, finished, ackMap>>

\* Mutant: what is still queued is dropped.
DeviceStop_early ==
  /\ device = "check"
  /\ finished
  /\ device' = "done"
  /\ UNCHANGED <<senderVars, request, received, txQueue, finished, ackMap>>

DeviceStop ==
  /\ device = "check"
  /\ txQueue = <<>> /\ finished
  /\ device' = "done"
  /\ UNCHANGED <<senderVars, request, received, txQueue, finished, ackMap>>

\* The frame whose ACK is lost is received like any other.
DeviceTake ==
  /\ device = "check"
  /\ txQueue /= <<>>
  /\ request' = Head(txQueue)
  /\ received' = received \cup {Head(txQueue)}
  /\ txQueue' = Tail(txQueue)
  /\ device' = IF Head(txQueue) \in LostAcks THEN "check" ELSE "reply"
  /\ UNCHANGED <<senderVars, finished, ackMap>>

\* After 120 ms of work; ackCondition wakes the sender, which also polls the
\* map when its time is over, so the notification needs no state.
DeviceReply ==
  /\ device = "reply"
  /\ ackMap' = ackMap \cup {request[1]}
  /\ device' = "check"
  /\ UNCHANGED <<senderVars, request, received, txQueue, finished>>
----------------------------------------------------------------------------
commandSender == \/ SenderPush \/ SenderNotify \/ SenderReceive \/ SenderTimeout
                 \/ SenderFinish \/ SenderNotifyAll

simulatedDevice == DeviceWait \/ DeviceStop \/ DeviceTake \/ DeviceReply

\* main joins both threads and prints the statistics.
DemoJoined == sender = "done" /\ device = "done"

TimeoutNext ==
  \/ commandSender
  \/ simulatedDevice
  \/ DeviceSpuriousWakeup
  \/ DemoJoined /\ UNCHANGED timeoutVars

TimeoutSpec == TimeoutInit /\ [][TimeoutNext]_timeoutVars

----------------------------------------------------------------------------
Stats == [sentFrames : Nat, acked : Nat, timeouts : Nat, retries : Nat,
          failed : Nat]

TypeOK ==
  /\ sender \in {"push", "notify", "await", "finish", "notify_all", "done"}
  /\ sending \in 1 .. NCommands
  /\ attempt \in 1 .. (MaxRetries + 1)
  /\ retryStats \in Stats
  /\ txQueue \in Seq(Frames)
  /\ finished \in BOOLEAN
  /\ ackMap \in SUBSET (1 .. NCommands)
  /\ device \in {"check", "waiting", "reply", "done"}
  /\ request \in Frames
  /\ received \in SUBSET Frames
  /\ acked \in SUBSET (1 .. NCommands)

InFlight == sender \in {"notify", "await"}
LoopOver == sender \in {"finish", "notify_all", "done"}

\* The figures main prints add up at every moment: each frame sent was answered
\* or timed out, each timeout was retried or ended a command, and the commands
\* behind the sender are exactly the acknowledged and the failed ones.
StatsBalance ==
  /\ retryStats.sentFrames = retryStats.acked + retryStats.timeouts
                               + (IF InFlight THEN 1 ELSE 0)
  /\ retryStats.timeouts = retryStats.retries + retryStats.failed
  /\ retryStats.acked + retryStats.failed = IF LoopOver THEN NCommands ELSE sending - 1

\* A command counts as acknowledged only if the device took a frame of it and
\* did not drop the answer, whatever old answers are still in ackMap.
AckedWasExecuted ==
  \A s \in acked : \E a \in 1 .. (MaxRetries + 1) :
    <<s, a>> \in received /\ <<s, a>> \notin LostAcks

\* Both threads end, so that main's joins return, and by then the device has
\* taken every frame that was sent, whenever the end flag was raised.
Terminates ==
  <>(DemoJoined /\ txQueue = <<>> /\ Cardinality(received) = retryStats.sentFrames)
============================================================================
