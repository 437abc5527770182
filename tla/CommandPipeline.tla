-------------------------- MODULE CommandPipeline --------------------------
(***************************************************************************)
(* cpp_modules/gateway_ack_demo: an input thread queues raw commands, a      *)
(* consumer thread parses each one (protocol_parser), counts it, logs it and *)
(* prints a result.  The queue is protected by queueMutex; both threads log  *)
(* through one LogManager.                                                   *)
(*                                                                           *)
(* A payload is a sequence of white space characters and words.              *)
(***************************************************************************)
EXTENDS LogManager, ProtocolParser

CONSTANTS Payloads,     \* testInputs
          Expected      \* the code each payload has to get

ASSUME CommandPipelineAssumption ==
  Len(Payloads) \in Nat \ {0} /\ Len(Expected) = Len(Payloads)

VARIABLES
  producer, sequence,   \* inputProducer and its counter
  consumer, raw,        \* commandConsumer and the command in its hand
  result,               \* its CommandResult, not yet printed
  commandQueue, inputFinished,
  stats,                \* PipelineStats
  results               \* the results printed

producerVars == <<producer, sequence>>
consumerVars == <<consumer, raw, result>>
vars == <<managerVars, producerVars, consumerVars, commandQueue, inputFinished,
          stats, results>>
----------------------------------------------------------------------------
\* main has set the logger up; the threads start only if its file is open.
Init ==
  /\ logger = [open |-> TRUE, consoleEnabled |-> TRUE, autoFlush |-> TRUE,
               maxCachedLogs |-> 50, recentLogs |-> <<>>,
               logCounts |-> [level \in LogLevel |-> 0]]
  /\ disk = <<>> /\ unflushed = <<>>
  /\ producer = "push" /\ sequence = 1
  /\ consumer = "check" /\ raw = [sequence |-> 0, payload |-> <<>>]
  /\ result = [sequence |-> 0, code |-> "Ok"]
  /\ commandQueue = <<>>
  /\ inputFinished = FALSE
  /\ stats = [received |-> 0, accepted |-> 0, rejected |-> 0, ackCount |-> 0]
  /\ results = <<>>

Awakened == IF consumer = "waiting" THEN "check" ELSE consumer

ProducerPush ==
  /\ producer = "push"
  /\ commandQueue' = Append(commandQueue,
                            [sequence |-> sequence, payload |-> Payloads[sequence]])
  /\ stats' = [stats EXCEPT !.received = @ + 1]
  /\ producer' = "log"
  /\ UNCHANGED <<managerVars, sequence, consumerVars, inputFinished, results>>

ProducerLog ==
  /\ producer = "log"
  /\ log("Info", [what |-> "queued", sequence |-> sequence])
  /\ producer' = "notify"
  /\ UNCHANGED <<sequence, consumerVars, commandQueue, inputFinished, stats, results>>

ProducerNotify ==
  /\ producer = "notify"
  /\ consumer' = Awakened
  /\ IF sequence < Len(Payloads)
     THEN producer' = "push" /\ sequence' = sequence + 1
     ELSE producer' = "finish" /\ UNCHANGED sequence
  /\ UNCHANGED <<managerVars, raw, result, commandQueue, inputFinished, stats, results>>

ProducerFinish ==
  /\ producer = "finish"
  /\ inputFinished' = TRUE
  /\ producer' = "log_finished"
  /\ UNCHANGED <<managerVars, sequence, consumerVars, commandQueue, stats, results>>

ProducerLogFinished ==
  /\ producer = "log_finished"
  /\ log("Info", [what |-> "input finished", sequence |-> 0])
  /\ producer' = "notify_all"
  /\ UNCHANGED <<sequence, consumerVars, commandQueue, inputFinished, stats, results>>

ProducerNotifyAll ==
  /\ producer = "notify_all"
  /\ consumer' = Awakened
  /\ producer' = "done"
  /\ UNCHANGED <<managerVars, sequence, raw, result, commandQueue, inputFinished,
                 stats, results>>
----------------------------------------------------------------------------
(* commandConsumer.                                                         *)

ConsumerWait ==
  /\ consumer = "check"
  /\ commandQueue = <<>> /\ ~inputFinished
  /\ consumer' = "waiting"
  /\ UNCHANGED <<managerVars, producerVars, raw, result, commandQueue, inputFinished,
                 stats, results>>

ConsumerSpuriousWakeup ==
  /\ consumer = "waiting"
  /\ consumer' = "check"
  /\ UNCHANGED <<managerVars, producerVars, raw, result, commandQueue, inputFinished,
                 stats, results>>

\* Mutant: the flag alone ends the loop.
ConsumerBreak_early ==
  /\ consumer = "check"
  /\ inputFinished
  /\ consumer' = "log_finished"
  /\ UNCHANGED <<managerVars, producerVars, raw, result, commandQueue, inputFinished,
                 stats, results>>

ConsumerBreak ==
  /\ consumer = "check"
  /\ commandQueue = <<>> /\ inputFinished
  /\ consumer' = "log_finished"
  /\ UNCHANGED <<managerVars, producerVars, raw, result, commandQueue, inputFinished,
                 stats, results>>

ConsumerPop ==
  /\ consumer = "check"
  /\ commandQueue /= <<>>
  /\ raw' = Head(commandQueue)
  /\ commandQueue' = Tail(commandQueue)
  /\ consumer' = "parse"
  /\ UNCHANGED <<managerVars, producerVars, result, inputFinished, stats, results>>

\* The counters are the consumer's own, main reads them after the join.
ConsumerParse ==
  /\ consumer = "parse"
  /\ IF isValid(parse(raw.payload))
     THEN /\ stats' = [stats EXCEPT !.accepted = @ + 1, !.ackCount = @ + 1]
          /\ result' = [sequence |-> raw.sequence, code |-> "Ok"]
     ELSE /\ stats' = [stats EXCEPT !.rejected = @ + 1, !.ackCount = @ + 1]
          /\ result' = [sequence |-> raw.sequence, code |-> "InvalidCommand"]
  /\ consumer' = "log"
  /\ UNCHANGED <<managerVars, producerVars, raw, commandQueue, inputFinished, results>>

\* Mutant: a rejected command is logged like an accepted one.
ConsumerLog_info ==
  /\ consumer = "log"
  /\ log("Info", [what |-> result.code, sequence |-> result.sequence])
  /\ consumer' = "print"
  /\ UNCHANGED <<producerVars, raw, result, commandQueue, inputFinished, stats, results>>

ConsumerLog ==
  /\ consumer = "log"
  /\ log(IF result.code = "Ok" THEN "Info" ELSE "Warning",
         [what |-> result.code, sequence |-> result.sequence])
  /\ consumer' = "print"
  /\ UNCHANGED <<producerVars, raw, result, commandQueue, inputFinished, stats, results>>

printResult ==
  /\ consumer = "print"
  /\ results' = Append(results, result)
  /\ consumer' = "check"
  /\ UNCHANGED <<managerVars, producerVars, raw, result, commandQueue, inputFinished,
                 stats>>

ConsumerLogFinished ==
  /\ consumer = "log_finished"
  /\ log("Info", [what |-> "consumer finished", sequence |-> 0])
  /\ consumer' = "done"
  /\ UNCHANGED <<producerVars, raw, result, commandQueue, inputFinished, stats, results>>
----------------------------------------------------------------------------
inputProducer == \/ ProducerPush \/ ProducerLog \/ ProducerNotify \/ ProducerFinish
                 \/ ProducerLogFinished \/ ProducerNotifyAll

commandConsumer == \/ ConsumerWait \/ ConsumerBreak \/ ConsumerPop \/ ConsumerParse
                   \/ ConsumerLog \/ printResult \/ ConsumerLogFinished

Joined == producer = "done" /\ consumer = "done"

\* After the joins main prints the statistics and its logger is destroyed.
MainReturn ==
  /\ Joined
  /\ destroy
  /\ UNCHANGED <<producerVars, consumerVars, commandQueue, inputFinished, stats,
                 results>>

Next == \/ inputProducer
        \/ commandConsumer
        \/ ConsumerSpuriousWakeup
        \/ MainReturn
        \/ ~logger.open /\ UNCHANGED vars

Spec == Init /\ [][Next]_vars

\* The three threads are scheduled.
FairSpec == /\ Spec
            /\ WF_vars(inputProducer)
            /\ WF_vars(commandConsumer)
            /\ WF_vars(MainReturn)
----------------------------------------------------------------------------
\* The command the consumer has taken and not yet answered.
InHand == IF consumer \in {"parse", "log", "print"} THEN <<raw.sequence>> ELSE <<>>

Skeleton == INSTANCE ProducerConsumer WITH
  Sample <- 1 .. Len(Payloads),
  Inputs <- [i \in 1 .. Len(Payloads) |-> i],
  collector <- CASE producer = "log" -> "notify"
                 [] producer = "log_finished" -> "notify_all"
                 [] OTHER -> producer,
  index <- sequence,
  processor <- CASE InHand /= <<>> -> "process"
                 [] consumer = "log_finished" -> "done"
                 [] OTHER -> consumer,
  hand <- InHand,
  sampleQueue <- [i \in 1 .. Len(commandQueue) |-> commandQueue[i].sequence],
  productionFinished <- inputFinished,
  processed <- [i \in 1 .. Len(results) |-> results[i].sequence]

\* The pipeline with its parser, logger and result lines hands commands over
\* like ProducerConsumer: none is lost, repeated or overtaken, and the consumer
\* is never left asleep, although the producer writes a log line between the
\* push and the notification.
ImplementsProducerConsumer == Skeleton!HandOverSpec

\* The counters of the logger and the length of the file tell the same story as
\* the statistics: a warning per rejection, two lines per command and one per
\* thread.
FiguresAgree ==
  /\ logger.logCounts["Warning"] = stats.rejected
  /\ logger.logCounts["Info"] = stats.received + stats.accepted + 2
  /\ Len(disk) = 2 * stats.received + 2

\* Both threads end, so that main's joins return and the logger is closed, and
\* by then every command has one result, in the order of the input, with the
\* code its text deserves, and the printed figures agree.
Terminates ==
  <>(/\ Joined /\ ~logger.open /\ commandQueue = <<>> /\ FiguresAgree
     /\ results = [i \in 1 .. Len(Payloads) |-> [sequence |-> i, code |-> Expected[i]]])
============================================================================
