-------------------------- MODULE GatewayPipeline --------------------------
(***************************************************************************)
(* cpp_modules/gateway_pipeline_demo: an input thread queues raw commands, a *)
(* consumer thread parses each one, counts it and logs it.  Unlike in        *)
(* gateway_ack_demo a command has no number and gets no result line; what    *)
(* main prints at the end are its own two counters and two of the logger's.  *)
(***************************************************************************)
EXTENDS LogManager, ProtocolParser, FiniteSets

CONSTANTS Payloads,     \* testInputs
          Expected      \* the command each of them is

ASSUME GatewayPipelineAssumption ==
  Len(Payloads) \in Nat \ {0} /\ Len(Expected) = Len(Payloads)

\* Expected is what the texts stand for, said without the parser.
ASSUME ExpectedAssumption ==
  \A i \in 1 .. Len(Payloads) :
     Payloads[i] \in Seq(Token) /\ Reads(Payloads[i], Expected[i])

VARIABLES
  producer, sequence,   \* inputProducer and its counter
  consumer, rawInput,   \* commandConsumer and the command in its hand
  commandQueue, inputFinished,
  stats,                \* PipelineStats
  handled               \* history: the commands parsed and counted

queueVars == <<commandQueue, inputFinished>>
consumerVars == <<rawInput, stats, handled>>
vars == <<managerVars, producer, sequence, consumer, consumerVars, queueVars>>

\* main has set the logger up; the threads start only if its file is open.
Init ==
  /\ logger = [open |-> TRUE, consoleEnabled |-> TRUE, autoFlush |-> TRUE,
               maxCachedLogs |-> 50, recentLogs |-> <<>>,
               logCounts |-> [level \in LogLevel |-> 0]]
  /\ disk = <<>> /\ unflushed = <<>>
  /\ producer = "push" /\ sequence = 1
  /\ consumer = "check" /\ rawInput = <<>>
  /\ commandQueue = <<>> /\ inputFinished = FALSE
  /\ stats = [accepted |-> 0, rejected |-> 0]
  /\ handled = <<>>

Awakened == IF consumer = "waiting" THEN "check" ELSE consumer
----------------------------------------------------------------------------
(* inputProducer: push, write a log line, notify.                           *)

ProducerPush ==
  /\ producer = "push"
  /\ commandQueue' = Append(commandQueue, Payloads[sequence])
  /\ producer' = "log"
  /\ UNCHANGED <<managerVars, sequence, consumer, consumerVars, inputFinished>>

ProducerLog ==
  /\ producer = "log"
  /\ log("Info", [by |-> "producer", about |-> sequence])
  /\ producer' = "notify"
  /\ UNCHANGED <<sequence, consumer, consumerVars, queueVars>>

ProducerNotify ==
  /\ producer = "notify"
  /\ consumer' = Awakened
  /\ IF sequence < Len(Payloads)
     THEN producer' = "push" /\ sequence' = sequence + 1
     ELSE producer' = "finish" /\ UNCHANGED sequence
  /\ UNCHANGED <<managerVars, consumerVars, queueVars>>

\* Mutant: the producer notifies first and sets the flag afterwards.
ProducerFinish_late ==
  /\ producer = "finish"
  /\ consumer' = Awakened
  /\ producer' = "log_finished"
  /\ UNCHANGED <<managerVars, sequence, consumerVars, queueVars>>

ProducerFinish ==
  /\ producer = "finish"
  /\ inputFinished' = TRUE
  /\ producer' = "log_finished"
  /\ UNCHANGED <<managerVars, sequence, consumer, consumerVars, commandQueue>>

ProducerLogFinished ==
  /\ producer = "log_finished"
  /\ log("Info", [by |-> "producer", about |-> 0])
  /\ producer' = "notify_all"
  /\ UNCHANGED <<sequence, consumer, consumerVars, queueVars>>

ProducerNotifyAll ==
  /\ producer = "notify_all"
  /\ consumer' = Awakened
  /\ producer' = "done"
  /\ UNCHANGED <<managerVars, sequence, consumerVars, queueVars>>

inputProducer == \/ ProducerPush \/ ProducerLog \/ ProducerNotify
                 \/ ProducerFinish \/ ProducerLogFinished \/ ProducerNotifyAll
----------------------------------------------------------------------------
(* commandConsumer.                                                         *)

ConsumerWait ==
  /\ consumer = "check"
  /\ commandQueue = <<>> /\ ~inputFinished
  /\ consumer' = "waiting"
  /\ UNCHANGED <<managerVars, producer, sequence, consumerVars, queueVars>>

ConsumerSpuriousWakeup ==
  /\ consumer = "waiting"
  /\ consumer' = "check"
  /\ UNCHANGED <<managerVars, producer, sequence, consumerVars, queueVars>>

ConsumerBreak ==
  /\ consumer = "check"
  /\ commandQueue = <<>> /\ inputFinished
  /\ consumer' = "log_finished"
  /\ UNCHANGED <<managerVars, producer, sequence, consumerVars, queueVars>>

ConsumerPop ==
  /\ consumer = "check"
  /\ commandQueue /= <<>>
  /\ rawInput' = Head(commandQueue)
  /\ commandQueue' = Tail(commandQueue)
  /\ consumer' = "parse"
  /\ UNCHANGED <<managerVars, producer, sequence, stats, handled, inputFinished>>

ConsumerParse ==
  /\ consumer = "parse"
  /\ stats' = IF isValid(parse(rawInput)) THEN [stats EXCEPT !.accepted = @ + 1]
                                          ELSE [stats EXCEPT !.rejected = @ + 1]
  /\ handled' = Append(handled, rawInput)
  /\ consumer' = "log"
  /\ UNCHANGED <<managerVars, producer, sequence, rawInput, queueVars>>

ConsumerLog ==
  /\ consumer = "log"
  /\ log(IF isValid(parse(rawInput)) THEN "Info" ELSE "Warning",
         [by |-> "consumer", about |-> parse(rawInput)])
  /\ consumer' = "check"
  /\ UNCHANGED <<producer, sequence, consumerVars, queueVars>>

ConsumerLogFinished ==
  /\ consumer = "log_finished"
  /\ log("Info", [by |-> "consumer", about |-> "finished"])
  /\ consumer' = "done"
  /\ UNCHANGED <<producer, sequence, consumerVars, queueVars>>

commandConsumer == \/ ConsumerWait \/ ConsumerBreak \/ ConsumerPop
                   \/ ConsumerParse \/ ConsumerLog \/ ConsumerLogFinished
----------------------------------------------------------------------------
Joined == producer = "done" /\ consumer = "done"

\* main prints its figures and its logger is destroyed.
MainReturn ==
  /\ Joined
  /\ destroy
  /\ UNCHANGED <<producer, sequence, consumer, consumerVars, queueVars>>

Next == \/ inputProducer
        \/ commandConsumer
        \/ ConsumerSpuriousWakeup
        \/ MainReturn
        \/ ~logger.open /\ UNCHANGED vars

Spec == Init /\ [][Next]_vars
----------------------------------------------------------------------------
Skeleton == INSTANCE ProducerConsumer WITH
  Sample <- {Payloads[i] : i \in 1 .. Len(Payloads)},
  Inputs <- Payloads,
  collector <- CASE producer = "log" -> "notify"
                 [] producer = "log_finished" -> "notify_all"
                 [] OTHER -> producer,
  index <- sequence,
  processor <- CASE consumer = "parse" -> "process"
                 [] consumer = "log" -> "check"
                 [] consumer = "log_finished" -> "done"
                 [] OTHER -> consumer,
  hand <- IF consumer = "parse" THEN <<rawInput>> ELSE <<>>,
  sampleQueue <- commandQueue,
  productionFinished <- inputFinished,
  processed <- handled

\* The gateway pipeline hands commands over like ProducerConsumer, with a log
\* line between each push and its notification and between one command and the
\* next: none is lost, repeated or overtaken and no wake-up is missed.
PipelineImplementsProducerConsumer == Skeleton!HandOverSpec

\* How many of the first n lines of the file a thread has written.
LinesBy(who, n) == Cardinality({p \in 1 .. n : disk[p].by = who})

\* Whatever main prints after the joins agrees: every command is accepted or
\* rejected, the logger counted one warning per rejection, and the file holds one
\* line of each thread per command and one for its end, those of each thread in
\* the order it wrote them, the consumer's with the command the text stands for.
PrintedFiguresAgree ==
  Joined =>
    /\ stats.accepted + stats.rejected = Len(Payloads)
    /\ logger.logCounts["Warning"] = stats.rejected
    /\ logger.logCounts["Info"] = Len(Payloads) + stats.accepted + 2
    /\ \A who \in {"producer", "consumer"} :
         LinesBy(who, Len(disk)) = Len(Payloads) + 1
    /\ \A p \in 1 .. Len(disk) :
         LET nth == LinesBy(disk[p].by, p)
         IN nth <= Len(Payloads) =>
              disk[p].about = IF disk[p].by = "producer" THEN nth ELSE Expected[nth]
============================================================================
