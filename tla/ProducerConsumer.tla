------------------------- MODULE ProducerConsumer -------------------------
(***************************************************************************)
(* cpp_modules/producer_consumer_demo: a thread puts samples into a queue    *)
(* under queueMutex and notifies, another one waits on queueCondition, takes *)
(* them and processes them outside the lock.  The flag productionFinished    *)
(* ends the second thread once the queue is empty.                           *)
(*                                                                           *)
(* A step is one critical section, one notification or the work on one       *)
(* sample.  The threads of gateway_pipeline_demo and gateway_ack_demo follow *)
(* this pattern: GatewayPipeline and CommandPipeline implement it.           *)
(***************************************************************************)
EXTENDS Integers, Sequences

CONSTANTS Sample, Inputs     \* the samples collectTask makes, in this order

ASSUME ProducerConsumerAssumption == Inputs \in Seq(Sample) /\ Inputs /= <<>>

VARIABLES
  collector,    \* collectTask: "push", "notify", "finish", "notify_all", "done"
  index,        \* its loop counter
  processor,    \* processTask: "check", "waiting", "process", "done"
  hand,         \* the sample it took: none or one
  sampleQueue, productionFinished,
  processed     \* the samples processed

handOverVars == <<collector, index, processor, hand, sampleQueue, productionFinished, processed>>

HandOverInit ==
  /\ collector = "push" /\ index = 1
  /\ processor = "check" /\ hand = <<>>
  /\ sampleQueue = <<>>
  /\ productionFinished = FALSE
  /\ processed = <<>>

ProcessorAwakened == IF processor = "waiting" THEN "check" ELSE processor

CollectPush ==
  /\ collector = "push"
  /\ sampleQueue' = Append(sampleQueue, Inputs[index])
  /\ collector' = "notify"
  /\ UNCHANGED <<index, processor, hand, productionFinished, processed>>

\* notify_one, with one thread that may be waiting.
CollectNotify ==
  /\ collector = "notify"
  /\ processor' = ProcessorAwakened
  /\ IF index < Len(Inputs) THEN index' = index + 1 /\ collector' = "push"
                            ELSE collector' = "finish" /\ UNCHANGED index
  /\ UNCHANGED <<hand, sampleQueue, productionFinished, processed>>

CollectFinish ==
  /\ collector = "finish"
  /\ productionFinished' = TRUE
  /\ collector' = "notify_all"
  /\ UNCHANGED <<index, processor, hand, sampleQueue, processed>>

CollectNotifyAll ==
  /\ collector = "notify_all"
  /\ processor' = ProcessorAwakened
  /\ collector' = "done"
  /\ UNCHANGED <<index, hand, sampleQueue, productionFinished, processed>>

collectTask == CollectPush \/ CollectNotify \/ CollectFinish \/ CollectNotifyAll
----------------------------------------------------------------------------
ProcessWait ==
  /\ processor = "check"
  /\ sampleQueue = <<>> /\ ~productionFinished
  /\ processor' = "waiting"
  /\ UNCHANGED <<collector, index, hand, sampleQueue, productionFinished, processed>>

SpuriousWakeup ==
  /\ processor = "waiting"
  /\ processor' = "check"
  /\ UNCHANGED <<collector, index, hand, sampleQueue, productionFinished, processed>>

\* Mutant: the flag alone ends the loop.
ProcessBreak_early ==
  /\ processor = "check"
  /\ productionFinished
  /\ processor' = "done"
  /\ UNCHANGED <<collector, index, hand, sampleQueue, productionFinished, processed>>

ProcessBreak ==
  /\ processor = "check"
  /\ sampleQueue = <<>> /\ productionFinished
  /\ processor' = "done"
  /\ UNCHANGED <<collector, index, hand, sampleQueue, productionFinished, processed>>

\* Mutant: back() is read where front() is popped.
ProcessTake_back ==
  /\ processor = "check"
  /\ sampleQueue /= <<>>
  /\ hand' = <<sampleQueue[Len(sampleQueue)]>>
  /\ sampleQueue' = Tail(sampleQueue)
  /\ processor' = "process"
  /\ UNCHANGED <<collector, index, productionFinished, processed>>

ProcessTake ==
  /\ processor = "check"
  /\ sampleQueue /= <<>>
  /\ hand' = <<Head(sampleQueue)>>
  /\ sampleQueue' = Tail(sampleQueue)
  /\ processor' = "process"
  /\ UNCHANGED <<collector, index, productionFinished, processed>>

Process ==
  /\ processor = "process"
  /\ processed' = processed \o hand
  /\ hand' = <<>>
  /\ processor' = "check"
  /\ UNCHANGED <<collector, index, sampleQueue, productionFinished>>

processTask == ProcessWait \/ ProcessBreak \/ ProcessTake \/ Process
----------------------------------------------------------------------------
TasksJoined == collector = "done" /\ processor = "done"

HandOverNext == collectTask \/ processTask \/ SpuriousWakeup \/ (TasksJoined /\ UNCHANGED handOverVars)

HandOverSpec == HandOverInit /\ [][HandOverNext]_handOverVars

\* Both threads are scheduled.
HandOverFairSpec == HandOverSpec /\ WF_handOverVars(collectTask) /\ WF_handOverVars(processTask)
----------------------------------------------------------------------------
Pushed == IF collector = "push" THEN index - 1 ELSE index

\* No sample is lost, repeated or overtaken between collectTask and processTask
\* (main.cpp 28-84): what was processed, is in hand and is queued are the samples
\* pushed, in order.
NothingLost == processed \o hand \o sampleQueue = SubSeq(Inputs, 1, Pushed)

\* main's joins return (main.cpp 97-104), and only after every sample was
\* processed: no notification falls between processTask's test and its sleep,
\* and the flag does not end it while samples are queued.
EverySampleProcessed == <>(TasksJoined /\ processed = Inputs)
============================================================================
