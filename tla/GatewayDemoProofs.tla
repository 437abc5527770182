------------------------- MODULE GatewayDemoProofs -------------------------
(***************************************************************************)
(* Theorems about gateway_timeout_demo, for any number of commands and       *)
(* retries and any set of lost ACKs, and about gateway_pipeline_demo and the *)
(* parser it uses, for any inputs.                                           *)
(***************************************************************************)
EXTENDS TimeoutDemo, GatewayPipeline, FiniteSetTheorems, SequenceTheorems,
        WellFoundedInduction, TLAPS
----------------------------------------------------------------------------
(* gateway_timeout_demo: the figures balance, and a command counts as        *)
(* acknowledged only if the device executed it.  For the second, an entry of *)
(* ackMap and the frame the device is about to answer stem from a frame it   *)
(* took and whose ACK is not lost.                                           *)

Executed(s) == \E a \in 1 .. (MaxRetries + 1) :
                 <<s, a>> \in received /\ <<s, a>> \notin LostAcks

AnswersAreReal ==
  /\ \A s \in ackMap : Executed(s)
  /\ device = "reply" => Executed(request[1])

Inv == TypeOK /\ StatsBalance /\ AnswersAreReal /\ AckedWasExecuted

\* The invariant holds when the demo starts.
LEMMA InitInv == TimeoutInit => Inv
<1> SUFFICES ASSUME TimeoutInit PROVE Inv
  OBVIOUS
<1> USE TimeoutDemoAssumption DEF TimeoutDemoAssumption
<1>1. TypeOK
  <2>1. 1 \in 1 .. NCommands /\ 1 \in 1 .. (MaxRetries + 1)
    OBVIOUS
  <2>2. request \in Frames
    BY <2>1 DEF TimeoutInit, Frames
  <2>3. retryStats \in Stats
    BY DEF TimeoutInit, Stats
  <2>4. txQueue \in Seq(Frames) /\ ackMap = {} /\ received = {} /\ acked = {}
    BY DEF TimeoutInit
  <2>5. finished \in BOOLEAN
    BY Zenon DEF TimeoutInit
  <2>6. sender = "push" /\ device = "check" /\ sending = 1 /\ attempt = 1
    BY DEF TimeoutInit
  <2> QED
    BY <2>1, <2>2, <2>3, <2>4, <2>5, <2>6 DEF TypeOK
<1>2. StatsBalance
  BY DEF TimeoutInit, StatsBalance, InFlight, LoopOver
<1>3. AnswersAreReal /\ AckedWasExecuted
  BY DEF TimeoutInit, AnswersAreReal, AckedWasExecuted
<1> QED
  BY <1>1, <1>2, <1>3 DEF Inv

\* What the sender's steps keep of the device's state.
LEMMA DeviceKept ==
  ASSUME Inv, received' = received, request' = request, acked' = acked,
         ackMap' \subseteq ackMap, device' \in {device, DeviceAwakened}
  PROVE  AnswersAreReal' /\ AckedWasExecuted'
<1>1. device' = "reply" => device = "reply"
  BY DEF DeviceAwakened
<1>2. \A s : Executed(s)' <=> Executed(s)
  BY DEF Executed
<1> QED
  BY <1>1, <1>2 DEF Inv, AnswersAreReal, AckedWasExecuted, Executed

\* A push counts a frame, which is in flight from then on.
LEMMA SenderPushKeeps == ASSUME Inv, SenderPush PROVE Inv'
<1> USE TimeoutDemoAssumption DEF TimeoutDemoAssumption
<1>1. retryStats.sentFrames + 1 \in Nat
  BY DEF Inv, TypeOK, Stats
<1>2. retryStats' \in Stats
  BY <1>1 DEF Inv, TypeOK, Stats, SenderPush
<1>3. TypeOK'
  <2>1. <<sending, attempt>> \in Frames
    BY DEF Inv, TypeOK, Frames
  <2>2. txQueue' \in Seq(Frames)
    BY <2>1 DEF Inv, TypeOK, SenderPush
  <2> QED
    BY <1>2, <2>2 DEF Inv, TypeOK, SenderPush, deviceVars
<1>4. StatsBalance'
  <2>1. /\ retryStats'.sentFrames = retryStats.sentFrames + 1 /\ retryStats'.acked = retryStats.acked
        /\ retryStats'.timeouts = retryStats.timeouts /\ retryStats'.retries = retryStats.retries
        /\ retryStats'.failed = retryStats.failed
    BY DEF Inv, TypeOK, Stats, SenderPush
  <2>2. retryStats.sentFrames \in Nat /\ retryStats.acked \in Nat /\ retryStats.timeouts \in Nat
    BY DEF Inv, TypeOK, Stats
  <2> QED
    BY <2>1, <2>2 DEF Inv, SenderPush, StatsBalance, InFlight, LoopOver
<1>5. AnswersAreReal' /\ AckedWasExecuted'
  BY DeviceKept DEF SenderPush, deviceVars
<1> QED
  BY <1>3, <1>4, <1>5 DEF Inv

\* A notification moves only the threads.
LEMMA SenderNotifyKeeps == ASSUME Inv, SenderNotify PROVE Inv'
<1>1. TypeOK'
  BY DEF Inv, TypeOK, SenderNotify, DeviceAwakened
<1>2. StatsBalance'
  BY DEF Inv, SenderNotify, StatsBalance, InFlight, LoopOver
<1>3. AnswersAreReal' /\ AckedWasExecuted'
  BY DeviceKept DEF SenderNotify
<1> QED
  BY <1>1, <1>2, <1>3 DEF Inv

\* Where the sender goes after a command.
LEMMA NextCommandTypes ==
  ASSUME Inv, NextCommand
  PROVE  /\ sender' \in {"push", "finish"}
         /\ sending' \in 1 .. NCommands
         /\ attempt' \in 1 .. (MaxRetries + 1)
         /\ sender' = "push" => sending' = sending + 1
         /\ sender' = "finish" => sending = NCommands
  BY TimeoutDemoAssumption DEF TimeoutDemoAssumption, Inv, TypeOK, NextCommand

\* An ACK that is taken ends the attempt; its entry in ackMap was real.
LEMMA SenderReceiveKeeps == ASSUME Inv, SenderReceive PROVE Inv'
<1> USE TimeoutDemoAssumption DEF TimeoutDemoAssumption
<1>1. /\ sender' \in {"push", "finish"}
      /\ sending' \in 1 .. NCommands
      /\ attempt' \in 1 .. (MaxRetries + 1)
      /\ sender' = "push" => sending' = sending + 1
      /\ sender' = "finish" => sending = NCommands
  BY NextCommandTypes DEF SenderReceive
<1>2. /\ retryStats.sentFrames \in Nat /\ retryStats.acked \in Nat /\ retryStats.timeouts \in Nat
      /\ retryStats.retries \in Nat /\ retryStats.failed \in Nat /\ retryStats.acked + 1 \in Nat
  BY DEF Inv, TypeOK, Stats
<1>3. retryStats' \in Stats
  BY <1>2 DEF Inv, TypeOK, Stats, SenderReceive
<1>4. TypeOK'
  BY <1>1, <1>3 DEF Inv, TypeOK, SenderReceive, deviceVars
<1>5. StatsBalance'
  <2>1. /\ retryStats'.sentFrames = retryStats.sentFrames /\ retryStats'.acked = retryStats.acked + 1
        /\ retryStats'.timeouts = retryStats.timeouts /\ retryStats'.retries = retryStats.retries
        /\ retryStats'.failed = retryStats.failed
    BY DEF Inv, TypeOK, Stats, SenderReceive
  <2>2. sender = "await" /\ sending \in Nat
    BY DEF Inv, TypeOK, SenderReceive
  <2> QED
    BY <1>1, <1>2, <2>1, <2>2 DEF Inv, StatsBalance, InFlight, LoopOver
<1>6. AnswersAreReal'
  BY DEF Inv, SenderReceive, deviceVars, AnswersAreReal, Executed
<1>7. AckedWasExecuted'
  <2>1. Executed(sending)
    BY DEF Inv, SenderReceive, AnswersAreReal
  <2>2. received' = received /\ acked' = acked \cup {sending}
    BY DEF SenderReceive, deviceVars
  <2> QED
    BY <2>1, <2>2 DEF Inv, AckedWasExecuted, Executed
<1> QED
  BY <1>4, <1>5, <1>6, <1>7 DEF Inv

\* A timeout ends the attempt and counts as a retry or as a failure.
LEMMA SenderTimeoutKeeps == ASSUME Inv, SenderTimeout PROVE Inv'
<1> USE TimeoutDemoAssumption DEF TimeoutDemoAssumption
<1>1. /\ retryStats.sentFrames \in Nat /\ retryStats.acked \in Nat /\ retryStats.timeouts \in Nat
      /\ retryStats.retries \in Nat /\ retryStats.failed \in Nat /\ retryStats.timeouts + 1 \in Nat
      /\ retryStats.retries + 1 \in Nat /\ retryStats.failed + 1 \in Nat
      /\ sending \in Nat /\ sender = "await"
  BY SMTT(40) DEF Inv, TypeOK, Stats, SenderTimeout
<1>2. AnswersAreReal' /\ AckedWasExecuted'
  BY DeviceKept DEF SenderTimeout, deviceVars
<1>3. CASE attempt <= MaxRetries
  <2>1. /\ retryStats' = [retryStats EXCEPT !.timeouts = @ + 1, !.retries = @ + 1]
        /\ attempt' = attempt + 1 /\ sender' = "push" /\ sending' = sending
    BY <1>3 DEF SenderTimeout
  <2>2. /\ retryStats'.sentFrames = retryStats.sentFrames /\ retryStats'.acked = retryStats.acked
        /\ retryStats'.timeouts = retryStats.timeouts + 1 /\ retryStats'.retries = retryStats.retries + 1
        /\ retryStats'.failed = retryStats.failed
    BY <2>1 DEF Inv, TypeOK, Stats
  <2>3. retryStats' \in Stats
    BY <1>1, <2>1 DEF Inv, TypeOK, Stats
  <2>4. attempt' \in 1 .. (MaxRetries + 1)
    BY <1>3, <2>1 DEF Inv, TypeOK
  <2>5. TypeOK'
    BY <2>1, <2>3, <2>4 DEF Inv, TypeOK, SenderTimeout, deviceVars
  <2>6. StatsBalance'
    BY <1>1, <2>1, <2>2 DEF Inv, StatsBalance, InFlight, LoopOver
  <2> QED
    BY <1>2, <2>5, <2>6 DEF Inv
<1>4. CASE ~(attempt <= MaxRetries)
  <2>1. /\ retryStats' = [retryStats EXCEPT !.timeouts = @ + 1, !.failed = @ + 1]
        /\ NextCommand
    BY <1>4 DEF SenderTimeout
  <2>2. /\ retryStats'.sentFrames = retryStats.sentFrames /\ retryStats'.acked = retryStats.acked
        /\ retryStats'.timeouts = retryStats.timeouts + 1 /\ retryStats'.retries = retryStats.retries
        /\ retryStats'.failed = retryStats.failed + 1
    BY <2>1 DEF Inv, TypeOK, Stats
  <2>3. retryStats' \in Stats
    BY <1>1, <2>1 DEF Inv, TypeOK, Stats
  <2>4. /\ sender' \in {"push", "finish"}
        /\ sending' \in 1 .. NCommands
        /\ attempt' \in 1 .. (MaxRetries + 1)
        /\ sender' = "push" => sending' = sending + 1
        /\ sender' = "finish" => sending = NCommands
    BY <2>1, NextCommandTypes
  <2>5. TypeOK'
    BY <2>3, <2>4 DEF Inv, TypeOK, SenderTimeout, deviceVars
  <2>6. StatsBalance'
    BY <1>1, <2>2, <2>4 DEF Inv, StatsBalance, InFlight, LoopOver
  <2> QED
    BY <1>2, <2>5, <2>6 DEF Inv
<1> QED
  BY <1>3, <1>4

\* The end of the loop changes no figure.
LEMMA SenderEndKeeps == ASSUME Inv, SenderFinish \/ SenderNotifyAll PROVE Inv'
<1>1. CASE SenderFinish
  <2>1. TypeOK'
    BY <1>1 DEF Inv, TypeOK, SenderFinish, deviceVars
  <2>2. StatsBalance'
    BY <1>1 DEF Inv, SenderFinish, StatsBalance, InFlight, LoopOver
  <2>3. AnswersAreReal' /\ AckedWasExecuted'
    BY <1>1, DeviceKept DEF SenderFinish, deviceVars
  <2> QED
    BY <2>1, <2>2, <2>3 DEF Inv
<1>2. CASE SenderNotifyAll
  <2>1. TypeOK'
    BY <1>2 DEF Inv, TypeOK, SenderNotifyAll, DeviceAwakened
  <2>2. StatsBalance'
    BY <1>2 DEF Inv, SenderNotifyAll, StatsBalance, InFlight, LoopOver
  <2>3. AnswersAreReal' /\ AckedWasExecuted'
    BY <1>2, DeviceKept DEF SenderNotifyAll
  <2> QED
    BY <2>1, <2>2, <2>3 DEF Inv
<1> QED
  BY <1>1, <1>2

\* What the device takes and answers is real.
LEMMA DeviceKeeps ==
  ASSUME Inv, simulatedDevice \/ DeviceSpuriousWakeup
  PROVE  Inv'
<1> USE TimeoutDemoAssumption DEF TimeoutDemoAssumption
<1>1. /\ sender' = sender /\ sending' = sending /\ attempt' = attempt
      /\ retryStats' = retryStats /\ acked' = acked /\ finished' = finished
  BY DEF simulatedDevice, DeviceSpuriousWakeup, DeviceWait, DeviceStop, DeviceTake,
         DeviceReply, senderVars
<1>2. StatsBalance'
  BY <1>1 DEF Inv, StatsBalance, InFlight, LoopOver
<1>3. CASE DeviceWait \/ DeviceStop \/ DeviceSpuriousWakeup
  <2>1. /\ request' = request /\ received' = received /\ ackMap' = ackMap
        /\ txQueue' = txQueue /\ device' \in {"waiting", "check", "done"}
    BY <1>3 DEF DeviceWait, DeviceStop, DeviceSpuriousWakeup
  <2>2. TypeOK'
    BY <1>1, <2>1 DEF Inv, TypeOK
  <2>3. AnswersAreReal' /\ AckedWasExecuted'
    BY <1>1, <2>1 DEF Inv, AnswersAreReal, AckedWasExecuted, Executed
  <2> QED
    BY <1>2, <2>2, <2>3 DEF Inv
<1>4. CASE DeviceTake
  <2>1. /\ txQueue \in Seq(Frames) /\ txQueue /= <<>> /\ request' = Head(txQueue)
        /\ received' = received \cup {Head(txQueue)} /\ txQueue' = Tail(txQueue)
        /\ ackMap' = ackMap
        /\ device' = IF Head(txQueue) \in LostAcks THEN "check" ELSE "reply"
    BY <1>4 DEF Inv, TypeOK, DeviceTake
  <2>2. Head(txQueue) \in Frames /\ Tail(txQueue) \in Seq(Frames)
    BY <2>1
  <2>3. TypeOK'
    BY <1>1, <2>1, <2>2 DEF Inv, TypeOK
  <2>4. \A s : Executed(s) => Executed(s)'
    BY <2>1 DEF Executed
  <2>5. device' = "reply" => Executed(request[1])'
    <3> DEFINE h == Head(txQueue)
    <3>1. h[1] \in 1 .. NCommands /\ h[2] \in 1 .. (MaxRetries + 1) /\ h = <<h[1], h[2]>>
      BY <2>2 DEF Frames
    <3>2. ASSUME device' = "reply"
          PROVE  h \notin LostAcks /\ h \in received' /\ request' = h
      BY <2>1, <3>2
    <3> QED
      BY <3>1, <3>2 DEF Executed
  <2>6. AnswersAreReal' /\ AckedWasExecuted'
    BY <1>1, <2>1, <2>4, <2>5 DEF Inv, AnswersAreReal, AckedWasExecuted, Executed
  <2> QED
    BY <1>2, <2>3, <2>6 DEF Inv
<1>5. CASE DeviceReply
  <2>1. /\ device = "reply" /\ device' = "check" /\ ackMap' = ackMap \cup {request[1]}
        /\ request' = request /\ received' = received /\ txQueue' = txQueue
    BY <1>5 DEF DeviceReply
  <2>2. request[1] \in 1 .. NCommands
    BY DEF Inv, TypeOK, Frames
  <2>3. TypeOK'
    BY <1>1, <2>1, <2>2 DEF Inv, TypeOK
  <2>4. AnswersAreReal' /\ AckedWasExecuted'
    BY <1>1, <2>1 DEF Inv, AnswersAreReal, AckedWasExecuted, Executed
  <2> QED
    BY <1>2, <2>3, <2>4 DEF Inv
<1> QED
  BY <1>3, <1>4, <1>5 DEF simulatedDevice

\* Every step keeps the invariant.
LEMMA NextKeeps == Inv /\ [TimeoutNext]_timeoutVars => Inv'
<1> SUFFICES ASSUME Inv, [TimeoutNext]_timeoutVars PROVE Inv'
  OBVIOUS
<1>1. CASE UNCHANGED timeoutVars
  <2>1. /\ sender' = sender /\ sending' = sending /\ attempt' = attempt
        /\ retryStats' = retryStats /\ acked' = acked /\ finished' = finished
        /\ device' = device /\ request' = request /\ received' = received
        /\ txQueue' = txQueue /\ ackMap' = ackMap
    BY <1>1 DEF timeoutVars, senderVars, deviceVars
  <2>2. TypeOK'
    BY <2>1 DEF Inv, TypeOK
  <2>3. StatsBalance'
    BY <2>1 DEF Inv, StatsBalance, InFlight, LoopOver
  <2>4. AnswersAreReal' /\ AckedWasExecuted'
    BY <2>1, DeviceKept
  <2> QED
    BY <2>2, <2>3, <2>4 DEF Inv
<1>2. CASE commandSender
  BY <1>2, SenderPushKeeps, SenderNotifyKeeps, SenderReceiveKeeps, SenderTimeoutKeeps,
     SenderEndKeeps DEF commandSender
<1>3. CASE simulatedDevice \/ DeviceSpuriousWakeup
  BY <1>3, DeviceKeeps
<1> QED
  BY <1>1, <1>2, <1>3 DEF TimeoutNext

\* The invariant holds at all times.
LEMMA Invariance == TimeoutSpec => []Inv
  BY InitInv, NextKeeps, PTL DEF TimeoutSpec

\* The figures main prints balance at every moment.
THEOREM FiguresBalance == TimeoutSpec => []StatsBalance
<1>1. Inv => StatsBalance
  BY DEF Inv
<1> QED
  BY <1>1, Invariance, PTL

\* A command counts as acknowledged only if the device executed it and answered.
THEOREM AckedMeansExecuted == TimeoutSpec => []AckedWasExecuted
<1>1. Inv => AckedWasExecuted
  BY DEF Inv
<1> QED
  BY <1>1, Invariance, PTL
----------------------------------------------------------------------------
(* gateway_pipeline_demo implements ProducerConsumer.                       *)

Number == 1 .. Len(Payloads)
Texts == {Payloads[i] : i \in Number}

PipelineInv ==
  /\ sequence \in Number
  /\ producer \in {"push", "log", "notify", "finish", "log_finished", "notify_all", "done"}
  /\ consumer \in {"check", "waiting", "parse", "log", "log_finished", "done"}
  /\ commandQueue \in Seq(Texts) /\ handled \in Seq(Texts)
  /\ consumer = "parse" => rawInput \in Texts

\* PipelineInv is inductive.
LEMMA PipelineInductive ==
  /\ Init => PipelineInv
  /\ PipelineInv /\ [Next]_vars => PipelineInv'
<1>1. Len(Payloads) \in Nat \ {0}
  BY GatewayPipelineAssumption
<1>2. Init => PipelineInv
  BY <1>1 DEF Init, PipelineInv, Number
<1>3. ASSUME PipelineInv, [Next]_vars
      PROVE  PipelineInv'
  <2> USE <1>1, <1>3
  <2>1. CASE ProducerPush
    <3>1. Payloads[sequence] \in Texts
      BY DEF PipelineInv, Texts
    <3>2. commandQueue' \in Seq(Texts)
      BY <2>1, <3>1, AppendProperties DEF ProducerPush, PipelineInv
    <3>3. QED
      BY <2>1, <3>2 DEF ProducerPush, PipelineInv, consumerVars
  <2>2. CASE ProducerLog
    BY <2>2 DEF ProducerLog, PipelineInv, consumerVars, queueVars
  <2>3. CASE ProducerNotify
    BY <2>3 DEF ProducerNotify, Awakened, PipelineInv, Number, consumerVars, queueVars
  <2>4. CASE ProducerFinish
    BY <2>4 DEF ProducerFinish, PipelineInv, consumerVars
  <2>5. CASE ProducerLogFinished
    BY <2>5 DEF ProducerLogFinished, PipelineInv, consumerVars, queueVars
  <2>6. CASE ProducerNotifyAll
    BY <2>6 DEF ProducerNotifyAll, Awakened, PipelineInv, consumerVars, queueVars
  <2>7. CASE ConsumerWait
    BY <2>7 DEF ConsumerWait, PipelineInv, consumerVars, queueVars
  <2>8. CASE ConsumerSpuriousWakeup
    BY <2>8 DEF ConsumerSpuriousWakeup, PipelineInv, consumerVars, queueVars
  <2>9. CASE ConsumerBreak
    BY <2>9 DEF ConsumerBreak, PipelineInv, consumerVars, queueVars
  <2>10. CASE ConsumerPop
    <3>1. Head(commandQueue) \in Texts /\ Tail(commandQueue) \in Seq(Texts)
      BY <2>10, HeadTailProperties DEF ConsumerPop, PipelineInv
    <3>2. QED
      BY <2>10, <3>1 DEF ConsumerPop, PipelineInv
  <2>11. CASE ConsumerParse
    <3>1. Append(handled, rawInput) \in Seq(Texts)
      BY <2>11, AppendProperties DEF ConsumerParse, PipelineInv
    <3>2. QED
      BY <2>11, <3>1 DEF ConsumerParse, PipelineInv, queueVars
  <2>12. CASE ConsumerLog
    BY <2>12 DEF ConsumerLog, PipelineInv, consumerVars, queueVars
  <2>13. CASE ConsumerLogFinished
    BY <2>13 DEF ConsumerLogFinished, PipelineInv, consumerVars, queueVars
  <2>14. CASE MainReturn
    BY <2>14 DEF MainReturn, PipelineInv, consumerVars, queueVars
  <2>15. CASE UNCHANGED vars
    BY <2>15 DEF vars, PipelineInv, consumerVars, queueVars
  <2>16. QED
    BY <2>1, <2>2, <2>3, <2>4, <2>5, <2>6, <2>7, <2>8, <2>9, <2>10, <2>11, <2>12,
       <2>13, <2>14, <2>15
       DEF Next, inputProducer, commandConsumer
<1>4. QED
  BY <1>2, <1>3

CollectorAt == CASE producer = "log" -> "notify"
                 [] producer = "log_finished" -> "notify_all"
                 [] OTHER -> producer
WorkerAt == CASE consumer = "parse" -> "process"
              [] consumer = "log" -> "check"
              [] consumer = "log_finished" -> "done"
              [] OTHER -> consumer
HandAt == IF consumer = "parse" THEN <<rawInput>> ELSE <<>>

\* Every step of gateway_pipeline_demo is a step of ProducerConsumer or a stutter.
LEMMA PipelineSimulates ==
  ASSUME PipelineInv, [Next]_vars
  PROVE  [Skeleton!HandOverNext]_(Skeleton!handOverVars)
<1>1. ASSUME UNCHANGED <<CollectorAt, sequence, WorkerAt, HandAt, commandQueue,
                         inputFinished, handled>>
      PROVE  UNCHANGED Skeleton!handOverVars
  BY <1>1 DEF Skeleton!handOverVars, CollectorAt, WorkerAt, HandAt
<1>2. CASE ProducerPush
  <2>1. CollectorAt = "push" /\ CollectorAt' = "notify"
    BY <1>2 DEF ProducerPush, CollectorAt
  <2>2. /\ UNCHANGED <<sequence, WorkerAt, HandAt, inputFinished, handled>>
        /\ commandQueue' = Append(commandQueue, Payloads[sequence])
    BY <1>2 DEF ProducerPush, consumerVars, WorkerAt, HandAt
  <2>3. Skeleton!CollectPush
    BY <2>1, <2>2 DEF Skeleton!CollectPush, CollectorAt, WorkerAt, HandAt
  <2>4. QED
    BY <2>3 DEF Skeleton!HandOverNext, Skeleton!collectTask
<1>3. CASE ProducerLog \/ ProducerLogFinished
  <2>1. UNCHANGED <<CollectorAt, sequence, WorkerAt, HandAt, commandQueue,
                    inputFinished, handled>>
    BY <1>3 DEF ProducerLog, ProducerLogFinished, CollectorAt, WorkerAt, HandAt,
       consumerVars, queueVars
  <2>2. QED
    BY <1>1, <2>1
<1>4. CASE ProducerNotify
  <2>1. CollectorAt = "notify"
    BY <1>4 DEF ProducerNotify, CollectorAt
  <2>2. IF sequence < Len(Payloads)
        THEN sequence' = sequence + 1 /\ CollectorAt' = "push"
        ELSE CollectorAt' = "finish" /\ UNCHANGED sequence
    BY <1>4 DEF ProducerNotify, CollectorAt
  <2>3. UNCHANGED <<HandAt, commandQueue, inputFinished, handled>>
    BY <1>4 DEF ProducerNotify, Awakened, HandAt, consumerVars, queueVars
  <2>4. WorkerAt' = IF WorkerAt = "waiting" THEN "check" ELSE WorkerAt
    BY <1>4 DEF ProducerNotify, Awakened, WorkerAt
  <2>5. Skeleton!CollectNotify
    BY <2>1, <2>2, <2>3, <2>4
       DEF Skeleton!CollectNotify, Skeleton!ProcessorAwakened, CollectorAt, WorkerAt, HandAt
  <2>6. QED
    BY <2>5 DEF Skeleton!HandOverNext, Skeleton!collectTask
<1>5. CASE ProducerFinish
  <2>1. CollectorAt = "finish" /\ CollectorAt' = "notify_all"
    BY <1>5 DEF ProducerFinish, CollectorAt
  <2>2. /\ UNCHANGED <<sequence, WorkerAt, HandAt, commandQueue, handled>>
        /\ inputFinished' = TRUE
    BY <1>5 DEF ProducerFinish, consumerVars, WorkerAt, HandAt
  <2>3. Skeleton!CollectFinish
    BY <2>1, <2>2 DEF Skeleton!CollectFinish, CollectorAt, WorkerAt, HandAt
  <2>4. QED
    BY <2>3 DEF Skeleton!HandOverNext, Skeleton!collectTask
<1>6. CASE ProducerNotifyAll
  <2>1. CollectorAt = "notify_all" /\ CollectorAt' = "done"
    BY <1>6 DEF ProducerNotifyAll, CollectorAt
  <2>2. UNCHANGED <<sequence, HandAt, commandQueue, inputFinished, handled>>
    BY <1>6 DEF ProducerNotifyAll, Awakened, HandAt, consumerVars, queueVars
  <2>3. WorkerAt' = IF WorkerAt = "waiting" THEN "check" ELSE WorkerAt
    BY <1>6 DEF ProducerNotifyAll, Awakened, WorkerAt
  <2>4. Skeleton!CollectNotifyAll
    BY <2>1, <2>2, <2>3
       DEF Skeleton!CollectNotifyAll, Skeleton!ProcessorAwakened, CollectorAt, WorkerAt, HandAt
  <2>5. QED
    BY <2>4 DEF Skeleton!HandOverNext, Skeleton!collectTask
<1>7. CASE ConsumerWait
  <2>1. WorkerAt = "check" /\ WorkerAt' = "waiting" /\ HandAt' = HandAt
    BY <1>7 DEF ConsumerWait, WorkerAt, HandAt
  <2>2. /\ commandQueue = <<>> /\ ~inputFinished
        /\ UNCHANGED <<CollectorAt, sequence, commandQueue, inputFinished, handled>>
    BY <1>7 DEF ConsumerWait, CollectorAt, consumerVars, queueVars
  <2>3. Skeleton!ProcessWait
    BY <2>1, <2>2 DEF Skeleton!ProcessWait, CollectorAt, WorkerAt, HandAt
  <2>4. QED
    BY <2>3 DEF Skeleton!HandOverNext, Skeleton!processTask
<1>8. CASE ConsumerSpuriousWakeup
  <2>1. WorkerAt = "waiting" /\ WorkerAt' = "check" /\ HandAt' = HandAt
    BY <1>8 DEF ConsumerSpuriousWakeup, WorkerAt, HandAt
  <2>2. UNCHANGED <<CollectorAt, sequence, commandQueue, inputFinished, handled>>
    BY <1>8 DEF ConsumerSpuriousWakeup, CollectorAt, consumerVars, queueVars
  <2>3. Skeleton!SpuriousWakeup
    BY <2>1, <2>2 DEF Skeleton!SpuriousWakeup, CollectorAt, WorkerAt, HandAt
  <2>4. QED
    BY <2>3 DEF Skeleton!HandOverNext
<1>9. CASE ConsumerBreak
  <2>1. WorkerAt = "check" /\ WorkerAt' = "done" /\ HandAt' = HandAt
    BY <1>9 DEF ConsumerBreak, WorkerAt, HandAt
  <2>2. /\ commandQueue = <<>> /\ inputFinished
        /\ UNCHANGED <<CollectorAt, sequence, commandQueue, inputFinished, handled>>
    BY <1>9 DEF ConsumerBreak, CollectorAt, consumerVars, queueVars
  <2>3. Skeleton!ProcessBreak
    BY <2>1, <2>2 DEF Skeleton!ProcessBreak, CollectorAt, WorkerAt, HandAt
  <2>4. QED
    BY <2>3 DEF Skeleton!HandOverNext, Skeleton!processTask
<1>10. CASE ConsumerPop
  <2>1. /\ WorkerAt = "check" /\ WorkerAt' = "process"
        /\ HandAt' = <<Head(commandQueue)>>
    BY <1>10 DEF ConsumerPop, WorkerAt, HandAt
  <2>2. /\ commandQueue /= <<>> /\ commandQueue' = Tail(commandQueue)
        /\ UNCHANGED <<CollectorAt, sequence, inputFinished, handled>>
    BY <1>10 DEF ConsumerPop, CollectorAt
  <2>3. Skeleton!ProcessTake
    BY <2>1, <2>2 DEF Skeleton!ProcessTake, CollectorAt, WorkerAt, HandAt
  <2>4. QED
    BY <2>3 DEF Skeleton!HandOverNext, Skeleton!processTask
<1>11. CASE ConsumerParse
  <2>1. /\ WorkerAt = "process" /\ WorkerAt' = "check"
        /\ HandAt = <<rawInput>> /\ HandAt' = <<>>
    BY <1>11 DEF ConsumerParse, WorkerAt, HandAt
  <2>2. handled' = handled \o <<rawInput>>
    <3>1. rawInput \in Texts /\ handled \in Seq(Texts) /\ handled' = Append(handled, rawInput)
      BY <1>11 DEF ConsumerParse, PipelineInv
    <3>2. QED
      BY <3>1, AppendIsConcat
  <2>3. UNCHANGED <<CollectorAt, sequence, commandQueue, inputFinished>>
    BY <1>11 DEF ConsumerParse, CollectorAt, queueVars
  <2>4. Skeleton!Process
    BY <2>1, <2>2, <2>3 DEF Skeleton!Process, CollectorAt, WorkerAt, HandAt
  <2>5. QED
    BY <2>4 DEF Skeleton!HandOverNext, Skeleton!processTask
<1>12. CASE ConsumerLog \/ ConsumerLogFinished
  <2>1. UNCHANGED <<CollectorAt, sequence, WorkerAt, HandAt, commandQueue,
                    inputFinished, handled>>
    BY <1>12 DEF ConsumerLog, ConsumerLogFinished, CollectorAt, WorkerAt, HandAt,
       consumerVars, queueVars
  <2>2. QED
    BY <1>1, <2>1
<1>13. CASE MainReturn \/ UNCHANGED vars
  <2>1. UNCHANGED <<CollectorAt, sequence, WorkerAt, HandAt, commandQueue,
                    inputFinished, handled>>
    BY <1>13 DEF MainReturn, vars, CollectorAt, WorkerAt, HandAt,
       consumerVars, queueVars
  <2>2. QED
    BY <1>1, <2>1
<1>14. QED
  BY <1>2, <1>3, <1>4, <1>5, <1>6, <1>7, <1>8, <1>9, <1>10, <1>11, <1>12, <1>13
     DEF Next, inputProducer, commandConsumer

\* gateway_pipeline_demo with any inputs hands its commands over like
\* ProducerConsumer (main.cpp 29-135), with a log line between each push and its
\* notification and between one command and the next.
THEOREM PipelineDemoHandsOver == Spec => PipelineImplementsProducerConsumer
<1>1. Init => Skeleton!HandOverInit
  <2>1. Init => CollectorAt = "push" /\ WorkerAt = "check" /\ HandAt = <<>>
    BY DEF Init, CollectorAt, WorkerAt, HandAt
  <2>2. QED
    BY <2>1 DEF Init, Skeleton!HandOverInit, CollectorAt, WorkerAt, HandAt
<1>2. QED
  BY <1>1, PipelineInductive, PipelineSimulates, PTL
     DEF Spec, PipelineImplementsProducerConsumer, Skeleton!HandOverSpec
----------------------------------------------------------------------------
(* The parser of the demos.                                                 *)

\* A set of numbers that is not empty has a least one.
LEMMA LeastNat ==
  ASSUME NEW T \in SUBSET Nat, T # {}
  PROVE  \E m \in T : \A k \in T : m <= k
<1>1. PICK R : R = OpToRel(<, Nat)
  OBVIOUS
<1>2. IsWellFoundedOn(R, Nat)
  BY <1>1, NatLessThanWellFounded
<1>3. PICK m \in T : \A k \in T : ~ (<<k, m>> \in R)
  BY <1>2, WFMin
<1>4. ASSUME NEW k \in T PROVE m <= k
  <2>1. ~ (k < m)
    BY <1>1, <1>3 DEF OpToRel
  <2>2. QED
    BY <2>1
<1>5. QED
  BY <1>3, <1>4

\* A set of numbers up to n that is not empty has a greatest one.
LEMMA GreatestUpTo ==
  ASSUME NEW n \in Nat, NEW T \in SUBSET (1 .. n), T # {}
  PROVE  \E m \in T : \A k \in T : k <= m
<1>1. PICK U : U = {j \in Nat : n - j \in T}
  OBVIOUS
<1>2. U \in SUBSET Nat /\ U # {}
  <2>1. PICK k \in T : TRUE
    OBVIOUS
  <2>2. n - k \in Nat /\ n - (n - k) = k
    OBVIOUS
  <2>3. QED
    BY <1>1, <2>1, <2>2
<1>3. PICK j \in U : \A i \in U : j <= i
  BY <1>2, LeastNat
<1>4. n - j \in T
  BY <1>1, <1>3
<1>5. ASSUME NEW k \in T
      PROVE  k <= n - j
  <2>1. n - k \in Nat /\ n - (n - k) = k
    OBVIOUS
  <2>2. n - k \in U
    BY <1>1, <2>1
  <2>3. j <= n - k /\ j \in Nat
    BY <1>1, <1>3, <2>2
  <2>4. QED
    BY <2>3
<1>6. QED
  BY <1>4, <1>5

\* What normalizeInput leaves of a text (protocol_parser.cpp 16-36): the part from
\* the first to the last place that is not white space.
LEMMA NormalizedIs ==
  ASSUME NEW payload, Len(payload) \in Nat,
         \E k \in 1 .. Len(payload) : payload[k].word \notin WhiteSpace
  PROVE  \E first \in 1 .. Len(payload), last \in 1 .. Len(payload) :
           /\ first <= last
           /\ payload[first].word \notin WhiteSpace /\ payload[last].word \notin WhiteSpace
           /\ \A i \in 1 .. Len(payload) :
                payload[i].word \notin WhiteSpace => first <= i /\ i <= last
           /\ normalizeInput(payload)
                = [i \in 1 .. (last - first + 1) |-> ToUpper(payload[first + i - 1])]
<1> DEFINE text == {i \in 1 .. Len(payload) : payload[i].word \notin WhiteSpace}
           first == CHOOSE i \in text : \A j \in text : i <= j
           last == CHOOSE i \in text : \A j \in text : j <= i
<1>1. text \in SUBSET (1 .. Len(payload)) /\ text \in SUBSET Nat /\ text # {}
  OBVIOUS
<1>2. (\E m \in text : \A k \in text : m <= k) /\ (\E m \in text : \A k \in text : k <= m)
  BY <1>1, LeastNat, GreatestUpTo
<1>3. /\ first \in text /\ \A j \in text : first <= j
      /\ last \in text /\ \A j \in text : j <= last
  BY <1>2
<1>4. normalizeInput(payload)
        = [i \in 1 .. (last - first + 1) |-> ToUpper(payload[first + i - 1])]
  BY <1>1 DEF normalizeInput
<1> HIDE DEF first, last
<1>5. QED
  BY <1>3, <1>4

\* ProtocolParser::parse (protocol_parser.cpp 16-52) reads every text, in whatever
\* case its word is written, as the command it stands for, and one that stands
\* for none as Unknown.
THEOREM ParserReads ==
  ASSUME NEW payload \in Seq(Token), NEW command, Reads(payload, command)
  PROVE  parse(payload) = command
<1>0. Len(payload) \in Nat
  OBVIOUS
<1>1. \A i \in 1 .. Len(payload) :
        ToUpper(payload[i]) = [word |-> payload[i].word, case |-> "upper"]
  <2> SUFFICES ASSUME NEW i \in 1 .. Len(payload)
               PROVE  ToUpper(payload[i]) = [word |-> payload[i].word, case |-> "upper"]
    OBVIOUS
  <2>1. payload[i] \in Token
    OBVIOUS
  <2>2. PICK token \in Token : token = payload[i]
    BY <2>1
  <2>3. ToUpper(token) = [word |-> token.word, case |-> "upper"]
    BY DEF ToUpper, Token
  <2>4. QED
    BY <2>2, <2>3
<1>2. CASE \E word \in Words : Means(payload, word)
  <2>1. command \in Words /\ Means(payload, command)
    BY <1>2 DEF Reads
  <2>2. PICK k \in 1 .. Len(payload) :
          /\ payload[k].word = command
          /\ \A i \in 1 .. Len(payload) : i /= k => payload[i].word \in WhiteSpace
    BY <2>1 DEF Means
  <2>3. payload[k].word \notin WhiteSpace
    BY <2>1, <2>2 DEF Words, WhiteSpace
  <2>4. PICK first \in 1 .. Len(payload), last \in 1 .. Len(payload) :
           /\ payload[first].word \notin WhiteSpace /\ payload[last].word \notin WhiteSpace
           /\ normalizeInput(payload)
                = [i \in 1 .. (last - first + 1) |-> ToUpper(payload[first + i - 1])]
    BY <1>0, <2>3, NormalizedIs
  <2>5. first = k /\ last = k
    BY <2>2, <2>4
  <2>6. last - first + 1 = 1 /\ first + 1 - 1 = k
    BY <2>5
  <2>7. normalizeInput(payload) = [i \in 1 .. 1 |-> ToUpper(payload[first + i - 1])]
    BY <2>4, <2>6
  <2>8. PICK token : token = [word |-> command, case |-> "upper"]
    OBVIOUS
  <2>9. ToUpper(payload[k]) = token
    BY <1>1, <2>2, <2>8
  <2>10. normalizeInput(payload) = <<token>>
    BY <2>6, <2>7, <2>9
  <2>11. normalizeInput(payload)[1].word = command
    BY <2>8, <2>10
  <2>12. QED
    BY <2>1, <2>8, <2>10, <2>11, Zenon DEF parse
<1>3. CASE ~ \E word \in Words : Means(payload, word)
  <2>1. command = "Unknown"
    BY <1>3 DEF Reads
  <2>2. SUFFICES ASSUME NEW w \in Words,
                        normalizeInput(payload) = <<[word |-> w, case |-> "upper"]>>
                 PROVE  FALSE
    BY <2>1, Zenon DEF parse
  <2>3. PICK token : token = [word |-> w, case |-> "upper"]
    OBVIOUS
  <2>4. normalizeInput(payload) = <<token>> /\ token.word = w
    BY <2>2, <2>3
  <2>5. \E k \in 1 .. Len(payload) : payload[k].word \notin WhiteSpace
    <3>1. SUFFICES ASSUME {i \in 1 .. Len(payload) : payload[i].word \notin WhiteSpace} = {}
                   PROVE  FALSE
      OBVIOUS
    <3>2. normalizeInput(payload) = <<>>
      BY <3>1 DEF normalizeInput
    <3>3. QED
      BY <2>4, <3>2
  <2>6. PICK first \in 1 .. Len(payload), last \in 1 .. Len(payload) :
           /\ first <= last
           /\ payload[first].word \notin WhiteSpace /\ payload[last].word \notin WhiteSpace
           /\ \A i \in 1 .. Len(payload) :
                payload[i].word \notin WhiteSpace => first <= i /\ i <= last
           /\ normalizeInput(payload)
                = [i \in 1 .. (last - first + 1) |-> ToUpper(payload[first + i - 1])]
    BY <1>0, <2>5, NormalizedIs, Zenon
  <2>7. 1 .. (last - first + 1) = 1 .. 1 /\ <<token>>[1] = token
    BY <2>4, <2>6
  <2>8. last = first
    <3>1. PICK n \in Nat : n = last - first + 1
      BY <2>6
    <3>2. n \in 1 .. n
      BY <2>6, <3>1
    <3>3. 1 .. n = 1 .. 1
      BY <2>7, <3>1
    <3>4. n \in 1 .. 1
      BY <3>2, <3>3, Zenon
    <3>5. QED
      BY <3>1, <3>4
  <2>9. ToUpper(payload[first]) = token
    <3>1. normalizeInput(payload)[1] = ToUpper(payload[first + 1 - 1])
      BY <2>6, <2>7
    <3>2. first + 1 - 1 = first
      OBVIOUS
    <3>3. QED
      BY <2>4, <2>7, <3>1, <3>2
  <2>10. payload[first].word = w
    <3>1. PICK letters : letters = payload[first].word
      OBVIOUS
    <3>2. token = [word |-> letters, case |-> "upper"]
      BY <1>1, <2>9, <3>1
    <3>3. token.word = letters
      BY <3>2
    <3>4. QED
      BY <2>4, <3>1, <3>3
  <2>11. \A i \in 1 .. Len(payload) : i /= first => payload[i].word \in WhiteSpace
    BY <2>6, <2>8
  <2>12. QED
    BY <1>3, <2>10, <2>11 DEF Means
<1>4. QED
  BY <1>2, <1>3
----------------------------------------------------------------------------
(* The figures and the file of gateway_pipeline_demo.                       *)

\* What the parser answers.
LEMMA ParseType ==
  ASSUME NEW payload
  PROVE  parse(payload) \in Words \cup {"Unknown"}
<1> DEFINE normalized == normalizeInput(payload)
<1>1. ASSUME NEW w \in Words, normalized = <<[word |-> w, case |-> "upper"]>>
      PROVE  normalized[1].word = w
  <2>1. PICK token : token = [word |-> w, case |-> "upper"]
    OBVIOUS
  <2>2. normalized = <<token>> /\ token.word = w
    BY <1>1, <2>1
  <2> HIDE DEF normalized
  <2>3. QED
    BY <2>2
<1>2. QED
  BY <1>1, Zenon DEF parse

Subjects == Nat \cup Words \cup {"Unknown", "finished"}
DemoLines == [by : {"producer", "consumer"}, about : Subjects]

LinesOf(d, who, n) == Cardinality({p \in 1 .. n : d[p].by = who})

\* Line p of a file is the one its thread wrote for that command.
RightLine(d, p) ==
  LinesOf(d, d[p].by, p) <= Len(Payloads) =>
    d[p].about = IF d[p].by = "producer" THEN LinesOf(d, d[p].by, p)
                                         ELSE parse(Payloads[LinesOf(d, d[p].by, p)])
RightFile(d) == \A p \in 1 .. Len(d) : RightLine(d, p)

\* A line is counted for the thread that wrote it.
LEMMA LinesAppend ==
  ASSUME NEW d \in Seq(DemoLines), NEW line \in DemoLines, NEW who
  PROVE  /\ LinesOf(d, who, Len(d)) \in Nat
         /\ \A p \in 1 .. Len(d) : LinesOf(Append(d, line), who, p) = LinesOf(d, who, p)
         /\ LinesOf(Append(d, line), who, Len(d) + 1)
              = LinesOf(d, who, Len(d)) + (IF line.by = who THEN 1 ELSE 0)
<1>1. PICK n \in Nat : n = Len(d)
  BY LenProperties
<1>2. PICK e : e = Append(d, line)
  OBVIOUS
<1>3. /\ Len(e) = n + 1 /\ e[n + 1] = line
      /\ \A p \in 1 .. n : e[p] = d[p]
  BY <1>1, <1>2, AppendProperties
<1>4. ASSUME NEW m \in 1 .. n
      PROVE  {p \in 1 .. m : e[p].by = who} = {p \in 1 .. m : d[p].by = who}
  <2>1. \A p \in 1 .. m : e[p] = d[p]
    BY <1>3
  <2>2. QED
    BY <2>1
<1>5. PICK S : S = {p \in 1 .. n : d[p].by = who}
  OBVIOUS
<1>6. IsFiniteSet(S) /\ Cardinality(S) \in Nat /\ n + 1 \notin S
  <2>1. IsFiniteSet(1 .. n)
    BY FS_Interval
  <2>2. S \in SUBSET (1 .. n)
    BY <1>5
  <2>3. IsFiniteSet(S)
    BY <2>1, <2>2, FS_Subset
  <2>4. n + 1 \notin S
    BY <2>2
  <2>5. QED
    BY <2>3, <2>4, FS_CardinalityType
<1>7. PICK U : U = {p \in 1 .. (n + 1) : e[p].by = who}
  OBVIOUS
<1>8. Cardinality(U) = Cardinality(S) + (IF line.by = who THEN 1 ELSE 0)
  <2>0. 1 .. (n + 1) = (1 .. n) \cup {n + 1}
    OBVIOUS
  <2>1. CASE line.by = who
    <3>1. U = S \cup {n + 1}
      BY <1>3, <1>5, <1>7, <2>0, <2>1
    <3>2. Cardinality(U) = Cardinality(S) + 1
      BY <1>6, <3>1, FS_AddElement
    <3>3. QED
      BY <2>1, <3>2
  <2>2. CASE line.by /= who
    <3>1. U = S
      BY <1>3, <1>5, <1>7, <2>0, <2>2
    <3>2. QED
      BY <1>6, <2>2, <3>1
  <2>3. QED
    BY <2>1, <2>2
<1>9. QED
  BY <1>1, <1>2, <1>4, <1>5, <1>6, <1>7, <1>8 DEF LinesOf

\* A file stays right if its next line is.
LEMMA FileGrows ==
  ASSUME NEW d \in Seq(DemoLines), NEW line \in DemoLines, RightFile(d),
         NEW nth, nth = LinesOf(d, line.by, Len(d)) + 1,
         nth <= Len(Payloads) =>
           line.about = IF line.by = "producer" THEN nth ELSE parse(Payloads[nth])
  PROVE  RightFile(Append(d, line))
<1>1. PICK n \in Nat : n = Len(d)
  BY LenProperties
<1>2. PICK e : e = Append(d, line)
  OBVIOUS
<1>3. /\ Len(e) = n + 1 /\ e[n + 1] = line
      /\ \A p \in 1 .. n : e[p] = d[p]
  BY <1>1, <1>2, AppendProperties
<1>4. ASSUME NEW p \in 1 .. n
      PROVE  RightLine(e, p)
  <2>1. LinesOf(e, d[p].by, p) = LinesOf(d, d[p].by, p) /\ e[p] = d[p]
    <3>1. PICK who : who = d[p].by
      OBVIOUS
    <3>2. p \in 1 .. Len(d)
      BY <1>1
    <3>3. \A r \in 1 .. Len(d) : LinesOf(Append(d, line), who, r) = LinesOf(d, who, r)
      BY LinesAppend
    <3>4. LinesOf(e, who, p) = LinesOf(d, who, p)
      BY <1>2, <3>2, <3>3
    <3>5. QED
      BY <1>3, <3>1, <3>4
  <2>2. RightLine(d, p)
    BY <1>1 DEF RightFile
  <2>3. QED
    BY <2>1, <2>2 DEF RightLine
<1>5. RightLine(e, n + 1)
  <2>1. LinesOf(e, line.by, n + 1) = nth
    <3>1. LinesOf(e, line.by, n + 1) = LinesOf(d, line.by, n) + 1
      BY <1>1, <1>2, LinesAppend
    <3>2. QED
      BY <1>1, <3>1
  <2>2. QED
    BY <1>3, <2>1 DEF RightLine
<1>6. QED
  <2>1. ASSUME NEW p \in 1 .. (n + 1) PROVE RightLine(e, p)
    BY <1>4, <1>5
  <2>2. QED
    BY <1>2, <1>3, <2>1 DEF RightFile

One(b) == IF b THEN 1 ELSE 0

Received == IF producer = "push" THEN sequence - 1 ELSE sequence
QueuedLines == IF producer \in {"push", "log"} THEN sequence - 1 ELSE sequence

\* When a thread has left its loop.
LeftInv ==
  /\ producer \in {"finish", "log_finished", "notify_all", "done"} =>
       sequence = Len(Payloads)
  /\ inputFinished => producer \in {"log_finished", "notify_all", "done"}
  /\ consumer \in {"log_finished", "done"} => commandQueue = <<>> /\ inputFinished

\* Counted, in hand and queued are the texts 1, 2, ... up to the last one pushed.
TakenTexts == Len(handled) + One(consumer = "parse")
TextInv ==
  /\ consumer = "parse" => rawInput = Payloads[Len(handled) + 1]
  /\ consumer = "log" => Len(handled) > 0 /\ rawInput = Payloads[Len(handled)]
  /\ \A i \in 1 .. Len(commandQueue) : commandQueue[i] = Payloads[TakenTexts + i]
  /\ TakenTexts + Len(commandQueue) = Received

\* The logger's members, and that every line went straight to the file.
DemoLoggerInv ==
  /\ logger = [open |-> logger.open, consoleEnabled |-> logger.consoleEnabled,
               autoFlush |-> TRUE, maxCachedLogs |-> logger.maxCachedLogs,
               recentLogs |-> logger.recentLogs, logCounts |-> logger.logCounts]
  /\ logger.open \/ Joined
  /\ logger.logCounts \in [LogLevel -> Nat]
  /\ disk \in Seq(DemoLines) /\ unflushed = <<>>

\* Each figure, with what is counted and not yet logged.
Valid == isValid(parse(rawInput))
CountInv ==
  /\ stats \in [accepted : Nat, rejected : Nat]
  /\ stats.accepted + stats.rejected = Len(handled)
  /\ logger.logCounts["Warning"] + One(consumer = "log" /\ ~Valid) = stats.rejected
  /\ logger.logCounts["Info"] + One(consumer = "log" /\ Valid)
       = QueuedLines + stats.accepted + One(producer \in {"notify_all", "done"})
           + One(consumer = "done")

\* How many lines of each thread the file holds, and that each is right.
FileInv ==
  /\ LinesOf(disk, "producer", Len(disk))
       = QueuedLines + One(producer \in {"notify_all", "done"})
  /\ LinesOf(disk, "consumer", Len(disk)) + One(consumer = "log")
       = Len(handled) + One(consumer = "done")
  /\ RightFile(disk)

DemoInv == PipelineInv /\ TextInv /\ LeftInv /\ DemoLoggerInv /\ CountInv /\ FileInv

\* The order of the texts and the ends of the loops are preserved.
LEMMA TextInductive ==
  ASSUME PipelineInv, TextInv, LeftInv, [Next]_vars
  PROVE  TextInv' /\ LeftInv'
<1>1. /\ Len(Payloads) \in Nat \ {0} /\ sequence \in Nat /\ sequence \in 1 .. Len(Payloads)
      /\ Len(handled) \in Nat /\ Len(commandQueue) \in Nat
  BY GatewayPipelineAssumption, LenProperties DEF PipelineInv, Number
<1>2. PICK h \in Nat, q \in Nat : h = Len(handled) /\ q = Len(commandQueue)
  BY <1>1
<1>3. PipelineInv'
  BY PipelineInductive
<1>4. CASE ProducerPush
  <2>1. /\ producer = "push" /\ producer' = "log"
        /\ UNCHANGED <<sequence, consumer, rawInput, handled, inputFinished>>
        /\ commandQueue' = Append(commandQueue, Payloads[sequence])
    BY <1>4 DEF ProducerPush, consumerVars
  <2>2. TakenTexts' = TakenTexts /\ TakenTexts \in Nat
    BY <1>1, <2>1 DEF TakenTexts, One
  <2>3. PICK t \in Nat : t = TakenTexts
    BY <2>2
  <2>4. t + q = sequence - 1
    BY <1>2, <2>1, <2>3 DEF TextInv, Received
  <2>5. /\ Len(commandQueue') = q + 1
        /\ \A i \in 1 .. q : commandQueue'[i] = commandQueue[i]
        /\ commandQueue'[q + 1] = Payloads[sequence]
    <3>1. commandQueue \in Seq(Texts) /\ Payloads[sequence] \in Texts
      BY DEF PipelineInv, Texts
    <3>2. QED
      BY <1>2, <2>1, <3>1, AppendProperties
  <2>6. \A i \in 1 .. (q + 1) : commandQueue'[i] = Payloads[t + i]
    <3>1. \A i \in 1 .. q : commandQueue[i] = Payloads[t + i]
      BY <1>2, <2>3 DEF TextInv
    <3>2. t + (q + 1) = sequence
      BY <1>1, <2>4
    <3>3. TAKE i \in 1 .. (q + 1)
    <3>4. CASE i = q + 1
      BY <2>5, <3>2, <3>4
    <3>5. CASE i \in 1 .. q
      BY <2>5, <3>1, <3>5
    <3>6. QED
      BY <3>4, <3>5
  <2>7. t + (q + 1) = sequence
    BY <1>1, <2>4
  <2>8. Received' = sequence
    BY <2>1 DEF Received
  <2>9. TextInv'
    BY <2>1, <2>2, <2>3, <2>5, <2>6, <2>7, <2>8 DEF TextInv
  <2>10. LeftInv'
    BY <2>1, <1>3 DEF LeftInv
  <2>11. QED
    BY <2>9, <2>10
<1>5. CASE ProducerNotify
  <2>1. /\ producer = "notify"
        /\ UNCHANGED <<rawInput, handled, commandQueue, inputFinished>>
        /\ consumer' = IF consumer = "waiting" THEN "check" ELSE consumer
        /\ IF sequence < Len(Payloads)
           THEN producer' = "push" /\ sequence' = sequence + 1
           ELSE producer' = "finish" /\ UNCHANGED sequence
    BY <1>5 DEF ProducerNotify, Awakened, consumerVars, queueVars
  <2>2. TakenTexts' = TakenTexts
    BY <2>1 DEF TakenTexts, One
  <2>3. Received' = Received
    BY <1>1, <2>1 DEF Received
  <2>4. TextInv'
    BY <2>1, <2>2, <2>3 DEF TextInv
  <2>5. LeftInv'
    BY <1>1, <2>1 DEF LeftInv
  <2>6. QED
    BY <2>4, <2>5
<1>6. CASE ProducerLog \/ ProducerFinish \/ ProducerLogFinished
           \/ ProducerNotifyAll
  <2>1. /\ producer \in {"log", "finish", "log_finished", "notify_all"}
        /\ producer' \in {"notify", "log_finished", "notify_all", "done"}
        /\ producer = "log" => producer' = "notify" /\ UNCHANGED inputFinished
        /\ producer # "log" => producer' \in {"log_finished", "notify_all", "done"}
        /\ UNCHANGED <<sequence, rawInput, handled, commandQueue>>
        /\ inputFinished => inputFinished'
        /\ consumer' = consumer \/ (consumer = "waiting" /\ consumer' = "check")
    BY <1>6 DEF ProducerLog, ProducerFinish, ProducerLogFinished, ProducerNotifyAll,
       Awakened, consumerVars, queueVars
  <2>2. TakenTexts' = TakenTexts /\ Received' = Received
    BY <2>1 DEF TakenTexts, One, Received
  <2>3. TextInv'
    BY <2>1, <2>2 DEF TextInv
  <2>4. LeftInv'
    BY <2>1 DEF LeftInv
  <2>5. QED
    BY <2>3, <2>4
<1>7. CASE ConsumerPop
  <2>1. /\ consumer = "check" /\ consumer' = "parse" /\ commandQueue # <<>>
        /\ rawInput' = Head(commandQueue) /\ commandQueue' = Tail(commandQueue)
        /\ UNCHANGED <<producer, sequence, handled, inputFinished>>
    BY <1>7 DEF ConsumerPop
  <2>2. TakenTexts = h /\ TakenTexts' = h + 1
    BY <1>1, <1>2, <2>1 DEF TakenTexts, One
  <2>3. /\ q > 0 /\ Head(commandQueue) = commandQueue[1] /\ Len(Tail(commandQueue)) = q - 1
        /\ \A i \in 1 .. (q - 1) : Tail(commandQueue)[i] = commandQueue[i + 1]
    <3>1. commandQueue \in Seq(Texts)
      BY DEF PipelineInv
    <3>2. q > 0
      BY <1>2, <2>1, <3>1, EmptySeq
    <3>3. QED
      BY <1>2, <2>1, <3>1, <3>2, HeadTailProperties
  <2>4. \A i \in 1 .. q : commandQueue[i] = Payloads[h + i]
    BY <1>2, <2>2 DEF TextInv
  <2>5. rawInput' = Payloads[h + 1]
    BY <2>1, <2>3, <2>4
  <2>6. \A i \in 1 .. (q - 1) : commandQueue'[i] = Payloads[(h + 1) + i]
    <3>1. TAKE i \in 1 .. (q - 1)
    <3>2. i + 1 \in 1 .. q /\ h + (i + 1) = (h + 1) + i
      OBVIOUS
    <3>3. QED
      BY <2>1, <2>3, <2>4, <3>2
  <2>7. Received' = Received /\ h + q = Received
    BY <1>2, <2>1, <2>2 DEF Received, TextInv
  <2>8. (h + 1) + (q - 1) = h + q
    OBVIOUS
  <2>9. TextInv'
    BY <1>2, <2>1, <2>2, <2>3, <2>5, <2>6, <2>7, <2>8 DEF TextInv
  <2>10. LeftInv'
    BY <2>1 DEF LeftInv
  <2>11. QED
    BY <2>9, <2>10
<1>8. CASE ConsumerParse
  <2>1. /\ consumer = "parse" /\ consumer' = "log" /\ handled' = Append(handled, rawInput)
        /\ UNCHANGED <<producer, sequence, rawInput, commandQueue, inputFinished>>
    BY <1>8 DEF ConsumerParse, queueVars
  <2>2. Len(handled') = h + 1
    <3>1. handled \in Seq(Texts) /\ rawInput \in Texts
      BY <2>1 DEF PipelineInv
    <3>2. QED
      BY <1>2, <2>1, <3>1, AppendProperties
  <2>3. TakenTexts = h + 1 /\ TakenTexts' = h + 1
    BY <1>2, <2>1, <2>2 DEF TakenTexts, One
  <2>4. Received' = Received
    BY <2>1 DEF Received
  <2>5. TextInv'
    <3>1. h + 1 > 0 /\ rawInput' = Payloads[h + 1]
      BY <1>2, <2>1 DEF TextInv
    <3>2. \A i \in 1 .. Len(commandQueue) : commandQueue[i] = Payloads[(h + 1) + i]
      BY <2>3 DEF TextInv
    <3>3. \A i \in 1 .. Len(commandQueue') : commandQueue'[i] = Payloads[(h + 1) + i]
      BY <2>1, <3>2
    <3>4. TakenTexts' + Len(commandQueue') = Received'
      BY <2>1, <2>3, <2>4 DEF TextInv
    <3>5. QED
      BY <2>1, <2>2, <2>3, <3>1, <3>3, <3>4 DEF TextInv
  <2>6. LeftInv'
    BY <2>1 DEF LeftInv
  <2>7. QED
    BY <2>5, <2>6
<1>9. CASE ConsumerWait \/ ConsumerSpuriousWakeup \/ ConsumerBreak \/ ConsumerLog
           \/ ConsumerLogFinished \/ MainReturn \/ UNCHANGED vars
  <2>1. /\ UNCHANGED <<producer, sequence, rawInput, handled, commandQueue, inputFinished>>
        /\ consumer' # "parse" \/ consumer' = consumer
        /\ consumer' # "log" \/ consumer' = consumer
        /\ consumer = "parse" => consumer' = consumer
        /\ consumer' \in {"log_finished", "done"} =>
             \/ commandQueue = <<>> /\ inputFinished
             \/ consumer \in {"log_finished", "done"}
    BY <1>9 DEF ConsumerWait, ConsumerSpuriousWakeup, ConsumerBreak, ConsumerLog,
       ConsumerLogFinished, MainReturn, vars, consumerVars, queueVars
  <2>2. TakenTexts' = TakenTexts /\ Received' = Received
    BY <2>1 DEF TakenTexts, One, Received
  <2>3. TextInv'
    BY <2>1, <2>2 DEF TextInv
  <2>4. LeftInv'
    BY <2>1 DEF LeftInv
  <2>5. QED
    BY <2>3, <2>4
<1>10. QED
  BY <1>4, <1>5, <1>6, <1>7, <1>8, <1>9
     DEF Next, inputProducer, commandConsumer

\* What a call of log does while the file is open.
LEMMA DemoLogStep ==
  ASSUME DemoLoggerInv, logger.open, NEW level \in LogLevel, NEW line \in DemoLines,
         log(level, line)
  PROVE  /\ DemoLoggerInv'
         /\ logger'.logCounts = [logger.logCounts EXCEPT ![level] = @ + 1]
         /\ disk' = Append(disk, line)
<1>1. PICK recent :
        logger' = [open |-> logger.open, consoleEnabled |-> logger.consoleEnabled,
                   autoFlush |-> TRUE, maxCachedLogs |-> logger.maxCachedLogs,
                   recentLogs |-> recent,
                   logCounts |-> [logger.logCounts EXCEPT ![level] = @ + 1]]
  <2>1. PICK o, c, m, r, n :
          logger = [open |-> o, consoleEnabled |-> c, autoFlush |-> TRUE,
                    maxCachedLogs |-> m, recentLogs |-> r, logCounts |-> n]
    BY DEF DemoLoggerInv
  <2>2. logger' = [logger EXCEPT !.recentLogs = cacheLogLine(r, m, line),
                                 !.logCounts = [n EXCEPT ![level] = @ + 1]]
    BY <2>1 DEF log
  <2>3. logger' = [open |-> o, consoleEnabled |-> c, autoFlush |-> TRUE,
                   maxCachedLogs |-> m, recentLogs |-> cacheLogLine(r, m, line),
                   logCounts |-> [n EXCEPT ![level] = @ + 1]]
    BY <2>1, <2>2
  <2>4. QED
    BY <2>1, <2>3
<1>2. logger.autoFlush = TRUE
  BY DEF DemoLoggerInv
<1>3. disk' = disk \o Append(<<>>, line) /\ unflushed' = <<>>
  BY <1>2 DEF DemoLoggerInv, log
<1>4. disk \in Seq(DemoLines)
  BY DEF DemoLoggerInv
<1>5. Append(<<>>, line) = <<line>>
  OBVIOUS
<1>6. Append(disk, line) = disk \o <<line>>
  BY <1>4, AppendIsConcat
<1>7. disk' = Append(disk, line)
  BY <1>3, <1>5, <1>6
<1>8. disk' \in Seq(DemoLines)
  BY <1>4, <1>7, AppendProperties
<1>9. [logger.logCounts EXCEPT ![level] = @ + 1] \in [LogLevel -> Nat]
  BY DEF DemoLoggerInv
<1>10. QED
  BY <1>1, <1>3, <1>7, <1>8, <1>9 DEF DemoLoggerInv

\* What a line of one of the two threads does to the counters and to the file.
LEMMA DemoLineStep ==
  ASSUME DemoLoggerInv, RightFile(disk), logger.open, NEW level \in {"Info", "Warning"},
         NEW line \in DemoLines, log(level, line),
         NEW nth, nth = LinesOf(disk, line.by, Len(disk)) + 1,
         nth <= Len(Payloads) =>
           line.about = IF line.by = "producer" THEN nth ELSE parse(Payloads[nth])
  PROVE  /\ DemoLoggerInv' /\ RightFile(disk')
         /\ logger'.logCounts["Info"]
              = logger.logCounts["Info"] + (IF level = "Info" THEN 1 ELSE 0)
         /\ logger'.logCounts["Warning"]
              = logger.logCounts["Warning"] + (IF level = "Warning" THEN 1 ELSE 0)
         /\ \A who \in {"producer", "consumer"} :
              LinesOf(disk', who, Len(disk'))
                = LinesOf(disk, who, Len(disk)) + (IF line.by = who THEN 1 ELSE 0)
<1>1. level \in LogLevel /\ "Info" \in LogLevel /\ "Warning" \in LogLevel
  BY DEF LogLevel
<1>2. /\ DemoLoggerInv' /\ disk' = Append(disk, line)
      /\ logger'.logCounts = [logger.logCounts EXCEPT ![level] = @ + 1]
  BY <1>1, DemoLogStep
<1>3. disk \in Seq(DemoLines) /\ logger.logCounts \in [LogLevel -> Nat]
  BY DEF DemoLoggerInv
<1>4. /\ logger'.logCounts["Info"]
           = logger.logCounts["Info"] + (IF level = "Info" THEN 1 ELSE 0)
      /\ logger'.logCounts["Warning"]
           = logger.logCounts["Warning"] + (IF level = "Warning" THEN 1 ELSE 0)
  <2>1. PICK c \in [LogLevel -> Nat] : c = logger.logCounts
    BY <1>3
  <2>2. c["Info"] \in Nat /\ c["Warning"] \in Nat
    BY <1>1
  <2>3. QED
    BY <1>1, <1>2, <2>1, <2>2
<1>5. PICK d \in Seq(DemoLines) : d = disk
  BY <1>3
<1>6. RightFile(Append(d, line))
  BY <1>5, FileGrows
<1>7. Len(Append(d, line)) = Len(d) + 1
  BY AppendProperties
<1>8. ASSUME NEW who \in {"producer", "consumer"}
      PROVE  LinesOf(Append(d, line), who, Len(Append(d, line)))
               = LinesOf(d, who, Len(d)) + (IF line.by = who THEN 1 ELSE 0)
  BY <1>7, LinesAppend
<1>9. QED
  BY <1>2, <1>4, <1>5, <1>6, <1>8

\* The figures and the file are preserved.
LEMMA DemoFigures ==
  ASSUME DemoInv, [Next]_vars
  PROVE  DemoLoggerInv' /\ CountInv' /\ FileInv'
<1>1. PipelineInv /\ TextInv /\ LeftInv /\ DemoLoggerInv /\ CountInv /\ FileInv
  BY DEF DemoInv
<1>2. /\ Len(Payloads) \in Nat \ {0} /\ sequence \in Nat /\ sequence \in 1 .. Len(Payloads)
      /\ Len(handled) \in Nat /\ Len(commandQueue) \in Nat
      /\ logger.logCounts["Info"] \in Nat /\ logger.logCounts["Warning"] \in Nat
      /\ LinesOf(disk, "producer", Len(disk)) \in Nat
      /\ LinesOf(disk, "consumer", Len(disk)) \in Nat
  <2>1. /\ Len(Payloads) \in Nat \ {0} /\ sequence \in Nat /\ sequence \in 1 .. Len(Payloads)
        /\ Len(handled) \in Nat /\ Len(commandQueue) \in Nat
    BY <1>1, GatewayPipelineAssumption, LenProperties DEF PipelineInv, Number
  <2>2. logger.logCounts["Info"] \in Nat /\ logger.logCounts["Warning"] \in Nat
    BY <1>1 DEF DemoLoggerInv, LogLevel
  <2>3. disk \in Seq(DemoLines)
    BY <1>1 DEF DemoLoggerInv
  <2>4. [by |-> "producer", about |-> 0] \in DemoLines
    BY DEF DemoLines, Subjects
  <2>5. ASSUME NEW who PROVE LinesOf(disk, who, Len(disk)) \in Nat
    BY <2>3, <2>4, LinesAppend
  <2>6. QED
    BY <2>1, <2>2, <2>5
<1>3. PICK h \in Nat, infos \in Nat, warnings \in Nat, ofP \in Nat, ofC \in Nat,
           accepted \in Nat, rejected \in Nat :
        /\ h = Len(handled)
        /\ infos = logger.logCounts["Info"] /\ warnings = logger.logCounts["Warning"]
        /\ ofP = LinesOf(disk, "producer", Len(disk))
        /\ ofC = LinesOf(disk, "consumer", Len(disk))
        /\ stats = [accepted |-> accepted, rejected |-> rejected]
  <2>1. PICK accepted \in Nat, rejected \in Nat :
          stats = [accepted |-> accepted, rejected |-> rejected]
    BY <1>1 DEF CountInv
  <2>2. QED
    BY <1>2, <2>1
<1> DEFINE ended == One(producer \in {"notify_all", "done"})
           left == One(consumer = "done")
           logging == One(consumer = "log")
           warn == One(consumer = "log" /\ ~Valid)
           info == One(consumer = "log" /\ Valid)
<1>4. /\ stats.accepted = accepted /\ stats.rejected = rejected
      /\ accepted + rejected = h
      /\ warnings + warn = rejected
      /\ infos + info = QueuedLines + accepted + ended + left
      /\ ofP = QueuedLines + ended
      /\ ofC + logging = h + left
      /\ RightFile(disk)
  BY <1>1, <1>3 DEF CountInv, FileInv
<1>5. /\ ended \in {0, 1} /\ left \in {0, 1} /\ logging \in {0, 1}
      /\ warn \in {0, 1} /\ info \in {0, 1} /\ QueuedLines \in Nat
  BY <1>2 DEF One, QueuedLines
\* What remains to show of a step, in these terms.
<1>6. ASSUME NEW a \in Nat, NEW r \in Nat, stats' = [accepted |-> a, rejected |-> r],
             DemoLoggerInv', RightFile(disk'),
             a + r = Len(handled)',
             logger'.logCounts["Warning"] + warn' = r,
             logger'.logCounts["Info"] + info' = QueuedLines' + a + ended' + left',
             LinesOf(disk', "producer", Len(disk')) = QueuedLines' + ended',
             LinesOf(disk', "consumer", Len(disk')) + logging' = Len(handled)' + left'
      PROVE  DemoLoggerInv' /\ CountInv' /\ FileInv'
  BY <1>6 DEF CountInv, FileInv
<1>7. ASSUME UNCHANGED <<logger, disk, unflushed, stats, handled>>, logger.open \/ Joined',
             QueuedLines' = QueuedLines, ended' = ended, left' = left, logging' = logging,
             warn' = warn, info' = info
      PROVE  DemoLoggerInv' /\ CountInv' /\ FileInv'
  <2>1. DemoLoggerInv'
    BY <1>1, <1>7 DEF DemoLoggerInv
  <2>2. CountInv'
    BY <1>1, <1>7 DEF CountInv
  <2>3. FileInv'
    BY <1>1, <1>7 DEF FileInv
  <2>4. QED
    BY <2>1, <2>2, <2>3
<1>8. CASE \/ ProducerPush \/ ProducerNotify \/ ProducerFinish \/ ProducerNotifyAll
  <2>1. /\ UNCHANGED <<logger, disk, unflushed, stats, handled, rawInput>>
        /\ producer # "done"
        /\ consumer' = consumer \/ (consumer = "waiting" /\ consumer' = "check")
    BY <1>8 DEF ProducerPush, ProducerNotify, ProducerFinish, ProducerNotifyAll,
       Awakened, consumerVars, managerVars
  <2>2. logger.open
    BY <1>1, <2>1 DEF DemoLoggerInv, Joined
  <2>3. QueuedLines' = QueuedLines /\ ended' = ended
    BY <1>2, <1>8 DEF ProducerPush, ProducerNotify, ProducerFinish, ProducerNotifyAll,
       QueuedLines, One
  <2>4. left' = left /\ logging' = logging
    BY <2>1 DEF One
  <2>5. warn' = warn /\ info' = info
    BY <2>1 DEF One, Valid
  <2>6. QED
    BY <1>7, <2>1, <2>2, <2>3, <2>4, <2>5
<1>9. CASE ConsumerWait \/ ConsumerSpuriousWakeup \/ ConsumerBreak \/ ConsumerPop
  <2>1. /\ UNCHANGED <<logger, disk, unflushed, stats, handled, producer, sequence>>
        /\ consumer \notin {"log", "done"} /\ consumer' \notin {"log", "done"}
    BY <1>9 DEF ConsumerWait, ConsumerSpuriousWakeup, ConsumerBreak, ConsumerPop,
       consumerVars, managerVars
  <2>2. logger.open
    BY <1>1, <2>1 DEF DemoLoggerInv, Joined
  <2>3. QueuedLines' = QueuedLines /\ ended' = ended
    BY <2>1 DEF QueuedLines, One
  <2>4. left' = left /\ logging' = logging /\ warn' = warn /\ info' = info
    BY <2>1 DEF One
  <2>5. QED
    BY <1>7, <2>1, <2>2, <2>3, <2>4
<1>10. CASE UNCHANGED vars
  <2>1. UNCHANGED <<logger, disk, unflushed, stats, handled, producer, sequence,
                    consumer, rawInput>>
    BY <1>10 DEF vars, managerVars, consumerVars
  <2>2. logger.open \/ Joined'
    BY <1>1, <2>1 DEF DemoLoggerInv, Joined
  <2>3. /\ QueuedLines' = QueuedLines /\ ended' = ended /\ left' = left /\ logging' = logging
        /\ warn' = warn /\ info' = info
    BY <2>1 DEF QueuedLines, One, Valid
  <2>4. QED
    BY <1>7, <2>1, <2>2, <2>3
<1>11. CASE MainReturn
  <2>1. /\ UNCHANGED <<stats, handled, producer, sequence, consumer, rawInput>>
        /\ Joined /\ disk' = disk \o unflushed /\ unflushed' = <<>>
        /\ logger' = [logger EXCEPT !.open = FALSE]
    BY <1>11 DEF MainReturn, destroy, consumerVars
  <2>2. disk \in Seq(DemoLines) /\ unflushed = <<>>
    BY <1>1 DEF DemoLoggerInv
  <2>3. disk' = disk
    BY <2>1, <2>2
  <2>4. PICK o, c, m, rl, n :
          logger = [open |-> o, consoleEnabled |-> c, autoFlush |-> TRUE,
                    maxCachedLogs |-> m, recentLogs |-> rl, logCounts |-> n]
    BY <1>1 DEF DemoLoggerInv
  <2>5. logger' = [open |-> FALSE, consoleEnabled |-> c, autoFlush |-> TRUE,
                   maxCachedLogs |-> m, recentLogs |-> rl, logCounts |-> n]
    BY <2>1, <2>4
  <2>6. logger'.logCounts = logger.logCounts
    BY <2>4, <2>5
  <2>7. DemoLoggerInv'
    <3>1. logger'.logCounts \in [LogLevel -> Nat]
      BY <1>1, <2>6 DEF DemoLoggerInv
    <3>2. Joined'
      BY <2>1 DEF Joined
    <3>3. logger' = [open |-> logger'.open, consoleEnabled |-> logger'.consoleEnabled,
                     autoFlush |-> TRUE, maxCachedLogs |-> logger'.maxCachedLogs,
                     recentLogs |-> logger'.recentLogs, logCounts |-> logger'.logCounts]
      BY <2>5
    <3>4. disk' \in Seq(DemoLines) /\ unflushed' = <<>>
      BY <2>1, <2>2, <2>3
    <3>5. QED
      BY <3>1, <3>2, <3>3, <3>4 DEF DemoLoggerInv
  <2>8. /\ QueuedLines' = QueuedLines /\ ended' = ended /\ left' = left /\ logging' = logging
        /\ warn' = warn /\ info' = info
    BY <2>1 DEF QueuedLines, One, Valid
  <2>9. CountInv'
    BY <1>1, <2>1, <2>6, <2>8 DEF CountInv
  <2>10. FileInv'
    BY <1>1, <2>1, <2>3, <2>8 DEF FileInv
  <2>11. QED
    BY <2>7, <2>9, <2>10
<1>12. CASE ConsumerParse
  <2>1. /\ consumer = "parse" /\ consumer' = "log" /\ handled' = Append(handled, rawInput)
        /\ UNCHANGED <<logger, disk, unflushed, producer, sequence, rawInput>>
        /\ stats' = IF isValid(parse(rawInput)) THEN [stats EXCEPT !.accepted = @ + 1]
                                                    ELSE [stats EXCEPT !.rejected = @ + 1]
    BY <1>12 DEF ConsumerParse, managerVars
  <2>2. Len(handled)' = h + 1
    <3>1. handled \in Seq(Texts) /\ rawInput \in Texts
      BY <1>1, <2>1 DEF PipelineInv
    <3>2. QED
      BY <1>3, <2>1, <3>1, AppendProperties
  <2>3. DemoLoggerInv'
    <3>1. logger.open
      BY <1>1, <2>1 DEF DemoLoggerInv, Joined
    <3>2. QED
      BY <1>1, <2>1, <3>1 DEF DemoLoggerInv
  <2>4. QueuedLines' = QueuedLines /\ ended' = ended
    BY <2>1 DEF QueuedLines, One
  <2>5. left' = 0 /\ left = 0 /\ logging' = 1 /\ logging = 0 /\ warn = 0 /\ info = 0
    BY <2>1 DEF One
  <2>6. Valid' = Valid /\ isValid(parse(rawInput)) = Valid
    BY <2>1 DEF Valid
  <2>7. /\ RightFile(disk')
        /\ logger'.logCounts["Info"] = infos /\ logger'.logCounts["Warning"] = warnings
        /\ LinesOf(disk', "producer", Len(disk')) = ofP
        /\ LinesOf(disk', "consumer", Len(disk')) = ofC
    BY <1>3, <1>4, <2>1
  <2>8. CASE Valid
    <3>1. stats' = [accepted |-> accepted + 1, rejected |-> rejected]
      BY <1>3, <2>1, <2>6, <2>8
    <3>2. warn' = 0 /\ info' = 1
      BY <2>1, <2>6, <2>8 DEF One
    <3>3. /\ (accepted + 1) + rejected = h + 1
          /\ warnings + 0 = rejected
          /\ infos + 1 = QueuedLines + (accepted + 1) + ended + 0
          /\ ofC + 1 = (h + 1) + 0
      BY <1>4, <1>5, <2>5
    <3>4. /\ (accepted + 1) + (rejected) = Len(handled)'
          /\ logger'.logCounts["Warning"] + warn' = rejected
          /\ logger'.logCounts["Info"] + info' = QueuedLines' + (accepted + 1) + ended' + left'
          /\ LinesOf(disk', "producer", Len(disk')) = QueuedLines' + ended'
          /\ LinesOf(disk', "consumer", Len(disk')) + logging' = Len(handled)' + left'
      BY <1>4, <2>2, <2>4, <2>5, <2>7, <3>2, <3>3
    <3>5. accepted + 1 \in Nat /\ rejected \in Nat
      OBVIOUS
    <3>6. QED
      BY <1>6, <2>3, <2>7, <3>1, <3>4, <3>5
  <2>9. CASE ~Valid
    <3>1. stats' = [accepted |-> accepted, rejected |-> rejected + 1]
      BY <1>3, <2>1, <2>6, <2>9
    <3>2. warn' = 1 /\ info' = 0
      BY <2>1, <2>6, <2>9 DEF One
    <3>3. /\ accepted + (rejected + 1) = h + 1
          /\ warnings + 1 = rejected + 1
          /\ infos + 0 = QueuedLines + accepted + ended + 0
          /\ ofC + 1 = (h + 1) + 0
      BY <1>4, <1>5, <2>5
    <3>4. /\ (accepted) + (rejected + 1) = Len(handled)'
          /\ logger'.logCounts["Warning"] + warn' = rejected + 1
          /\ logger'.logCounts["Info"] + info' = QueuedLines' + (accepted) + ended' + left'
          /\ LinesOf(disk', "producer", Len(disk')) = QueuedLines' + ended'
          /\ LinesOf(disk', "consumer", Len(disk')) + logging' = Len(handled)' + left'
      BY <1>4, <2>2, <2>4, <2>5, <2>7, <3>2, <3>3
    <3>5. accepted \in Nat /\ rejected + 1 \in Nat
      OBVIOUS
    <3>6. QED
      BY <1>6, <2>3, <2>7, <3>1, <3>4, <3>5
  <2>10. QED
    BY <2>8, <2>9
<1>13. CASE ProducerLog \/ ProducerLogFinished
  <2>1. PICK line \in DemoLines :
          /\ log("Info", line) /\ line.by = "producer"
          /\ \/ producer = "log" /\ producer' = "notify" /\ line.about = sequence
             \/ producer = "log_finished" /\ producer' = "notify_all"
    <3>1. CASE ProducerLog
      <4>1. [by |-> "producer", about |-> sequence] \in DemoLines
        BY <1>2 DEF DemoLines, Subjects
      <4>2. QED
        BY <3>1, <4>1 DEF ProducerLog
    <3>2. CASE ProducerLogFinished
      <4>1. [by |-> "producer", about |-> 0] \in DemoLines
        BY DEF DemoLines, Subjects
      <4>2. QED
        BY <3>2, <4>1 DEF ProducerLogFinished
    <3>3. QED
      BY <1>13, <3>1, <3>2
  <2>2. UNCHANGED <<sequence, consumer, rawInput, stats, handled>>
    BY <1>13 DEF ProducerLog, ProducerLogFinished, consumerVars
  <2>3. logger.open
    BY <1>1, <2>1 DEF DemoLoggerInv, Joined
  <2>4. /\ QueuedLines' + ended' = QueuedLines + ended + 1
        /\ QueuedLines' \in Nat /\ ended' \in {0, 1}
        /\ producer = "log" => QueuedLines + ended = sequence - 1
        /\ producer = "log_finished" => QueuedLines + ended = Len(Payloads)
    BY <1>1, <1>2, <2>1, <2>2 DEF QueuedLines, One, LeftInv
  <2>5. ofP + 1 <= Len(Payloads) => line.about = ofP + 1
    <3>1. ofP = QueuedLines + ended
      BY <1>4
    <3>2. CASE producer = "log"
      <4>1. ofP = sequence - 1 /\ line.about = sequence
        BY <2>1, <2>4, <3>1, <3>2
      <4>2. QED
        BY <1>2, <4>1
    <3>3. CASE producer = "log_finished"
      <4>1. ofP = Len(Payloads)
        BY <2>4, <3>1, <3>3
      <4>2. QED
        BY <1>3, <4>1
    <3>4. QED
      BY <2>1, <3>2, <3>3
  <2>6. /\ DemoLoggerInv' /\ RightFile(disk')
        /\ logger'.logCounts["Info"] = infos + 1 /\ logger'.logCounts["Warning"] = warnings
        /\ LinesOf(disk', "producer", Len(disk')) = ofP + 1
        /\ LinesOf(disk', "consumer", Len(disk')) = ofC
    <3>1. PICK nth : nth = LinesOf(disk, line.by, Len(disk)) + 1
      OBVIOUS
    <3>2. nth <= Len(Payloads) =>
            line.about = IF line.by = "producer" THEN nth ELSE parse(Payloads[nth])
      BY <1>3, <2>1, <2>5, <3>1
    <3>3. /\ DemoLoggerInv' /\ RightFile(disk')
          /\ logger'.logCounts["Info"] = infos + (IF "Info" = "Info" THEN 1 ELSE 0)
          /\ logger'.logCounts["Warning"] = warnings + (IF "Info" = "Warning" THEN 1 ELSE 0)
          /\ \A who \in {"producer", "consumer"} :
               LinesOf(disk', who, Len(disk'))
                 = LinesOf(disk, who, Len(disk)) + (IF line.by = who THEN 1 ELSE 0)
      BY <1>1, <1>3, <1>4, <2>1, <2>3, <3>1, <3>2, DemoLineStep
    <3>4. QED
      BY <1>3, <2>1, <3>3
  <2>7. left' = left /\ logging' = logging /\ warn' = warn /\ info' = info
    BY <2>2 DEF One, Valid
  <2>8. /\ (infos + 1) + info = QueuedLines' + accepted + ended' + left
        /\ ofP + 1 = QueuedLines' + ended'
    <3>1. PICK q \in Nat, e \in Nat, q2 \in Nat, e2 \in Nat :
            q = QueuedLines /\ e = ended /\ q2 = QueuedLines' /\ e2 = ended'
      BY <1>5, <2>4
    <3>2. PICK i \in Nat, l \in Nat : i = info /\ l = left
      BY <1>5
    <3>3. q2 + e2 = q + e + 1 /\ infos + i = q + accepted + e + l /\ ofP = q + e
      BY <1>4, <2>4, <3>1, <3>2
    <3>4. (infos + 1) + i = q2 + accepted + e2 + l /\ ofP + 1 = q2 + e2
      BY <3>3
    <3>5. QED
      BY <3>1, <3>2, <3>4
  <2>9. QED
    BY <1>3, <1>4, <1>6, <2>2, <2>6, <2>7, <2>8
<1>14. CASE ConsumerLog
  <2>1. PICK line \in DemoLines, level \in {"Info", "Warning"} :
          /\ log(level, line) /\ line.by = "consumer"
          /\ line.about = parse(rawInput)
          /\ level = IF Valid THEN "Info" ELSE "Warning"
    <3>1. [by |-> "consumer", about |-> parse(rawInput)] \in DemoLines
      BY ParseType DEF DemoLines, Subjects
    <3>2. isValid(parse(rawInput)) = Valid /\ parse(rawInput) = parse(rawInput)
      BY DEF Valid
    <3>3. log(IF Valid THEN "Info" ELSE "Warning", [by |-> "consumer", about |-> parse(rawInput)])
      BY <1>14, <3>2 DEF ConsumerLog
    <3>4. QED
      BY <3>1, <3>3
  <2>2. /\ consumer = "log" /\ consumer' = "check"
        /\ UNCHANGED <<producer, sequence, rawInput, stats, handled>>
    BY <1>14 DEF ConsumerLog, consumerVars
  <2>3. logger.open
    BY <1>1, <2>2 DEF DemoLoggerInv, Joined
  <2>4. /\ logging = 1 /\ logging' = 0 /\ left = 0 /\ left' = 0 /\ warn' = 0 /\ info' = 0
        /\ info = (IF Valid THEN 1 ELSE 0) /\ warn = (IF Valid THEN 0 ELSE 1)
    BY <2>2 DEF One
  <2>5. ofC + 1 = h /\ rawInput = Payloads[h]
    BY <1>1, <1>3, <1>4, <2>2, <2>4 DEF TextInv
  <2>6. /\ DemoLoggerInv' /\ RightFile(disk')
        /\ logger'.logCounts["Info"] = infos + info
        /\ logger'.logCounts["Warning"] = warnings + warn
        /\ LinesOf(disk', "producer", Len(disk')) = ofP
        /\ LinesOf(disk', "consumer", Len(disk')) = ofC + 1
    <3>1. PICK nth : nth = LinesOf(disk, line.by, Len(disk)) + 1
      OBVIOUS
    <3>2. nth = h /\ line.about = parse(Payloads[h])
      BY <1>3, <2>1, <2>5, <3>1
    <3>3. nth <= Len(Payloads) =>
            line.about = IF line.by = "producer" THEN nth ELSE parse(Payloads[nth])
      BY <2>1, <3>2
    <3>4. /\ DemoLoggerInv' /\ RightFile(disk')
          /\ logger'.logCounts["Info"] = infos + (IF level = "Info" THEN 1 ELSE 0)
          /\ logger'.logCounts["Warning"] = warnings + (IF level = "Warning" THEN 1 ELSE 0)
          /\ \A who \in {"producer", "consumer"} :
               LinesOf(disk', who, Len(disk'))
                 = LinesOf(disk, who, Len(disk)) + (IF line.by = who THEN 1 ELSE 0)
      <4>1. DemoLoggerInv /\ RightFile(disk) /\ log(level, line)
        BY <1>1, <1>4, <2>1
      <4>2. /\ DemoLoggerInv' /\ RightFile(disk')
            /\ logger'.logCounts["Info"]
                 = logger.logCounts["Info"] + (IF level = "Info" THEN 1 ELSE 0)
            /\ logger'.logCounts["Warning"]
                 = logger.logCounts["Warning"] + (IF level = "Warning" THEN 1 ELSE 0)
            /\ \A who \in {"producer", "consumer"} :
                 LinesOf(disk', who, Len(disk'))
                   = LinesOf(disk, who, Len(disk)) + (IF line.by = who THEN 1 ELSE 0)
        BY <4>1, <2>3, <3>1, <3>3, DemoLineStep
      <4>3. infos = logger.logCounts["Info"] /\ warnings = logger.logCounts["Warning"]
        BY <1>3
      <4>4. QED
        BY <4>2, <4>3
    <3>5. /\ (IF level = "Info" THEN 1 ELSE 0) = info
          /\ (IF level = "Warning" THEN 1 ELSE 0) = warn
      BY <2>1, <2>4
    <3>6. QED
      BY <1>3, <2>1, <3>4, <3>5
  <2>7. QueuedLines' = QueuedLines /\ ended' = ended
    BY <2>2 DEF QueuedLines, One
  <2>8. /\ (warnings + warn) + 0 = rejected
        /\ (infos + info) + 0 = QueuedLines + accepted + ended + 0
        /\ (ofC + 1) + 0 = h + 0
    BY <1>4, <1>5, <2>4
  <2>9. QED
    BY <1>3, <1>4, <1>6, <2>2, <2>4, <2>6, <2>7, <2>8
<1>15. CASE ConsumerLogFinished
  <2>1. PICK line \in DemoLines : log("Info", line) /\ line.by = "consumer"
    <3>1. [by |-> "consumer", about |-> "finished"] \in DemoLines
      BY DEF DemoLines, Subjects
    <3>2. QED
      BY <1>15, <3>1 DEF ConsumerLogFinished
  <2>2. /\ consumer = "log_finished" /\ consumer' = "done"
        /\ UNCHANGED <<producer, sequence, rawInput, stats, handled>>
    BY <1>15 DEF ConsumerLogFinished, consumerVars
  <2>3. logger.open
    BY <1>1, <2>2 DEF DemoLoggerInv, Joined
  <2>4. /\ logging = 0 /\ logging' = 0 /\ left = 0 /\ left' = 1 /\ warn = 0 /\ warn' = 0
        /\ info = 0 /\ info' = 0
    BY <2>2 DEF One
  <2>5. h = Len(Payloads)
    <3>1. /\ commandQueue = <<>> /\ producer # "push" /\ sequence = Len(Payloads)
      BY <1>1, <2>2 DEF LeftInv
    <3>2. Len(commandQueue) = 0 /\ TakenTexts = h /\ Received = Len(Payloads)
      BY <1>3, <2>2, <3>1 DEF TakenTexts, One, Received
    <3>3. QED
      BY <1>1, <3>2 DEF TextInv
  <2>6. /\ DemoLoggerInv' /\ RightFile(disk')
        /\ logger'.logCounts["Info"] = infos + 1
        /\ logger'.logCounts["Warning"] = warnings
        /\ LinesOf(disk', "producer", Len(disk')) = ofP
        /\ LinesOf(disk', "consumer", Len(disk')) = ofC + 1
    <3>1. PICK nth : nth = LinesOf(disk, line.by, Len(disk)) + 1
      OBVIOUS
    <3>2. nth = Len(Payloads) + 1
      BY <1>3, <1>4, <2>1, <2>4, <2>5, <3>1
    <3>3. ~(nth <= Len(Payloads))
      BY <1>2, <3>2
    <3>4. /\ DemoLoggerInv' /\ RightFile(disk')
          /\ logger'.logCounts["Info"] = infos + (IF "Info" = "Info" THEN 1 ELSE 0)
          /\ logger'.logCounts["Warning"] = warnings + (IF "Info" = "Warning" THEN 1 ELSE 0)
          /\ \A who \in {"producer", "consumer"} :
               LinesOf(disk', who, Len(disk'))
                 = LinesOf(disk, who, Len(disk)) + (IF line.by = who THEN 1 ELSE 0)
      BY <1>1, <1>3, <1>4, <2>1, <2>3, <3>1, <3>3, DemoLineStep
    <3>5. QED
      BY <1>3, <2>1, <3>4
  <2>7. QueuedLines' = QueuedLines /\ ended' = ended
    BY <2>2 DEF QueuedLines, One
  <2>8. /\ (infos + 1) + 0 = QueuedLines + accepted + ended + 1
        /\ (ofC + 1) + 0 = h + 1
        /\ warnings + 0 = rejected
    BY <1>4, <1>5, <2>4
  <2>9. QED
    BY <1>3, <1>4, <1>6, <2>2, <2>4, <2>6, <2>7, <2>8
<1>16. QED
  BY <1>8, <1>9, <1>10, <1>11, <1>12, <1>13, <1>14, <1>15
     DEF Next, inputProducer, commandConsumer

\* DemoInv is inductive.
LEMMA DemoInductive ==
  /\ Init => DemoInv
  /\ DemoInv /\ [Next]_vars => DemoInv'
<1>1. ASSUME Init
      PROVE  DemoInv
  <2>1. PipelineInv
    BY <1>1, PipelineInductive
  <2>2. /\ logger = [open |-> TRUE, consoleEnabled |-> TRUE, autoFlush |-> TRUE,
                     maxCachedLogs |-> 50, recentLogs |-> <<>>,
                     logCounts |-> [level \in LogLevel |-> 0]]
        /\ disk = <<>> /\ unflushed = <<>> /\ producer = "push" /\ sequence = 1
        /\ consumer = "check" /\ commandQueue = <<>> /\ ~inputFinished /\ handled = <<>>
        /\ stats = [accepted |-> 0, rejected |-> 0]
    BY <1>1 DEF Init, LogLevel
  <2>3. Len(disk) = 0 /\ Len(handled) = 0 /\ Len(commandQueue) = 0
    BY <2>2
  <2>4. DemoLoggerInv /\ logger.logCounts["Warning"] = 0 /\ logger.logCounts["Info"] = 0
    BY <2>2 DEF DemoLoggerInv, LogLevel
  <2>5. TextInv /\ LeftInv
    BY <2>2, <2>3 DEF TextInv, LeftInv, TakenTexts, One, Received
  <2>6. CountInv
    BY <2>2, <2>3, <2>4 DEF CountInv, QueuedLines, One
  <2>7. FileInv
    <3>1. ASSUME NEW who PROVE LinesOf(disk, who, Len(disk)) = 0
      <4>1. {p \in 1 .. 0 : disk[p].by = who} = {}
        OBVIOUS
      <4>2. QED
        BY <2>3, <4>1, FS_EmptySet DEF LinesOf
    <3>2. RightFile(disk)
      BY <2>3 DEF RightFile
    <3>3. QED
      BY <2>2, <2>3, <3>1, <3>2 DEF FileInv, QueuedLines, One
  <2>8. QED
    BY <2>1, <2>4, <2>5, <2>6, <2>7 DEF DemoInv
<1>2. ASSUME DemoInv, [Next]_vars
      PROVE  DemoInv'
  <2>1. PipelineInv /\ TextInv /\ LeftInv
    BY <1>2 DEF DemoInv
  <2>2. PipelineInv' /\ TextInv' /\ LeftInv'
    BY <1>2, <2>1, PipelineInductive, TextInductive
  <2>3. DemoLoggerInv' /\ CountInv' /\ FileInv'
    BY <1>2, DemoFigures
  <2>4. QED
    BY <2>2, <2>3 DEF DemoInv
<1>3. QED
  BY <1>1, <1>2

\* Whatever the inputs of gateway_pipeline_demo, once main has joined both threads
\* what it prints, the counters of the logger and the lines of the file agree
\* (main.cpp 146-183): one warning per rejected command, one line of each thread per
\* command and one for its end, in order, the consumer's with the command that the
\* text stands for.
THEOREM PipelineFiguresAgree == Spec => []PrintedFiguresAgree
<1>1. ASSUME DemoInv PROVE PrintedFiguresAgree
  <2>1. SUFFICES ASSUME Joined
                 PROVE  /\ stats.accepted + stats.rejected = Len(Payloads)
                        /\ logger.logCounts["Warning"] = stats.rejected
                        /\ logger.logCounts["Info"] = Len(Payloads) + stats.accepted + 2
                        /\ \A who \in {"producer", "consumer"} :
                             LinesBy(who, Len(disk)) = Len(Payloads) + 1
                        /\ \A p \in 1 .. Len(disk) :
                             LinesBy(disk[p].by, p) <= Len(Payloads) =>
                               disk[p].about = IF disk[p].by = "producer"
                                               THEN LinesBy(disk[p].by, p)
                                               ELSE Expected[LinesBy(disk[p].by, p)]
    BY DEF PrintedFiguresAgree
  <2>2. PipelineInv /\ TextInv /\ LeftInv /\ DemoLoggerInv /\ CountInv /\ FileInv
    BY <1>1 DEF DemoInv
  <2>3. producer = "done" /\ consumer = "done"
    BY <2>1 DEF Joined
  <2>4. /\ sequence = Len(Payloads) /\ commandQueue = <<>>
    BY <2>2, <2>3 DEF LeftInv
  <2>5. Len(Payloads) \in Nat /\ Len(handled) \in Nat
    BY <2>2, GatewayPipelineAssumption, LenProperties DEF PipelineInv
  <2>6. Len(handled) = Len(Payloads)
    <3>1. Len(commandQueue) = 0 /\ TakenTexts = Len(handled) /\ Received = Len(Payloads)
      BY <2>3, <2>4, <2>5 DEF TakenTexts, One, Received
    <3>2. QED
      BY <2>2, <2>5, <3>1 DEF TextInv
  <2>7. /\ QueuedLines = Len(Payloads)
        /\ One(producer \in {"notify_all", "done"}) = 1 /\ One(consumer = "done") = 1
        /\ One(consumer = "log") = 0 /\ One(consumer = "log" /\ Valid) = 0
        /\ One(consumer = "log" /\ ~Valid) = 0
    BY <2>3, <2>4 DEF QueuedLines, One
  <2>8. /\ stats.accepted \in Nat /\ logger.logCounts["Warning"] \in Nat
        /\ logger.logCounts["Info"] \in Nat
    BY <2>2 DEF CountInv, DemoLoggerInv, LogLevel
  <2>9. /\ stats.accepted + stats.rejected = Len(Payloads)
        /\ logger.logCounts["Warning"] = stats.rejected
        /\ logger.logCounts["Info"] = Len(Payloads) + stats.accepted + 2
    BY <2>2, <2>5, <2>6, <2>7, <2>8 DEF CountInv
  <2>10. disk \in Seq(DemoLines)
    BY <2>2 DEF DemoLoggerInv
  <2>11. ASSUME NEW who, NEW n PROVE LinesBy(who, n) = LinesOf(disk, who, n)
    BY DEF LinesBy, LinesOf
  <2>12. ASSUME NEW who \in {"producer", "consumer"}
         PROVE  LinesOf(disk, who, Len(disk)) = Len(Payloads) + 1
    <3>1. LinesOf(disk, who, Len(disk)) \in Nat
      <4>1. [by |-> "producer", about |-> 0] \in DemoLines
        BY DEF DemoLines, Subjects
      <4>2. QED
        BY <2>10, <4>1, LinesAppend
    <3>2. QED
      BY <2>2, <2>5, <2>6, <2>7, <3>1 DEF FileInv
  <2>13. ASSUME NEW p \in 1 .. Len(disk),
                LinesOf(disk, disk[p].by, p) <= Len(Payloads)
         PROVE  disk[p].about = IF disk[p].by = "producer"
                                THEN LinesOf(disk, disk[p].by, p)
                                ELSE Expected[LinesOf(disk, disk[p].by, p)]
    <3>1. PICK nth : nth = LinesOf(disk, disk[p].by, p)
      OBVIOUS
    <3>2. disk[p].about = IF disk[p].by = "producer" THEN nth ELSE parse(Payloads[nth])
      BY <2>2, <2>13, <3>1 DEF FileInv, RightFile, RightLine
    <3>3. nth \in 1 .. Len(Payloads)
      <4>1. PICK S : S = {q \in 1 .. p : disk[q].by = disk[p].by}
        OBVIOUS
      <4>2. Len(disk) \in Nat /\ p \in Nat /\ p \in 1 .. p
        BY <2>10, LenProperties
      <4>3. IsFiniteSet(1 .. p) /\ S \in SUBSET (1 .. p) /\ p \in S
        BY <4>1, <4>2, FS_Interval
      <4>4. IsFiniteSet(S)
        BY <4>3, FS_Subset
      <4>5. Cardinality(S) \in Nat /\ Cardinality(S) # 0
        BY <4>3, <4>4, FS_CardinalityType, FS_EmptySet
      <4>6. nth = Cardinality(S)
        BY <3>1, <4>1 DEF LinesOf
      <4>7. QED
        BY <2>5, <2>13, <3>1, <4>5, <4>6
    <3>4. parse(Payloads[nth]) = Expected[nth]
      <4>1. Payloads[nth] \in Seq(Token) /\ Reads(Payloads[nth], Expected[nth])
        BY <3>3, ExpectedAssumption
      <4>2. QED
        BY <4>1, ParserReads
    <3>5. QED
      BY <3>1, <3>2, <3>4
  <2>14. QED
    BY <2>9, <2>11, <2>12, <2>13
<1>2. QED
  BY <1>1, DemoInductive, PTL DEF Spec
============================================================================
