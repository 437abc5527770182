--------------------------- MODULE PipelineProofs ---------------------------
(***************************************************************************)
(* Theorems about programs in which one thread hands work to another through *)
(* a queue: producer_consumer_demo for any samples, and that gateway_ack_demo *)
(* hands its commands over like it, for any inputs, with the answers and the *)
(* figures that main finds after the joins.                                  *)
(***************************************************************************)
EXTENDS CommandPipeline, ProducerConsumer, SequenceTheorems, TLAPS
----------------------------------------------------------------------------
(* producer_consumer_demo.                                                  *)

\* The processor holds a sample only while it works on it, and the loop counter
\* stays inside the samples.
HandInv ==
  /\ index \in 1 .. Len(Inputs)
  /\ processed \in Seq(Sample) /\ sampleQueue \in Seq(Sample) /\ hand \in Seq(Sample)
  /\ processor /= "process" => hand = <<>>

\* The flag is raised after the last push; the processor leaves only when the
\* flag is up and the queue empty.
EndInv ==
  /\ collector \in {"push", "notify", "finish", "notify_all", "done"}
  /\ collector \in {"finish", "notify_all", "done"} => index = Len(Inputs)
  /\ productionFinished <=> collector \in {"notify_all", "done"}
  /\ processor = "done" => sampleQueue = <<>> /\ productionFinished

\* Whoever sleeps while there is something for it, a sample or the flag, is about
\* to be woken: the notification is still to come.
WakeupPending ==
  processor = "waiting" => /\ sampleQueue /= <<>> => collector = "notify"
                           /\ productionFinished => collector = "notify_all"

HandOverInv == HandInv /\ EndInv /\ WakeupPending /\ NothingLost

\* A push goes behind all the others.
LEMMA Behind ==
  ASSUME NEW S, NEW a \in Seq(S), NEW b \in Seq(S), NEW q \in Seq(S), NEW x \in S
  PROVE  a \o b \o Append(q, x) = (a \o b \o q) \o <<x>>
<1>1. <<x>> \in Seq(S) /\ a \o b \in Seq(S)
  BY ConcatProperties
<1>2. Append(q, x) = q \o <<x>>
  BY AppendIsConcat
<1>3. QED
  BY <1>1, <1>2, ConcatAssociative

\* A push puts the next sample behind those pushed before.
LEMMA PushedOneMore ==
  ASSUME NEW S, NEW all \in Seq(S), NEW n \in 1 .. Len(all), NEW a \in Seq(S),
         NEW b \in Seq(S), NEW q \in Seq(S)
  PROVE  a \o b \o q = SubSeq(all, 1, n - 1)
           => a \o b \o Append(q, all[n]) = SubSeq(all, 1, n)
<1>1. all[n] \in S
  BY ElementOfSeq
<1>2. 1 \in 1 .. Len(all) /\ n \in 1 .. Len(all)
  BY LenProperties
<1>3. SubSeq(all, 1, n) = SubSeq(all, 1, n - 1) \o <<all[n]>>
  BY <1>2, SubSeqRecursiveSecond
<1>4. a \o b \o Append(q, all[n]) = (a \o b \o q) \o <<all[n]>>
  <2>1. PICK x \in S : x = all[n]
    BY <1>1
  <2>2. a \o b \o Append(q, x) = (a \o b \o q) \o <<x>>
    BY Behind
  <2>3. QED
    BY <2>1, <2>2, Zenon
<1>5. QED
  BY <1>3, <1>4, Zenon

\* Taking the first of a queue into an empty hand, and putting the hand behind
\* what is processed, leave the whole as it is.
LEMMA HandOver ==
  ASSUME NEW S, NEW a \in Seq(S), NEW b \in Seq(S), NEW q \in Seq(S)
  PROVE  /\ q /= <<>> => a \o <<Head(q)>> \o Tail(q) = a \o <<>> \o q
         /\ (a \o b) \o <<>> \o q = a \o b \o q
<1>1. ASSUME q /= <<>>
      PROVE  a \o <<Head(q)>> \o Tail(q) = a \o <<>> \o q
  <2>1. Head(q) \in S /\ <<Head(q)>> \in Seq(S) /\ Tail(q) \in Seq(S)
    BY <1>1, HeadTailProperties
  <2>2. <<Head(q)>> \o Tail(q) = q
    <3>1. /\ Len(Tail(q)) = Len(q) - 1 /\ Len(q) \in Nat \ {0}
          /\ \A i \in 1 .. Len(Tail(q)) : Tail(q)[i] = q[i + 1]
      BY <1>1, HeadTailProperties, EmptySeq
    <3>2. /\ <<Head(q)>> \o Tail(q) \in Seq(S)
          /\ Len(<<Head(q)>> \o Tail(q)) = Len(q)
          /\ \A i \in 1 .. Len(q) : (<<Head(q)>> \o Tail(q))[i] = q[i]
      BY <1>1, <2>1, <3>1, ConcatProperties
    <3>3. QED
      BY <3>2, SeqEqual
  <2>3. QED
    BY <2>1, <2>2, ConcatAssociative, ConcatEmptySeq
<1>2. a \o b \in Seq(S)
  BY ConcatProperties
<1>3. QED
  BY <1>1, <1>2, ConcatEmptySeq

\* HandOverInv is inductive.
LEMMA HandOverInductive ==
  /\ HandOverInit => HandOverInv
  /\ HandOverInv /\ [HandOverNext]_handOverVars => HandOverInv'
<1>1. Inputs \in Seq(Sample) /\ Len(Inputs) \in Nat \ {0}
  BY EmptySeq, ProducerConsumerAssumption
<1>2. ASSUME HandOverInit
      PROVE  HandOverInv
  <2>1. <<>> \in Seq(Sample)
    OBVIOUS
  <2>2. HandInv /\ EndInv /\ WakeupPending
    BY <1>1, <1>2, <2>1 DEF HandOverInit, HandInv, EndInv, WakeupPending
  <2>3. SubSeq(Inputs, 1, 0) = <<>>
    BY SubSeqEmpty
  <2>4. <<>> \o <<>> \o <<>> = <<>>
    BY <2>1, ConcatEmptySeq
  <2>5. NothingLost
    BY <1>2, <2>3, <2>4 DEF HandOverInit, NothingLost, Pushed
  <2>6. QED
    BY <2>2, <2>5 DEF HandOverInv
<1>3. ASSUME HandOverInv, [HandOverNext]_handOverVars
      PROVE  HandOverInv'
  <2> USE <1>1, <1>3 DEF HandOverInv
  <2>1. CASE CollectPush
    <3>1. Inputs[index] \in Sample
      BY ElementOfSeq DEF HandInv
    <3>2. HandInv'
      BY <2>1, <3>1, AppendProperties DEF CollectPush, HandInv
    <3>3. EndInv' /\ WakeupPending'
      BY <2>1 DEF CollectPush, EndInv, WakeupPending
    <3>4. processed \o hand \o sampleQueue = SubSeq(Inputs, 1, index - 1)
      BY <2>1 DEF CollectPush, NothingLost, Pushed
    <3>5. processed \o hand \o Append(sampleQueue, Inputs[index]) = SubSeq(Inputs, 1, index)
      BY <3>4, PushedOneMore DEF HandInv
    <3>6. NothingLost'
      BY <2>1, <3>5 DEF CollectPush, NothingLost, Pushed
    <3>7. QED
      BY <3>2, <3>3, <3>6
  <2>2. CASE CollectNotify
    <3>1. HandInv' /\ EndInv' /\ WakeupPending'
      BY <2>2 DEF CollectNotify, ProcessorAwakened, HandInv, EndInv, WakeupPending
    <3>2. Pushed' = Pushed
      BY <2>2 DEF CollectNotify, Pushed, HandInv
    <3>3. QED
      BY <2>2, <3>1, <3>2 DEF CollectNotify, NothingLost
  <2>3. CASE CollectFinish
    BY <2>3 DEF CollectFinish, HandInv, EndInv, WakeupPending, NothingLost, Pushed
  <2>4. CASE CollectNotifyAll
    BY <2>4 DEF CollectNotifyAll, ProcessorAwakened, HandInv, EndInv, WakeupPending,
       NothingLost, Pushed
  <2>5. CASE ProcessWait
    BY <2>5 DEF ProcessWait, HandInv, EndInv, WakeupPending, NothingLost, Pushed
  <2>6. CASE ProcessBreak
    BY <2>6 DEF ProcessBreak, HandInv, EndInv, WakeupPending, NothingLost, Pushed
  <2>7. CASE ProcessTake
    <3>1. Head(sampleQueue) \in Sample /\ Tail(sampleQueue) \in Seq(Sample)
      BY <2>7, HeadTailProperties DEF ProcessTake, HandInv
    <3>2. HandInv'
      BY <2>7, <3>1 DEF ProcessTake, HandInv
    <3>3. EndInv' /\ WakeupPending'
      BY <2>7 DEF ProcessTake, EndInv, WakeupPending
    <3>4. hand = <<>> /\ sampleQueue /= <<>>
      BY <2>7 DEF ProcessTake, HandInv
    <3>5. processed \o <<Head(sampleQueue)>> \o Tail(sampleQueue)
            = processed \o hand \o sampleQueue
      BY <3>4, HandOver DEF HandInv
    <3>6. NothingLost'
      BY <2>7, <3>5 DEF ProcessTake, NothingLost, Pushed
    <3>7. QED
      BY <3>2, <3>3, <3>6
  <2>8. CASE Process
    <3>1. processed \o hand \in Seq(Sample) /\ <<>> \in Seq(Sample)
      BY ConcatProperties DEF HandInv
    <3>2. HandInv'
      BY <2>8, <3>1 DEF Process, HandInv
    <3>3. EndInv' /\ WakeupPending'
      BY <2>8 DEF Process, EndInv, WakeupPending
    <3>4. (processed \o hand) \o <<>> \o sampleQueue = processed \o hand \o sampleQueue
      BY HandOver DEF HandInv
    <3>5. NothingLost'
      BY <2>8, <3>4 DEF Process, NothingLost, Pushed
    <3>6. QED
      BY <3>2, <3>3, <3>5
  <2>9. CASE SpuriousWakeup
    BY <2>9 DEF SpuriousWakeup, HandInv, EndInv, WakeupPending, NothingLost, Pushed
  <2>10. CASE UNCHANGED handOverVars
    BY <2>10 DEF handOverVars, HandInv, EndInv, WakeupPending, NothingLost, Pushed
  <2>11. QED
    BY <2>1, <2>2, <2>3, <2>4, <2>5, <2>6, <2>7, <2>8, <2>9, <2>10
       DEF HandOverNext, collectTask, processTask
<1>4. QED
  BY <1>2, <1>3

\* producer_consumer_demo (main.cpp 28-84) loses, repeats and overtakes no sample,
\* whatever the samples are and however the threads interleave: processed, in hand
\* and queued are what was pushed, in order.
THEOREM SamplesHandedOver == HandOverSpec => []NothingLost
<1>1. HandOverInv => NothingLost
  BY DEF HandOverInv
<1>2. QED
  BY <1>1, HandOverInductive, PTL DEF HandOverSpec

\* The processor never sleeps through a notification (main.cpp 50-84): if it waits
\* while a sample is queued or the flag is raised, the notification is still to
\* come.  And when both threads have been joined every sample was processed.
THEOREM NoWakeupLost ==
  HandOverSpec => [](WakeupPending /\ (TasksJoined => processed = Inputs))
<1>1. ASSUME HandOverInv
      PROVE  WakeupPending /\ (TasksJoined => processed = Inputs)
  <2>1. ASSUME TasksJoined
        PROVE  processed = Inputs
    <3>1. /\ processed \in Seq(Sample) /\ hand = <<>> /\ sampleQueue = <<>>
          /\ collector /= "push" /\ index = Len(Inputs)
      BY <1>1, <2>1 DEF HandOverInv, HandInv, EndInv, TasksJoined
    <3>2. processed \o <<>> \o <<>> = SubSeq(Inputs, 1, Len(Inputs))
      BY <1>1, <3>1 DEF HandOverInv, NothingLost, Pushed
    <3>3. processed \o <<>> \o <<>> = processed
      BY <3>1, ConcatEmptySeq
    <3>4. SubSeq(Inputs, 1, Len(Inputs)) = Inputs
      BY SubSeqFull, ProducerConsumerAssumption
    <3>5. QED
      BY <3>2, <3>3, <3>4
  <2>2. QED
    BY <1>1, <2>1 DEF HandOverInv
<1>2. QED
  BY <1>1, HandOverInductive, PTL DEF HandOverSpec
----------------------------------------------------------------------------
(* gateway_ack_demo implements ProducerConsumer.                            *)

\* The numbers of a sequence of commands or results.
Numbers(q) == [i \in 1 .. Len(q) |-> q[i].sequence]

NumbersOf(R) == {r.sequence : r \in R}

\* Numbers goes along with what the threads do to queue and results.
LEMMA NumbersType ==
  ASSUME NEW R, NEW q \in Seq(R)
  PROVE  /\ Numbers(q) \in Seq(NumbersOf(R)) /\ Len(Numbers(q)) = Len(q)
         /\ \A i \in 1 .. Len(q) : Numbers(q)[i] = q[i].sequence
         /\ Numbers(q) = <<>> <=> q = <<>>
<1>1. Len(q) \in Nat /\ \A i \in 1 .. Len(q) : q[i] \in R
  BY LenProperties, ElementOfSeq
<1>2. /\ Numbers(q) \in Seq(NumbersOf(R)) /\ Len(Numbers(q)) = Len(q)
      /\ \A i \in 1 .. Len(q) : Numbers(q)[i] = q[i].sequence
  BY <1>1 DEF Numbers, NumbersOf
<1>3. Numbers(q) = <<>> <=> q = <<>>
  BY <1>2, EmptySeq
<1>4. QED
  BY <1>2, <1>3

\* The numbers of a longer queue.
LEMMA NumbersAppend ==
  ASSUME NEW R, NEW q \in Seq(R), NEW x \in R
  PROVE  Numbers(Append(q, x)) = Append(Numbers(q), x.sequence)
<1>1. Len(q) \in Nat
  BY LenProperties
<1>2. /\ Numbers(q) \in Seq(NumbersOf(R)) /\ Len(Numbers(q)) = Len(q)
      /\ \A i \in 1 .. Len(q) : Numbers(q)[i] = q[i].sequence
  BY NumbersType
<1>3. /\ Append(q, x) \in Seq(R) /\ Len(Append(q, x)) = Len(q) + 1
      /\ \A i \in 1 .. Len(q) : Append(q, x)[i] = q[i]
      /\ Append(q, x)[Len(q) + 1] = x
  BY AppendProperties
<1>4. /\ Append(Numbers(q), x.sequence) \in Seq(NumbersOf(R))
      /\ Len(Append(Numbers(q), x.sequence)) = Len(q) + 1
      /\ \A i \in 1 .. Len(q) : Append(Numbers(q), x.sequence)[i] = q[i].sequence
      /\ Append(Numbers(q), x.sequence)[Len(q) + 1] = x.sequence
  <2>1. x.sequence \in NumbersOf(R)
    BY DEF NumbersOf
  <2>2. QED
    BY <1>2, <2>1, AppendProperties
<1>5. /\ Numbers(Append(q, x)) \in Seq(NumbersOf(R))
      /\ Len(Numbers(Append(q, x))) = Len(q) + 1
      /\ \A i \in 1 .. Len(q) + 1 : Numbers(Append(q, x))[i] = Append(q, x)[i].sequence
  <2>1. \A i \in 1 .. Len(q) + 1 : Append(q, x)[i].sequence \in NumbersOf(R)
    BY <1>3, ElementOfSeq DEF NumbersOf
  <2>2. QED
    BY <1>1, <1>3, <2>1 DEF Numbers
<1>6. ASSUME NEW i \in 1 .. Len(q) + 1
      PROVE  Numbers(Append(q, x))[i] = Append(Numbers(q), x.sequence)[i]
  BY <1>1, <1>3, <1>4, <1>5
<1>7. QED
  BY <1>4, <1>5, <1>6, SeqEqual

\* The numbers of what is left of a queue.
LEMMA NumbersTail ==
  ASSUME NEW R, NEW q \in Seq(R), q /= <<>>
  PROVE  /\ Head(Numbers(q)) = Head(q).sequence
         /\ Numbers(Tail(q)) = Tail(Numbers(q))
<1>1. Len(q) \in Nat
  BY LenProperties
<1>2. /\ Numbers(q) \in Seq(NumbersOf(R)) /\ Len(Numbers(q)) = Len(q)
      /\ \A i \in 1 .. Len(q) : Numbers(q)[i] = q[i].sequence
      /\ Numbers(q) = <<>> <=> q = <<>>
  BY NumbersType
<1>3. /\ Tail(q) \in Seq(R) /\ Len(Tail(q)) = Len(q) - 1
      /\ \A i \in 1 .. Len(Tail(q)) : Tail(q)[i] = q[i + 1]
      /\ Len(q) > 0
  BY <1>1, HeadTailProperties, EmptySeq
<1>4. /\ Tail(Numbers(q)) \in Seq(NumbersOf(R)) /\ Len(Tail(Numbers(q))) = Len(q) - 1
      /\ \A i \in 1 .. Len(Tail(Numbers(q))) : Tail(Numbers(q))[i] = Numbers(q)[i + 1]
  BY <1>2, HeadTailProperties
<1>5. Head(Numbers(q)) = Head(q).sequence
  BY <1>1, <1>2, <1>3
<1>6. /\ Numbers(Tail(q)) \in Seq(NumbersOf(R)) /\ Len(Numbers(Tail(q))) = Len(q) - 1
      /\ \A i \in 1 .. Len(q) - 1 : Numbers(Tail(q))[i] = Tail(q)[i].sequence
  <2>1. \A i \in 1 .. Len(Tail(q)) : Tail(q)[i].sequence \in NumbersOf(R)
    BY <1>3, ElementOfSeq DEF NumbersOf
  <2>2. QED
    BY <1>1, <1>3, <2>1 DEF Numbers
<1>7. ASSUME NEW i \in 1 .. Len(q) - 1
      PROVE  Numbers(Tail(q))[i] = Tail(Numbers(q))[i]
  BY <1>1, <1>2, <1>3, <1>4, <1>6
<1>8. QED
  BY <1>4, <1>5, <1>6, <1>7, SeqEqual

Number == 1 .. Len(Payloads)
RawCommand == [sequence : Number, payload : {Payloads[i] : i \in Number}]
CommandResult == [sequence : Number, code : {"Ok", "InvalidCommand"}]

\* Commands and results in the threads' hands are well formed, and the result is
\* about the command that was taken.
AckInv ==
  /\ sequence \in Number
  /\ producer \in {"push", "log", "notify", "finish", "log_finished", "notify_all", "done"}
  /\ consumer \in {"check", "waiting", "parse", "log", "print", "log_finished", "done"}
  /\ commandQueue \in Seq(RawCommand)
  /\ results \in Seq(CommandResult)
  /\ consumer \in {"parse", "log", "print"} => raw \in RawCommand
  /\ consumer \in {"log", "print"} =>
       result \in CommandResult /\ result.sequence = raw.sequence

\* The refinement mapping, piece by piece.
CollectorAt == CASE producer = "log" -> "notify"
                 [] producer = "log_finished" -> "notify_all"
                 [] OTHER -> producer
ProcessorAt == CASE InHand /= <<>> -> "process"
                 [] consumer = "log_finished" -> "done"
                 [] OTHER -> consumer

\* What the mapping gives, without its CASEs.
LEMMA MappingValues ==
  /\ producer \in {"log", "notify"} => CollectorAt = "notify"
  /\ producer \in {"log_finished", "notify_all"} => CollectorAt = "notify_all"
  /\ producer \in {"push", "finish", "done"} => CollectorAt = producer
  /\ consumer \in {"parse", "log", "print"} =>
       ProcessorAt = "process" /\ InHand = <<raw.sequence>>
  /\ consumer \in {"log_finished", "done"} => ProcessorAt = "done" /\ InHand = <<>>
  /\ consumer \in {"check", "waiting"} => ProcessorAt = consumer /\ InHand = <<>>
<1>1. <<raw.sequence>> /= <<>>
  OBVIOUS
<1>2. /\ consumer \in {"parse", "log", "print"} => InHand = <<raw.sequence>>
      /\ consumer \in {"log_finished", "done", "check", "waiting"} => InHand = <<>>
  BY DEF InHand
<1>3. QED
  BY <1>1, <1>2 DEF CollectorAt, ProcessorAt

\* AckInv is inductive.
LEMMA AckInductive ==
  /\ Init => AckInv
  /\ AckInv /\ [Next]_vars => AckInv'
<1>1. Len(Payloads) \in Nat \ {0}
  BY CommandPipelineAssumption
<1>2. Init => AckInv
  BY <1>1 DEF Init, AckInv, Number
<1>3. ASSUME AckInv, [Next]_vars
      PROVE  AckInv'
  <2> USE <1>1, <1>3
  <2>1. CASE ProducerPush
    <3>1. [sequence |-> sequence, payload |-> Payloads[sequence]] \in RawCommand
      BY DEF AckInv, RawCommand
    <3>2. commandQueue' \in Seq(RawCommand)
      BY <2>1, <3>1, AppendProperties DEF ProducerPush, AckInv
    <3>3. QED
      BY <2>1, <3>2 DEF ProducerPush, AckInv, consumerVars
  <2>2. CASE ProducerLog
    BY <2>2 DEF ProducerLog, AckInv, consumerVars
  <2>3. CASE ProducerNotify
    BY <2>3 DEF ProducerNotify, Awakened, AckInv, Number
  <2>4. CASE ProducerFinish
    BY <2>4 DEF ProducerFinish, AckInv, consumerVars
  <2>5. CASE ProducerLogFinished
    BY <2>5 DEF ProducerLogFinished, AckInv, consumerVars
  <2>6. CASE ProducerNotifyAll
    BY <2>6 DEF ProducerNotifyAll, Awakened, AckInv
  <2>7. CASE ConsumerWait
    BY <2>7 DEF ConsumerWait, AckInv, producerVars
  <2>8. CASE ConsumerBreak
    BY <2>8 DEF ConsumerBreak, AckInv, producerVars
  <2>9. CASE ConsumerPop
    <3>1. Head(commandQueue) \in RawCommand /\ Tail(commandQueue) \in Seq(RawCommand)
      BY <2>9, HeadTailProperties DEF ConsumerPop, AckInv
    <3>2. QED
      BY <2>9, <3>1 DEF ConsumerPop, AckInv, producerVars
  <2>10. CASE ConsumerParse
    <3>1. raw.sequence \in Number
      BY <2>10 DEF ConsumerParse, AckInv, RawCommand
    <3>2. result' \in CommandResult /\ result'.sequence = raw.sequence
      BY <2>10, <3>1 DEF ConsumerParse, CommandResult
    <3>3. QED
      BY <2>10, <3>2 DEF ConsumerParse, AckInv, producerVars
  <2>11. CASE ConsumerLog
    BY <2>11 DEF ConsumerLog, AckInv, producerVars
  <2>12. CASE printResult
    <3>1. Append(results, result) \in Seq(CommandResult)
      BY <2>12, AppendProperties DEF printResult, AckInv
    <3>2. QED
      BY <2>12, <3>1 DEF printResult, AckInv, producerVars
  <2>13. CASE ConsumerLogFinished
    BY <2>13 DEF ConsumerLogFinished, AckInv, producerVars
  <2>14. CASE ConsumerSpuriousWakeup
    BY <2>14 DEF ConsumerSpuriousWakeup, AckInv, producerVars
  <2>15. CASE MainReturn
    BY <2>15 DEF MainReturn, AckInv, producerVars, consumerVars
  <2>16. CASE UNCHANGED vars
    BY <2>16 DEF vars, AckInv, producerVars, consumerVars
  <2>17. QED
    BY <2>1, <2>2, <2>3, <2>4, <2>5, <2>6, <2>7, <2>8, <2>9, <2>10, <2>11, <2>12,
       <2>13, <2>14, <2>15, <2>16
       DEF Next, inputProducer, commandConsumer
<1>4. QED
  BY <1>2, <1>3
\* What a step changes of the mapped variables follows from what it changes of
\* the program's.
LEMMA MappingFrame ==
  /\ producer' = producer => CollectorAt' = CollectorAt
  /\ consumer' = consumer /\ raw' = raw => InHand' = InHand /\ ProcessorAt' = ProcessorAt
  /\ commandQueue' = commandQueue => Numbers(commandQueue)' = Numbers(commandQueue)
  /\ results' = results => Numbers(results)' = Numbers(results)
<1>1. consumer' = consumer /\ raw' = raw => InHand' = InHand
  BY DEF InHand
<1>2. QED
  BY <1>1 DEF CollectorAt, ProcessorAt, Numbers

\* Every step of gateway_ack_demo is a step of ProducerConsumer or a stutter.
LEMMA AckSimulates ==
  ASSUME AckInv, [Next]_vars
  PROVE  [Skeleton!HandOverNext]_(Skeleton!handOverVars)
<1> DEFINE queued == Numbers(commandQueue)
           answered == Numbers(results)
<1>1. \A r \in CommandResult : r.sequence \in NumbersOf(CommandResult)
  BY DEF NumbersOf
<1>2. commandQueue \in Seq(RawCommand) /\ results \in Seq(CommandResult)
  BY DEF AckInv
<1>3. /\ queued = <<>> <=> commandQueue = <<>>
      /\ \A x \in RawCommand : Numbers(Append(commandQueue, x)) = Append(queued, x.sequence)
      /\ commandQueue /= <<>> => /\ Head(queued) = Head(commandQueue).sequence
                                /\ Numbers(Tail(commandQueue)) = Tail(queued)
  BY <1>2, NumbersType, NumbersAppend, NumbersTail
<1>4. /\ answered \in Seq(NumbersOf(CommandResult))
      /\ \A x \in CommandResult : Numbers(Append(results, x)) = Append(answered, x.sequence)
  BY <1>2, NumbersType, NumbersAppend
<1>5. ASSUME UNCHANGED <<CollectorAt, sequence, ProcessorAt, InHand, queued,
                         inputFinished, answered>>
      PROVE  UNCHANGED Skeleton!handOverVars
  BY <1>5 DEF Skeleton!handOverVars, CollectorAt, ProcessorAt, Numbers
<1>6. CASE ProducerPush
  <2>1. queued' = Append(queued, sequence)
    <3>1. PICK c \in RawCommand :
            /\ c = [sequence |-> sequence, payload |-> Payloads[sequence]]
            /\ c.sequence = sequence
      <4>1. [sequence |-> sequence, payload |-> Payloads[sequence]] \in RawCommand
        BY DEF AckInv, RawCommand
      <4>2. QED
        BY <4>1
    <3>2. Numbers(Append(commandQueue, c)) = Append(Numbers(commandQueue), c.sequence)
      BY <1>3, Zenon
    <3>3. commandQueue' = Append(commandQueue, c)
      BY <1>6, <3>1 DEF ProducerPush
    <3>4. QED
      BY <3>1, <3>2, <3>3
  <2>2. CollectorAt = "push" /\ CollectorAt' = "notify"
    BY <1>6, MappingValues, MappingValues DEF ProducerPush, CollectorAt
  <2>3. UNCHANGED <<sequence, ProcessorAt, InHand, inputFinished, answered>>
    BY <1>6, MappingFrame DEF ProducerPush, consumerVars
  <2>4. [i \in 1 .. Len(Payloads) |-> i][sequence] = sequence
    BY DEF AckInv, Number
  <2>5. Skeleton!CollectPush
    BY <2>1, <2>2, <2>3, <2>4
       DEF Skeleton!CollectPush, CollectorAt, ProcessorAt, Numbers
  <2>6. QED
    BY <2>5 DEF Skeleton!HandOverNext, Skeleton!collectTask
<1>7. CASE ProducerLog
  <2>1. CollectorAt' = CollectorAt
    BY <1>7 DEF ProducerLog, CollectorAt
  <2>2. QED
    BY <1>5, <1>7, <2>1, MappingFrame DEF ProducerLog, consumerVars
<1>8. CASE ProducerNotify
  <2>1. CollectorAt = "notify"
    BY <1>8, MappingValues DEF ProducerNotify
  <2>2. IF sequence < Len(Payloads)
        THEN sequence' = sequence + 1 /\ CollectorAt' = "push"
        ELSE CollectorAt' = "finish" /\ UNCHANGED sequence
    BY <1>8 DEF ProducerNotify, CollectorAt
  <2>3. UNCHANGED <<InHand, queued, inputFinished, answered>>
    BY <1>8, MappingFrame DEF ProducerNotify, Awakened, InHand
  <2>4. ProcessorAt' = IF ProcessorAt = "waiting" THEN "check" ELSE ProcessorAt
    BY <1>8, <2>3 DEF ProducerNotify, Awakened, ProcessorAt, InHand, AckInv
  <2>5. Len([i \in 1 .. Len(Payloads) |-> i]) = Len(Payloads)
    BY CommandPipelineAssumption
  <2>6. Skeleton!CollectNotify
    BY <2>1, <2>2, <2>3, <2>4, <2>5
       DEF Skeleton!CollectNotify, Skeleton!ProcessorAwakened, CollectorAt, ProcessorAt, Numbers
  <2>7. QED
    BY <2>6 DEF Skeleton!HandOverNext, Skeleton!collectTask
<1>9. CASE ProducerFinish
  <2>1. CollectorAt = "finish" /\ CollectorAt' = "notify_all"
    BY <1>9, MappingValues DEF ProducerFinish, CollectorAt
  <2>2. UNCHANGED <<sequence, ProcessorAt, InHand, queued, answered>>
    BY <1>9, MappingFrame DEF ProducerFinish, consumerVars
  <2>3. Skeleton!CollectFinish
    BY <1>9, <2>1, <2>2
       DEF ProducerFinish, Skeleton!CollectFinish, CollectorAt, ProcessorAt, Numbers
  <2>4. QED
    BY <2>3 DEF Skeleton!HandOverNext, Skeleton!collectTask
<1>10. CASE ProducerLogFinished
  <2>1. CollectorAt' = CollectorAt
    BY <1>10 DEF ProducerLogFinished, CollectorAt
  <2>2. QED
    BY <1>5, <1>10, <2>1, MappingFrame DEF ProducerLogFinished, consumerVars
<1>11. CASE ProducerNotifyAll
  <2>1. CollectorAt = "notify_all" /\ CollectorAt' = "done"
    BY <1>11, MappingValues DEF ProducerNotifyAll, CollectorAt
  <2>2. UNCHANGED <<sequence, InHand, queued, inputFinished, answered>>
    BY <1>11, MappingFrame DEF ProducerNotifyAll, Awakened, InHand
  <2>3. ProcessorAt' = IF ProcessorAt = "waiting" THEN "check" ELSE ProcessorAt
    BY <1>11, <2>2 DEF ProducerNotifyAll, Awakened, ProcessorAt, InHand, AckInv
  <2>4. Skeleton!CollectNotifyAll
    BY <2>1, <2>2, <2>3
       DEF Skeleton!CollectNotifyAll, Skeleton!ProcessorAwakened, CollectorAt, ProcessorAt, Numbers
  <2>5. QED
    BY <2>4 DEF Skeleton!HandOverNext, Skeleton!collectTask
<1>12. CASE ConsumerWait
  <2>1. ProcessorAt = "check" /\ ProcessorAt' = "waiting" /\ InHand' = InHand
    BY <1>12, MappingValues DEF ConsumerWait, ProcessorAt, InHand
  <2>2. queued = <<>> /\ ~inputFinished
    BY <1>12, <1>3 DEF ConsumerWait
  <2>3. UNCHANGED <<CollectorAt, sequence, queued, inputFinished, answered>>
    BY <1>12, MappingFrame DEF ConsumerWait, producerVars
  <2>4. Skeleton!ProcessWait
    BY <2>1, <2>2, <2>3
       DEF Skeleton!ProcessWait, CollectorAt, ProcessorAt, Numbers
  <2>5. QED
    BY <2>4 DEF Skeleton!HandOverNext, Skeleton!processTask
<1>13. CASE ConsumerBreak
  <2>1. ProcessorAt = "check" /\ ProcessorAt' = "done" /\ InHand' = InHand
    BY <1>13, MappingValues DEF ConsumerBreak, ProcessorAt, InHand
  <2>2. queued = <<>> /\ inputFinished
    BY <1>13, <1>3 DEF ConsumerBreak
  <2>3. UNCHANGED <<CollectorAt, sequence, queued, inputFinished, answered>>
    BY <1>13, MappingFrame DEF ConsumerBreak, producerVars
  <2>4. Skeleton!ProcessBreak
    BY <2>1, <2>2, <2>3
       DEF Skeleton!ProcessBreak, CollectorAt, ProcessorAt, Numbers
  <2>5. QED
    BY <2>4 DEF Skeleton!HandOverNext, Skeleton!processTask
<1>14. CASE ConsumerPop
  <2>1. /\ queued /= <<>> /\ Head(queued) = Head(commandQueue).sequence
        /\ queued' = Tail(queued)
    <3>1. commandQueue /= <<>> /\ commandQueue' = Tail(commandQueue)
      BY <1>14 DEF ConsumerPop
    <3>2. queued' = Numbers(Tail(commandQueue))
      BY <3>1
    <3>3. QED
      BY <1>3, <3>1, <3>2
  <2>2. /\ ProcessorAt = "check" /\ ProcessorAt' = "process"
        /\ InHand' = <<Head(commandQueue).sequence>>
    BY <1>14, MappingValues DEF ConsumerPop, ProcessorAt, InHand
  <2>3. UNCHANGED <<CollectorAt, sequence, inputFinished, answered>>
    BY <1>14, MappingFrame DEF ConsumerPop, producerVars
  <2>4. Skeleton!ProcessTake
    BY <2>1, <2>2, <2>3
       DEF Skeleton!ProcessTake, CollectorAt, ProcessorAt, Numbers
  <2>5. QED
    BY <2>4 DEF Skeleton!HandOverNext, Skeleton!processTask
<1>15. CASE ConsumerParse \/ ConsumerLog
  <2>1. /\ consumer \in {"parse", "log"} /\ consumer' \in {"log", "print"} /\ raw' = raw
        /\ UNCHANGED <<producerVars, commandQueue, inputFinished, results>>
    BY <1>15 DEF ConsumerParse, ConsumerLog
  <2>2. UNCHANGED <<InHand, ProcessorAt>>
    BY <2>1 DEF InHand, ProcessorAt
  <2>3. QED
    BY <1>5, <2>1, <2>2, MappingFrame DEF producerVars
<1>16. CASE printResult
  <2>1. /\ ProcessorAt = "process" /\ ProcessorAt' = "check"
        /\ InHand = <<raw.sequence>> /\ InHand' = <<>>
    BY <1>16, MappingValues DEF printResult, ProcessorAt, InHand
  <2>2. result \in CommandResult /\ result.sequence = raw.sequence
    BY <1>16 DEF printResult, AckInv
  <2>3. answered' = answered \o <<raw.sequence>>
    <3>1. /\ Numbers(results) \in Seq(NumbersOf(CommandResult))
          /\ Numbers(Append(results, result)) = Append(Numbers(results), result.sequence)
      BY <2>2, <1>4
    <3>2. raw.sequence \in NumbersOf(CommandResult)
      BY <1>1, <2>2
    <3>3. Append(Numbers(results), raw.sequence) = Numbers(results) \o <<raw.sequence>>
      BY <3>1, <3>2, AppendIsConcat
    <3>4. QED
      BY <1>16, <2>2, <3>1, <3>3 DEF printResult
  <2>4. UNCHANGED <<CollectorAt, sequence, queued, inputFinished>>
    BY <1>16, MappingFrame DEF printResult, producerVars
  <2>5. Skeleton!Process
    BY <2>1, <2>3, <2>4 DEF Skeleton!Process, CollectorAt, ProcessorAt, Numbers
  <2>6. QED
    BY <2>5 DEF Skeleton!HandOverNext, Skeleton!processTask
<1>17. CASE ConsumerLogFinished
  <2>1. UNCHANGED <<InHand, ProcessorAt>>
    BY <1>17 DEF ConsumerLogFinished, InHand, ProcessorAt
  <2>2. QED
    BY <1>5, <1>17, <2>1, MappingFrame DEF ConsumerLogFinished, producerVars
<1>18. CASE ConsumerSpuriousWakeup
  <2>1. ProcessorAt = "waiting" /\ ProcessorAt' = "check" /\ InHand' = InHand
    BY <1>18, MappingValues DEF ConsumerSpuriousWakeup, ProcessorAt, InHand
  <2>2. UNCHANGED <<CollectorAt, sequence, queued, inputFinished, answered>>
    BY <1>18, MappingFrame DEF ConsumerSpuriousWakeup, producerVars
  <2>3. Skeleton!SpuriousWakeup
    BY <2>1, <2>2 DEF Skeleton!SpuriousWakeup, CollectorAt, ProcessorAt, Numbers
  <2>4. QED
    BY <2>3 DEF Skeleton!HandOverNext
<1>19. CASE MainReturn
  BY <1>5, <1>19, MappingFrame DEF MainReturn, producerVars, consumerVars
<1>20. CASE UNCHANGED vars
  BY <1>5, <1>20, MappingFrame DEF vars, producerVars, consumerVars
<1>21. QED
  BY <1>6, <1>7, <1>8, <1>9, <1>10, <1>11, <1>12, <1>13, <1>14, <1>15, <1>16, <1>17,
     <1>18, <1>19, <1>20
     DEF Next, inputProducer, commandConsumer

\* gateway_ack_demo with any inputs hands its commands over like ProducerConsumer
\* (main.cpp 128-240): no command is lost, repeated or overtaken and no wake-up is
\* missed, whatever the parser, the logger and the statistics do in between.
THEOREM AckDemoHandsOver == Spec => ImplementsProducerConsumer
<1>1. Init => Skeleton!HandOverInit
  <2>1. Init => /\ CollectorAt = "push" /\ ProcessorAt = "check" /\ InHand = <<>>
                /\ Numbers(commandQueue) = <<>> /\ Numbers(results) = <<>>
    BY MappingValues DEF Init, Numbers
  <2>2. QED
    BY <2>1 DEF Init, Skeleton!HandOverInit, CollectorAt, ProcessorAt, Numbers
<1>2. QED
  BY <1>1, AckInductive, AckSimulates, PTL DEF Spec, ImplementsProducerConsumer, Skeleton!HandOverSpec
----------------------------------------------------------------------------
(* The answers and the figures of gateway_ack_demo.                         *)

One(b) == IF b THEN 1 ELSE 0

\* The code a text deserves.
Verdict(payload) == IF isValid(parse(payload)) THEN "Ok" ELSE "InvalidCommand"

Received == IF producer = "push" THEN sequence - 1 ELSE sequence
QueuedLines == IF producer \in {"push", "log"} THEN sequence - 1 ELSE sequence
Taken == Len(results) + One(consumer \in {"parse", "log", "print"})

\* Command number n, and its answer.
Command(n) == [sequence |-> n, payload |-> Payloads[n]]
Answer(n) == [sequence |-> n, code |-> Verdict(Payloads[n])]

\* Answered, in hand and queued are the commands 1, 2, ... up to the last one
\* pushed, each with its text, and each answer is the one its text deserves.
OrderInv ==
  /\ \A i \in 1 .. Len(results) : results[i] = Answer(i)
  /\ consumer \in {"parse", "log", "print"} => raw = Command(Len(results) + 1)
  /\ consumer \in {"log", "print"} => result = Answer(Len(results) + 1)
  /\ \A i \in 1 .. Len(commandQueue) : commandQueue[i] = Command(Taken + i)
  /\ Taken + Len(commandQueue) = Received

\* When a thread has left its loop.
LeftInv ==
  /\ producer \in {"finish", "log_finished", "notify_all", "done"} =>
       sequence = Len(Payloads)
  /\ inputFinished => producer \in {"log_finished", "notify_all", "done"}
  /\ consumer \in {"log_finished", "done"} => commandQueue = <<>> /\ inputFinished

AnswerInv == AckInv /\ OrderInv /\ LeftInv

\* AnswerInv is inductive.
LEMMA AnswerInductive ==
  /\ Init => AnswerInv
  /\ AnswerInv /\ [Next]_vars => AnswerInv'
<1>1. Len(Payloads) \in Nat \ {0}
  BY CommandPipelineAssumption
<1>2. ASSUME Init
      PROVE  AnswerInv
  <2>1. AckInv
    BY <1>2, AckInductive
  <2>2. OrderInv /\ LeftInv
    BY <1>2 DEF Init, OrderInv, LeftInv, Taken, Received, One
  <2>3. QED
    BY <2>1, <2>2 DEF AnswerInv
<1>3. ASSUME AnswerInv, [Next]_vars
      PROVE  AnswerInv'
  <2>1. AckInv /\ AckInv' /\ OrderInv /\ LeftInv
    BY <1>3, AckInductive DEF AnswerInv
  <2>2. /\ sequence \in Nat /\ commandQueue \in Seq(RawCommand)
        /\ results \in Seq(CommandResult)
        /\ Len(commandQueue) \in Nat /\ Len(results) \in Nat /\ Taken \in Nat
    BY <2>1, LenProperties DEF AckInv, Number, Taken, One
  <2>3. SUFFICES OrderInv' /\ LeftInv'
    BY <2>1 DEF AnswerInv
  <2> USE <2>1, <2>2
  <2>4. CASE ProducerPush
    <3>1. commandQueue' = Append(commandQueue, Command(sequence))
      BY <2>4 DEF ProducerPush, Command
    <3>2. Command(sequence) \in RawCommand
      BY DEF Command, RawCommand, AckInv
    <3>3. /\ Len(commandQueue') = Len(commandQueue) + 1
          /\ \A i \in 1 .. Len(commandQueue) : commandQueue'[i] = commandQueue[i]
          /\ commandQueue'[Len(commandQueue) + 1] = Command(sequence)
      BY <3>1, <3>2, AppendProperties
    <3>4. /\ UNCHANGED <<sequence, consumer, raw, result, results, inputFinished>>
          /\ producer = "push" /\ producer' = "log"
      BY <2>4 DEF ProducerPush, consumerVars
    <3>5. Taken' = Taken /\ Taken + Len(commandQueue) = sequence - 1 /\ Received' = sequence
      BY <3>4 DEF Taken, Received, OrderInv
    <3>6. ASSUME NEW i \in 1 .. Len(commandQueue')
          PROVE  commandQueue'[i] = Command(Taken + i)
      <4>1. CASE i \in 1 .. Len(commandQueue)
        BY <3>3, <4>1 DEF OrderInv
      <4>2. CASE i = Len(commandQueue) + 1
        <5>1. Taken + i = sequence
          BY <3>5, <4>2
        <5>2. QED
          BY <3>3, <4>2, <5>1
      <4>3. QED
        BY <3>3, <4>1, <4>2
    <3>7. OrderInv'
      BY <3>3, <3>4, <3>5, <3>6 DEF OrderInv
    <3>8. QED
      BY <3>4, <3>7 DEF LeftInv
  <2>5. CASE ProducerLog \/ ProducerLogFinished
    <3>1. /\ UNCHANGED <<sequence, consumerVars, commandQueue, inputFinished, results>>
          /\ \/ producer = "log" /\ producer' = "notify"
             \/ producer = "log_finished" /\ producer' = "notify_all"
      BY <2>5 DEF ProducerLog, ProducerLogFinished
    <3>2. Taken' = Taken /\ Received' = Received
      BY <3>1 DEF Taken, Received, consumerVars
    <3>3. QED
      BY <3>1, <3>2 DEF OrderInv, LeftInv, consumerVars
  <2>6. CASE ProducerNotify
    <3>0. Taken' = Taken
      BY <2>6 DEF ProducerNotify, Awakened, Taken
    <3>1. Taken' = Taken /\ Received' = Received
      BY <2>6, <3>0 DEF ProducerNotify, Received
    <3>2. OrderInv'
      BY <2>6, <3>1 DEF ProducerNotify, Awakened, OrderInv
    <3>3. LeftInv'
      BY <1>1, <2>6 DEF ProducerNotify, Awakened, LeftInv, AckInv, Number
    <3>4. QED
      BY <3>2, <3>3
  <2>7. CASE ProducerFinish
    <3>1. Taken' = Taken /\ Received' = Received
      BY <2>7 DEF ProducerFinish, consumerVars, Taken, Received
    <3>2. QED
      BY <2>7, <3>1 DEF ProducerFinish, consumerVars, OrderInv, LeftInv
  <2>8. CASE ProducerNotifyAll
    <3>1. Taken' = Taken /\ Received' = Received
      BY <2>8 DEF ProducerNotifyAll, Awakened, Taken, Received
    <3>2. QED
      BY <2>8, <3>1 DEF ProducerNotifyAll, Awakened, OrderInv, LeftInv
  <2>9. CASE ConsumerWait \/ ConsumerSpuriousWakeup \/ ConsumerBreak \/ ConsumerLogFinished
    <3>1. /\ UNCHANGED <<producerVars, raw, result, commandQueue, inputFinished, results>>
          /\ consumer \notin {"parse", "log", "print"}
          /\ consumer' \notin {"parse", "log", "print"}
          /\ consumer' \in {"log_finished", "done"} => commandQueue = <<>> /\ inputFinished
      BY <2>9 DEF ConsumerWait, ConsumerSpuriousWakeup, ConsumerBreak,
         ConsumerLogFinished, LeftInv
    <3>2. Taken' = Taken /\ Received' = Received
      BY <3>1 DEF Taken, Received, producerVars
    <3>3. OrderInv'
      BY <3>1, <3>2 DEF OrderInv
    <3>4. LeftInv'
      BY <3>1 DEF LeftInv, producerVars
    <3>5. QED
      BY <3>3, <3>4
  <2>10. CASE ConsumerPop
    <3>1. /\ UNCHANGED <<producerVars, result, inputFinished, results>>
          /\ consumer = "check" /\ consumer' = "parse" /\ commandQueue /= <<>>
          /\ raw' = Head(commandQueue) /\ commandQueue' = Tail(commandQueue)
      BY <2>10 DEF ConsumerPop
    <3>2. Taken = Len(results) /\ Taken' = Len(results) + 1 /\ Received' = Received
      BY <3>1 DEF Taken, Received, producerVars, One
    <3>3. /\ Len(commandQueue') = Len(commandQueue) - 1 /\ Len(commandQueue) > 0
          /\ \A i \in 1 .. Len(commandQueue') : commandQueue'[i] = commandQueue[i + 1]
      BY <3>1, HeadTailProperties, EmptySeq
    <3>4. raw' = Command(Len(results) + 1)
      BY <3>1, <3>2, <3>3 DEF OrderInv
    <3>5. ASSUME NEW i \in 1 .. Len(commandQueue')
          PROVE  commandQueue'[i] = Command(Taken' + i)
      <4>1. commandQueue[i + 1] = Command(Taken + (i + 1))
        BY <3>3 DEF OrderInv
      <4>2. Taken + (i + 1) = Taken' + i
        BY <3>2, <3>3
      <4>3. QED
        BY <3>3, <4>1, <4>2
    <3>6. Taken' + Len(commandQueue') = Received'
      BY <3>2, <3>3 DEF OrderInv
    <3>7. OrderInv'
      BY <3>1, <3>4, <3>5, <3>6 DEF OrderInv
    <3>8. QED
      BY <3>1, <3>7 DEF LeftInv, producerVars
  <2>11. CASE ConsumerParse
    <3>1. /\ UNCHANGED <<producerVars, raw, commandQueue, inputFinished, results>>
          /\ consumer = "parse" /\ consumer' = "log"
          /\ result' = [sequence |-> raw.sequence, code |-> Verdict(raw.payload)]
      BY <2>11 DEF ConsumerParse, Verdict
    <3>2. Taken' = Taken /\ Received' = Received
      BY <3>1 DEF Taken, Received, producerVars
    <3>3. raw = Command(Len(results) + 1)
      BY <3>1 DEF OrderInv
    <3>4. result' = Answer(Len(results) + 1)
      BY <3>1, <3>3 DEF Command, Answer
    <3>5. QED
      BY <3>1, <3>2, <3>4 DEF OrderInv, LeftInv, producerVars
  <2>12. CASE ConsumerLog
    <3>1. /\ UNCHANGED <<producerVars, raw, result, commandQueue, inputFinished, results>>
          /\ consumer = "log" /\ consumer' = "print"
      BY <2>12 DEF ConsumerLog
    <3>2. Taken' = Taken /\ Received' = Received
      BY <3>1 DEF Taken, Received, producerVars
    <3>3. QED
      BY <3>1, <3>2 DEF OrderInv, LeftInv, producerVars
  <2>13. CASE printResult
    <3>1. /\ UNCHANGED <<producerVars, raw, result, commandQueue, inputFinished>>
          /\ consumer = "print" /\ consumer' = "check"
          /\ results' = Append(results, result)
      BY <2>13 DEF printResult
    <3>2. result \in CommandResult /\ result = Answer(Len(results) + 1)
      BY <3>1 DEF AckInv, OrderInv
    <3>3. /\ Len(results') = Len(results) + 1
          /\ \A i \in 1 .. Len(results) : results'[i] = results[i]
          /\ results'[Len(results) + 1] = result
      BY <3>1, <3>2, AppendProperties
    <3>4. Taken' = Taken /\ Received' = Received
      BY <3>1, <3>3 DEF Taken, Received, producerVars, One
    <3>5. \A i \in 1 .. Len(results') : results'[i] = Answer(i)
      BY <3>2, <3>3 DEF OrderInv
    <3>6. OrderInv'
      BY <3>1, <3>4, <3>5 DEF OrderInv
    <3>7. QED
      BY <3>1, <3>6 DEF LeftInv, producerVars
  <2>14. CASE MainReturn \/ UNCHANGED vars
    <3>1. UNCHANGED <<producerVars, consumerVars, commandQueue, inputFinished, results>>
      BY <2>14 DEF MainReturn, vars
    <3>2. Taken' = Taken /\ Received' = Received
      BY <3>1 DEF Taken, Received, producerVars, consumerVars
    <3>3. QED
      BY <3>1, <3>2 DEF OrderInv, LeftInv, producerVars, consumerVars
  <2>15. QED
    BY <1>3, <2>4, <2>5, <2>6, <2>7, <2>8, <2>9, <2>10, <2>11, <2>12, <2>13, <2>14
       DEF Next, inputProducer, commandConsumer
<1>4. QED
  BY <1>2, <1>3
Lines == [what : {"queued", "input finished", "consumer finished", "Ok", "InvalidCommand"},
          sequence : Nat]

\* The logger's members, and that every line went straight to the file.
LoggerInv ==
  /\ logger = [open |-> logger.open, consoleEnabled |-> logger.consoleEnabled,
               autoFlush |-> TRUE, maxCachedLogs |-> logger.maxCachedLogs,
               recentLogs |-> logger.recentLogs, logCounts |-> logger.logCounts]
  /\ logger.open \in BOOLEAN
  /\ logger.open \/ Joined
  /\ logger.logCounts \in [LogLevel -> Nat]
  /\ disk \in Seq(Lines) /\ unflushed = <<>>

\* Each figure, with what is counted and not yet logged.
FigureInv ==
  /\ stats \in [received : Nat, accepted : Nat, rejected : Nat, ackCount : Nat]
  /\ stats.received = Received
  /\ stats.accepted + stats.rejected = Len(results) + One(consumer \in {"log", "print"})
  /\ logger.logCounts["Warning"] + One(consumer = "log" /\ result.code /= "Ok")
       = stats.rejected
  /\ logger.logCounts["Info"] + One(consumer = "log" /\ result.code = "Ok")
       = QueuedLines + stats.accepted + One(producer \in {"notify_all", "done"})
           + One(consumer = "done")
  /\ Len(disk) = logger.logCounts["Warning"] + logger.logCounts["Info"]

\* What a call of log does while the file is open.
LEMMA LogStep ==
  ASSUME LoggerInv, logger.open, NEW level \in LogLevel, NEW line \in Lines,
         log(level, line)
  PROVE  /\ LoggerInv'
         /\ logger'.logCounts = [logger.logCounts EXCEPT ![level] = @ + 1]
         /\ Len(disk') = Len(disk) + 1
<1>1. PICK recent :
        logger' = [open |-> logger.open, consoleEnabled |-> logger.consoleEnabled,
                   autoFlush |-> TRUE, maxCachedLogs |-> logger.maxCachedLogs,
                   recentLogs |-> recent,
                   logCounts |-> [logger.logCounts EXCEPT ![level] = @ + 1]]
  <2>1. PICK o, c, m, r, n :
          logger = [open |-> o, consoleEnabled |-> c, autoFlush |-> TRUE,
                    maxCachedLogs |-> m, recentLogs |-> r, logCounts |-> n]
    BY DEF LoggerInv
  <2>2. logger' = [logger EXCEPT !.recentLogs = cacheLogLine(r, m, line),
                                 !.logCounts = [n EXCEPT ![level] = @ + 1]]
    BY <2>1 DEF log
  <2>3. logger' = [open |-> o, consoleEnabled |-> c, autoFlush |-> TRUE,
                   maxCachedLogs |-> m, recentLogs |-> cacheLogLine(r, m, line),
                   logCounts |-> [n EXCEPT ![level] = @ + 1]]
    BY <2>1, <2>2
  <2>4. QED
    BY <2>1, <2>3
<1>2. logger.autoFlush = TRUE
  BY DEF LoggerInv
<1>3. disk' = disk \o Append(<<>>, line) /\ unflushed' = <<>>
  BY <1>2 DEF LoggerInv, log
<1>4. /\ Append(<<>>, line) \in Seq(Lines) /\ Len(Append(<<>>, line)) = 1
  BY EmptySeq, AppendProperties
<1>5. disk' \in Seq(Lines) /\ Len(disk') = Len(disk) + 1
  BY <1>3, <1>4, ConcatProperties DEF LoggerInv
<1>6. [logger.logCounts EXCEPT ![level] = @ + 1] \in [LogLevel -> Nat]
  BY DEF LoggerInv
<1>7. QED
  BY <1>1, <1>3, <1>5, <1>6 DEF LoggerInv
AllInv == AnswerInv /\ LoggerInv /\ FigureInv

\* AllInv is inductive.
LEMMA FiguresInductive ==
  /\ Init => AllInv
  /\ AllInv /\ [Next]_vars => AllInv'
<1>1. ASSUME Init
      PROVE  AllInv
  <2>1. AnswerInv
    BY <1>1, AnswerInductive
  <2>2. logger = [open |-> TRUE, consoleEnabled |-> TRUE, autoFlush |-> TRUE,
                  maxCachedLogs |-> 50, recentLogs |-> <<>>,
                  logCounts |-> [level \in LogLevel |-> 0]]
    BY <1>1 DEF Init
  <2>3. LoggerInv /\ logger.logCounts["Warning"] = 0 /\ logger.logCounts["Info"] = 0
    BY <1>1, <2>2 DEF Init, LoggerInv, LogLevel
  <2>4. FigureInv
    BY <1>1, <2>3 DEF Init, FigureInv, Received, QueuedLines, One
  <2>5. QED
    BY <2>1, <2>3, <2>4 DEF AllInv
<1>2. ASSUME AllInv, [Next]_vars
      PROVE  AllInv'
  <2> DEFINE warnings == logger.logCounts["Warning"]
             infos == logger.logCounts["Info"]
             warning == One(consumer = "log" /\ result.code /= "Ok")
             info == One(consumer = "log" /\ result.code = "Ok")
             finished == One(producer \in {"notify_all", "done"})
             left == One(consumer = "done")
             busy == One(consumer \in {"log", "print"})
  <2>1. /\ AnswerInv /\ AnswerInv' /\ LoggerInv /\ FigureInv /\ AckInv /\ AckInv'
    BY <1>2, AnswerInductive DEF AllInv, AnswerInv
  <2>2. /\ sequence \in Nat /\ Len(results) \in Nat /\ Len(disk) \in Nat
        /\ warnings \in Nat /\ infos \in Nat
        /\ stats.received \in Nat /\ stats.accepted \in Nat /\ stats.rejected \in Nat
    <3>1. sequence \in Nat /\ Len(results) \in Nat
      BY <2>1, LenProperties DEF AckInv, Number
    <3>2. Len(disk) \in Nat /\ warnings \in Nat /\ infos \in Nat
      BY <2>1, LenProperties DEF LoggerInv, LogLevel
    <3>3. stats.received \in Nat /\ stats.accepted \in Nat /\ stats.rejected \in Nat
      BY <2>1 DEF FigureInv
    <3>4. QED
      BY <3>1, <3>2, <3>3
  <2>3. SUFFICES LoggerInv' /\ FigureInv'
    BY <2>1 DEF AllInv
  <2>4. PICK received \in Nat, accepted \in Nat, rejected \in Nat, acks \in Nat :
          stats = [received |-> received, accepted |-> accepted,
                   rejected |-> rejected, ackCount |-> acks]
    BY <2>1 DEF FigureInv
  <2>5. ASSUME UNCHANGED managerVars, logger.open \/ Joined'
        PROVE  LoggerInv' /\ warnings' = warnings /\ infos' = infos /\ Len(disk') = Len(disk)
    BY <2>1, <2>5 DEF LoggerInv, managerVars
  <2>6. /\ QueuedLines \in Int /\ Received \in Int
         /\ warning \in {0, 1} /\ info \in {0, 1} /\ finished \in {0, 1}
         /\ left \in {0, 1} /\ busy \in {0, 1}
    BY <2>2 DEF QueuedLines, Received, One
  <2>7. /\ received = Received
         /\ accepted + rejected = Len(results) + busy
         /\ warnings + warning = rejected
         /\ infos + info = QueuedLines + accepted + finished + left
         /\ Len(disk) = warnings + infos
    BY <2>1, <2>4 DEF FigureInv
  <2>8. ASSUME NEW r \in Nat, NEW a \in Nat, NEW j \in Nat, NEW k \in Nat,
                stats' = [received |-> r, accepted |-> a, rejected |-> j, ackCount |-> k],
                r = Received', a + j = Len(results') + busy',
                warnings' + warning' = j,
                infos' + info' = QueuedLines' + a + finished' + left',
                Len(disk') = warnings' + infos'
         PROVE  FigureInv'
    BY <2>8 DEF FigureInv
  <2> HIDE DEF warnings, infos, warning, info, finished, left, busy
  <2>9. CASE ProducerPush
    <3>1. stats' = [received |-> received + 1, accepted |-> accepted,
                    rejected |-> rejected, ackCount |-> acks]
      BY <2>4, <2>9 DEF ProducerPush
    <3>2. /\ UNCHANGED <<managerVars, sequence, consumer, result, results>>
          /\ producer = "push" /\ producer' = "log"
      BY <2>9 DEF ProducerPush, consumerVars
    <3>3. LoggerInv' /\ warnings' = warnings /\ infos' = infos /\ Len(disk') = Len(disk)
      BY <2>1, <2>5, <3>2 DEF LoggerInv, Joined
    <3>4. Received' = Received + 1 /\ QueuedLines' = QueuedLines
      BY <2>2, <3>2 DEF Received, QueuedLines
    <3>5. /\ warning' = warning /\ info' = info /\ left' = left /\ busy' = busy
          /\ finished' = finished
      BY <3>2 DEF warning, info, finished, left, busy
    <3>6. FigureInv'
      BY <2>2, <2>4, <2>6, <2>7, <2>8, <3>1, <3>2, <3>3, <3>4, <3>5
    <3>7. QED
      BY <3>3, <3>6
  <2>10. CASE ProducerLog
    <3>1. /\ UNCHANGED <<sequence, consumer, result, results, stats>>
          /\ producer = "log" /\ producer' = "notify"
          /\ log("Info", [what |-> "queued", sequence |-> sequence])
      BY <2>10 DEF ProducerLog, consumerVars
    <3>2. logger.open
      BY <2>1, <3>1 DEF LoggerInv, Joined
    <3>3. [what |-> "queued", sequence |-> sequence] \in Lines /\ "Info" \in LogLevel
      BY <2>2 DEF Lines, LogLevel
    <3>4. /\ LoggerInv' /\ Len(disk') = Len(disk) + 1
          /\ logger'.logCounts = [logger.logCounts EXCEPT !["Info"] = @ + 1]
      BY <2>1, <3>1, <3>2, <3>3, LogStep
    <3>5. warnings' = warnings /\ infos' = infos + 1
      BY <2>1, <3>4 DEF LoggerInv, LogLevel, warnings, infos
    <3>6. Received' = Received /\ QueuedLines' = QueuedLines + 1
      BY <2>2, <3>1 DEF Received, QueuedLines
    <3>7. /\ warning' = warning /\ info' = info /\ left' = left /\ busy' = busy
          /\ finished' = finished
      BY <3>1 DEF warning, info, finished, left, busy
    <3>8. FigureInv'
      BY <2>2, <2>4, <2>6, <2>7, <2>8, <3>1, <3>4, <3>5, <3>6, <3>7
    <3>9. QED
      BY <3>4, <3>8
  <2>11. CASE ProducerNotify
    <3>1. /\ UNCHANGED <<managerVars, result, results, stats>>
          /\ producer = "notify" /\ producer' \in {"push", "finish"}
          /\ sequence' = IF producer' = "push" THEN sequence + 1 ELSE sequence
      BY <2>11 DEF ProducerNotify
    <3>2. /\ consumer' \in {"log", "print", "done"} <=> consumer \in {"log", "print", "done"}
          /\ consumer \in {"log", "print", "done"} => consumer' = consumer
      BY <2>11 DEF ProducerNotify, Awakened
    <3>3. LoggerInv' /\ warnings' = warnings /\ infos' = infos /\ Len(disk') = Len(disk)
      BY <2>1, <2>5, <3>1 DEF LoggerInv, Joined
    <3>4. Received' = Received /\ QueuedLines' = QueuedLines
      BY <2>2, <3>1 DEF Received, QueuedLines
    <3>5. /\ warning' = warning /\ info' = info /\ left' = left /\ busy' = busy
          /\ finished' = finished
      BY <3>1, <3>2 DEF warning, info, finished, left, busy
    <3>6. FigureInv'
      BY <2>2, <2>4, <2>6, <2>7, <2>8, <3>1, <3>3, <3>4, <3>5
    <3>7. QED
      BY <3>3, <3>6
  <2>12. CASE ProducerFinish
    <3>1. /\ UNCHANGED <<managerVars, sequence, consumer, result, results, stats>>
          /\ producer = "finish" /\ producer' = "log_finished"
      BY <2>12 DEF ProducerFinish, consumerVars
    <3>2. LoggerInv' /\ warnings' = warnings /\ infos' = infos /\ Len(disk') = Len(disk)
      BY <2>1, <2>5, <3>1 DEF LoggerInv, Joined
    <3>3. Received' = Received /\ QueuedLines' = QueuedLines
      BY <3>1 DEF Received, QueuedLines
    <3>4. /\ warning' = warning /\ info' = info /\ left' = left /\ busy' = busy
          /\ finished' = finished
      BY <3>1 DEF warning, info, finished, left, busy
    <3>5. FigureInv'
      BY <2>2, <2>4, <2>6, <2>7, <2>8, <3>1, <3>2, <3>3, <3>4
    <3>6. QED
      BY <3>2, <3>5
  <2>13. CASE ProducerLogFinished
    <3>1. /\ UNCHANGED <<sequence, consumer, result, results, stats>>
          /\ producer = "log_finished" /\ producer' = "notify_all"
          /\ log("Info", [what |-> "input finished", sequence |-> 0])
      BY <2>13 DEF ProducerLogFinished, consumerVars
    <3>2. logger.open
      BY <2>1, <3>1 DEF LoggerInv, Joined
    <3>3. [what |-> "input finished", sequence |-> 0] \in Lines /\ "Info" \in LogLevel
      BY DEF Lines, LogLevel
    <3>4. /\ LoggerInv' /\ Len(disk') = Len(disk) + 1
          /\ logger'.logCounts = [logger.logCounts EXCEPT !["Info"] = @ + 1]
      BY <2>1, <3>1, <3>2, <3>3, LogStep
    <3>5. warnings' = warnings /\ infos' = infos + 1
      BY <2>1, <3>4 DEF LoggerInv, LogLevel, warnings, infos
    <3>6. Received' = Received /\ QueuedLines' = QueuedLines
      BY <3>1 DEF Received, QueuedLines
    <3>7. /\ warning' = warning /\ info' = info /\ left' = left /\ busy' = busy
          /\ finished = 0 /\ finished' = 1
      BY <3>1 DEF warning, info, finished, left, busy, One
    <3>8. Len(results') = Len(results) /\ stats' = stats /\ Len(disk') = Len(disk) + 1
      BY <3>1, <3>4
    <3>9. /\ accepted + rejected = Len(results') + busy'
          /\ warnings' + warning' = rejected
          /\ infos' + info' = QueuedLines' + accepted + finished' + left'
          /\ Len(disk') = warnings' + infos'
      BY <2>2, <2>6, <2>7, <3>5, <3>6, <3>7, <3>8
    <3>10. FigureInv'
      BY <2>4, <2>7, <2>8, <3>6, <3>8, <3>9
    <3>11. QED
      BY <3>4, <3>10
  <2>14. CASE ProducerNotifyAll
    <3>1. /\ UNCHANGED <<managerVars, sequence, result, results, stats>>
          /\ producer = "notify_all" /\ producer' = "done"
      BY <2>14 DEF ProducerNotifyAll
    <3>2. /\ consumer' \in {"log", "print", "done"} <=> consumer \in {"log", "print", "done"}
          /\ consumer \in {"log", "print", "done"} => consumer' = consumer
      BY <2>14 DEF ProducerNotifyAll, Awakened
    <3>3. LoggerInv' /\ warnings' = warnings /\ infos' = infos /\ Len(disk') = Len(disk)
      BY <2>1, <2>5, <3>1 DEF LoggerInv, Joined
    <3>4. Received' = Received /\ QueuedLines' = QueuedLines
      BY <3>1 DEF Received, QueuedLines
    <3>5. /\ warning' = warning /\ info' = info /\ left' = left /\ busy' = busy
          /\ finished' = finished
      BY <3>1, <3>2 DEF warning, info, finished, left, busy
    <3>6. FigureInv'
      BY <2>2, <2>4, <2>6, <2>7, <2>8, <3>1, <3>3, <3>4, <3>5
    <3>7. QED
      BY <3>3, <3>6
  <2>15. CASE ConsumerWait \/ ConsumerSpuriousWakeup \/ ConsumerBreak \/ ConsumerPop
    <3>1. /\ UNCHANGED <<managerVars, producerVars, result, results, stats>>
          /\ consumer \in {"check", "waiting"}
          /\ consumer' \in {"check", "waiting", "log_finished", "parse"}
      BY <2>15 DEF ConsumerWait, ConsumerSpuriousWakeup, ConsumerBreak, ConsumerPop
    <3>2. LoggerInv' /\ warnings' = warnings /\ infos' = infos /\ Len(disk') = Len(disk)
      BY <2>1, <2>5, <3>1 DEF LoggerInv, Joined
    <3>3. Received' = Received /\ QueuedLines' = QueuedLines
      BY <3>1 DEF Received, QueuedLines, producerVars
    <3>4. /\ warning' = warning /\ info' = info /\ left' = left /\ busy' = busy
          /\ finished' = finished
      BY <3>1 DEF warning, info, finished, left, busy, producerVars
    <3>5. FigureInv'
      BY <2>2, <2>4, <2>6, <2>7, <2>8, <3>1, <3>2, <3>3, <3>4
    <3>6. QED
      BY <3>2, <3>5
  <2>16. CASE ConsumerParse
    <3>1. /\ UNCHANGED <<managerVars, producerVars, results>>
          /\ consumer = "parse" /\ consumer' = "log"
      BY <2>16 DEF ConsumerParse
    <3>2. \/ /\ result'.code = "Ok"
             /\ stats' = [received |-> received, accepted |-> accepted + 1,
                          rejected |-> rejected, ackCount |-> acks + 1]
          \/ /\ result'.code = "InvalidCommand"
             /\ stats' = [received |-> received, accepted |-> accepted,
                          rejected |-> rejected + 1, ackCount |-> acks + 1]
      <4>1. CASE isValid(parse(raw.payload))
        <5>1. /\ stats' = [stats EXCEPT !.accepted = @ + 1, !.ackCount = @ + 1]
              /\ result' = [sequence |-> raw.sequence, code |-> "Ok"]
          BY <2>16, <4>1 DEF ConsumerParse
        <5>2. QED
          BY <2>4, <5>1
      <4>2. CASE ~isValid(parse(raw.payload))
        <5>1. /\ stats' = [stats EXCEPT !.rejected = @ + 1, !.ackCount = @ + 1]
              /\ result' = [sequence |-> raw.sequence, code |-> "InvalidCommand"]
          BY <2>16, <4>2 DEF ConsumerParse
        <5>2. QED
          BY <2>4, <5>1
      <4>3. QED
        BY <4>1, <4>2
    <3>3. LoggerInv' /\ warnings' = warnings /\ infos' = infos /\ Len(disk') = Len(disk)
      BY <2>1, <2>5, <3>1 DEF LoggerInv, Joined
    <3>4. Received' = Received /\ QueuedLines' = QueuedLines
      BY <3>1 DEF Received, QueuedLines, producerVars
    <3>5. /\ warning = 0 /\ info = 0 /\ left = 0 /\ left' = 0 /\ busy = 0 /\ busy' = 1
          /\ finished' = finished
          /\ result'.code = "Ok" => warning' = 0 /\ info' = 1
          /\ result'.code = "InvalidCommand" => warning' = 1 /\ info' = 0
      BY <3>1 DEF warning, info, finished, left, busy, One, producerVars
    <3>6. Len(results') = Len(results)
      BY <3>1
    <3>7. FigureInv'
      <4>1. CASE result'.code = "Ok"
        <5>1. /\ (accepted + 1) + rejected = Len(results') + busy'
              /\ warnings' + warning' = rejected
              /\ infos' + info' = QueuedLines' + (accepted + 1) + finished' + left'
              /\ Len(disk') = warnings' + infos'
          BY <2>2, <2>6, <2>7, <3>3, <3>4, <3>5, <3>6, <4>1
        <5>2. accepted + 1 \in Nat /\ acks + 1 \in Nat
          OBVIOUS
        <5>3. stats' = [received |-> received, accepted |-> accepted + 1,
                        rejected |-> rejected, ackCount |-> acks + 1]
          BY <3>2, <4>1
        <5>4. QED
          BY <2>7, <2>8, <3>4, <5>1, <5>2, <5>3
      <4>2. CASE result'.code = "InvalidCommand"
        <5>1. /\ accepted + (rejected + 1) = Len(results') + busy'
              /\ warnings' + warning' = (rejected + 1)
              /\ infos' + info' = QueuedLines' + accepted + finished' + left'
              /\ Len(disk') = warnings' + infos'
          BY <2>2, <2>6, <2>7, <3>3, <3>4, <3>5, <3>6, <4>2
        <5>2. rejected + 1 \in Nat /\ acks + 1 \in Nat
          OBVIOUS
        <5>3. stats' = [received |-> received, accepted |-> accepted,
                        rejected |-> rejected + 1, ackCount |-> acks + 1]
          BY <3>2, <4>2
        <5>4. QED
          BY <2>7, <2>8, <3>4, <5>1, <5>2, <5>3
      <4>3. QED
        BY <3>2, <4>1, <4>2
    <3>8. QED
      BY <3>3, <3>7
  <2>17. CASE ConsumerLog
    <3> DEFINE level == IF result.code = "Ok" THEN "Info" ELSE "Warning"
               line == [what |-> result.code, sequence |-> result.sequence]
    <3>1. /\ UNCHANGED <<producerVars, result, results, stats>>
          /\ consumer = "log" /\ consumer' = "print"
          /\ log(level, line)
      BY <2>17 DEF ConsumerLog
    <3>2. logger.open
      BY <2>1, <3>1 DEF LoggerInv, Joined
    <3>3. line \in Lines /\ level \in LogLevel
      <4>1. result.sequence \in Nat /\ result.code \in {"Ok", "InvalidCommand"}
        BY <2>1, <3>1 DEF AckInv, CommandResult, Number
      <4>2. QED
        BY <4>1 DEF Lines, LogLevel
    <3>4. /\ LoggerInv' /\ Len(disk') = Len(disk) + 1
          /\ logger'.logCounts = [logger.logCounts EXCEPT ![level] = @ + 1]
      BY <2>1, <3>1, <3>2, <3>3, LogStep
    <3>5. /\ result.code = "Ok" => warnings' = warnings /\ infos' = infos + 1
          /\ result.code /= "Ok" => warnings' = warnings + 1 /\ infos' = infos
      BY <2>1, <3>4 DEF LoggerInv, LogLevel, warnings, infos
    <3>6. Received' = Received /\ QueuedLines' = QueuedLines
      BY <3>1 DEF Received, QueuedLines, producerVars
    <3>7. Len(disk') = Len(disk) + 1 /\ Len(results') = Len(results) /\ stats' = stats
      BY <3>1, <3>4
    <3>8. /\ warning' = 0 /\ info' = 0 /\ left' = left /\ busy' = busy
          /\ finished' = finished
          /\ result.code = "Ok" => warning = 0 /\ info = 1
          /\ result.code /= "Ok" => warning = 1 /\ info = 0
      BY <3>1 DEF warning, info, finished, left, busy, One, producerVars
    <3> HIDE DEF level, line
    <3>9. /\ accepted + rejected = Len(results') + busy'
          /\ warnings' + warning' = rejected
          /\ infos' + info' = QueuedLines' + accepted + finished' + left'
          /\ Len(disk') = warnings' + infos'
      <4>1. CASE result.code = "Ok"
        BY <2>2, <2>6, <2>7, <3>5, <3>6, <3>7, <3>8, <4>1
      <4>2. CASE result.code /= "Ok"
        BY <2>2, <2>6, <2>7, <3>5, <3>6, <3>7, <3>8, <4>2
      <4>3. QED
        BY <4>1, <4>2
    <3>10. FigureInv'
      BY <2>4, <2>7, <2>8, <3>6, <3>7, <3>9
    <3>11. QED
      BY <3>4, <3>10
  <2>18. CASE printResult
    <3>1. /\ UNCHANGED <<managerVars, producerVars, result, stats>>
          /\ consumer = "print" /\ consumer' = "check"
          /\ results' = Append(results, result)
      BY <2>18 DEF printResult
    <3>2. Len(results') = Len(results) + 1
      BY <2>1, <3>1, AppendProperties DEF AckInv
    <3>3. LoggerInv' /\ warnings' = warnings /\ infos' = infos /\ Len(disk') = Len(disk)
      BY <2>1, <2>5, <3>1 DEF LoggerInv, Joined
    <3>4. Received' = Received /\ QueuedLines' = QueuedLines
      BY <3>1 DEF Received, QueuedLines, producerVars
    <3>5. /\ warning' = warning /\ info' = info /\ left' = left
          /\ busy = 1 /\ busy' = 0 /\ finished' = finished
      BY <3>1 DEF warning, info, finished, left, busy, One, producerVars
    <3>6. FigureInv'
      BY <2>2, <2>4, <2>6, <2>7, <2>8, <3>1, <3>2, <3>3, <3>4, <3>5
    <3>7. QED
      BY <3>3, <3>6
  <2>19. CASE ConsumerLogFinished
    <3>1. /\ UNCHANGED <<producerVars, result, results, stats>>
          /\ consumer = "log_finished" /\ consumer' = "done"
          /\ log("Info", [what |-> "consumer finished", sequence |-> 0])
      BY <2>19 DEF ConsumerLogFinished
    <3>2. logger.open
      BY <2>1, <3>1 DEF LoggerInv, Joined
    <3>3. [what |-> "consumer finished", sequence |-> 0] \in Lines /\ "Info" \in LogLevel
      BY DEF Lines, LogLevel
    <3>4. /\ LoggerInv' /\ Len(disk') = Len(disk) + 1
          /\ logger'.logCounts = [logger.logCounts EXCEPT !["Info"] = @ + 1]
      BY <2>1, <3>1, <3>2, <3>3, LogStep
    <3>5. warnings' = warnings /\ infos' = infos + 1
      BY <2>1, <3>4 DEF LoggerInv, LogLevel, warnings, infos
    <3>6. Received' = Received /\ QueuedLines' = QueuedLines
      BY <3>1 DEF Received, QueuedLines, producerVars
    <3>7. /\ warning' = warning /\ info' = info /\ left = 0 /\ left' = 1
          /\ busy' = busy /\ finished' = finished
      BY <3>1 DEF warning, info, finished, left, busy, One, producerVars
    <3>8. Len(results') = Len(results) /\ stats' = stats /\ Len(disk') = Len(disk) + 1
      BY <3>1, <3>4
    <3>9. /\ accepted + rejected = Len(results') + busy'
          /\ warnings' + warning' = rejected
          /\ infos' + info' = QueuedLines' + accepted + finished' + left'
          /\ Len(disk') = warnings' + infos'
      BY <2>2, <2>6, <2>7, <3>5, <3>6, <3>7, <3>8
    <3>10. FigureInv'
      BY <2>4, <2>7, <2>8, <3>6, <3>8, <3>9
    <3>11. QED
      BY <3>4, <3>10
  <2>20. CASE MainReturn
    <3>1. /\ UNCHANGED <<producerVars, consumer, result, results, stats>> /\ Joined
          /\ disk' = disk \o unflushed /\ unflushed' = <<>>
          /\ logger' = [logger EXCEPT !.open = FALSE]
      BY <2>20 DEF MainReturn, destroy, consumerVars
    <3>2. disk' = disk
      BY <2>1, <3>1, ConcatEmptySeq DEF LoggerInv
    <3>3. logger' = [open |-> FALSE, consoleEnabled |-> logger.consoleEnabled,
                     autoFlush |-> TRUE, maxCachedLogs |-> logger.maxCachedLogs,
                     recentLogs |-> logger.recentLogs, logCounts |-> logger.logCounts]
      <4>1. PICK o, c, m, r, n :
              logger = [open |-> o, consoleEnabled |-> c, autoFlush |-> TRUE,
                        maxCachedLogs |-> m, recentLogs |-> r, logCounts |-> n]
        BY <2>1 DEF LoggerInv
      <4>2. logger' = [open |-> FALSE, consoleEnabled |-> c, autoFlush |-> TRUE,
                       maxCachedLogs |-> m, recentLogs |-> r, logCounts |-> n]
        BY <3>1, <4>1
      <4>3. QED
        BY <4>1, <4>2
    <3>4. LoggerInv' /\ warnings' = warnings /\ infos' = infos
      BY <2>1, <3>1, <3>2, <3>3 DEF LoggerInv, Joined, producerVars, warnings, infos
    <3>5. Received' = Received /\ QueuedLines' = QueuedLines
      BY <3>1 DEF Received, QueuedLines, producerVars
    <3>6. FigureInv'
      BY <2>1, <3>1, <3>2, <3>4, <3>5 DEF FigureInv, producerVars, warnings, infos
    <3>7. QED
      BY <3>4, <3>6
  <2>21. CASE UNCHANGED vars
    <3>1. UNCHANGED <<managerVars, producerVars, consumer, result, results, stats>>
      BY <2>21 DEF vars, consumerVars
    <3>2. LoggerInv' /\ warnings' = warnings /\ infos' = infos /\ Len(disk') = Len(disk)
      BY <2>1, <2>5, <3>1 DEF LoggerInv, Joined, producerVars
    <3>3. Received' = Received /\ QueuedLines' = QueuedLines
      BY <3>1 DEF Received, QueuedLines, producerVars
    <3>4. FigureInv'
      BY <2>1, <3>1, <3>2, <3>3 DEF FigureInv, producerVars, warnings, infos
    <3>5. QED
      BY <3>2, <3>4
  <2>22. QED
    BY <1>2, <2>9, <2>10, <2>11, <2>12, <2>13, <2>14, <2>15, <2>16, <2>17, <2>18, <2>19,
       <2>20, <2>21
       DEF Next, inputProducer, commandConsumer
<1>3. QED
  BY <1>1, <1>2

\* Once main of gateway_ack_demo has joined both threads (main.cpp 281-353) every
\* command has exactly one answer, in the order of the input, with the code its
\* text deserves, and the figures agree: a warning per rejection, two lines per
\* command and one per thread, all of them in the file.
THEOREM AnswersAndFigures ==
  Spec => [](Joined => /\ FiguresAgree
                       /\ Len(results) = Len(Payloads)
                       /\ \A i \in 1 .. Len(Payloads) : results[i] = Answer(i))
<1>1. ASSUME AllInv, Joined
      PROVE  /\ FiguresAgree
             /\ Len(results) = Len(Payloads)
             /\ \A i \in 1 .. Len(Payloads) : results[i] = Answer(i)
  <2>1. AckInv /\ OrderInv /\ LeftInv /\ FigureInv /\ LoggerInv
    BY <1>1 DEF AllInv, AnswerInv
  <2>2. /\ producer = "done" /\ consumer = "done" /\ sequence = Len(Payloads)
        /\ commandQueue = <<>>
    BY <1>1, <2>1 DEF Joined, LeftInv
  <2>3. /\ Received = Len(Payloads) /\ QueuedLines = Len(Payloads) /\ Taken = Len(results)
        /\ Len(commandQueue) = 0 /\ Len(results) \in Nat
    BY <2>1, <2>2, LenProperties DEF Received, QueuedLines, Taken, One, AckInv
  <2>4. Len(results) = Len(Payloads)
    BY <2>1, <2>3, CommandPipelineAssumption DEF OrderInv
  <2>5. /\ logger.logCounts["Warning"] \in Nat /\ logger.logCounts["Info"] \in Nat
        /\ stats.received \in Nat /\ stats.accepted \in Nat /\ stats.rejected \in Nat
    BY <2>1 DEF LoggerInv, LogLevel, FigureInv
  <2>6. FiguresAgree
    <3>1. /\ stats.received = Len(Payloads)
          /\ stats.accepted + stats.rejected = Len(Payloads)
          /\ logger.logCounts["Warning"] = stats.rejected
          /\ logger.logCounts["Info"] = Len(Payloads) + stats.accepted + 1 + 1
          /\ Len(disk) = logger.logCounts["Warning"] + logger.logCounts["Info"]
      <4>1. /\ One(consumer \in {"log", "print"}) = 0 /\ One(consumer = "done") = 1
            /\ One(producer \in {"notify_all", "done"}) = 1
            /\ One(consumer = "log" /\ result.code /= "Ok") = 0
            /\ One(consumer = "log" /\ result.code = "Ok") = 0
        BY <2>2 DEF One
      <4>2. /\ stats.received = Len(Payloads)
            /\ stats.accepted + stats.rejected = Len(results) + 0
            /\ logger.logCounts["Warning"] + 0 = stats.rejected
            /\ logger.logCounts["Info"] + 0 = Len(Payloads) + stats.accepted + 1 + 1
            /\ Len(disk) = logger.logCounts["Warning"] + logger.logCounts["Info"]
        <5>1. stats.received = Received
          BY <2>1 DEF FigureInv
        <5>2. stats.accepted + stats.rejected = Len(results) + One(consumer \in {"log", "print"})
          BY <2>1 DEF FigureInv
        <5>3. logger.logCounts["Warning"] + One(consumer = "log" /\ result.code /= "Ok")
                = stats.rejected
          BY <2>1 DEF FigureInv
        <5>4. logger.logCounts["Info"] + One(consumer = "log" /\ result.code = "Ok")
                = QueuedLines + stats.accepted + One(producer \in {"notify_all", "done"})
                    + One(consumer = "done")
          BY <2>1 DEF FigureInv
        <5>5. Len(disk) = logger.logCounts["Warning"] + logger.logCounts["Info"]
          BY <2>1 DEF FigureInv
        <5>6. QED
          BY <2>3, <4>1, <5>1, <5>2, <5>3, <5>4, <5>5
      <4>3. QED
        BY <2>4, <2>5, <4>2
    <3>2. Len(Payloads) \in Nat
      BY CommandPipelineAssumption
    <3>3. PICK n \in Nat, acc \in Nat, rej \in Nat :
            n = Len(Payloads) /\ acc = stats.accepted /\ rej = stats.rejected
      BY <2>5, <3>2
    <3>4. acc + rej = n /\ Len(disk) = rej + (n + acc + 1 + 1)
      BY <3>1, <3>3
    <3>5. Len(disk) = 2 * n + 2 /\ n + acc + 1 + 1 = n + acc + 2
      BY <3>4
    <3>6. QED
      BY <3>1, <3>3, <3>5 DEF FiguresAgree
  <2>7. QED
    BY <2>1, <2>4, <2>6 DEF OrderInv
<1>2. QED
  BY <1>1, FiguresInductive, PTL DEF Spec
============================================================================
