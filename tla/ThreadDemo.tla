---------------------------- MODULE ThreadDemo ----------------------------
(***************************************************************************)
(* cpp_modules/thread_demo: one thread hands samples to another through an   *)
(* atomic integer and an atomic flag.  Every access to an atomic is a step.  *)
(* The sleeps of the code are left out: they make some orders unlikely and   *)
(* none impossible.                                                          *)
(***************************************************************************)
EXTENDS Integers, Sequences

CONSTANT kTotalSamples

VARIABLES
  latestSample, sampleReady, collectionFinished,
  collector, index,     \* collectTask and its loop counter
  processor,            \* processTask
  processed             \* the samples it printed, processedCount is their number

vars == <<latestSample, sampleReady, collectionFinished, collector, index,
          processor, processed>>

Init ==
  /\ latestSample = 0
  /\ sampleReady = FALSE
  /\ collectionFinished = FALSE
  /\ collector = "poll" /\ index = 1
  /\ processor = "finished?" /\ processed = <<>>
----------------------------------------------------------------------------
\* The inner loop: wait until the flag is down.
CollectPoll ==
  /\ collector = "poll"
  /\ ~sampleReady
  /\ collector' = "store"
  /\ UNCHANGED <<latestSample, sampleReady, collectionFinished, index, processor,
                 processed>>

CollectStore ==
  /\ collector = "store"
  /\ latestSample' = 20 + index
  /\ collector' = "raise"
  /\ UNCHANGED <<sampleReady, collectionFinished, index, processor, processed>>

CollectRaise ==
  /\ collector = "raise"
  /\ sampleReady' = TRUE
  /\ index' = index + 1
  /\ collector' = IF index < kTotalSamples THEN "poll" ELSE "finish"
  /\ UNCHANGED <<latestSample, collectionFinished, processor, processed>>

CollectFinish ==
  /\ collector = "finish"
  /\ collectionFinished' = TRUE
  /\ collector' = "done"
  /\ UNCHANGED <<latestSample, sampleReady, index, processor, processed>>

collectTask == CollectPoll \/ CollectStore \/ CollectRaise \/ CollectFinish
----------------------------------------------------------------------------
\* The loop's condition reads two atomics, the second only if the first is set.
TestFinished ==
  /\ processor = "finished?"
  /\ processor' = IF collectionFinished THEN "ready?" ELSE "exchange"
  /\ UNCHANGED <<latestSample, sampleReady, collectionFinished, collector, index,
                 processed>>

TestReady ==
  /\ processor = "ready?"
  /\ processor' = IF sampleReady THEN "exchange" ELSE "done"
  /\ UNCHANGED <<latestSample, sampleReady, collectionFinished, collector, index,
                 processed>>

Exchange ==
  /\ processor = "exchange"
  /\ processor' = IF sampleReady THEN "load" ELSE "finished?"
  /\ sampleReady' = FALSE
  /\ UNCHANGED <<latestSample, collectionFinished, collector, index, processed>>

Load ==
  /\ processor = "load"
  /\ processed' = Append(processed, latestSample)
  /\ processor' = "finished?"
  /\ UNCHANGED <<latestSample, sampleReady, collectionFinished, collector, index>>

processTask == TestFinished \/ TestReady \/ Exchange \/ Load

Joined == collector = "done" /\ processor = "done"

Next == collectTask \/ processTask \/ (Joined /\ UNCHANGED vars)

Spec == Init /\ [][Next]_vars
----------------------------------------------------------------------------
\* "处理线程完整处理 5 条数据" (notes/month05/day15.md:237): the processing thread
\* processes all the samples that were collected.  The code lowers the flag
\* before it reads the sample, so that the collector may store the next one in
\* between: one sample is then never processed and another one twice.
AllSamplesProcessed ==
  Joined => processed = [i \in 1 .. kTotalSamples |-> 20 + i]
============================================================================
