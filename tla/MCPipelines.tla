---------------------------- MODULE MCPipelines ----------------------------
(***************************************************************************)
(* Two programs in which one thread hands work to another through a queue:   *)
(* gateway_ack_demo and producer_consumer_demo.  They have nothing in common *)
(* at run time: a behaviour runs one of them and leaves the other in its     *)
(* initial state.                                                            *)
(***************************************************************************)
EXTENDS CommandPipeline, ProducerConsumer

Up(letters) == [word |-> letters, case |-> "upper"]
Low(letters) == [word |-> letters, case |-> "lower"]

\* The inputs of gateway_ack_demo and the code each gets.
MCPayloads == <<<<Up("OPEN")>>, <<Up("space"), Low("GRAB"), Up("CR"), Up("LF")>>,
                <<Up("JUMP")>>, <<Up("tab"), Up("STOP"), Up("tab")>>,
                <<Low("RELEASE"), Up("LF")>>>>
MCExpected == <<"Ok", "Ok", "InvalidCommand", "Ok", "Ok">>

\* The samples of producer_consumer_demo, by temperature.
MCSample == 21 .. 25
MCInputs == <<21, 22, 23, 24, 25>>

VARIABLE program        \* the one that runs

mcvars == <<program, vars, handOverVars>>

MCInit == /\ program \in {"ack", "samples"}
          /\ Init /\ HandOverInit

MCNext == /\ UNCHANGED program
          /\ \/ program = "ack" /\ Next /\ UNCHANGED handOverVars
             \/ program = "samples" /\ HandOverNext /\ UNCHANGED vars

\* The threads of the program that runs are scheduled.
MCSpec == /\ MCInit /\ [][MCNext]_mcvars
          /\ WF_vars(program = "ack" /\ inputProducer)
          /\ WF_vars(program = "ack" /\ commandConsumer)
          /\ WF_vars(program = "ack" /\ MainReturn)
          /\ WF_handOverVars(program = "samples" /\ collectTask)
          /\ WF_handOverVars(program = "samples" /\ processTask)
----------------------------------------------------------------------------
\* gateway_ack_demo ends, with every command answered in order, with the right
\* code, and with figures that agree (main.cpp 128-353).
AckDemoTerminates == program = "ack" => Terminates

\* producer_consumer_demo ends, with every sample processed.
SamplesTerminate == program = "samples" => EverySampleProcessed
============================================================================
