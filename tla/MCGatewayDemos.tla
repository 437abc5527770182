-------------------------- MODULE MCGatewayDemos --------------------------
(***************************************************************************)
(* gateway_timeout_demo and gateway_pipeline_demo with their own inputs.  A  *)
(* behaviour runs one of them and leaves the other in its initial state.     *)
(***************************************************************************)
EXTENDS TimeoutDemo, GatewayPipeline

\* Four commands, and the first ACK of the third is lost.
MCLostAcks == {<<3, 1>>}

Up(letters) == [word |-> letters, case |-> "upper"]
Low(letters) == [word |-> letters, case |-> "lower"]

\* The texts of gateway_pipeline_demo and what they stand for.
MCPayloads == <<<<Up("OPEN")>>, <<Low("GRAB"), Up("CR"), Up("LF")>>,
                <<Up("JUMP")>>, <<Up("tab"), Up("STOP"), Up("tab")>>,
                <<Low("RELEASE"), Up("LF")>>>>
MCExpected == <<"OPEN", "GRAB", "Unknown", "STOP", "RELEASE">>

VARIABLE program        \* the one that runs

mcvars == <<program, timeoutVars, vars>>

MCInit == program \in {"timeout", "pipeline"} /\ TimeoutInit /\ Init

MCNext == /\ UNCHANGED program
          /\ \/ program = "timeout" /\ TimeoutNext /\ UNCHANGED vars
             \/ program = "pipeline" /\ Next /\ UNCHANGED timeoutVars

\* Both threads of the timeout demo are scheduled; a wait_for ends at the latest at
\* its timeout.
MCSpec == /\ MCInit /\ [][MCNext]_mcvars
          /\ WF_timeoutVars(program = "timeout" /\ commandSender)
          /\ WF_timeoutVars(program = "timeout" /\ simulatedDevice)
----------------------------------------------------------------------------
\* gateway_timeout_demo ends with every frame taken (main.cpp 281-335).
TimeoutDemoTerminates == program = "timeout" => Terminates
============================================================================
