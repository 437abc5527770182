----------------------------- MODULE MCServers -----------------------------
(***************************************************************************)
(* The two echo servers: select with several clients (test/day17) and the    *)
(* one-client server of examples/day04.  A behaviour runs one of them and    *)
(* leaves the other in its initial state.                                    *)
(***************************************************************************)
EXTENDS SelectServer, EchoServer

VARIABLE running            \* the server that runs

mcvars == <<running, vars, echoVars>>

MCInit == running \in {"select", "echo"} /\ Init /\ EchoInit

MCNext == /\ UNCHANGED running
          /\ \/ running = "select" /\ Next /\ UNCHANGED echoVars
             \/ running = "echo" /\ EchoNext /\ UNCHANGED vars

\* Five distinct bytes for the one-client server.
MCStream == <<1, 2, 3, 4, 5>>

\* SelectServer's fairness, where it is the server that runs.
MCSpec == /\ MCInit /\ [][MCNext]_mcvars
          /\ WF_vars(running = "select" /\ Server)
          /\ \A fd \in FirstFd .. FD_SETSIZE :
                WF_vars(running = "select" /\ fd \in Open /\ ClientReads(fd))
============================================================================
