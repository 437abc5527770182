--------------------------- MODULE MCContainers ---------------------------
(***************************************************************************)
(* The containers of the repository: the ring of practice/day02, the         *)
(* blocking queue of test/day09, the Buffer of move_semantics_demo and the   *)
(* LogManager with its cache of lines.  They share nothing, so a behaviour   *)
(* takes one of them and leaves the others in their initial state.           *)
(***************************************************************************)
EXTENDS RingBuffer, BoundedQueue, Buffer, LogManagerClients

VARIABLE container      \* the one in use

mcvars == <<container, ringVars, vars, bufferVars, clientsVars>>

MCInit == /\ container \in {"ring", "queue", "buffer", "logger"}
          /\ RingInit /\ Init /\ BufferInit /\ ClientsInit

MCNext ==
  /\ UNCHANGED container
  /\ \/ container = "ring" /\ RingNext /\ UNCHANGED <<vars, bufferVars, clientsVars>>
     \/ container = "queue" /\ Next /\ UNCHANGED <<ringVars, bufferVars, clientsVars>>
     \/ container = "buffer" /\ BufferNext /\ UNCHANGED <<ringVars, vars, clientsVars>>
     \/ container = "logger" /\ ClientsNext /\ UNCHANGED <<ringVars, vars, bufferVars>>

\* Where it is the queue that runs, every thread is scheduled.  A waiter that no
\* signal chooses may sleep on.
MCSpec == /\ MCInit /\ [][MCNext]_mcvars
          /\ \A p \in Producers : WF_vars(container = "queue" /\ producer_thread(p))
          /\ \A c \in Consumers : WF_vars(container = "queue" /\ consumer_thread(c))
----------------------------------------------------------------------------
\* Nobody sleeps for ever on not_full or not_empty: once a producer is done or a
\* thread has failed, all return.
QueueReturns == container = "queue" => EveryoneReturns
============================================================================
