--------------------------- MODULE BoundedQueue ---------------------------
(***************************************************************************)
(* test/day09_bounded_queue.c: a ring of QUEUE_CAPACITY messages with a      *)
(* mutex and two condition variables, used by threads that block while it is *)
(* full or empty and leave once it is closed.                                *)
(*                                                                           *)
(* The mutex makes each stretch between two waits one step.  A thread that   *)
(* waits gives the mutex up and has to test its condition again when it is   *)
(* woken: by pthread_cond_signal, which wakes some waiter, by a broadcast,   *)
(* or for no reason.  Producers and consumers run the loops of               *)
(* producer_thread and consumer_thread, either of which may fail and then     *)
(* closes the queue.                                                         *)
(***************************************************************************)
EXTENDS Integers, Sequences

CONSTANTS Producers, Consumers,
          Items,            \* messages a producer has to send
          QUEUE_CAPACITY

ASSUME BoundedQueueAssumption ==
  /\ Producers \cap Consumers = {}
  /\ Items \in Nat
  /\ QUEUE_CAPACITY \in Nat \ {0}

NoMessage == <<"none", 0>>
SensorMessage == (Producers \X (1 .. Items)) \cup {NoMessage}

VARIABLES
  items, head, tail, count, closed,   \* BoundedQueue
  thread,       \* "run", "waiting" (on not_full or not_empty) or "done"
  sequence,     \* the next message of each producer
  \* History:
  out, result   \* the message handed out last, the answer to the last call

ring == <<items, head, tail, count>>
vars == <<ring, closed, thread, sequence, out, result>>

Init ==
  /\ items = [i \in 0 .. QUEUE_CAPACITY - 1 |-> NoMessage]
  /\ head = 0 /\ tail = 0 /\ count = 0
  /\ closed = FALSE
  /\ thread = [t \in Producers \cup Consumers |-> "run"]
  /\ sequence = [p \in Producers |-> 1]
  /\ out = NoMessage
  /\ result = "none"

\* pthread_cond_signal on the condition the threads in group wait for.
Signalled(group) ==
  LET waiting == {t \in group : thread[t] = "waiting"}
  IN IF waiting = {} THEN {thread}
     ELSE {[thread EXCEPT ![t] = "run"] : t \in waiting}

\* pthread_cond_broadcast.
Broadcast(group) ==
  [t \in DOMAIN thread |->
     IF t \in group /\ thread[t] = "waiting" THEN "run" ELSE thread[t]]

SpuriousWakeup(t) ==
  /\ thread[t] = "waiting"
  /\ thread' = [thread EXCEPT ![t] = "run"]
  /\ UNCHANGED <<ring, closed, sequence, out, result>>
----------------------------------------------------------------------------
(* queue_push.                                                              *)

PushWait(p) ==
  /\ thread[p] = "run" /\ sequence[p] <= Items
  /\ count = QUEUE_CAPACITY /\ ~closed
  /\ thread' = [thread EXCEPT ![p] = "waiting"]
  /\ UNCHANGED <<ring, closed, sequence, out, result>>

\* Mutant: one message too many.
queue_push_late_full(p) ==
  /\ thread[p] = "run" /\ sequence[p] <= Items
  /\ count <= QUEUE_CAPACITY /\ ~closed
  /\ items' = [items EXCEPT ![tail] = <<p, sequence[p]>>]
  /\ tail' = (tail + 1) % QUEUE_CAPACITY
  /\ count' = count + 1
  /\ thread' \in Signalled(Consumers)
  /\ sequence' = [sequence EXCEPT ![p] = @ + 1]
  /\ result' = "ok"
  /\ UNCHANGED <<head, closed, out>>

queue_push(p) ==
  /\ thread[p] = "run" /\ sequence[p] <= Items
  /\ count < QUEUE_CAPACITY /\ ~closed
  /\ items' = [items EXCEPT ![tail] = <<p, sequence[p]>>]
  /\ tail' = (tail + 1) % QUEUE_CAPACITY
  /\ count' = count + 1
  /\ thread' \in Signalled(Consumers)
  /\ sequence' = [sequence EXCEPT ![p] = @ + 1]
  /\ result' = "ok"
  /\ UNCHANGED <<head, closed, out>>

\* Mutant: only the consumers are woken.
queue_close_one_side(t, next) ==
  /\ closed' = TRUE
  /\ thread' = [Broadcast(Consumers) EXCEPT ![t] = next]

\* Both conditions are broadcast; next is how the thread t that closes goes on.
queue_close(t, next) ==
  /\ closed' = TRUE
  /\ thread' = [Broadcast(Producers \cup Consumers) EXCEPT ![t] = next]

\* QUEUE_CLOSED: the producer has failed.  The queue_close it calls finds the
\* queue closed and nobody asleep.
PushClosed(p) ==
  /\ thread[p] = "run" /\ sequence[p] <= Items
  /\ closed
  /\ result' = "closed"
  /\ queue_close(p, "done")
  /\ UNCHANGED <<ring, sequence, out>>

\* All is sent: close, then return.
ProducerClose(p) ==
  /\ thread[p] = "run" /\ sequence[p] = Items + 1
  /\ queue_close(p, "run")
  /\ sequence' = [sequence EXCEPT ![p] = Items + 2]
  /\ UNCHANGED <<ring, out, result>>

ProducerReturn(p) ==
  /\ thread[p] = "run" /\ sequence[p] = Items + 2
  /\ thread' = [thread EXCEPT ![p] = "done"]
  /\ UNCHANGED <<ring, closed, sequence, out, result>>
----------------------------------------------------------------------------
(* queue_pop.                                                               *)

PopWait(c) ==
  /\ thread[c] = "run"
  /\ count = 0 /\ ~closed
  /\ thread' = [thread EXCEPT ![c] = "waiting"]
  /\ UNCHANGED <<ring, closed, sequence, out, result>>

queue_pop(c) ==
  /\ thread[c] = "run"
  /\ count > 0
  /\ out' = items[head]
  /\ head' = (head + 1) % QUEUE_CAPACITY
  /\ count' = count - 1
  /\ thread' \in Signalled(Producers)
  /\ result' = "ok"
  /\ UNCHANGED <<items, tail, closed, sequence>>

PopClosed(c) ==
  /\ thread[c] = "run"
  /\ count = 0 /\ closed
  /\ result' = "closed"
  /\ thread' = [thread EXCEPT ![c] = "done"]
  /\ UNCHANGED <<ring, closed, sequence, out>>

\* A call that returned QUEUE_ERROR, or a message that the consumer did not
\* expect: the thread closes the queue and leaves.
Fails(t) ==
  /\ thread[t] = "run"
  /\ queue_close(t, "done")
  /\ UNCHANGED <<ring, sequence, out, result>>
----------------------------------------------------------------------------
producer_thread(p) == PushWait(p) \/ queue_push(p) \/ PushClosed(p)
                      \/ ProducerClose(p) \/ ProducerReturn(p)

consumer_thread(c) == PopWait(c) \/ queue_pop(c) \/ PopClosed(c)

Joined == \A t \in DOMAIN thread : thread[t] = "done"

Next == \/ \E p \in Producers : producer_thread(p)
        \/ \E c \in Consumers : consumer_thread(c)
        \/ \E t \in Producers \cup Consumers : Fails(t) \/ SpuriousWakeup(t)
        \/ Joined /\ UNCHANGED vars

Spec == Init /\ [][Next]_vars
----------------------------------------------------------------------------
Fifo == INSTANCE BoundedFifo WITH
  Value <- SensorMessage,
  Capacity <- QUEUE_CAPACITY,
  contents <- [i \in 1 .. count |-> items[(head + i - 1) % QUEUE_CAPACITY]]

\* With any number of threads the ring behaves like a queue: in order, nothing
\* lost or handed out twice, never more than QUEUE_CAPACITY messages, nothing
\* accepted after queue_close and nothing refused before it.
QueueImplementsFifo == Fifo!Spec

\* pthread_cond_signal wakes one thread, which may find that another one was
\* faster: still nobody sleeps for ever.  Once a producer is done or a thread
\* has failed, all return.
EveryoneReturns == <>Joined
============================================================================
