# Verification of linux-iot-gateway

TLA+ models of the programs in this repository, the TLC runs that check them on
small instances, and TLAPS proofs of the properties that matter most. The models
follow the source; `PROJECT.json` maps every definition to the lines it stands
for.

## 1. The system

The repository holds a C gateway, a ROS 2 bridge to a robot hand and a series of
C++ modules and exercises built around the same questions: threads that share a
queue, commands that are acknowledged or not, streams that arrive in pieces.

### hand_bridge (ros2_ws/src/hand_bridge)

`hand_bridge_node` takes commands from the topic `/hand_command`, sends them as
lines over a UART to an STM32, and answers `/hand_status`.

| part | state | operations |
|---|---|---|
| `RetryPolicy` (retry_policy.hpp) | a map from SEQ to the request: state, retries used, deadline, STOP or not | `start`, `cancel_non_stop`, `should_transmit`, `mark_sent`, `mark_send_failed`, `on_ack`, `poll`, `find` |
| command callback | `next_seq_`, `latest_requested_seq_` | register a command (a STOP supersedes the others first), queue its frame |
| transmit thread | the frame it popped | wait on `queue_cv_`, pop, write, note that it was sent |
| receive thread | `rx_line`, `discard_line` | read, assemble lines, `parse_ack`, `on_ack` |
| retry thread | the frames `poll` returned | poll every 50 ms, queue the retries |
| destructor | `retry_stop_`, `rx_stop_`, `stop_worker_` | raise the flags, clear the queue, wake, join three threads, close |

The table is shared under `ack_mutex_`, the queue under `queue_mutex_`; the flags
are atomics. What is hard: an ACK, a timeout and a STOP for the same request race
through three threads and a queue; ACKs are lost, late, repeated; the SEQ wraps;
the node is restarted while the device runs on; shutdown with every thread asleep
somewhere else. Correct means: one final outcome per command, a bounded number of
transmissions, nothing older written after a STOP, no request forgotten, an end
for every command, a destructor that returns.

### The gateway (main.c and the .c files beside it)

One thread: open the serial port, connect to the MQTT broker, then read a line,
parse it, append the reading to `sensor_log.txt`, publish it, until a signal
clears `g_running`. State: the descriptor, the mosquitto handle, the line buffer,
the flag. What is hard: the read times out (VTIME) in the middle of a line; each
of the calls may fail and `continue`s or returns from a different place; the
signal comes anywhere. Correct means: readings are logged complete, once and in
order, nothing is published that is not in the file unless a write error went
unnoticed, the signal ends the program, and nothing is left open on any way out.

### C++ modules (cpp_modules)

* `gateway_timeout_demo`: a sender thread and a simulated device share a queue
  and a map of ACKs; stop-and-wait with a timeout and retries.
* `gateway_ack_demo` with `protocol_parser` and `log_manager`: a producer and a
  consumer thread share a queue, statistics and a logger.
* `log_manager`: a thread-safe logger with a cache of recent lines, counters and
  a file.
* `serial_frame_demo`: a binary frame (AA 55, length, SEQ, command, XOR, 0D 0A)
  and a parser that finds frames in a stream.
* `reliable_serial_demo`: a request frame of ten bytes that is sent again when no
  ACK arrives, and a device that executes a SEQ once and answers a repeated one
  from its cache.
* `producer_consumer_demo` and `gateway_pipeline_demo`: two threads with a queue, a
  condition variable and an end flag; the second with the parser and the logger.
* `thread_demo`: the same hand-over with two atomics instead of a queue.
* `move_semantics_demo`: a class `Buffer` that owns an array through a raw pointer.
* demonstrations of other language features.

What is hard: a notification between a test and the sleep that follows it; an end
flag raised while work is queued; an answer that comes after its timeout; bytes
lost or damaged on the line; an allocation that fails half-way through an
assignment.

### Exercises (test, practice, examples)

A blocking bounded queue (day09) and a ring buffer, an echo server on `select`
(day17) and one for a single client (day04), a length framer, an MQTT retry policy
and small algorithms. None of them is part of a program above. What is hard in
those that are modelled: `pthread_cond_signal` wakes a thread that finds another
one was faster; `select`'s answer is used while clients come and go and descriptor
numbers are given out again; `send` takes part of the data.

`PROJECT.json` lists every part under `components`, with what is and is not
modelled, and under `hazards` the lines at which each difficulty bites.

## 2. Modules

| module | models | extends / uses |
|---|---|---|
| `RetryPolicy` | the request table as operators | |
| `HandBridge` | the four threads, the destructor, device and clock over it | `RetryPolicy`, refines `CommandDelivery` |
| `CommandDelivery` | abstract: what the node promises its users | |
| `UartRx` | line assembly and `parse_ack` | |
| `Gateway` | the gateway program and its environment | |
| `TimeoutDemo` | `gateway_timeout_demo` | |
| `LogManager` | the logger's methods as operators | |
| `LogManagerClients` | any sequence of calls of these | `LogManager` |
| `ProtocolParser` | the command parser as operators | |
| `ProducerConsumer` | `producer_consumer_demo`; also the abstract specification of the two pipelines | |
| `CommandPipeline` | `gateway_ack_demo` | `LogManager`, `ProtocolParser`, refines `ProducerConsumer` |
| `GatewayPipeline` | `gateway_pipeline_demo` | `LogManager`, `ProtocolParser`, refines `ProducerConsumer` |
| `SerialFrame` | codec and stream parser | |
| `ReliableSerial` | `reliable_serial_demo` over a line with faults | |
| `BoundedFifo` | abstract: a queue of bounded length that can be closed | |
| `RingBuffer` | practice/day02/ring_buffer.c | refines `BoundedFifo` |
| `BoundedQueue` | test/day09_bounded_queue.c with its threads | refines `BoundedFifo` |
| `SelectServer` | test/day17_select_echo_server.c and its clients | |
| `EchoServer` | examples/day04_tcp_echo_server.c and its client | |
| `Buffer` | class `Buffer` of `move_semantics_demo` | |
| `ThreadDemo` | `thread_demo` | |
| `MCHandBridge`, `MCGateway`, `MCReliableSerial`, `MCThreadDemo` | instances for TLC | the module of that name |
| `MCStreams` | instance of two stream parsers | `SerialFrame`, `UartRx` |
| `MCPipelines` | instance of two demos with a queue between two threads | `CommandPipeline`, `ProducerConsumer` |
| `MCGatewayDemos` | instance of two of the gateway's demos | `TimeoutDemo`, `GatewayPipeline` |
| `MCContainers` | instance of ring, queue, `Buffer` and logger | `RingBuffer`, `BoundedQueue`, `Buffer`, `LogManagerClients` |
| `MCServers` | instance of both servers | `SelectServer`, `EchoServer` |
| `HandBridgeProofs`, `GatewayProofs`, `ReliableSerialProofs` | proofs | the module of that name |
| `SerialFrameProofs` | proofs about both stream parsers | `SerialFrame`, `UartRx` |
| `PipelineProofs` | proofs about two demos with a queue | `CommandPipeline`, `ProducerConsumer` |
| `GatewayDemoProofs` | proofs about two of the gateway's demos and the command parser | `TimeoutDemo`, `GatewayPipeline` |
| `ContainerProofs` | proofs about ring, queue, `Buffer` and logger | `RingBuffer`, `BoundedQueue`, `Buffer`, `LogManagerClients` |
| `ServerProofs` | proofs about both servers | `SelectServer`, `EchoServer` |

Operators whose name ends in `_something` and whose comment says *Mutant* are
altered versions of the definition of that name. They are not part of any
specification; each shows that a property notices a plausible bug.

The last five MC modules hold several programs of which one question is asked.
These programs share nothing, so the initial state picks one of them, only that
one takes steps, and fairness is stated for it alone; what TLC explores is the sum
of their state spaces. A property of one program is either an invariant, which
the others' initial states satisfy too, or guarded by the choice. Where two of
these modules would use one name, the one of the smaller program has a prefix:
`RxInit`, `RingInit`, `EchoInit`, `TimeoutInit`, `ClientsInit`, `ringHead`,
`retryStats`.

### RetryPolicy and HandBridge

`requests_` is a total function on the SEQs `1 .. SeqMod - 1`; state `"NONE"` is a
SEQ that is not in the map. A deadline is the number of ticks left. A step of
`HandBridge` is what one thread does under one mutex, or one access to an atomic
flag; in particular `should_transmit`, `write_uart` and `mark_sent` are one step,
because the code holds `ack_mutex_` around them, while `poll` and, for each frame it
returned, the look at `retry_stop_` (`RetryLookStop`) and the push under
`queue_mutex_` (`RetryEnqueue`) are separate steps. Between the last two the
destructor may set its flags and clear the queue; the push is then refused by
`stop_worker_`. The two stores at the head of the destructor (`retry_stop_`,
`rx_stop_`) are the exception and one step: no thread reads both flags. The queue
holds SEQs, as a frame's text is a function of its SEQ. The device is free: it may
answer any frame that was written, with any status, any number of times, at any
later moment or never; that covers lost, delayed, repeated and reordered ACKs and
everything `mock_stm32.py` does. `written` and `foreign` are history.

`CommandDelivery` knows neither threads nor timers: a command is unknown, open,
withdrawn or closed; it is written only while open and at most `MaxSends` times;
a STOP withdraws every open ordinary command in the step that admits it. The
refinement mapping takes the phase from the request's state, the STOPs from
`is_stop` and the sends from `written`. `RefusedStop` is there because the code
runs `cancel_non_stop` before `start` may refuse a SEQ that was used before: after
2^32 commands a STOP still withdraws, although it is not sent itself.

### UartRx

Every character read is one step. `"ACK:"` and the status words are one character
each; whether `read()` cuts a word does not matter to a loop that appends one
character at a time. Digits are digits: `parse_ack`'s loop is modelled with its
test against the largest `uint32_t`, which is scaled down to 12. The reference,
`Meaning`, is a grammar with the number that the digits denote, whatever its size;
it shares nothing with `parse_ack`.

### Gateway

A line of the device is six pieces: those `parse_sensor_data` tells apart, with
the device id in two so that it can be cut, and CR and LF. A piece carries the
number of its reading, so a log entry shows which lines it is made of. No piece
holds white space, so `%31s` takes what follows the second piece up to its width,
`IdWidth` pieces, and leaves the rest of the line. VTIME may expire whenever the
input queue is empty. The port, the client and the broker may fail at each call. So
may the file, in two ways: `fopen` fails and `write_log` says so, or `fprintf` or
`fclose` fails and `write_log` returns 0 all the same; then the reading is published
and its entry is lost (`dropped`). `log` holds the complete entries; what a failed
write leaves of one is not an entry. Besides its lines the device may send bare line ends,
one at a time and without limit (`DeviceBlank`): `data_source_read` skips them
without a look at `g_running`. `build_json` cannot fail (86 of 128 bytes) and
mosquitto never reconnects, because nothing calls it to. `USE_MOCK_DATA` is not
modelled. EINTR changes nothing and is not a step.

### TimeoutDemo, LogManager, SerialFrame

In `TimeoutDemo` `wait_for` may time out at any moment at which the ACK is not
there: the demo's 120 ms against its timeout is timing, not a guarantee. In
`LogManager` every method is one step because it holds `mutex_` throughout; lines
reach the disk through the stream's buffer, which may also spill by itself. The code
does not check the stream after `<<` and `flush` (log_manager.cpp 128-137); the model
assumes that these writes succeed. In
`SerialFrame` one turn of `extractFrames`' loop is one step, and bytes are bytes:
checksum, length, SEQ and commands have their real values.

### ProducerConsumer and the pipelines

`ProducerConsumer` has a step for each critical section and for each notification,
with spurious wake-ups. It is the demo and, at the same time, what the two larger
programs promise: their refinement mappings forget the log lines, the parser, the
statistics and the printed results, and take the steps between a push and its
notification for the moment before the notification. `CommandPipeline` and
`GatewayPipeline` run the demos' own inputs; a text is a sequence of tokens, white
space characters and words. A word carries the case it came in (upper, lower, mixed),
which `ToUpper` makes upper for every word. What a text stands for
(`Means`, `Reads` of `ProtocolParser`) is said without the parser; the demo's
expected commands are assumed to be that, and TLC evaluates the assumption.

### ReliableSerial

The demo plays one request, a lost ACK and a retry in a fixed order. The module
lets the gateway do this for several requests over a line that keeps the order of
the frames, loses some, cuts one or changes a byte. A timeout may come at any moment.
Frames are their ten bytes with the real checksum. `handleRequest` is the device's
method with its cache and its counters. As in the demo, no two requests have one
SEQ; what 65536 requests would do to the cache is listed as a hazard.

### BoundedFifo, RingBuffer, BoundedQueue

`BoundedFifo` says what a queue answers: `ok`, or `full`, `empty` or `closed` only
for that reason. `RingBuffer` has the code's head, tail and modulus;
`ring_buffer_pop`'s refusal of a NULL pointer is left out, as no caller passes one. In
`BoundedQueue` a step is what a thread does between two waits; a signal wakes any
one waiter, a broadcast all, and a waiter may wake for no reason. The test program
has one thread on each side; the module has several, because the queue is written
for them. Any thread may fail and then closes the queue.

### SelectServer and EchoServer

`SelectServer` follows `main` descriptor by descriptor. Bytes are counted, not
named. Of the kernel it assumes: the lowest free number is given out; a connection
in the backlog stays there even if its client has gone (Linux); data sent before
`accept` is seen after it; a client takes at most `Window` echoed bytes before it
reads, and a `send` beyond that blocks. `listen_fd` is lower than every client's
number, so in a pass a connection is accepted before any client is removed.
`EchoServer` names its bytes, so that the echo can be compared; each of the
set-up calls, `recv` and `send` may fail.

### Buffer and ThreadDemo

`Buffer` models any program with a few objects: constructed, copied, moved,
assigned to each other or to themselves and destroyed in any order, with
`bad_alloc` at every allocation. `heap` holds the live arrays; a `delete[]` or a
read anywhere else sets `undefined`. In `ThreadDemo` every access to an atomic is
a step and the sleeps are left out.

## 3. Runs

| run | shows |
|---|---|
| `handbridge_core` | type invariant; `FrameBudget` (frames in flight and written never exceed 1 + retries used, which also bounds the queue); `NoOldCommandAfterStop`, `FreshStopFirst`, `OutcomesDeserved` (a command is superseded only by a later STOP, and is answered by the device only if it was completely written); `NoStrandedRequest`; `ResolvedIsFinal`; `ImplementsDelivery` |
| `handbridge_retry` | `EventuallyResolved`, `ShutdownCompletes` with the code's two retries; `SeqNamesOneCommand` while the counter wraps |
| `handbridge_stop_retry` | finding: a retried STOP is queued behind ordinary commands |
| `handbridge_restart` | finding: after a restart an old ACK decides a new command |
| `gateway` | `ReadingsInOrder`, `UndisturbedIsLogged`, `PublishedIsLogged`, `NothingLeaked`, `SignalStops` |
| `gateway_demos` | `StatsBalance`, `AckedWasExecuted`, `TimeoutDemoTerminates` (with every frame taken); `PipelineImplementsProducerConsumer`, `PrintedFiguresAgree` (what `main` prints, the logger's counters and the lines of the file) |
| `reliable_serial` | `ExecutedOnceAsSent`, `AcksAreTrue`, and `EveryRequestAcked` while there are fewer faults than attempts |
| `streams` | `OnlyFrames`, `EveryFrameFound`, `BufferBounded` (frames); `AcksExact` (ACK lines) |
| `pipelines` | `ImplementsProducerConsumer`, `AckDemoTerminates` (with every command answered and figures that agree); `NothingLost`, `SamplesTerminate` |
| `containers` | `RingImplementsFifo`; `QueueImplementsFifo`, `QueueReturns`; `OwnedOnce`; `LoggerExact` (cache, counters and file against definitions that see only the history of calls) |
| `servers` | `NeverBlocks`, `EveryoneServed` (select); `EchoExact` (one client) |
| `thread_demo` | finding: a sample is overwritten before it is processed |

### Bounds, and why they are enough

* `handbridge_core`: two commands, each ordinary or STOP, one retry, one ACK line
  per read. Two commands are what a STOP and a superseded command need; the
  timeouts are 0 ticks, so `poll` may find a request expired as soon as it was
  sent, which includes every interleaving that longer timeouts allow. The proofs
  lift all of these properties to any number of commands and retries.
* `handbridge_retry`: two retries as in the code, unequal timeouts, two lines per
  read, so that an IN_PROGRESS and the final answer come together. `SeqMod` 2 and
  three commands: SEQs 1, 0 (refused) and 1 again (refused); a refused STOP still
  withdraws the first.
* `gateway`: two readings, one noise character, a buffer one piece longer than a
  line's text: lines can be cut, joined by noise, and overflow the buffer. `%31s`
  takes two pieces, as long as an id, so that noise in the id makes it cut the id off.
  Bare
  line ends are not bounded.
* `gateway_demos`, `pipelines` and `thread_demo`: the demos' own inputs.
* `reliable_serial`: two requests whose SEQs differ in one byte, two attempts, one
  fault; a damaged byte becomes any of those that would make it another request,
  another type or a header.
* `streams`, frames: three chunks out of a legal frame cut at every place, illegal
  frames (command, checksum, tail) and noise, so that a frame, a broken one and
  their overlaps occur. The SEQ of the frame contains the bytes of the tail. ACK
  lines: four pieces out of seven, among them the start of an ACK, the digits that
  make 12 (the largest SEQ) and 13, both line ends and noise of exactly the line
  limit; `read()` returns one to three characters. A line too long, followed by what
  would be an ACK, and recovery after it need three pieces.
* `containers`: the ring has the code's eight places and goes round without limit;
  two values tell the orders of any two apart. The queue has the code's capacity
  of four, two threads on each side (so that the wrong one may be woken) and four
  messages per producer, so that it fills and wraps. Three `Buffer`s of sizes 0 to 2
  and four addresses: one more than they fill at rest, because a copy assignment
  holds the old and the new array for a moment. The logger gets five calls, with
  limits 0, 1 and 3 around the initial 2: enough to fill the cache, lower the limit
  and fill it again.
* `servers`: two client descriptors and four connections, so that the set is full,
  and numbers are used again; two bytes, one fault, a window of one byte. The
  one-client server: five bytes through a buffer that takes two at a time.

### Fairness

Threads are scheduled (`WF` of each thread's steps); nothing is assumed of devices,
the broker, the user or signals. In `HandBridge` the receive thread does not block
for ever because `open_uart` sets VTIME; the clock ticks while a request waits.
`EventuallyResolved` is stated under "the device does not answer IN_PROGRESS for
ever", because each IN_PROGRESS extends the deadline without counting a retry.
`SignalStops` is stated under "line ends do not arrive without pause for ever": that
is the one way in which the program outlives its signal. In the demos a `wait_for`
ends at its timeout at the latest. In `ReliableSerial` the timeout expires and both
ends read; of the line only the bound on its faults is assumed. In `BoundedQueue`
each thread is scheduled, but a waiter that no signal chooses may sleep on. In
`SelectServer` `main` is scheduled and clients read what they are sent, however
late: a client that never reads blocks `SendAll`, and with it everyone, because the
sockets are blocking.

### Findings

* `handbridge_stop_retry`: `retry_worker` queues retries with the default
  priority (hand_bridge_node.cpp:728). A STOP whose ACK was lost goes behind
  ordinary commands that came after it. notes/month7/day08_phase7.md:224 says that
  STOP enters the high-priority queue.
* `handbridge_restart`: `next_seq_` starts at 1 in every run of the node
  (hand_bridge_node.cpp:745). An ACK for SEQ 1 of the run before, still on its way,
  decides SEQ 1 of the new run. notes/month7/day08_phase7.md:37 gives the SEQ as
  the means against exactly this confusion.
* `thread_demo`: `processTask` lowers `sampleReady` (thread_demo/main.cpp:39) before
  it reads `latestSample`. The collector may store the next sample in between: one
  sample is never processed and another one twice. In TLC's trace 21 is lost and,
  later on, 24 is processed twice. notes/month05/day15.md:237 says that
  the processing thread processes all five.

## 4. Proofs

Every theorem holds for all values of the constants that the named assumptions
admit. These say little more than types: at least one usable SEQ
(`RetryPolicyAssumption`, `HandBridgeAssumption`), a ring of at least two places and
a queue of at least one (`RingBufferAssumption`, `BoundedQueueAssumption`), inputs
that are not empty (`ProducerConsumerAssumption`, `CommandPipelineAssumption`,
`GatewayPipelineAssumption`; the demos' inputs are constants of the programs) and
stand for the commands expected (`ExpectedAssumption`), addresses that are not null
(`BufferAssumption`), requests whose SEQs differ (`ReliableSerialAssumption`), buffers
that take at least one byte (`EchoServerAssumption`, `UartRxAssumption`, the latter with
a largest SEQ of at least one digit), room for at least
one client (`SelectServerAssumption`), limits that are numbers (`GatewayAssumption`,
`LogManagerAssumption`, `LogManagerClientsAssumption`). Two theorems have a hypothesis
of their own, given below.

### The node

* `HandBridgeProofs`. `TypeCorrect` is inductive with the coupling of program
  counters and frames in hand. `TransmissionsBounded` is not: a request that is to
  be transmitted must have been written at most `retries_used` times and any other
  at most one more (`SendInv`), and an unregistered SEQ must be untouched
  (`EmptyInv`); together with `TypeOK` these are `TableInv`. The lemma
  `RequestLife` says once, for every action, what may happen to one request;
  `OutcomesFinal` and `SeqsAreNeverReused` are action properties that follow from
  it. `StopWithdrawsOlder` needs that SEQs are registered in order, as a prefix of
  `Seqs`, also after the counter wraps (`NextInv`, `PrefixInv`): otherwise an older
  SEQ could be registered after the STOP. `NoOldCommandWritten` follows, because
  only live requests are written. `OutcomesAreDeserved` holds while
  `submitted < SeqMod` and `foreign = {}`: after the counter has wrapped a STOP whose
  SEQ is refused still withdraws commands, and an ACK of an earlier run of the node
  (the finding `handbridge_restart`) answers a command that may not have been
  written. Both are what the code does. `NodeImplementsDelivery`: each step of the
  node is a step of `CommandDelivery` or a stutter under the refinement mapping;
  `FullInv` says that SEQs are refused only when all of them are taken.
* Its second half is about the queue. `NoRequestStranded` follows frames from hand
  to hand; `FlagInv` ties the stop flags to the destructor's progress, so that
  nothing is thrown away before `retry_stop_` is set. `FramesArePaidFor` counts the
  frames of a request with the cardinality of the set of its places in the queue, so
  that a push and a pop change one element and no induction over the queue is
  needed; every step is one of the few ways to move a frame (`FrameStep`), and only
  the registration and `poll`, which counts a retry, create one.
  `FreshStopsGoFirst`: a fresh STOP was pushed to the front, and what is pushed in
  front of it is a STOP; what `poll` returned is not fresh (`FrameInv`).

### The gateway

`GatewayProofs`. `ResourcesReleased` follows the descriptor, the client and the
library through every early return. `ReadingsStayInOrder` needs to know where every
piece of a line is: on its way, in the terminal's queue, in `raw_buf`, or in
`sensor`. The pieces in transit are those of ascending lines, in order, and those
already in the buffer are not older than the last entry of the log; so a line that
parses, which has all its pieces, is of one reading and later than the last one.
`UndisturbedLinesAreLogged` adds to this that a line which was not disturbed is
whole wherever it is. Its hypotheses `BufLimit >= 4` and `IdWidth >= 2` say that
`raw_buf` (128 bytes) holds the text of a line and `%31s` a device id. Exempt are the
readings for which the file did not open (`unlogged`) or whose entry it lost
(`dropped`). `PublicationsAreLogged` gives the entry of each publication in the file,
except where a write error was ignored: the publications whose reading is not in
`dropped` have entries in ascending places (`Recorded`), and one that is about to
follow them (`Pending`) is the last entry, behind all of these.

### Frames

* `SerialFrameProofs`. `RoundTrip` for every SEQ and command. `FramesOnly`,
  `FramesFound`, `BufferStaysSmall` and `ParserTypeCorrect` for any chunks. The
  invariant: the buffer is a suffix of the stream, and each position before it
  either holds a returned frame, lies inside one or cannot start a frame
  (`Decided`). The heart is `NothingInside`: no frame begins inside another,
  because a header byte would have to equal one that the frame fixes or restricts;
  so skipping a returned frame skips no other.
  `AcksAreExact` is about the node's receive path: for any stream, any line limit
  and any cut by `read()`, exactly the ACKs in the stream reach `on_ack`. The
  invariant places the current line in the stream (`LineFrom`): it starts behind the
  last line end, and is in `rx_line` or, being too long, discarded. What a complete
  line means is `ParserIsProtocol`: `parse_ack` agrees with `Meaning` for every line,
  also when the digits exceed `uint32_t`, because the value of a prefix of the digits
  is at most the value of all of them, so the loop's test fails at some digit exactly
  if the whole number is too large.
* `ReliableSerialProofs`. `RequestRoundTrip` and `AckRoundTrip` for every SEQ and
  byte. `DamageDetected`: a changed byte of the checksummed part changes one of the
  eight bits of the sum, as the parity of that bit does; a byte is determined by its
  bits, so none of its changes is missed. With it every frame on the line is either
  one that was sent or one that is rejected; `RequestsExecutedOnce` and
  `AcceptedAcksAreTrue` then follow the cache: what is in it was executed, and what
  was executed is in it. They hold for any number of faults.

### Demos with two threads

* `PipelineProofs`. `SamplesHandedOver` and `NoWakeupLost` share one invariant: what
  was processed, is in hand and is queued makes up what was pushed; whoever sleeps
  while there is something for it has its notification still to come
  (`WakeupPending`). `AckDemoHandsOver` is a refinement: a log line, the parser or a
  figure is a stutter, and the pieces of a push are the push and its notification.
  `AnswersAndFigures` says what `main` of `gateway_ack_demo` finds once both threads
  are joined; its invariant couples each counter with the commands answered so far.
* `GatewayDemoProofs`. `FiguresBalance` and `AckedMeansExecuted` for the timeout demo;
  for the second, every entry of `ackMap` and the answer the device is about to give
  stem from a frame it took (`AnswersAreReal`). `PipelineDemoHandsOver` is the
  refinement by the pipeline demo; its texts are named by their numbers in
  `ProducerConsumer`, and that the two queues agree is the point of the lemmas on
  `Numbers`. `ParserReads`: `ProtocolParser::parse` reads every text, of any length,
  as the command it stands for, in whatever case it is written.
  `PipelineFiguresAgree`: what `main` prints after the joins, the logger's counters
  and the lines of the file agree. Its invariant (`DemoInv`) says which text each
  thread is at (`TextInv`, `LeftInv`), that a line goes straight to the file
  (`DemoLoggerInv`), what each counter lacks while a command is counted and not yet
  logged (`CountInv`), and how many lines of each thread the file holds and that each
  is the right one (`FileInv`). Lines are counted with the cardinality of the set of
  their places, so that a new line adds one element.

### Containers

`ContainerProofs`. A ring is a window on its array (`Window`): writing at the head
appends to the window, advancing the tail takes its head off (`WindowPut`,
`WindowTake`), for every size, because an index runs over the end at most once
(`Around`) and the place of the head is none of the occupied ones (`PlacesDiffer`).
`RingIsFifo` needs besides that `Size` is the distance from tail to head and that
full and empty are its two ends; `QueueIsFifo` that `tail` is `count` places behind
`head`. Nothing about the threads is needed: the mutex makes each call one step.
`ArraysAreOwnedOnce`: no two Buffers share an array, every array has an owner and an
owner sees the contents it should. Each of these alone is broken by a step the
others exclude: a destructor leaves a dangling pointer if an array is shared.
`LoggerIsExact`: for any calls in any order and any limits, the cache holds the
last lines in their order, the counters the lines since the last `resetLogCounts`
and the file, with the stream's buffer, the lines logged while it was open. The invariant
(`ClientsInv`) couples each of the three with the history of calls; that the cache is
a run without gaps at the end of that history is what makes trimming it right.

### Servers

`ServerProofs`. `EchoIsExact`: what the client has been sent is the beginning of what
it wrote, byte by byte, however `recv` and `send` cut it; status 0 means all of it, and
no socket stays open. `SelectNeverBlocks`: the invariant (`SelectInv`) says that
`master_set` is the listening descriptor and every open client, that each bit the
scan has still to look at is watched and readable, and that `ready_count` is the
number of these bits. It is the last part that stops the scan neither early nor
late, and the second that keeps a number given out again during the pass from being
taken for the client that had it. `SelectWatchesEveryone`, that no open client drops
out of `select`'s sight or lies outside the set, is a consequence.

### What is not proved

Every invariant and every refinement that a passing run checks is proved. Only
model-checked is liveness under fairness, which is beyond the prover:
`EventuallyResolved`, `ShutdownCompletes`, `SignalStops`, `EveryRequestAcked`,
`QueueReturns`, `EveryoneServed`, `TimeoutDemoTerminates`, `AckDemoTerminates` and
`SamplesTerminate`.

Induction over data is not available as a rule. Where a proof needs it (the value of
a run of digits, the first and last place of a text, the largest descriptor), the
numbers at which the claim fails are collected in a set and the least-number
principle (`LeastNat`, from the well-foundedness of `<`) gives the first of them.

`StopSupersedesOlder` and `BoundedTransmissions` of `HandBridge`, `EveryoneWatched` of
the select server and the type invariant of `SerialFrame` are proved and not part of
a run: what the runs check (`ImplementsDelivery`, `FrameBudget`, `NeverBlocks`,
`OnlyFrames`) says more.

## 5. Not modelled

* The mock data source and `app_log.c`: a generator of canned readings, and output.
* termios settings, formatting and log texts; overflow of the kernel's input queue;
  write errors of the C++ logger's stream.
* The SEQ of `reliable_serial_demo` after 65536 requests: the cache is never pruned,
  so a new command would be answered from it and not executed.
  docs/cpp_gateway_review.md:1020 lists the wrap-around as an open extension.
* `day10` (length framer, MQTT retry policy), `day18` (ACK retry, SEQ dedup) and
  `day24` (a command pipeline without threads): exercises of single functions.
* `day16` (pthread queue) and the queues among the language exercises: the pattern
  of `BoundedQueue` and `ProducerConsumer`. `day17_send_all`: `SendAll` of
  `SelectServer` against a mock.
* Callers of `LogManager` other than the pipelines: `LogManagerClients` makes any
  calls in any order.
* The remaining language exercises: nothing in them outlives a function call.

`PROJECT.json` gives the reason for each part.

## 6. Plan

Done, in this order: the request table and the node with its abstract
specification; the receive path; the gateway; the timeout demo; the logger and the
pipelines with the specification they implement; the frame parser and the reliable
serial link; the containers with their FIFO; the servers; proofs of the node, the
frame parser and the timeout demo; of the gateway, the reliable serial link, the
pipelines and the containers; of the receive path, the logger, the servers, the
command parser and the figures of the pipeline demo.

Possible further modules: the framer and the back-off of day10, the pipeline of
day24, and a composition of `UartRx` with `HandBridge`, so that its ACKs come from a
stream.
