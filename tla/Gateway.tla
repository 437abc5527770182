------------------------------ MODULE Gateway ------------------------------
(***************************************************************************)
(* The gateway program (main.c with data_source.c in serial mode,           *)
(* sensor_parser.c, log_writer.c, mqtt_client.c): read a line from the UART, *)
(* parse it, append the reading to sensor_log.txt, publish it, until         *)
(* SIGINT or SIGTERM clears g_running.                                       *)
(*                                                                           *)
(* A line of the device is cut into the pieces that parse_sensor_data tells  *)
(* apart: "temp=<n>" (1), ",humi=<n>,device_id=" (2), the device id in two   *)
(* pieces (3 and 4), CR (5) and LF (6).  Each piece carries the number of    *)
(* its reading.  Noise is a character that is neither white space nor part   *)
(* of a number; no piece holds white space.                                  *)
(***************************************************************************)
EXTENDS Integers, Sequences, SequencesExt

CONSTANTS NReadings,    \* lines the device sends
          BufLimit,     \* buf_size - 1, in pieces
          IdWidth,      \* the 31 characters %31s takes at most, in pieces
          MaxNoise      \* noise characters on the line

ASSUME GatewayAssumption ==
  /\ NReadings \in Nat \ {0}
  /\ BufLimit \in Nat \ {0}
  /\ IdWidth \in Nat \ {0}
  /\ MaxNoise \in Nat

VARIABLES
  pc,           \* where main is
  running,      \* g_running
  fd,           \* serial_fd: "closed", "open", "gone" (open, device unplugged)
  client,       \* the mosquitto handle: "none", "up", "broken", "down"
  lib,          \* mosquitto_lib_init without its cleanup
  buf,          \* raw_buf: pieces read so far
  sensor,       \* the parsed reading
  tty,          \* the kernel's input queue
  rec, part,    \* the next piece the device sends
  noise,        \* noise characters sent
  log,          \* the complete entries of sensor_log.txt
  published,    \* readings mosquitto_publish accepted
  \* History of what happened to the lines:
  ended,        \* the last reading whose CR was read
  disturbed,    \* readings whose line met noise, a pause, an error or a flush
  unlogged,     \* readings write_log refused: the file did not open
  dropped       \* readings whose entry was lost unnoticed

vars == <<pc, running, fd, client, lib, buf, sensor, tty, rec, part, noise, log,
          published, ended, disturbed, unlogged, dropped>>
lineVars == <<rec, part, noise>>
mqttVars == <<client, lib, published>>
logVars == <<log, unlogged, dropped>>

Noise == [rec |-> 0, part |-> 0]
Blank == [rec |-> 0, part |-> 6]
LineEnds == {5, 6}
NoReading == [temp |-> 0, humi |-> 0, id |-> <<>>]
RecsOf(pieces) == {p.rec : p \in ToSet(pieces)} \ {0}

Init ==
  /\ pc = "open"
  /\ running = TRUE
  /\ fd = "closed"
  /\ client = "none"
  /\ lib = FALSE
  /\ buf = <<>>
  /\ sensor = NoReading
  /\ tty = <<>>
  /\ rec = 1 /\ part = 1 /\ noise = 0
  /\ log = <<>>
  /\ published = <<>>
  /\ ended = 0
  /\ disturbed = {}
  /\ unlogged = {}
  /\ dropped = {}
----------------------------------------------------------------------------
(* The environment: the device, the line, the broker and the signal.        *)

\* The kernel keeps what arrives only while the port is open.
Arrives(piece) ==
  IF fd = "open"
  THEN tty' = Append(tty, piece) /\ UNCHANGED disturbed
  ELSE disturbed' = disturbed \cup {rec} /\ UNCHANGED tty

DeviceSend ==
  /\ rec <= NReadings
  /\ fd /= "gone"
  /\ Arrives([rec |-> rec, part |-> part])
  /\ IF part = 6 THEN rec' = rec + 1 /\ part' = 1
                 ELSE part' = part + 1 /\ UNCHANGED rec
  /\ UNCHANGED <<pc, running, fd, mqttVars, buf, sensor, noise, logVars, ended>>

DeviceNoise ==
  /\ noise < MaxNoise
  /\ rec <= NReadings
  /\ fd = "open"
  /\ tty' = Append(tty, Noise)
  /\ noise' = noise + 1
  /\ disturbed' = disturbed \cup {rec}
  /\ UNCHANGED <<pc, running, fd, mqttVars, buf, sensor, rec, part, logVars, ended>>

\* A line end that belongs to no reading, as often as the device likes.  In the
\* middle of a line it cuts the line in two.
DeviceBlank ==
  /\ fd = "open"
  /\ tty = <<>>
  /\ tty' = <<Blank>>
  /\ disturbed' = IF part = 1 THEN disturbed ELSE disturbed \cup {rec}
  /\ UNCHANGED <<pc, running, fd, mqttVars, buf, sensor, lineVars, logVars, ended>>

Unplug ==
  /\ fd = "open"
  /\ fd' = "gone"
  /\ tty' = <<>>
  /\ disturbed' = disturbed \cup RecsOf(tty)
  /\ UNCHANGED <<pc, running, mqttVars, buf, sensor, lineVars, logVars, ended>>

\* The connection breaks; mosquitto does not know it yet.
BrokerLost ==
  /\ client = "up"
  /\ client' = "broken"
  /\ UNCHANGED <<pc, running, fd, lib, buf, sensor, tty, lineVars, logVars,
                 published, ended, disturbed>>

signal_handler ==
  /\ running
  /\ pc /= "exited"
  /\ running' = FALSE
  /\ UNCHANGED <<pc, fd, mqttVars, buf, sensor, tty, lineVars, logVars, ended,
                 disturbed>>
----------------------------------------------------------------------------
(* data_source_init and mqtt_client_init.                                   *)

data_source_init ==
  /\ pc = "open"
  /\ \/ fd' = "open" /\ pc' = "configure"
     \/ pc' = "exited" /\ UNCHANGED fd
  /\ UNCHANGED <<running, mqttVars, buf, sensor, tty, lineVars, logVars, ended,
                 disturbed>>

\* tcflush empties the input queue before the attributes are set.
serial_configure ==
  /\ pc = "configure"
  /\ \/ fd = "open" /\ pc' = "connect" /\ UNCHANGED fd
     \/ pc' = "exited" /\ fd' = "closed"
  /\ tty' = <<>>
  /\ disturbed' = disturbed \cup RecsOf(tty)
  /\ UNCHANGED <<running, mqttVars, buf, sensor, lineVars, logVars, ended>>

\* Mutant: a failed connect leaves the library initialised.
mqtt_client_init_leaks ==
  /\ pc = "connect"
  /\ \/ client' = "up" /\ lib' = TRUE /\ pc' = "loop"
     \/ pc' = "cleanup_source" /\ lib' = TRUE /\ UNCHANGED client
  /\ UNCHANGED <<running, fd, buf, sensor, tty, lineVars, logVars, published,
                 ended, disturbed>>

\* When mosquitto_new or mosquitto_connect fails, the handle and the library
\* are released before main is told.
mqtt_client_init ==
  /\ pc = "connect"
  /\ \/ client' = "up" /\ lib' = TRUE /\ pc' = "loop"
     \/ pc' = "cleanup_source" /\ UNCHANGED <<client, lib>>
  /\ UNCHANGED <<running, fd, buf, sensor, tty, lineVars, logVars, published,
                 ended, disturbed>>
----------------------------------------------------------------------------
(* The loop of main.                                                        *)

LoopTest ==
  /\ pc = "loop"
  /\ IF running THEN pc' = "read" ELSE pc' = "cleanup_mqtt"
  /\ buf' = <<>>
  /\ UNCHANGED <<running, fd, mqttVars, sensor, tty, lineVars, logVars, ended,
                 disturbed>>

\* Mutant: line ends are dropped wherever they are.
TakePiece_joins_lines(piece) ==
  IF piece.part \in LineEnds
  THEN UNCHANGED <<buf, pc>>
  ELSE /\ buf' = Append(buf, piece)
       /\ pc' = IF Len(buf') = BufLimit THEN "parse" ELSE "read"

\* A line end closes a line that has begun and is skipped otherwise; a full
\* buffer ends the read wherever it is.
TakePiece(piece) ==
  IF piece.part \in LineEnds
  THEN /\ pc' = IF buf = <<>> THEN "read" ELSE "parse"
       /\ UNCHANGED buf
  ELSE /\ buf' = Append(buf, piece)
       /\ pc' = IF Len(buf') = BufLimit THEN "parse" ELSE "read"

ReadByte ==
  /\ pc = "read"
  /\ fd = "open" /\ tty /= <<>>
  /\ TakePiece(Head(tty))
  /\ tty' = Tail(tty)
  /\ ended' = IF Head(tty).part = 5 THEN Head(tty).rec ELSE ended
  /\ UNCHANGED <<running, fd, mqttVars, sensor, lineVars, logVars, disturbed>>

\* Mutant: a read that timed out with nothing is tried again.
ReadTimeout_retries ==
  /\ pc = "read"
  /\ fd = "open" /\ tty = <<>>
  /\ pc' = IF buf = <<>> THEN "read" ELSE "parse"
  /\ disturbed' = disturbed \cup RecsOf(buf)
  /\ UNCHANGED <<running, fd, mqttVars, buf, sensor, tty, lineVars, logVars, ended>>

\* VTIME expired: what has been read so far is taken for a line.
ReadTimeout ==
  /\ pc = "read"
  /\ fd = "open" /\ tty = <<>>
  /\ pc' = IF buf = <<>> THEN "loop" ELSE "parse"
  /\ disturbed' = disturbed \cup RecsOf(buf)
  /\ UNCHANGED <<running, fd, mqttVars, buf, sensor, tty, lineVars, logVars, ended>>

\* read() fails for another reason than EINTR (which changes nothing).
ReadError ==
  /\ pc = "read"
  /\ fd = "gone"
  /\ pc' = "loop"
  /\ disturbed' = disturbed \cup RecsOf(buf)
  /\ UNCHANGED <<running, fd, mqttVars, buf, sensor, tty, lineVars, logVars, ended>>

\* Three conversions of sscanf must succeed; the last needs one character.
Parsable(line) ==
  /\ Len(line) >= 3
  /\ line[1].part = 1
  /\ line[2].part = 2

\* %31s takes what follows up to its width, since nothing there is white space;
\* sscanf leaves the rest of the line alone.
IdEnd(line) == IF Len(line) < 2 + IdWidth THEN Len(line) ELSE 2 + IdWidth

Reading(line) == [temp |-> line[1].rec, humi |-> line[2].rec,
                  id |-> SubSeq(line, 3, IdEnd(line))]

\* Mutant: a line that does not parse leaves the reading before it in place,
\* and the loop goes on with that.
parse_sensor_data_ignored ==
  /\ pc = "parse"
  /\ IF Parsable(buf) THEN sensor' = Reading(buf) /\ pc' = "log"
     ELSE /\ pc' = IF sensor = NoReading THEN "loop" ELSE "log"
          /\ UNCHANGED sensor
  /\ UNCHANGED <<running, fd, mqttVars, buf, tty, lineVars, logVars, ended,
                 disturbed>>

\* What a failed sscanf leaves in *data is never read.  build_json cannot
\* fail: two integers and 31 characters need at most 86 of the 128 bytes.
parse_sensor_data ==
  /\ pc = "parse"
  /\ IF Parsable(buf) THEN sensor' = Reading(buf) /\ pc' = "log"
                      ELSE sensor' = NoReading /\ pc' = "loop"
  /\ UNCHANGED <<running, fd, mqttVars, buf, tty, lineVars, logVars, ended,
                 disturbed>>

\* Mutant: the reading is published even if the file could not be opened.
write_log_ignored ==
  /\ pc = "log"
  /\ \/ log' = Append(log, sensor) /\ UNCHANGED <<unlogged, dropped>>
     \/ dropped' = dropped \cup {sensor.temp} /\ UNCHANGED <<log, unlogged>>
     \/ unlogged' = unlogged \cup {sensor.temp} /\ UNCHANGED <<log, dropped>>
  /\ pc' = "publish"
  /\ UNCHANGED <<running, fd, mqttVars, buf, sensor, tty, lineVars, ended, disturbed>>

\* The entry reaches the file; or fprintf or fclose fails, which write_log does
\* not look at; or fopen fails and main goes on to the next line.
write_log ==
  /\ pc = "log"
  /\ \/ /\ log' = Append(log, sensor)
        /\ pc' = "publish"
        /\ UNCHANGED <<unlogged, dropped>>
     \/ /\ dropped' = dropped \cup {sensor.temp}
        /\ pc' = "publish"
        /\ UNCHANGED <<log, unlogged>>
     \/ /\ unlogged' = unlogged \cup {sensor.temp}
        /\ pc' = "loop"
        /\ UNCHANGED <<log, dropped>>
  /\ UNCHANGED <<running, fd, mqttVars, buf, sensor, tty, lineVars, ended, disturbed>>

\* A message handed to a broken connection counts as published; mosquitto_loop,
\* whose result is ignored, may find out.  Nothing ever reconnects.
mqtt_publish_json ==
  /\ pc = "publish"
  /\ \/ /\ client \in {"up", "broken"}
        /\ published' = Append(published, sensor)
        /\ client' \in {client} \cup (IF client = "broken" THEN {"down"} ELSE {})
     \/ /\ client \in {"broken", "down"}
        /\ client' = "down"
        /\ UNCHANGED published
  /\ pc' = "loop"
  /\ UNCHANGED <<running, fd, lib, buf, sensor, tty, lineVars, logVars, ended,
                 disturbed>>
----------------------------------------------------------------------------
mqtt_client_cleanup ==
  /\ pc = "cleanup_mqtt"
  /\ client' = "none"
  /\ lib' = FALSE
  /\ pc' = "cleanup_source"
  /\ UNCHANGED <<running, fd, buf, sensor, tty, lineVars, logVars, published,
                 ended, disturbed>>

data_source_cleanup ==
  /\ pc = "cleanup_source"
  /\ fd' = "closed"
  /\ tty' = <<>>
  /\ disturbed' = disturbed \cup RecsOf(tty)
  /\ pc' = "exited"
  /\ UNCHANGED <<running, mqttVars, buf, sensor, lineVars, logVars, ended>>

main == \/ data_source_init \/ serial_configure \/ mqtt_client_init
        \/ LoopTest \/ ReadByte \/ ReadTimeout \/ ReadError
        \/ parse_sensor_data \/ write_log \/ mqtt_publish_json
        \/ mqtt_client_cleanup \/ data_source_cleanup

Environment == DeviceSend \/ DeviceNoise \/ DeviceBlank \/ Unplug \/ BrokerLost

Next == \/ main
        \/ Environment
        \/ signal_handler
        \/ pc = "exited" /\ UNCHANGED vars

Spec == Init /\ [][Next]_vars

\* The program runs; nothing is assumed of the device or the broker.
FairSpec == Spec /\ WF_vars(main)
----------------------------------------------------------------------------
\* No reading is logged twice or out of order, and none mixes two lines of the
\* device, although raw_buf and sensor are reused, lines arrive in pieces and
\* the port may be opened in the middle of one.
ReadingsInOrder ==
  /\ \A i, j \in 1 .. Len(log) : i < j => log[i].temp < log[j].temp
  /\ \A i \in 1 .. Len(log) :
       RecsOf(log[i].id) \subseteq {log[i].temp} /\ log[i].humi = log[i].temp

\* A line that came in one go ends up in the file with its whole id, whatever
\* happened on the line before it: only the file loses it, by not opening or by
\* a write error write_log ignores (log_writer.c 27-31), and only the line that
\* ended last is still being worked on.
UndisturbedIsLogged ==
  \A k \in 1 .. ended :
    \/ k \in disturbed \cup unlogged \cup dropped
    \/ k = ended /\ pc \in {"parse", "log"}
    \/ \E i \in 1 .. Len(log) :
         /\ log[i].temp = k
         /\ [j \in 1 .. Len(log[i].id) |-> log[i].id[j].part] = <<3, 4>>

\* What is published is in the file, in the same order and each publication
\* with an entry of its own.  A reading write_log refused is never published;
\* only one whose write error it ignored (log_writer.c 27-31) reaches the broker
\* and not the file.
Kept == {i \in 1 .. Len(published) : published[i].temp \notin dropped}

PublishedIsLogged ==
  \E line \in [Kept -> 1 .. Len(log)] :
    /\ \A i, j \in Kept : i < j => line[i] < line[j]
    /\ \A i \in Kept : published[i] = log[line[i]]

\* Every way out of main has closed the port and released the client and the
\* library; while main works, it has them.
NothingLeaked ==
  /\ pc = "exited" => fd = "closed" /\ client = "none" /\ ~lib
  /\ pc \in {"loop", "read", "parse", "log", "publish"} =>
       fd /= "closed" /\ client /= "none" /\ lib

\* Reading a line end that is skipped: the read loop of data_source_read goes on
\* without a look at g_running.
SkipLineEnd == ReadByte /\ buf = <<>> /\ Head(tty).part \in LineEnds

\* A signal ends the program (main.c 58, data_source.c 131-170): from whatever
\* main is doing it reaches the clean-up and the exit, whether the device sends,
\* falls silent or is unplugged and whether the broker is there.  The one way
\* around it is a device that sends line ends without pause, which
\* data_source_read skips without testing g_running.
SignalStops == <>[][~SkipLineEnd]_vars => (~running ~> (pc = "exited"))
============================================================================
