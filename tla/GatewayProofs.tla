--------------------------- MODULE GatewayProofs ---------------------------
(***************************************************************************)
(* Theorems about Gateway for any number of readings, noise characters and  *)
(* any size of raw_buf.                                                      *)
(***************************************************************************)
EXTENDS Gateway, TLAPS

Piece == [rec : Nat, part : 0 .. 6]
SensorData == [temp : Nat, humi : Nat, id : Seq(Piece)]

TypeOK ==
  /\ pc \in {"open", "configure", "connect", "loop", "read", "parse", "log",
             "publish", "cleanup_mqtt", "cleanup_source", "exited"}
  /\ fd \in {"closed", "open", "gone"}
  /\ client \in {"none", "up", "broken", "down"}
  /\ buf \in Seq(Piece)
  /\ sensor \in SensorData
  /\ tty \in Seq(Piece)
  /\ rec \in Nat \ {0} /\ part \in 1 .. 6
  /\ log \in Seq(SensorData)
  /\ published \in Seq(SensorData)
  /\ ended \in Nat

\* Where main is says what it holds; the kernel queues only for an open port.
HoldInv ==
  /\ pc = "open" => fd = "closed"
  /\ pc \in {"configure", "connect"} => fd /= "closed"
  /\ pc \in {"open", "configure", "connect", "cleanup_source", "exited"}
       => client = "none" /\ ~lib
  /\ pc \in {"open", "configure", "connect"} => buf = <<>>
  /\ pc \in {"loop", "read", "parse", "log", "publish", "cleanup_mqtt"}
       => fd /= "closed" /\ client /= "none" /\ lib
  /\ pc = "exited" => fd = "closed"
  /\ fd /= "open" => tty = <<>>

HoldsInv == TypeOK /\ HoldInv

\* The id that parse_sensor_data takes from a line ends within the line.
LEMMA IdRange ==
  ASSUME NEW b \in Seq(Piece), Len(b) >= 3
  PROVE  IdEnd(b) \in 3 .. Len(b)
BY GatewayAssumption DEF GatewayAssumption, IdEnd

\* The type invariant is inductive.
LEMMA TypeInductive ==
  /\ Init => TypeOK
  /\ TypeOK /\ [Next]_vars => TypeOK'
<1>1. Init => TypeOK
  BY DEF Init, TypeOK, NoReading, SensorData
<1>2. ASSUME TypeOK, [Next]_vars
      PROVE  TypeOK'
  <2>1. /\ buf \in Seq(Piece) /\ tty \in Seq(Piece) /\ sensor \in SensorData
        /\ log \in Seq(SensorData) /\ published \in Seq(SensorData)
        /\ rec \in Nat \ {0} /\ part \in 1 .. 6 /\ ended \in Nat
    BY <1>2 DEF TypeOK
  <2> USE DEF mqttVars, lineVars, logVars
  <2>2. CASE DeviceSend
    <3>1. [rec |-> rec, part |-> part] \in Piece
      BY <2>1 DEF Piece
    <3>2. tty' = Append(tty, [rec |-> rec, part |-> part]) \/ tty' = tty
      BY <2>2 DEF DeviceSend, Arrives
    <3>3. tty' \in Seq(Piece)
      <4>1. tty \in Seq(Piece)
        BY <2>1
      <4>2. QED
        BY <3>1, <3>2, <4>1
    <3>4. rec' \in Nat \ {0} /\ part' \in 1 .. 6
      BY <2>1, <2>2 DEF DeviceSend
    <3>5. QED
      BY <1>2, <2>2, <3>3, <3>4 DEF TypeOK, DeviceSend
  <2>3. CASE DeviceNoise
    <3>1. tty' \in Seq(Piece)
      BY <2>1, <2>3 DEF DeviceNoise, Noise, Piece
    <3>2. QED
      BY <1>2, <2>3, <3>1 DEF TypeOK, DeviceNoise
  <2>4. CASE DeviceBlank
    <3>1. tty' \in Seq(Piece)
      BY <2>4 DEF DeviceBlank, Blank, Piece
    <3>2. QED
      BY <1>2, <2>4, <3>1 DEF TypeOK, DeviceBlank
  <2>5. CASE Unplug
    BY <1>2, <2>5 DEF TypeOK, Unplug
  <2>6. CASE BrokerLost
    BY <1>2, <2>6 DEF TypeOK, BrokerLost
  <2>7. CASE signal_handler
    BY <1>2, <2>7 DEF TypeOK, signal_handler
  <2>8. CASE data_source_init
    BY <1>2, <2>8 DEF TypeOK, data_source_init
  <2>9. CASE serial_configure
    BY <1>2, <2>9 DEF TypeOK, serial_configure
  <2>10. CASE mqtt_client_init
    BY <1>2, <2>10 DEF TypeOK, mqtt_client_init
  <2>11. CASE LoopTest
    BY <1>2, <2>11 DEF TypeOK, LoopTest
  <2>12. CASE ReadByte
    <3>1. tty /= <<>>
      BY <2>12 DEF ReadByte
    <3>2. Head(tty) \in Piece /\ Tail(tty) \in Seq(Piece)
      BY <2>1, <3>1
    <3>3. Head(tty).rec \in Nat
      BY <3>2 DEF Piece
    <3>4. /\ buf' = buf \/ buf' = Append(buf, Head(tty))
          /\ pc' \in {"read", "parse"}
      BY <2>12 DEF ReadByte, TakePiece
    <3>5. buf' \in Seq(Piece)
      <4>1. buf \in Seq(Piece)
        BY <2>1
      <4>2. QED
        BY <3>2, <3>4, <4>1
    <3>6. ended' \in Nat /\ tty' \in Seq(Piece)
      BY <2>1, <2>12, <3>2, <3>3 DEF ReadByte
    <3>7. QED
      BY <1>2, <2>12, <3>4, <3>5, <3>6 DEF TypeOK, ReadByte
  <2>13. CASE ReadTimeout
    BY <1>2, <2>13 DEF TypeOK, ReadTimeout
  <2>14. CASE ReadError
    BY <1>2, <2>14 DEF TypeOK, ReadError
  <2>15. CASE parse_sensor_data
    <3>1. Parsable(buf) => Reading(buf) \in SensorData
      <4> SUFFICES ASSUME Parsable(buf)
                   PROVE  Reading(buf) \in SensorData
        OBVIOUS
      <4>1. Len(buf) >= 3 /\ buf[1] \in Piece /\ buf[2] \in Piece
        BY <2>1 DEF Parsable
      <4>2. SubSeq(buf, 3, IdEnd(buf)) \in Seq(Piece)
        BY <2>1, <4>1, IdRange
      <4>3. QED
        BY <4>1, <4>2 DEF Reading, SensorData, Piece
    <3>2. NoReading \in SensorData
      BY DEF NoReading, SensorData
    <3>3. sensor' \in SensorData
      BY <2>15, <3>1, <3>2 DEF parse_sensor_data
    <3>4. QED
      BY <1>2, <2>15, <3>3 DEF TypeOK, parse_sensor_data
  <2>16. CASE write_log
    <3>1. log' = log \/ log' = Append(log, sensor)
      BY <2>16 DEF write_log
    <3>2. log' \in Seq(SensorData)
      <4>1. log \in Seq(SensorData) /\ sensor \in SensorData
        BY <2>1
      <4>2. QED
        BY <3>1, <4>1
    <3>3. QED
      BY <1>2, <2>16, <3>2 DEF TypeOK, write_log
  <2>17. CASE mqtt_publish_json
    <3>1. published' = published \/ published' = Append(published, sensor)
      BY <2>17 DEF mqtt_publish_json
    <3>2. published' \in Seq(SensorData)
      <4>1. published \in Seq(SensorData) /\ sensor \in SensorData
        BY <2>1
      <4>2. QED
        BY <3>1, <4>1
    <3>3. QED
      BY <1>2, <2>17, <3>2 DEF TypeOK, mqtt_publish_json
  <2>18. CASE mqtt_client_cleanup
    BY <1>2, <2>18 DEF TypeOK, mqtt_client_cleanup
  <2>19. CASE data_source_cleanup
    BY <1>2, <2>19 DEF TypeOK, data_source_cleanup
  <2>20. CASE UNCHANGED vars
    BY <1>2, <2>20 DEF TypeOK, vars
  <2>21. QED
    BY <1>2, <2>2, <2>3, <2>4, <2>5, <2>6, <2>7, <2>8, <2>9, <2>10, <2>11,
       <2>12, <2>13, <2>14, <2>15, <2>16, <2>17, <2>18, <2>19, <2>20
       DEF Next, main, Environment
<1>3. QED
  BY <1>1, <1>2

\* HoldInv is inductive: each way out of main gives back what it holds.
LEMMA HoldInductive ==
  /\ Init => HoldsInv
  /\ HoldsInv /\ [Next]_vars => HoldsInv'
<1>1. Init => HoldInv
  BY DEF Init, HoldInv
<1>2. ASSUME HoldsInv, [Next]_vars
      PROVE  HoldInv'
  <2> USE <1>2 DEF HoldsInv, TypeOK, HoldInv, mqttVars, lineVars, logVars
  <2>1. CASE DeviceSend
    BY <2>1 DEF DeviceSend, Arrives
  <2>2. CASE DeviceNoise \/ DeviceBlank \/ Unplug \/ BrokerLost \/ signal_handler
    BY <2>2 DEF DeviceNoise, DeviceBlank, Unplug, BrokerLost, signal_handler
  <2>3. CASE data_source_init \/ serial_configure \/ mqtt_client_init
    BY <2>3 DEF data_source_init, serial_configure, mqtt_client_init
  <2>4. CASE LoopTest
    BY <2>4 DEF LoopTest
  <2>5. CASE ReadByte
    <3>1. pc' \in {"read", "parse"} /\ pc = "read" /\ fd = "open"
      BY <2>5 DEF ReadByte, TakePiece
    <3>2. QED
      BY <2>5, <3>1 DEF ReadByte
  <2>6. CASE ReadTimeout \/ ReadError \/ parse_sensor_data \/ write_log
    BY <2>6 DEF ReadTimeout, ReadError, parse_sensor_data, write_log
  <2>7. CASE mqtt_publish_json
    BY <2>7 DEF mqtt_publish_json
  <2>8. CASE mqtt_client_cleanup \/ data_source_cleanup
    BY <2>8 DEF mqtt_client_cleanup, data_source_cleanup
  <2>9. CASE UNCHANGED vars
    BY <2>9 DEF vars
  <2>10. QED
    BY <2>1, <2>2, <2>3, <2>4, <2>5, <2>6, <2>7, <2>8, <2>9
       DEF Next, main, Environment
<1>3. QED
  BY <1>1, <1>2, TypeInductive DEF HoldsInv

\* Every way out of main has closed the port and released the client and the
\* library, wherever the device, the broker or the signal struck.
THEOREM ResourcesReleased == Spec => []NothingLeaked
<1>1. HoldsInv => NothingLeaked
  BY DEF HoldsInv, HoldInv, NothingLeaked
<1>2. QED
  BY <1>1, HoldInductive, PTL DEF Spec

----------------------------------------------------------------------------
(* The order of the pieces.  A real piece is one of a reading; the others   *)
(* are noise and bare line ends.                                             *)

Real(p) == p.rec /= 0
Earlier(r1, p1, r2, p2) == r1 < r2 \/ (r1 = r2 /\ p1 < p2)
Before(x, r, p) == Earlier(x.rec, x.part, r, p)
IsEnd(p) == p.part \in LineEnds

\* The pieces queued in q are in the order in which they were sent, all before
\* piece p of line r, and a line end separates any two lines.
InOrder(q, r, p) ==
  /\ \A i \in 1 .. Len(q) :
       /\ Real(q[i]) => q[i].part /= 0 /\ Before(q[i], r, p)
       /\ ~Real(q[i]) => q[i].part \in {0, 6}
       /\ Real(q[i]) /\ q[i].rec < r
            => IsEnd(q[i]) \/ \E k \in 1 .. Len(q) : i < k /\ IsEnd(q[k])
  /\ \A i, j \in 1 .. Len(q) :
       i < j /\ Real(q[i]) /\ Real(q[j])
         => /\ Before(q[i], q[j].rec, q[j].part)
            /\ \/ q[i].rec = q[j].rec
               \/ IsEnd(q[i])
               \/ \E k \in 1 .. Len(q) : i < k /\ k < j /\ IsEnd(q[k])

\* raw_buf holds pieces of one line ...
OneLine(b) ==
  /\ \A i \in 1 .. Len(b) : ~IsEnd(b[i]) /\ (b[i].part = 0 <=> ~Real(b[i]))
  /\ \A i, j \in 1 .. Len(b) : Real(b[i]) /\ Real(b[j]) => b[i].rec = b[j].rec

\* ... and, while it is being filled, the pieces still queued are later ones,
\* with a line end before those of another line.
Precedes(b, q, r, p) ==
  \A i \in 1 .. Len(b) :
    Real(b[i]) =>
      /\ Before(b[i], r, p)
      /\ b[i].rec < r => \E k \in 1 .. Len(q) : IsEnd(q[k])
      /\ \A j \in 1 .. Len(q) :
           Real(q[j]) =>
             /\ Before(b[i], q[j].rec, q[j].part)
             /\ \/ b[i].rec = q[j].rec
                \/ \E k \in 1 .. Len(q) : k < j /\ IsEnd(q[k])

\* The first piece of line t is no longer to come.
Past(t, q, r, p) ==
  /\ Earlier(t, 1, r, p)
  /\ \A j \in 1 .. Len(q) : Real(q[j]) => Earlier(t, 1, q[j].rec, q[j].part)

StreamInv ==
  /\ InOrder(tty, rec, part)
  /\ OneLine(buf)
  /\ pc = "read" /\ fd = "open" => Precedes(buf, tty, rec, part)

Newest(t) == /\ Past(t, tty, rec, part)
             /\ \A i \in 1 .. Len(log) : log[i].temp < t

LogInv ==
  /\ \A i \in 1 .. Len(log) : Past(log[i].temp, tty, rec, part)
  /\ pc \in {"read", "parse"} =>
       \A j \in 1 .. Len(buf) : buf[j].part = 1 => Newest(buf[j].rec)
  /\ pc = "log" => /\ Newest(sensor.temp)
                   /\ sensor.humi = sensor.temp
                   /\ RecsOf(sensor.id) \subseteq {sensor.temp}

OrderInv == HoldsInv /\ StreamInv /\ LogInv /\ ReadingsInOrder

\* The fields of a piece.
LEMMA PieceFields ==
  ASSUME NEW x \in Piece
  PROVE  x.rec \in Nat /\ x.part \in 0 .. 6
BY DEF Piece

\* A piece of a queue has its record and its part.
LEMMA PiecesFields ==
  ASSUME NEW q \in Seq(Piece), NEW i \in 1 .. Len(q)
  PROVE  /\ q[i] \in Piece
         /\ q[i].rec \in Nat /\ q[i].part \in Nat
<1>1. q[i] \in Piece
  OBVIOUS
<1>2. q[i].rec \in Nat /\ q[i].part \in 0 .. 6
  BY <1>1, PieceFields
<1>3. QED
  BY <1>1, <1>2

\* The device appends the next piece of its line.
LEMMA SendKeepsOrder ==
  ASSUME NEW q \in Seq(Piece), NEW r \in Nat \ {0}, NEW p \in 1 .. 6,
         NEW b \in Seq(Piece), NEW r2 \in Nat, NEW p2 \in Nat,
         IF p = 6 THEN r2 = r + 1 /\ p2 = 1 ELSE r2 = r /\ p2 = p + 1,
         InOrder(q, r, p)
  PROVE  LET q2 == Append(q, [rec |-> r, part |-> p])
         IN  /\ InOrder(q2, r2, p2)
             /\ Precedes(b, q, r, p) => Precedes(b, q2, r2, p2)
             /\ \A t \in Nat : Past(t, q, r, p) => Past(t, q2, r2, p2)
<1> DEFINE x == [rec |-> r, part |-> p]
           q2 == Append(q, x)
<1>1. x \in Piece /\ Real(x) /\ (IsEnd(x) <=> p \in {5, 6})
  BY DEF Piece, Real, IsEnd, LineEnds
<1>2. /\ q2 \in Seq(Piece) /\ Len(q2) = Len(q) + 1 /\ q2[Len(q) + 1] = x
      /\ \A i \in 1 .. Len(q) : q2[i] = q[i]
  BY <1>1
<1>3. /\ \A i \in 1 .. Len(q) : q[i].rec \in Nat /\ q[i].part \in Nat
      /\ \A i \in 1 .. Len(b) : b[i].rec \in Nat /\ b[i].part \in Nat
  BY PiecesFields
<1>4. /\ Earlier(r, p, r2, p2) /\ r2 \in {r, r + 1}
      /\ r2 = r + 1 => IsEnd(x)
  <2>1. CASE p = 6
    BY <1>1, <2>1 DEF Earlier
  <2>2. CASE p /= 6
    BY <2>2 DEF Earlier
  <2>3. QED
    BY <2>1, <2>2
<1>5. x.rec = r /\ x.part = p
  OBVIOUS
<1> HIDE DEF x, q2
<1>6. InOrder(q2, r2, p2)
  <2>1. ASSUME NEW i \in 1 .. Len(q2)
        PROVE  /\ Real(q2[i]) => q2[i].part /= 0 /\ Before(q2[i], r2, p2)
               /\ ~Real(q2[i]) => q2[i].part \in {0, 6}
               /\ Real(q2[i]) /\ q2[i].rec < r2
                    => \/ IsEnd(q2[i])
                       \/ \E k \in 1 .. Len(q2) : i < k /\ IsEnd(q2[k])
    <3>1. CASE i = Len(q) + 1
      BY <1>1, <1>2, <1>4, <1>5, <3>1 DEF Before, Earlier
    <3>2. CASE i \in 1 .. Len(q)
      <4>1. q2[i] = q[i]
        BY <1>2, <3>2
      <4>2. /\ Real(q[i]) => q[i].part /= 0 /\ Before(q[i], r, p)
            /\ ~Real(q[i]) => q[i].part \in {0, 6}
            /\ Real(q[i]) /\ q[i].rec < r
                => \/ IsEnd(q[i])
                   \/ \E k \in 1 .. Len(q) : i < k /\ IsEnd(q[k])
        BY <3>2 DEF InOrder
      <4>3. Real(q[i]) => Before(q[i], r2, p2)
        BY <1>3, <1>4, <3>2, <4>2 DEF Before, Earlier
      <4>4. ASSUME Real(q[i]), q[i].rec < r2, ~IsEnd(q[i])
            PROVE  \E k \in 1 .. Len(q2) : i < k /\ IsEnd(q2[k])
        <5>1. CASE q[i].rec < r
          BY <1>2, <3>2, <4>2, <4>4, <5>1
        <5>2. CASE ~(q[i].rec < r)
          <6>1. IsEnd(q2[Len(q) + 1]) /\ Len(q) + 1 \in 1 .. Len(q2)
                  /\ i < Len(q) + 1
            BY <1>2, <1>3, <1>4, <3>2, <4>4, <5>2
          <6>2. QED
            BY <6>1
        <5>3. QED
          BY <5>1, <5>2
      <4>5. QED
        BY <4>1, <4>2, <4>3, <4>4
    <3>3. QED
      BY <1>2, <3>1, <3>2
  <2>2. ASSUME NEW i \in 1 .. Len(q2), NEW j \in 1 .. Len(q2),
               i < j, Real(q2[i]), Real(q2[j])
        PROVE  /\ Before(q2[i], q2[j].rec, q2[j].part)
               /\ \/ q2[i].rec = q2[j].rec
                  \/ IsEnd(q2[i])
                  \/ \E k \in 1 .. Len(q2) : i < k /\ k < j /\ IsEnd(q2[k])
    <3>1. i \in 1 .. Len(q) /\ q2[i] = q[i]
      BY <1>2, <2>2
    <3>2. CASE j \in 1 .. Len(q)
      <4>1. q2[j] = q[j]
        BY <1>2, <3>2
      <4>2. /\ Before(q[i], q[j].rec, q[j].part)
            /\ \/ q[i].rec = q[j].rec
               \/ IsEnd(q[i])
               \/ \E k \in 1 .. Len(q) : i < k /\ k < j /\ IsEnd(q[k])
        BY <2>2, <3>1, <3>2, <4>1 DEF InOrder
      <4>3. QED
        BY <1>2, <3>1, <4>1, <4>2
    <3>3. CASE j = Len(q) + 1
      <4>1. q2[j] = x
        BY <1>2, <3>3
      <4>2. /\ Before(q[i], r, p)
            /\ q[i].rec < r
                => \/ IsEnd(q[i])
                   \/ \E k \in 1 .. Len(q) : i < k /\ IsEnd(q[k])
        BY <2>2, <3>1 DEF InOrder
      <4>3. q[i].rec <= r
        BY <1>3, <3>1, <4>2 DEF Before, Earlier
      <4>4. \A k \in 1 .. Len(q) : k \in 1 .. Len(q2) /\ k < j /\ q2[k] = q[k]
        BY <1>2, <3>3
      <4>5. q[i].rec = r \/ q[i].rec < r
        BY <1>3, <3>1, <4>3
      <4>6. q[i].rec = r \/ IsEnd(q[i])
              \/ \E k \in 1 .. Len(q2) : i < k /\ k < j /\ IsEnd(q2[k])
        BY <4>2, <4>4, <4>5
      <4>7. QED
        BY <1>5, <3>1, <4>1, <4>2, <4>6
    <3>4. QED
      BY <1>2, <3>2, <3>3
  <2>3. QED
    BY <2>1, <2>2 DEF InOrder
<1>7. ASSUME Precedes(b, q, r, p)
      PROVE  Precedes(b, q2, r2, p2)
  <2> SUFFICES ASSUME NEW i \in 1 .. Len(b), Real(b[i])
               PROVE  /\ Before(b[i], r2, p2)
                      /\ b[i].rec < r2 => \E k \in 1 .. Len(q2) : IsEnd(q2[k])
                      /\ \A j \in 1 .. Len(q2) :
                           Real(q2[j]) =>
                             /\ Before(b[i], q2[j].rec, q2[j].part)
                             /\ \/ b[i].rec = q2[j].rec
                                \/ \E k \in 1 .. Len(q2) : k < j /\ IsEnd(q2[k])
    BY DEF Precedes
  <2>1. /\ Before(b[i], r, p)
        /\ b[i].rec < r => \E k \in 1 .. Len(q) : IsEnd(q[k])
    BY <1>7 DEF Precedes
  <2>2. b[i].rec <= r
    BY <1>3, <2>1 DEF Before, Earlier
  <2>3. b[i].rec < r2 => \E k \in 1 .. Len(q2) : IsEnd(q2[k])
    <3>1. Len(q) + 1 \in 1 .. Len(q2)
      BY <1>2
    <3>2. QED
      BY <1>2, <1>3, <1>4, <2>1, <2>2, <3>1
  <2>4. ASSUME NEW j \in 1 .. Len(q2), Real(q2[j])
        PROVE  /\ Before(b[i], q2[j].rec, q2[j].part)
               /\ \/ b[i].rec = q2[j].rec
                  \/ \E k \in 1 .. Len(q2) : k < j /\ IsEnd(q2[k])
    <3>1. CASE j \in 1 .. Len(q)
      <4>1. q2[j] = q[j]
        BY <1>2, <3>1
      <4>2. /\ Before(b[i], q[j].rec, q[j].part)
            /\ \/ b[i].rec = q[j].rec
               \/ \E k \in 1 .. Len(q) : k < j /\ IsEnd(q[k])
        BY <1>7, <2>4, <3>1, <4>1 DEF Precedes
      <4>3. QED
        BY <1>2, <4>1, <4>2
    <3>2. CASE j = Len(q) + 1
      <4>1. q2[j] = x
        BY <1>2, <3>2
      <4>2. b[i].rec = r \/ \E k \in 1 .. Len(q) : IsEnd(q[k])
        BY <1>3, <2>1, <2>2
      <4>3. \A k \in 1 .. Len(q) : k \in 1 .. Len(q2) /\ k < j /\ q2[k] = q[k]
        BY <1>2, <3>2
      <4>4. b[i].rec = r \/ \E k \in 1 .. Len(q2) : k < j /\ IsEnd(q2[k])
        BY <4>2, <4>3
      <4>5. QED
        BY <1>5, <2>1, <4>1, <4>4
    <3>3. QED
      BY <1>2, <3>1, <3>2
  <2>5. Before(b[i], r2, p2)
    BY <1>3, <1>4, <2>1 DEF Before, Earlier
  <2>6. QED
    BY <2>3, <2>4, <2>5
<1>8. ASSUME NEW t \in Nat, Past(t, q, r, p)
      PROVE  Past(t, q2, r2, p2)
  <2>1. Earlier(t, 1, r, p) /\ \A j \in 1 .. Len(q) : Real(q[j]) => Earlier(t, 1, q[j].rec, q[j].part)
    BY <1>8 DEF Past
  <2>2. Earlier(t, 1, r2, p2)
    BY <1>4, <2>1 DEF Earlier
  <2>3. ASSUME NEW j \in 1 .. Len(q2), Real(q2[j])
        PROVE  Earlier(t, 1, q2[j].rec, q2[j].part)
    <3>1. CASE j \in 1 .. Len(q)
      BY <1>2, <2>1, <2>3, <3>1
    <3>2. CASE j = Len(q) + 1
      BY <1>2, <1>5, <2>1, <3>2
    <3>3. QED
      BY <1>2, <3>1, <3>2
  <2>4. QED
    BY <2>2, <2>3 DEF Past
<1>9. QED
  BY <1>6, <1>7, <1>8 DEF q2, x

\* A noise character or a bare line end joins the queue.
LEMMA StrayKeepsOrder ==
  ASSUME NEW q \in Seq(Piece), NEW r \in Nat \ {0}, NEW p \in 1 .. 6,
         NEW b \in Seq(Piece), NEW x \in Piece,
         x.rec = 0, x.part \in {0, 6},
         InOrder(q, r, p)
  PROVE  /\ InOrder(Append(q, x), r, p)
         /\ Precedes(b, q, r, p) => Precedes(b, Append(q, x), r, p)
         /\ \A t \in Nat : Past(t, q, r, p) => Past(t, Append(q, x), r, p)
<1> DEFINE q2 == Append(q, x)
<1>1. /\ q2 \in Seq(Piece) /\ Len(q2) = Len(q) + 1 /\ q2[Len(q) + 1] = x
      /\ \A i \in 1 .. Len(q) : q2[i] = q[i]
  OBVIOUS
<1> HIDE DEF q2
<1>2. \A i \in 1 .. Len(q2) : Real(q2[i]) => i \in 1 .. Len(q)
  BY <1>1 DEF Real
<1>3. \A i \in 1 .. Len(q) : i \in 1 .. Len(q2) /\ q2[i] = q[i]
  BY <1>1
<1>4. InOrder(q2, r, p)
  <2>1. ASSUME NEW i \in 1 .. Len(q2)
        PROVE  /\ Real(q2[i]) => q2[i].part /= 0 /\ Before(q2[i], r, p)
               /\ ~Real(q2[i]) => q2[i].part \in {0, 6}
               /\ Real(q2[i]) /\ q2[i].rec < r
                    => \/ IsEnd(q2[i])
                       \/ \E k \in 1 .. Len(q2) : i < k /\ IsEnd(q2[k])
    <3>1. CASE i = Len(q) + 1
      BY <1>1, <3>1 DEF Real
    <3>2. CASE i \in 1 .. Len(q)
      BY <1>3, <3>2 DEF InOrder
    <3>3. QED
      BY <1>1, <3>1, <3>2
  <2>2. ASSUME NEW i \in 1 .. Len(q2), NEW j \in 1 .. Len(q2),
               i < j, Real(q2[i]), Real(q2[j])
        PROVE  /\ Before(q2[i], q2[j].rec, q2[j].part)
               /\ \/ q2[i].rec = q2[j].rec
                  \/ IsEnd(q2[i])
                  \/ \E k \in 1 .. Len(q2) : i < k /\ k < j /\ IsEnd(q2[k])
    BY <1>2, <1>3, <2>2 DEF InOrder
  <2>3. QED
    BY <2>1, <2>2 DEF InOrder
<1>5. ASSUME Precedes(b, q, r, p)
      PROVE  Precedes(b, q2, r, p)
  <2>1. ASSUME NEW i \in 1 .. Len(b), Real(b[i]), NEW j \in 1 .. Len(q2), Real(q2[j])
        PROVE  /\ Before(b[i], q2[j].rec, q2[j].part)
               /\ \/ b[i].rec = q2[j].rec
                  \/ \E k \in 1 .. Len(q2) : k < j /\ IsEnd(q2[k])
    BY <1>2, <1>3, <1>5, <2>1 DEF Precedes
  <2>2. ASSUME NEW i \in 1 .. Len(b), Real(b[i])
        PROVE  /\ Before(b[i], r, p)
               /\ b[i].rec < r => \E k \in 1 .. Len(q2) : IsEnd(q2[k])
    BY <1>3, <1>5, <2>2 DEF Precedes
  <2>3. QED
    BY <2>1, <2>2 DEF Precedes
<1>6. ASSUME NEW t \in Nat, Past(t, q, r, p)
      PROVE  Past(t, q2, r, p)
  BY <1>2, <1>3, <1>6 DEF Past
<1>7. QED
  BY <1>4, <1>5, <1>6 DEF q2

\* read() takes the first piece off the queue.
LEMMA TakeKeepsOrder ==
  ASSUME NEW q \in Seq(Piece), NEW r \in Nat \ {0}, NEW p \in 1 .. 6,
         q /= <<>>, InOrder(q, r, p)
  PROVE  /\ InOrder(Tail(q), r, p)
         /\ \A t \in Nat : Past(t, q, r, p) => Past(t, Tail(q), r, p)
<1> DEFINE q2 == Tail(q)
<1>1. /\ q2 \in Seq(Piece) /\ Len(q2) = Len(q) - 1
      /\ \A i \in 1 .. Len(q2) : i + 1 \in 1 .. Len(q) /\ q2[i] = q[i + 1]
      /\ \A i \in 1 .. Len(q) : i > 1 => i - 1 \in 1 .. Len(q2) /\ q2[i - 1] = q[i]
  OBVIOUS
<1> HIDE DEF q2
<1>2. InOrder(q2, r, p)
  <2>1. ASSUME NEW i \in 1 .. Len(q2)
        PROVE  /\ Real(q2[i]) => q2[i].part /= 0 /\ Before(q2[i], r, p)
               /\ ~Real(q2[i]) => q2[i].part \in {0, 6}
               /\ Real(q2[i]) /\ q2[i].rec < r
                    => \/ IsEnd(q2[i])
                       \/ \E k \in 1 .. Len(q2) : i < k /\ IsEnd(q2[k])
    <3> DEFINE n == i + 1
    <3>1. n \in 1 .. Len(q) /\ q2[i] = q[n] /\ n = i + 1
      BY <1>1
    <3> HIDE DEF n
    <3>2. /\ Real(q[n]) => q[n].part /= 0 /\ Before(q[n], r, p)
          /\ ~Real(q[n]) => q[n].part \in {0, 6}
          /\ Real(q[n]) /\ q[n].rec < r
               => IsEnd(q[n]) \/ \E k \in 1 .. Len(q) : n < k /\ IsEnd(q[k])
      BY <3>1 DEF InOrder
    <3>3. ASSUME NEW k \in 1 .. Len(q), n < k, IsEnd(q[k])
          PROVE  \E m \in 1 .. Len(q2) : i < m /\ IsEnd(q2[m])
      <4>1. k - 1 \in 1 .. Len(q2) /\ q2[k - 1] = q[k] /\ i < k - 1
        BY <1>1, <3>1, <3>3
      <4>2. QED
        BY <3>3, <4>1
    <3>4. QED
      BY <3>1, <3>2, <3>3
  <2>2. ASSUME NEW i \in 1 .. Len(q2), NEW j \in 1 .. Len(q2),
               i < j, Real(q2[i]), Real(q2[j])
        PROVE  /\ Before(q2[i], q2[j].rec, q2[j].part)
               /\ \/ q2[i].rec = q2[j].rec
                  \/ IsEnd(q2[i])
                  \/ \E k \in 1 .. Len(q2) : i < k /\ k < j /\ IsEnd(q2[k])
    <3> DEFINE n == i + 1
               m == j + 1
    <3>1. /\ n \in 1 .. Len(q) /\ q2[i] = q[n] /\ n = i + 1
          /\ m \in 1 .. Len(q) /\ q2[j] = q[m] /\ m = j + 1 /\ n < m
      BY <1>1, <2>2
    <3> HIDE DEF n, m
    <3>2. /\ Before(q[n], q[m].rec, q[m].part)
          /\ \/ q[n].rec = q[m].rec
             \/ IsEnd(q[n])
             \/ \E k \in 1 .. Len(q) : n < k /\ k < m /\ IsEnd(q[k])
      BY <2>2, <3>1 DEF InOrder
    <3>3. ASSUME NEW k \in 1 .. Len(q), n < k, k < m, IsEnd(q[k])
          PROVE  \E l \in 1 .. Len(q2) : i < l /\ l < j /\ IsEnd(q2[l])
      <4>1. k - 1 \in 1 .. Len(q2) /\ q2[k - 1] = q[k] /\ i < k - 1 /\ k - 1 < j
        BY <1>1, <3>1, <3>3
      <4>2. QED
        BY <3>3, <4>1
    <3>4. QED
      BY <3>1, <3>2, <3>3
  <2>3. QED
    BY <2>1, <2>2 DEF InOrder
<1>3. ASSUME NEW t \in Nat, Past(t, q, r, p)
      PROVE  Past(t, q2, r, p)
  BY <1>1, <1>3 DEF Past
<1>4. QED
  BY <1>2, <1>3 DEF q2

\* A piece that ends no line goes into raw_buf: it is of the line begun there,
\* and if it begins a line, that line is later than those that have passed.
LEMMA TakeFillsLine ==
  ASSUME NEW q \in Seq(Piece), NEW r \in Nat \ {0}, NEW p \in 1 .. 6,
         NEW b \in Seq(Piece), q /= <<>>, ~IsEnd(Head(q)),
         InOrder(q, r, p), OneLine(b), Precedes(b, q, r, p)
  PROVE  /\ OneLine(Append(b, Head(q)))
         /\ Precedes(Append(b, Head(q)), Tail(q), r, p)
         /\ Head(q).part = 1 =>
              /\ Past(Head(q).rec, Tail(q), r, p)
              /\ \A t \in Nat : Past(t, q, r, p) => t < Head(q).rec
<1> DEFINE q2 == Tail(q)
           x == Head(q)
           b2 == Append(b, x)
<1>1. /\ q2 \in Seq(Piece) /\ Len(q2) = Len(q) - 1
      /\ \A i \in 1 .. Len(q2) : i + 1 \in 1 .. Len(q) /\ q2[i] = q[i + 1]
      /\ \A i \in 1 .. Len(q) : i > 1 => i - 1 \in 1 .. Len(q2) /\ q2[i - 1] = q[i]
      /\ x = q[1] /\ 1 \in 1 .. Len(q) /\ x \in Piece
  OBVIOUS
<1>2. /\ b2 \in Seq(Piece) /\ Len(b2) = Len(b) + 1 /\ b2[Len(b) + 1] = x
      /\ \A i \in 1 .. Len(b) : b2[i] = b[i]
  BY <1>1
<1>3. ~IsEnd(x)
  OBVIOUS
<1> HIDE DEF q2, x, b2
<1>4. /\ Real(x) => x.part /= 0 /\ Before(x, r, p)
      /\ ~Real(x) => x.part \in {0, 6}
      /\ Real(x) /\ x.rec < r => \E k \in 1 .. Len(q) : 1 < k /\ IsEnd(q[k])
  BY <1>1, <1>3 DEF InOrder
<1>5. x.part = 0 <=> ~Real(x)
  BY <1>3, <1>4 DEF IsEnd, LineEnds
<1>6. \A i \in 1 .. Len(b) : Real(b[i]) /\ Real(x) => b[i].rec = x.rec
  <2> SUFFICES ASSUME NEW i \in 1 .. Len(b), Real(b[i]), Real(x)
               PROVE  b[i].rec = x.rec
    OBVIOUS
  <2>1. b[i].rec = q[1].rec \/ \E k \in 1 .. Len(q) : k < 1 /\ IsEnd(q[k])
    BY <1>1 DEF Precedes
  <2>2. QED
    BY <1>1, <2>1
<1>7. OneLine(b2)
  <2>1. \A i \in 1 .. Len(b2) : i \in 1 .. Len(b) \/ b2[i] = x
    BY <1>2
  <2>2. \A i \in 1 .. Len(b) : ~IsEnd(b[i]) /\ (b[i].part = 0 <=> ~Real(b[i]))
    BY DEF OneLine
  <2>3. \A i, j \in 1 .. Len(b) : Real(b[i]) /\ Real(b[j]) => b[i].rec = b[j].rec
    BY DEF OneLine
  <2>4. \A i \in 1 .. Len(b2) : ~IsEnd(b2[i]) /\ (b2[i].part = 0 <=> ~Real(b2[i]))
    BY <1>2, <1>3, <1>5, <2>1, <2>2
  <2>5. \A i, j \in 1 .. Len(b2) : Real(b2[i]) /\ Real(b2[j]) => b2[i].rec = b2[j].rec
    BY <1>2, <1>6, <2>1, <2>3
  <2>6. QED
    BY <2>4, <2>5 DEF OneLine
<1>8. \A k \in 1 .. Len(q) : IsEnd(q[k]) => k > 1
  BY <1>1, <1>3
<1>9. ASSUME NEW k \in 1 .. Len(q), IsEnd(q[k])
      PROVE  k - 1 \in 1 .. Len(q2) /\ IsEnd(q2[k - 1])
  BY <1>1, <1>8, <1>9
<1>10. Precedes(b2, q2, r, p)
  <2> SUFFICES ASSUME NEW i \in 1 .. Len(b2), Real(b2[i])
               PROVE  /\ Before(b2[i], r, p)
                      /\ b2[i].rec < r => \E k \in 1 .. Len(q2) : IsEnd(q2[k])
                      /\ \A j \in 1 .. Len(q2) :
                           Real(q2[j]) =>
                             /\ Before(b2[i], q2[j].rec, q2[j].part)
                             /\ \/ b2[i].rec = q2[j].rec
                                \/ \E k \in 1 .. Len(q2) : k < j /\ IsEnd(q2[k])
    BY DEF Precedes
  <2> DEFINE y == b2[i]
  <2>1. /\ Before(y, r, p)
        /\ y.rec < r => \E k \in 1 .. Len(q) : IsEnd(q[k])
        /\ \A j \in 1 .. Len(q) :
             j > 1 /\ Real(q[j]) =>
               /\ Before(y, q[j].rec, q[j].part)
               /\ y.rec = q[j].rec \/ \E k \in 1 .. Len(q) : k < j /\ IsEnd(q[k])
    <3>1. CASE i \in 1 .. Len(b)
      BY <1>2, <3>1 DEF Precedes
    <3>2. CASE i = Len(b) + 1
      <4>1. y = x /\ Real(x)
        BY <1>2, <3>2
      <4>2. ASSUME NEW j \in 1 .. Len(q), j > 1, Real(q[j])
            PROVE  /\ Before(x, q[j].rec, q[j].part)
                   /\ \/ x.rec = q[j].rec
                      \/ \E k \in 1 .. Len(q) : k < j /\ IsEnd(q[k])
        BY <1>1, <1>3, <4>1, <4>2 DEF InOrder
      <4>3. QED
        BY <1>4, <4>1, <4>2
    <3>3. i \in 1 .. Len(b) \/ i = Len(b) + 1
      BY <1>2
    <3>4. QED
      BY <3>1, <3>2, <3>3
  <2> HIDE DEF y
  <2>2. y.rec < r => \E k \in 1 .. Len(q2) : IsEnd(q2[k])
    BY <1>9, <2>1
  <2>3. ASSUME NEW j \in 1 .. Len(q2), Real(q2[j])
        PROVE  /\ Before(y, q2[j].rec, q2[j].part)
               /\ \/ y.rec = q2[j].rec
                  \/ \E k \in 1 .. Len(q2) : k < j /\ IsEnd(q2[k])
    <3> DEFINE n == j + 1
    <3>1. n \in 1 .. Len(q) /\ n > 1 /\ q2[j] = q[n] /\ n = j + 1
      BY <1>1
    <3> HIDE DEF n
    <3>2. /\ Before(y, q[n].rec, q[n].part)
          /\ y.rec = q[n].rec \/ \E k \in 1 .. Len(q) : k < n /\ IsEnd(q[k])
      BY <2>1, <2>3, <3>1
    <3>3. ASSUME NEW k \in 1 .. Len(q), k < n, IsEnd(q[k])
          PROVE  \E l \in 1 .. Len(q2) : l < j /\ IsEnd(q2[l])
      <4>1. k - 1 < j
        BY <3>1, <3>3
      <4>2. QED
        BY <1>9, <3>3, <4>1
    <3>4. QED
      BY <3>1, <3>2, <3>3
  <2>4. QED
    BY <2>1, <2>2, <2>3 DEF y
<1>11. ASSUME x.part = 1
       PROVE  /\ Past(x.rec, q2, r, p)
              /\ \A t \in Nat : Past(t, q, r, p) => t < x.rec
  <2>1. Real(x)
    BY <1>5, <1>11
  <2>2. Earlier(x.rec, 1, r, p)
    BY <1>4, <1>11, <2>1 DEF Before
  <2>3. ASSUME NEW j \in 1 .. Len(q2), Real(q2[j])
        PROVE  Earlier(x.rec, 1, q2[j].rec, q2[j].part)
    <3>1. j + 1 \in 1 .. Len(q) /\ q2[j] = q[j + 1] /\ 1 < j + 1
      BY <1>1
    <3>2. Before(x, q2[j].rec, q2[j].part)
      BY <1>1, <2>1, <2>3, <3>1 DEF InOrder
    <3>3. QED
      BY <1>11, <3>2 DEF Before
  <2>4. ASSUME NEW t \in Nat, Past(t, q, r, p)
        PROVE  t < x.rec
    <3>1. Earlier(t, 1, x.rec, 1)
      BY <1>1, <1>11, <2>1, <2>4 DEF Past
    <3>2. x.rec \in Nat
      BY <1>1, PieceFields
    <3>3. QED
      BY <3>1, <3>2 DEF Earlier
  <2>5. QED
    BY <2>2, <2>3, <2>4 DEF Past
<1>12. QED
  BY <1>7, <1>10, <1>11 DEF q2, x, b2

\* An empty queue is in order, and all that was past is past.
LEMMA EmptyInOrder ==
  ASSUME NEW r \in Nat \ {0}, NEW p \in 1 .. 6
  PROVE  /\ InOrder(<<>>, r, p)
         /\ OneLine(<<>>)
         /\ \A q \in Seq(Piece) : Precedes(<<>>, q, r, p)
         /\ \A t \in Nat, q \in Seq(Piece) : Past(t, q, r, p) => Past(t, <<>>, r, p)
<1>1. Len(<<>>) = 0 /\ \A i : i \notin 1 .. 0
  OBVIOUS
<1>2. QED
  BY <1>1 DEF InOrder, OneLine, Precedes, Past

\* What a line that parses becomes: one reading of one line.
LEMMA ReadingOfOneLine ==
  ASSUME NEW b \in Seq(Piece), OneLine(b), Parsable(b)
  PROVE  /\ b[1].rec \in Nat /\ b[1].part = 1 /\ 1 \in 1 .. Len(b)
         /\ Reading(b).temp = b[1].rec
         /\ Reading(b).humi = b[1].rec
         /\ RecsOf(Reading(b).id) \subseteq {b[1].rec}
<1>1. /\ Len(b) >= 3 /\ b[1].part = 1 /\ b[2].part = 2
      /\ 1 \in 1 .. Len(b) /\ 2 \in 1 .. Len(b)
  BY DEF Parsable
<1>2. Real(b[1]) /\ Real(b[2])
  BY <1>1 DEF OneLine
<1>3. b[2].rec = b[1].rec
  BY <1>1, <1>2 DEF OneLine
<1>4. RecsOf(SubSeq(b, 3, IdEnd(b))) \subseteq {b[1].rec}
  <2>0. PICK e \in 3 .. Len(b) : e = IdEnd(b)
    BY <1>1, IdRange
  <2> DEFINE s == SubSeq(b, 3, e)
  <2>1. /\ s \in Seq(Piece) /\ Len(s) = e - 2
        /\ \A i \in 1 .. Len(s) : i + 2 \in 1 .. Len(b) /\ s[i] = b[i + 2]
    BY <1>1
  <2> HIDE DEF s
  <2>2. DOMAIN s = 1 .. Len(s)
    BY <2>1
  <2>3. \A i \in 1 .. Len(s) : s[i].rec /= 0 => s[i].rec = b[1].rec
    <3> SUFFICES ASSUME NEW i \in 1 .. Len(s), s[i].rec /= 0
                 PROVE  s[i].rec = b[1].rec
      OBVIOUS
    <3>1. PICK j \in 1 .. Len(b) : s[i] = b[j]
      BY <2>1
    <3>2. Real(b[j])
      BY <3>1 DEF Real
    <3>3. QED
      BY <1>1, <1>2, <3>1, <3>2 DEF OneLine
  <2>4. RecsOf(s) \subseteq {b[1].rec}
    BY <2>2, <2>3 DEF RecsOf, ToSet
  <2>5. QED
    BY <2>0, <2>4 DEF s
<1>5. b[1].rec \in Nat
  BY <1>1, PiecesFields
<1>6. QED
  BY <1>1, <1>3, <1>4, <1>5 DEF Reading

\* OrderInv is inductive.
LEMMA OrderInductive ==
  /\ Init => OrderInv
  /\ OrderInv /\ [Next]_vars => OrderInv'
<1>1. Init => OrderInv
  <2> SUFFICES ASSUME Init
               PROVE  OrderInv
    OBVIOUS
  <2>1. /\ buf = <<>> /\ tty = <<>> /\ log = <<>> /\ pc = "open"
        /\ rec \in Nat \ {0} /\ part \in 1 .. 6
    BY DEF Init
  <2>2. Len(log) = 0 /\ \A i : i \notin 1 .. 0
    BY <2>1
  <2>3. StreamInv
    BY <2>1, EmptyInOrder DEF StreamInv
  <2>4. LogInv /\ ReadingsInOrder
    BY <2>1, <2>2 DEF LogInv, ReadingsInOrder
  <2>5. QED
    BY <2>3, <2>4, HoldInductive DEF OrderInv
<1>2. ASSUME OrderInv, [Next]_vars
      PROVE  OrderInv'
  <2>1. HoldsInv /\ HoldsInv'
    BY <1>2, HoldInductive DEF OrderInv
  <2>2. /\ buf \in Seq(Piece) /\ tty \in Seq(Piece) /\ sensor \in SensorData
        /\ log \in Seq(SensorData)
        /\ rec \in Nat \ {0} /\ part \in 1 .. 6
    BY <2>1 DEF HoldsInv, TypeOK
  <2>3. /\ InOrder(tty, rec, part) /\ OneLine(buf)
        /\ pc = "read" /\ fd = "open" => Precedes(buf, tty, rec, part)
        /\ LogInv /\ ReadingsInOrder
    BY <1>2 DEF OrderInv, StreamInv
  <2>4. sensor.temp \in Nat
    BY <2>2 DEF SensorData
  <2>5. \A i \in 1 .. Len(log) : log[i].temp \in Nat
    <3>1. \A i \in 1 .. Len(log) : log[i] \in SensorData
      BY <2>2
    <3>2. QED
      BY <3>1 DEF SensorData
  <2>6. \A i \in 1 .. Len(buf) : buf[i].rec \in Nat
    BY <2>2, PiecesFields
  \* A step of the line alone.
  <2>7. ASSUME UNCHANGED <<pc, buf, sensor, log>>,
               InOrder(tty', rec', part'),
               pc = "read" /\ fd' = "open" => Precedes(buf, tty', rec', part'),
               \A t \in Nat : Past(t, tty, rec, part) => Past(t, tty', rec', part')
        PROVE  StreamInv' /\ LogInv' /\ ReadingsInOrder'
    <3>1. \A t \in Nat : Newest(t) => Newest(t)'
      BY <2>7 DEF Newest
    <3>2. StreamInv' /\ ReadingsInOrder'
      BY <2>3, <2>7 DEF StreamInv, ReadingsInOrder
    <3>3. LogInv'
      BY <2>3, <2>4, <2>5, <2>6, <2>7, <3>1 DEF LogInv
    <3>4. QED
      BY <3>2, <3>3
  \* A step of main that leaves the queue and the file alone.
  <2>8. ASSUME UNCHANGED <<tty, rec, part, log>>,
               OneLine(buf'),
               pc' = "read" /\ fd' = "open" => Precedes(buf', tty, rec, part),
               pc' \in {"read", "parse"} =>
                 \A j \in 1 .. Len(buf') : buf'[j].part = 1 => Newest(buf'[j].rec),
               pc' = "log" => /\ Newest(sensor'.temp)
                              /\ sensor'.humi = sensor'.temp
                              /\ RecsOf(sensor'.id) \subseteq {sensor'.temp}
        PROVE  StreamInv' /\ LogInv' /\ ReadingsInOrder'
    <3>1. \A t : Newest(t) <=> (/\ Past(t, tty', rec', part')
                                /\ \A i \in 1 .. Len(log') : log'[i].temp < t)
      BY <2>8 DEF Newest
    <3>2. StreamInv' /\ ReadingsInOrder'
      BY <2>3, <2>8 DEF StreamInv, ReadingsInOrder
    <3>3. LogInv'
      BY <2>3, <2>8, <3>1 DEF LogInv, Newest
    <3>4. QED
      BY <3>2, <3>3
  <2>9. /\ pc \in {"read", "parse"} =>
             \A j \in 1 .. Len(buf) : buf[j].part = 1 => Newest(buf[j].rec)
        /\ pc = "log" => /\ Newest(sensor.temp)
                         /\ sensor.humi = sensor.temp
                         /\ RecsOf(sensor.id) \subseteq {sensor.temp}
        /\ \A i \in 1 .. Len(log) : Past(log[i].temp, tty, rec, part)
    BY <2>3 DEF LogInv
  <2> SUFFICES StreamInv' /\ LogInv' /\ ReadingsInOrder'
    BY <2>1 DEF OrderInv
  <2> USE DEF mqttVars, lineVars, logVars
  <2>10. CASE DeviceSend
    <3>1. /\ UNCHANGED <<pc, fd, buf, sensor, log>>
          /\ tty' = Append(tty, [rec |-> rec, part |-> part]) \/ tty' = tty
          /\ fd = "open" => tty' = Append(tty, [rec |-> rec, part |-> part])
      BY <2>10 DEF DeviceSend, Arrives
    <3>2. /\ rec' \in Nat /\ part' \in Nat
          /\ IF part = 6 THEN rec' = rec + 1 /\ part' = 1
                         ELSE rec' = rec /\ part' = part + 1
      BY <2>2, <2>10 DEF DeviceSend
    <3>3. CASE fd = "open"
      <4>1. /\ InOrder(tty', rec', part')
            /\ Precedes(buf, tty, rec, part) => Precedes(buf, tty', rec', part')
            /\ \A t \in Nat : Past(t, tty, rec, part) => Past(t, tty', rec', part')
        <5>1. /\ buf \in Seq(Piece) /\ tty \in Seq(Piece) /\ rec \in Nat \ {0} /\ part \in 1 .. 6
              /\ InOrder(tty, rec, part)
          BY <2>2, <2>3
        <5>2. PICK q2 : q2 = Append(tty, [rec |-> rec, part |-> part])
          OBVIOUS
        <5>3. /\ InOrder(q2, rec', part')
              /\ Precedes(buf, tty, rec, part) => Precedes(buf, q2, rec', part')
              /\ \A t \in Nat : Past(t, tty, rec, part) => Past(t, q2, rec', part')
          BY <3>2, <5>1, <5>2, SendKeepsOrder
        <5>4. tty' = q2
          BY <3>1, <3>3, <5>2
        <5>5. QED
          BY <5>3, <5>4
      <4>2. QED
        BY <2>3, <2>7, <3>1, <3>3, <4>1
    <3>4. CASE fd /= "open"
      <4>1. tty = <<>> /\ tty' = <<>>
        BY <2>1, <3>1, <3>4 DEF HoldsInv, HoldInv
      <4>2. rec' \in Nat \ {0} /\ part' \in 1 .. 6
        BY <2>2, <3>2
      <4>3. InOrder(tty', rec', part')
        BY <4>1, <4>2, EmptyInOrder
      <4>4. ASSUME NEW t \in Nat, Past(t, tty, rec, part)
            PROVE  Past(t, tty', rec', part')
        <5>1. Earlier(t, 1, rec', part')
          BY <2>2, <3>2, <4>4 DEF Past, Earlier
        <5>2. \A j : j \notin 1 .. Len(tty')
          BY <4>1
        <5>3. QED
          BY <5>1, <5>2 DEF Past
      <4>5. QED
        BY <2>7, <3>1, <3>4, <4>3, <4>4
    <3>5. QED
      BY <3>3, <3>4
  <2>11. CASE DeviceNoise
    <3>1. /\ UNCHANGED <<pc, fd, buf, sensor, log, rec, part>> /\ fd = "open"
          /\ tty' = Append(tty, Noise)
      BY <2>11 DEF DeviceNoise
    <3>2. Noise \in Piece /\ Noise.rec = 0 /\ Noise.part \in {0, 6}
      BY DEF Noise, Piece
    <3>3. /\ InOrder(tty', rec, part)
          /\ Precedes(buf, tty, rec, part) => Precedes(buf, tty', rec, part)
          /\ \A t \in Nat : Past(t, tty, rec, part) => Past(t, tty', rec, part)
      BY <2>2, <2>3, <3>1, <3>2, StrayKeepsOrder
    <3>4. QED
      BY <2>3, <2>7, <3>1, <3>3
  <2>12. CASE DeviceBlank
    <3>1. /\ UNCHANGED <<pc, fd, buf, sensor, log, rec, part>> /\ fd = "open"
          /\ tty' = <<Blank>> /\ tty = <<>>
      BY <2>12 DEF DeviceBlank
    <3>2. Blank \in Piece /\ Blank.rec = 0 /\ Blank.part \in {0, 6}
      BY DEF Blank, Piece
    <3>3. tty' = Append(tty, Blank)
      BY <3>1
    <3>4. /\ InOrder(tty', rec, part)
          /\ Precedes(buf, tty, rec, part) => Precedes(buf, tty', rec, part)
          /\ \A t \in Nat : Past(t, tty, rec, part) => Past(t, tty', rec, part)
      BY <2>2, <2>3, <3>2, <3>3, StrayKeepsOrder
    <3>5. QED
      BY <2>3, <2>7, <3>1, <3>4
  <2>13. CASE Unplug
    <3>1. UNCHANGED <<pc, buf, sensor, log, rec, part>> /\ fd' = "gone" /\ tty' = <<>>
      BY <2>13 DEF Unplug
    <3>2. /\ InOrder(tty', rec, part)
          /\ \A t \in Nat : Past(t, tty, rec, part) => Past(t, tty', rec, part)
      BY <2>2, <3>1, EmptyInOrder
    <3>3. QED
      BY <2>7, <3>1, <3>2
  <2>14. CASE BrokerLost \/ signal_handler
    <3>1. UNCHANGED <<pc, buf, sensor, log, rec, part, fd, tty>>
      BY <2>14 DEF BrokerLost, signal_handler
    <3>2. QED
      BY <2>3, <2>7, <3>1
  <2>15. CASE data_source_init
    <3>1. UNCHANGED <<buf, sensor, log, rec, part, tty>> /\ pc' \in {"configure", "exited"}
      BY <2>15 DEF data_source_init
    <3>2. QED
      BY <2>3, <2>8, <3>1
  <2>16. CASE mqtt_client_init
    <3>1. UNCHANGED <<buf, sensor, log, rec, part, tty>> /\ pc' \in {"loop", "cleanup_source"}
      BY <2>16 DEF mqtt_client_init
    <3>2. QED
      BY <2>3, <2>8, <3>1
  \* The queue is emptied.
  <2>17. CASE serial_configure \/ data_source_cleanup
    <3>1. /\ UNCHANGED <<buf, sensor, log, rec, part>> /\ tty' = <<>>
          /\ pc' \in {"connect", "exited"}
      BY <2>17 DEF serial_configure, data_source_cleanup
    <3>2. /\ InOrder(tty', rec, part)
          /\ \A t \in Nat : Past(t, tty, rec, part) => Past(t, tty', rec, part)
      BY <2>2, <3>1, EmptyInOrder
    <3>3. QED
      BY <2>3, <2>5, <2>9, <3>1, <3>2 DEF StreamInv, LogInv, ReadingsInOrder
  <2>18. CASE LoopTest
    <3>1. /\ UNCHANGED <<sensor, log, rec, part, tty>> /\ buf' = <<>>
          /\ pc' \in {"read", "cleanup_mqtt"}
      BY <2>18 DEF LoopTest
    <3>2. OneLine(buf') /\ Precedes(buf', tty, rec, part)
      BY <2>2, <3>1, EmptyInOrder
    <3>3. \A j : j \notin 1 .. Len(buf')
      BY <3>1
    <3>4. QED
      BY <2>8, <3>1, <3>2, <3>3
  <2>19. CASE ReadByte
    <3>1. /\ UNCHANGED <<sensor, log, rec, part, fd>> /\ pc = "read" /\ fd = "open"
          /\ tty' = Tail(tty) /\ tty /= <<>> /\ pc' \in {"read", "parse"}
          /\ IsEnd(Head(tty)) =>
               buf' = buf /\ (pc' = "read" => buf = <<>>)
          /\ ~IsEnd(Head(tty)) => buf' = Append(buf, Head(tty))
      BY <2>19 DEF ReadByte, TakePiece, IsEnd
    <3>2. /\ InOrder(tty', rec, part)
          /\ \A t \in Nat : Past(t, tty, rec, part) => Past(t, tty', rec, part)
      BY <2>2, <2>3, <3>1, TakeKeepsOrder
    <3> DEFINE New(t) == /\ Past(t, tty', rec', part')
                         /\ \A i \in 1 .. Len(log') : log'[i].temp < t
    <3>3. \A t \in Nat : Newest(t) => New(t)
      BY <3>1, <3>2 DEF Newest
    <3>4. /\ ReadingsInOrder'
          /\ \A i \in 1 .. Len(log) : Past(log[i].temp, tty', rec', part')
      BY <2>3, <2>5, <2>9, <3>1, <3>2 DEF ReadingsInOrder
    <3>5. CASE IsEnd(Head(tty))
      <4>1. /\ OneLine(buf')
            /\ pc' = "read" => Precedes(buf', tty', rec, part)
        <5>1. tty' \in Seq(Piece)
          BY <2>1 DEF HoldsInv, TypeOK
        <5>2. QED
          BY <2>2, <2>3, <3>1, <3>5, <5>1, EmptyInOrder
      <4>2. \A j \in 1 .. Len(buf) : buf[j].part = 1 => New(buf[j].rec)
        BY <2>6, <2>9, <3>1, <3>3, <3>5
      <4>3. StreamInv'
        BY <3>1, <3>2, <4>1 DEF StreamInv
      <4>4. LogInv'
        BY <3>1, <3>4, <3>5, <4>2 DEF LogInv, Newest
      <4>5. QED
        BY <3>4, <4>3, <4>4
    <3>6. CASE ~IsEnd(Head(tty))
      <4>1. /\ OneLine(buf')
            /\ Precedes(buf', tty', rec, part)
            /\ Head(tty).part = 1 =>
                 /\ Past(Head(tty).rec, tty', rec, part)
                 /\ \A t \in Nat : Past(t, tty, rec, part) => t < Head(tty).rec
        BY <2>2, <2>3, <3>1, <3>6, TakeFillsLine
      <4>2. Head(tty).part = 1 => New(Head(tty).rec)
        BY <2>5, <2>9, <3>1, <4>1
      <4>3. \A j \in 1 .. Len(buf) : buf[j].part = 1 => New(buf[j].rec)
        BY <2>6, <2>9, <3>1, <3>3
      <4>4. /\ Len(buf') = Len(buf) + 1 /\ buf'[Len(buf) + 1] = Head(tty)
            /\ \A j \in 1 .. Len(buf) : buf'[j] = buf[j]
        <5>1. Head(tty) \in Piece
          BY <2>2, <3>1
        <5>2. buf \in Seq(Piece) /\ buf' = Append(buf, Head(tty))
          BY <2>2, <3>1, <3>6
        <5>3. QED
          BY <5>1, <5>2
      <4>5. ASSUME NEW j \in 1 .. Len(buf'), buf'[j].part = 1
            PROVE  New(buf'[j].rec)
        BY <2>2, <4>2, <4>3, <4>4, <4>5
      <4>6. StreamInv'
        BY <3>1, <3>2, <4>1 DEF StreamInv
      <4>7. LogInv'
        BY <3>1, <3>4, <4>5 DEF LogInv, Newest
      <4>8. QED
        BY <3>4, <4>6, <4>7
    <3>7. QED
      BY <3>5, <3>6
  <2>20. CASE ReadTimeout \/ ReadError
    <3>1. /\ UNCHANGED <<buf, sensor, log, rec, part, tty>> /\ pc' \in {"loop", "parse"}
          /\ pc = "read"
      BY <2>20 DEF ReadTimeout, ReadError
    <3>2. QED
      BY <2>3, <2>8, <2>9, <3>1
  <2>21. CASE parse_sensor_data
    <3>1. /\ UNCHANGED <<buf, log, rec, part, tty>> /\ pc' \in {"log", "loop"}
          /\ pc = "parse"
          /\ pc' = "log" => Parsable(buf) /\ sensor' = Reading(buf)
      BY <2>21 DEF parse_sensor_data
    <3>2. ASSUME pc' = "log"
          PROVE  /\ Newest(sensor'.temp)
                 /\ sensor'.humi = sensor'.temp
                 /\ RecsOf(sensor'.id) \subseteq {sensor'.temp}
      <4>1. /\ buf[1].rec \in Nat /\ buf[1].part = 1 /\ 1 \in 1 .. Len(buf)
            /\ sensor'.temp = buf[1].rec
            /\ sensor'.humi = buf[1].rec
            /\ RecsOf(sensor'.id) \subseteq {buf[1].rec}
        BY <2>2, <2>3, <3>1, <3>2, ReadingOfOneLine
      <4>2. QED
        BY <2>9, <3>1, <4>1
    <3>3. QED
      BY <2>3, <2>8, <3>1, <3>2
  <2>22. CASE write_log
    <3>1. /\ UNCHANGED <<buf, sensor, rec, part, tty>> /\ pc' \in {"publish", "loop"}
          /\ log' = log \/ log' = Append(log, sensor)
          /\ pc = "log"
      BY <2>22 DEF write_log
    <3>2. CASE log' = log
      BY <2>3, <2>8, <3>1, <3>2
    <3>3. CASE log' = Append(log, sensor)
      <4>1. /\ Len(log') = Len(log) + 1 /\ log'[Len(log) + 1] = sensor
            /\ Len(log) \in Nat
            /\ \A i \in 1 .. Len(log) : log'[i] = log[i]
        BY <2>2, <3>3
      <4>2. /\ Past(sensor.temp, tty, rec, part)
            /\ \A i \in 1 .. Len(log) : log[i].temp < sensor.temp
            /\ sensor.humi = sensor.temp
            /\ RecsOf(sensor.id) \subseteq {sensor.temp}
        BY <2>9, <3>1 DEF Newest
      <4>3. \A i \in 1 .. Len(log') : i \in 1 .. Len(log) \/ i = Len(log) + 1
        BY <4>1
      <4>4. \A i \in 1 .. Len(log') : Past(log'[i].temp, tty, rec, part)
        BY <2>9, <4>1, <4>2, <4>3
      <4>5. /\ \A i, j \in 1 .. Len(log) : i < j => log[i].temp < log[j].temp
            /\ \A i \in 1 .. Len(log) :
                 RecsOf(log[i].id) \subseteq {log[i].temp} /\ log[i].humi = log[i].temp
        BY <2>3 DEF ReadingsInOrder
      <4>6. \A i, j \in 1 .. Len(log') : i < j => log'[i].temp < log'[j].temp
        BY <4>1, <4>2, <4>3, <4>5
      <4>7. \A i \in 1 .. Len(log') :
              RecsOf(log'[i].id) \subseteq {log'[i].temp} /\ log'[i].humi = log'[i].temp
        BY <4>1, <4>2, <4>3, <4>5
      <4>8. ReadingsInOrder'
        BY <4>6, <4>7 DEF ReadingsInOrder
      <4>9. StreamInv'
        BY <2>3, <3>1 DEF StreamInv
      <4>10. LogInv'
        BY <3>1, <4>4 DEF LogInv
      <4>11. QED
        BY <4>8, <4>9, <4>10
    <3>4. QED
      BY <3>1, <3>2, <3>3
  <2>23. CASE mqtt_publish_json
    <3>1. UNCHANGED <<buf, sensor, log, rec, part, tty>> /\ pc' = "loop"
      BY <2>23 DEF mqtt_publish_json
    <3>2. QED
      BY <2>3, <2>8, <3>1
  <2>24. CASE mqtt_client_cleanup
    <3>1. UNCHANGED <<buf, sensor, log, rec, part, tty>> /\ pc' = "cleanup_source"
      BY <2>24 DEF mqtt_client_cleanup
    <3>2. QED
      BY <2>3, <2>8, <3>1
  <2>25. CASE UNCHANGED vars
    <3>1. UNCHANGED <<pc, buf, sensor, log, rec, part, fd, tty>>
      BY <2>25 DEF vars
    <3>2. QED
      BY <2>3, <2>7, <3>1
  <2>26. QED
    BY <1>2, <2>10, <2>11, <2>12, <2>13, <2>14, <2>15, <2>16, <2>17, <2>18,
       <2>19, <2>20, <2>21, <2>22, <2>23, <2>24, <2>25
       DEF Next, main, Environment
<1>3. QED
  BY <1>1, <1>2

\* No reading is logged twice or out of order and none mixes two lines, however
\* the lines are cut by noise, pauses, a full buffer, an unplugged device or a
\* port opened in the middle of one.
THEOREM ReadingsStayInOrder == Spec => []ReadingsInOrder
<1>1. OrderInv => ReadingsInOrder
  BY DEF OrderInv
<1>2. QED
  BY <1>1, OrderInductive, PTL DEF Spec

----------------------------------------------------------------------------
(* Where a line that nothing disturbed is.                                   *)

Sent(k) == IF k < rec THEN 6 ELSE part - 1

PieceOf(k, i) == [rec |-> k, part |-> i]

Text(k) == <<PieceOf(k, 1), PieceOf(k, 2), PieceOf(k, 3), PieceOf(k, 4)>>

\* All that was sent of line k is queued in one piece after the first o pieces,
\* and what is before it ends a line.
QueuedAt(k, o) ==
  /\ o + Sent(k) <= Len(tty)
  /\ \A i \in 1 .. Sent(k) : tty[o + i] = PieceOf(k, i)
  /\ k = rec => o + Sent(k) = Len(tty)
  /\ o > 0 => IsEnd(tty[o])
  /\ o = 0 /\ pc = "read" /\ fd = "open" => buf = <<>>

Queued(k) == \E o \in 0 .. Len(tty) : QueuedAt(k, o)

\* raw_buf holds the first c pieces of line k and the rest is queued next.
TakenAt(k, c) ==
  /\ pc = "read" /\ k > ended
  /\ c <= Sent(k) /\ c < BufLimit
  /\ Len(buf) = c
  /\ \A i \in 1 .. c : buf[i] = PieceOf(k, i)
  /\ Sent(k) - c <= Len(tty)
  /\ \A i \in 1 .. Sent(k) - c : tty[i] = PieceOf(k, c + i)
  /\ k = rec => Sent(k) - c = Len(tty)

Taken(k) == \E c \in 1 .. 4 : TakenAt(k, c)

InFile(k) ==
  \E i \in 1 .. Len(log) :
    /\ log[i].temp = k
    /\ [j \in 1 .. Len(log[i].id) |-> log[i].id[j].part] = <<3, 4>>

Handled(k) ==
  \/ k \in unlogged \cup dropped
  \/ pc = "parse" /\ buf = Text(k) /\ k >= ended
  \/ pc = "log" /\ sensor = Reading(Text(k)) /\ k >= ended
  \/ InFile(k)

Found(k) == k \in disturbed \/ Queued(k) \/ Taken(k) \/ Handled(k)

LineInv ==
  /\ ended <= rec
  /\ \A k \in 1 .. rec : Found(k)
  /\ \A k \in 1 .. ended : k \in disturbed \/ Handled(k)

\* The readings whose pieces are in q.
LEMMA RecOfPiece ==
  ASSUME NEW q \in Seq(Piece), NEW i \in 1 .. Len(q), q[i].rec /= 0
  PROVE  q[i].rec \in RecsOf(q)
<1>1. q[i] \in ToSet(q)
  BY DEF ToSet
<1>2. QED
  BY <1>1 DEF RecsOf

\* A line of which a piece is queued or in raw_buf is one of those that a flush
\* or a pause disturbs.
LEMMA QueuedIsThere ==
  ASSUME TypeOK, NEW k \in Nat \ {0}, NEW o \in Nat, QueuedAt(k, o), Sent(k) >= 1
  PROVE  k \in RecsOf(tty)
<1>1. tty \in Seq(Piece) /\ Len(tty) \in Nat /\ Sent(k) \in Nat
  BY DEF TypeOK, Sent
<1>2. o + 1 \in 1 .. Len(tty) /\ tty[o + 1] = PieceOf(k, 1)
  BY <1>1 DEF QueuedAt
<1>3. tty[o + 1].rec = k
  BY <1>2 DEF PieceOf
<1>4. QED
  BY <1>1, <1>2, <1>3, RecOfPiece

\* The buffer holds a piece of a record that was taken in part, and what is left of
\* it waits in tty.
LEMMA TakenIsThere ==
  ASSUME TypeOK, NEW k \in Nat \ {0}, NEW c \in 1 .. 4, TakenAt(k, c)
  PROVE  /\ k \in RecsOf(buf)
         /\ Sent(k) - c >= 1 => k \in RecsOf(tty)
<1>1. /\ tty \in Seq(Piece) /\ buf \in Seq(Piece)
      /\ Len(tty) \in Nat /\ Sent(k) \in Nat
  BY DEF TypeOK, Sent
<1>2. 1 \in 1 .. Len(buf) /\ buf[1] = PieceOf(k, 1)
  BY DEF TakenAt
<1>3. buf[1].rec = k
  BY <1>2 DEF PieceOf
<1>4. k \in RecsOf(buf)
  BY <1>1, <1>2, <1>3, RecOfPiece
<1>5. ASSUME Sent(k) - c >= 1
      PROVE  k \in RecsOf(tty)
  <2>1. 1 \in 1 .. Len(tty) /\ tty[1] = PieceOf(k, c + 1)
    BY <1>1, <1>5 DEF TakenAt
  <2>2. tty[1].rec = k
    BY <2>1 DEF PieceOf
  <2>3. QED
    BY <1>1, <2>1, <2>2, RecOfPiece
<1>6. QED
  BY <1>4, <1>5

\* A line that has not been read to its end keeps its place when main goes on
\* without reading.
LEMMA QuietStep ==
  ASSUME LineInv, rec \in Nat, ended \in Nat,
         UNCHANGED <<tty, rec, part, disturbed, ended, log, unlogged, dropped>>,
         \/ UNCHANGED <<pc, fd, buf, sensor>>
         \/ /\ pc \notin {"read", "parse", "log"}
            /\ pc' = "read" => buf' = <<>>
  PROVE  LineInv'
<1>1. ASSUME NEW k \in 1 .. rec, Handled(k)
      PROVE  Handled(k)'
  BY <1>1 DEF Handled, InFile
<1>2. ASSUME NEW k \in 1 .. rec, NEW o \in 0 .. Len(tty), QueuedAt(k, o)
      PROVE  QueuedAt(k, o)'
  BY <1>2 DEF QueuedAt, Sent
<1>3. ASSUME NEW k \in 1 .. rec, NEW c \in 1 .. 4, TakenAt(k, c)
      PROVE  TakenAt(k, c)'
  BY <1>3 DEF TakenAt, Sent
<1>4. ASSUME NEW k \in 1 .. rec
      PROVE  Found(k)'
  <2>1. k \in disturbed \/ Queued(k) \/ Taken(k) \/ Handled(k)
    BY DEF LineInv, Found
  <2>2. Queued(k) => Queued(k)'
    BY <1>2 DEF Queued
  <2>3. Taken(k) => Taken(k)'
    BY <1>3 DEF Taken
  <2>4. QED
    BY <1>1, <2>1, <2>2, <2>3 DEF Found
<1>5. ASSUME NEW k \in 1 .. ended
      PROVE  k \in disturbed \/ Handled(k)'
  <2>1. k \in 1 .. rec
    BY DEF LineInv
  <2>2. QED
    BY <1>1, <2>1 DEF LineInv
<1>6. QED
  BY <1>4, <1>5 DEF LineInv

\* Emptying the queue disturbs the lines that are in it, and no others.
LEMMA FlushStep ==
  ASSUME LineInv, TypeOK,
         tty' = <<>>, disturbed' = disturbed \cup RecsOf(tty),
         UNCHANGED <<rec, part, ended, log, unlogged, dropped>>,
         pc' /= "read" \/ fd' /= "open",
         UNCHANGED <<pc, buf, sensor>> \/ pc \notin {"read", "parse", "log"}
  PROVE  LineInv'
<1>1. rec \in Nat \ {0} /\ part \in 1 .. 6 /\ ended \in Nat /\ Len(tty) \in Nat
  BY DEF TypeOK
<1>2. ASSUME NEW k \in 1 .. rec, Handled(k)
      PROVE  Handled(k)'
  BY <1>2 DEF Handled, InFile
<1>3. ASSUME NEW k \in 1 .. rec, NEW o \in 0 .. Len(tty), QueuedAt(k, o)
      PROVE  Found(k)'
  <2>1. CASE Sent(k) >= 1
    <3>1. k \in Nat \ {0} /\ o \in Nat
      BY <1>1
    <3>2. k \in disturbed'
      BY <1>3, <2>1, <3>1, QueuedIsThere
    <3>3. QED
      BY <3>2 DEF Found
  <2>2. CASE ~(Sent(k) >= 1)
    <3>1. k = rec /\ Sent(k)' = 0
      BY <1>1, <2>2 DEF Sent
    <3>2. Len(tty') = 0
      OBVIOUS
    <3>3. QueuedAt(k, 0)'
      BY <3>1, <3>2 DEF QueuedAt
    <3>4. Queued(k)'
      BY <3>2, <3>3 DEF Queued
    <3>5. QED
      BY <3>4 DEF Found
  <2>3. QED
    BY <2>1, <2>2
<1>4. ASSUME NEW k \in 1 .. rec, NEW c \in 1 .. 4, TakenAt(k, c)
      PROVE  Found(k)'
  <2>1. CASE Sent(k) - c >= 1
    <3>1. k \in Nat \ {0}
      BY <1>1
    <3>2. k \in disturbed'
      BY <1>4, <2>1, <3>1, TakenIsThere
    <3>3. QED
      BY <3>2 DEF Found
  <2>2. CASE ~(Sent(k) - c >= 1)
    <3>1. k = rec /\ Sent(k) = c /\ Sent(k)' = Sent(k)
      BY <1>1, <1>4, <2>2 DEF Sent, TakenAt
    <3>2. Len(tty') = 0 /\ Sent(k) - c = 0 /\ \A i : i \notin 1 .. 0
      BY <3>1
    <3>3. pc = "read" /\ pc' = pc /\ buf' = buf
      BY <1>4 DEF TakenAt
    <3>4. TakenAt(k, c)'
      BY <1>4, <3>1, <3>2, <3>3 DEF TakenAt
    <3>5. Taken(k)'
      BY <3>4 DEF Taken
    <3>6. QED
      BY <3>5 DEF Found
  <2>3. QED
    BY <2>1, <2>2
<1>5. \A k \in 1 .. rec : Found(k)'
  <2> SUFFICES ASSUME NEW k \in 1 .. rec
               PROVE  Found(k)'
    OBVIOUS
  <2>1. k \in disturbed \/ Queued(k) \/ Taken(k) \/ Handled(k)
    BY DEF LineInv, Found
  <2>2. Queued(k) => Found(k)'
    BY <1>3 DEF Queued
  <2>3. Taken(k) => Found(k)'
    BY <1>4 DEF Taken
  <2>4. k \in disturbed \/ Handled(k) => Found(k)'
    BY <1>2 DEF Found
  <2>5. QED
    BY <2>1, <2>2, <2>3, <2>4
<1>6. ASSUME NEW k \in 1 .. ended
      PROVE  k \in disturbed' \/ Handled(k)'
  <2>1. k \in 1 .. rec
    BY <1>1 DEF LineInv
  <2>2. QED
    BY <1>2, <2>1 DEF LineInv
<1>7. QED
  BY <1>5, <1>6 DEF LineInv

\* What the device adds goes behind the lines that are queued or begun.
LEMMA AppendStep ==
  ASSUME LineInv, TypeOK, NEW x \in Piece,
         tty' = Append(tty, x),
         rec' \in Nat, rec <= rec',
         disturbed \subseteq disturbed',
         UNCHANGED <<pc, fd, buf, sensor, ended, log, unlogged, dropped>>
  PROVE  /\ \A k \in 1 .. rec - 1 : Found(k)'
         /\ \A k \in 1 .. ended : k \in disturbed' \/ Handled(k)'
         /\ \A k \in 1 .. rec : k \in disturbed \/ Handled(k) => Found(k)'
         /\ ended <= rec'
<1>1. rec \in Nat \ {0} /\ part \in 1 .. 6 /\ ended \in Nat /\ tty \in Seq(Piece)
  BY DEF TypeOK
<1>2. /\ Len(tty') = Len(tty) + 1 /\ Len(tty) \in Nat
      /\ \A i \in 1 .. Len(tty) : tty'[i] = tty[i]
  BY <1>1
<1>3. ASSUME NEW k \in 1 .. rec, Handled(k)
      PROVE  Handled(k)'
  BY <1>3 DEF Handled, InFile
<1>4. ASSUME NEW k \in 1 .. rec - 1
      PROVE  k \in 1 .. rec /\ Sent(k) = 6 /\ Sent(k)' = 6 /\ k /= rec'
  BY <1>1 DEF Sent
<1>5. ASSUME NEW k \in 1 .. rec - 1, NEW o \in 0 .. Len(tty), QueuedAt(k, o)
      PROVE  QueuedAt(k, o)'
  <2>1. Sent(k) = 6 /\ Sent(k)' = 6 /\ k /= rec'
    BY <1>4
  <2>2. o + 6 <= Len(tty) /\ \A i \in 1 .. 6 : tty[o + i] = PieceOf(k, i)
    BY <1>5, <2>1 DEF QueuedAt
  <2>3. \A i \in 1 .. 6 : tty'[o + i] = PieceOf(k, i)
    <3>1. \A i \in 1 .. 6 : o + i \in 1 .. Len(tty)
      BY <1>2, <2>2
    <3>2. QED
      BY <1>2, <2>2, <3>1
  <2>4. o > 0 => IsEnd(tty'[o])
    BY <1>2, <1>5 DEF QueuedAt
  <2>5. o + 6 <= Len(tty')
    BY <1>2, <2>2
  <2>6. o = 0 /\ pc' = "read" /\ fd' = "open" => buf' = <<>>
    BY <1>5 DEF QueuedAt
  <2>7. QED
    BY <2>1, <2>3, <2>4, <2>5, <2>6 DEF QueuedAt
<1>6. ASSUME NEW k \in 1 .. rec - 1, NEW c \in 1 .. 4, TakenAt(k, c)
      PROVE  TakenAt(k, c)'
  <2>1. Sent(k) = 6 /\ Sent(k)' = 6 /\ k /= rec'
    BY <1>4
  <2>2. 6 - c <= Len(tty) /\ \A i \in 1 .. 6 - c : tty[i] = PieceOf(k, c + i)
    BY <1>6, <2>1 DEF TakenAt
  <2>3. 6 - c <= Len(tty') /\ \A i \in 1 .. 6 - c : tty'[i] = PieceOf(k, c + i)
    BY <1>2, <2>2
  <2>4. QED
    BY <1>6, <2>1, <2>3 DEF TakenAt
<1>7. \A k \in 1 .. rec : k \in disturbed \/ Handled(k) => Found(k)'
  BY <1>3 DEF Found
<1>8. ASSUME NEW k \in 1 .. rec - 1
      PROVE  Found(k)'
  <2>1. k \in disturbed \/ Queued(k) \/ Taken(k) \/ Handled(k)
    BY <1>4 DEF LineInv, Found
  <2>2. Queued(k) => Queued(k)'
    <3>1. \A o \in 0 .. Len(tty) : o \in 0 .. Len(tty')
      BY <1>2
    <3>2. QED
      BY <1>5, <3>1 DEF Queued
  <2>3. Taken(k) => Taken(k)'
    BY <1>6 DEF Taken
  <2>4. QED
    BY <1>4, <1>7, <2>1, <2>2, <2>3 DEF Found
<1>9. ASSUME NEW k \in 1 .. ended
      PROVE  k \in disturbed' \/ Handled(k)'
  <2>1. k \in 1 .. rec
    BY <1>1 DEF LineInv
  <2>2. QED
    BY <1>3, <2>1 DEF LineInv
<1>10. ended <= rec'
  BY <1>1 DEF LineInv
<1>11. QED
  BY <1>7, <1>8, <1>9, <1>10

\* The device sends the next piece of its line.
LEMMA SendStep ==
  ASSUME LineInv, HoldsInv, DeviceSend
  PROVE  LineInv'
<1>1. /\ rec \in Nat \ {0} /\ part \in 1 .. 6 /\ ended \in Nat /\ tty \in Seq(Piece)
      /\ TypeOK
  BY DEF HoldsInv, TypeOK
<1>2. /\ IF part = 6 THEN rec' = rec + 1 /\ part' = 1
                     ELSE rec' = rec /\ part' = part + 1
      /\ UNCHANGED <<pc, fd, buf, sensor, ended, log, unlogged, dropped>>
      /\ fd /= "gone"
  BY DEF DeviceSend, logVars
<1>3. PICK r \in Nat \ {0} : r = rec
  BY <1>1
<1>4. /\ rec' \in Nat /\ rec <= rec'
      /\ Sent(r) = part - 1 /\ Sent(r)' = part
      /\ \A k \in 1 .. rec' : k \in 1 .. rec - 1 \/ k = r \/ (k = r + 1 /\ rec' = r + 1)
      /\ rec' = r + 1 => part = 6 /\ Sent(r + 1)' = 0
  BY <1>1, <1>2, <1>3 DEF Sent
<1>5. CASE fd = "open"
  <2> DEFINE x == [rec |-> rec, part |-> part]
  <2>1. tty' = Append(tty, x) /\ disturbed' = disturbed /\ x \in Piece
    BY <1>1, <1>5 DEF DeviceSend, Arrives, Piece
  <2>2. x = PieceOf(r, part) /\ (part = 6 => IsEnd(x))
    BY <1>3 DEF PieceOf, IsEnd, LineEnds
  <2> HIDE DEF x
  <2>3. /\ \A k \in 1 .. rec - 1 : Found(k)'
        /\ \A k \in 1 .. ended : k \in disturbed' \/ Handled(k)'
        /\ \A k \in 1 .. rec : k \in disturbed \/ Handled(k) => Found(k)'
        /\ ended <= rec'
    BY <1>1, <1>2, <1>4, <2>1, AppendStep
  <2>4. /\ Len(tty') = Len(tty) + 1 /\ Len(tty) \in Nat /\ tty'[Len(tty) + 1] = x
        /\ \A i \in 1 .. Len(tty) : tty'[i] = tty[i]
    BY <1>1, <2>1
  <2>5. ASSUME NEW o \in 0 .. Len(tty), QueuedAt(r, o)
        PROVE  Queued(r)'
    <3>1. /\ o + (part - 1) = Len(tty)
          /\ \A i \in 1 .. part - 1 : tty[o + i] = PieceOf(r, i)
          /\ o > 0 => IsEnd(tty[o])
          /\ o = 0 /\ pc = "read" /\ fd = "open" => buf = <<>>
      BY <1>3, <1>4, <2>5 DEF QueuedAt
    <3>2. ASSUME NEW i \in 1 .. part
          PROVE  tty'[o + i] = PieceOf(r, i)
      <4>1. CASE i = part
        <5>1. o + i = Len(tty) + 1
          BY <1>1, <2>4, <3>1, <4>1
        <5>2. QED
          BY <2>2, <2>4, <4>1, <5>1
      <4>2. CASE i \in 1 .. part - 1
        <5>1. o + i \in 1 .. Len(tty)
          BY <1>1, <2>4, <3>1, <4>2
        <5>2. QED
          BY <2>4, <3>1, <4>2, <5>1
      <4>3. QED
        BY <1>1, <4>1, <4>2
    <3>3. o + part = Len(tty') /\ o \in 0 .. Len(tty')
      BY <1>1, <2>4, <3>1
    <3>4. o > 0 => IsEnd(tty'[o])
      BY <2>4, <3>1
    <3>5. QueuedAt(r, o)'
      BY <1>1, <1>2, <1>4, <3>1, <3>2, <3>3, <3>4 DEF QueuedAt
    <3>6. QED
      BY <3>3, <3>5 DEF Queued
  <2>6. ASSUME NEW c \in 1 .. 4, TakenAt(r, c)
        PROVE  Taken(r)'
    <3>1. /\ part - 1 - c = Len(tty) /\ c <= part - 1
          /\ \A i \in 1 .. part - 1 - c : tty[i] = PieceOf(r, c + i)
      BY <1>1, <1>3, <1>4, <2>6 DEF TakenAt
    <3>2. part - c = Len(tty') /\ c <= part
      BY <1>1, <2>4, <3>1
    <3>3. ASSUME NEW i \in 1 .. part - c
          PROVE  tty'[i] = PieceOf(r, c + i)
      <4>1. CASE i = part - c
        <5>1. i = Len(tty) + 1 /\ c + i = part
          BY <1>1, <2>4, <3>1, <4>1
        <5>2. QED
          BY <2>2, <2>4, <5>1
      <4>2. CASE i \in 1 .. part - 1 - c
        <5>1. i \in 1 .. Len(tty)
          BY <1>1, <3>1, <4>2
        <5>2. QED
          BY <2>4, <3>1, <4>2, <5>1
      <4>3. QED
        BY <1>1, <4>1, <4>2
    <3>4. TakenAt(r, c)'
      BY <1>1, <1>2, <1>4, <2>6, <3>2, <3>3 DEF TakenAt
    <3>5. QED
      BY <3>4 DEF Taken
  <2>7. Found(r)'
    <3>1. r \in disturbed \/ Queued(r) \/ Taken(r) \/ Handled(r)
      BY <1>1, <1>3 DEF LineInv, Found
    <3>2. Queued(r) => Found(r)'
      BY <2>5 DEF Queued, Found
    <3>3. Taken(r) => Found(r)'
      BY <2>6 DEF Taken, Found
    <3>4. r \in disturbed \/ Handled(r) => Found(r)'
      BY <1>1, <1>3, <2>3
    <3>5. QED
      BY <3>1, <3>2, <3>3, <3>4
  <2>8. ASSUME rec' = r + 1
        PROVE  Found(r + 1)'
    <3>1. PICK o \in Nat : o = Len(tty) + 1
      BY <2>4
    <3>2. o = Len(tty') /\ o \in 0 .. Len(tty') /\ o > 0
      BY <2>4, <3>1
    <3>3. IsEnd(tty'[o])
      BY <1>4, <2>2, <2>4, <2>8, <3>1
    <3>4. QueuedAt(r + 1, o)'
      BY <1>4, <2>8, <3>2, <3>3 DEF QueuedAt
    <3>5. QED
      BY <3>2, <3>4 DEF Queued, Found
  <2>9. ASSUME NEW k \in 1 .. rec'
        PROVE  Found(k)'
    BY <1>4, <2>3, <2>7, <2>8
  <2>10. QED
    BY <1>2, <2>3, <2>9 DEF LineInv
<1>6. CASE fd /= "open"
  <2>1. /\ tty = <<>> /\ tty' = tty /\ disturbed' = disturbed \cup {rec}
        /\ fd = "closed" /\ pc /= "read"
    BY <1>1, <1>2, <1>6 DEF DeviceSend, Arrives, HoldsInv, HoldInv, TypeOK
  <2>2. ASSUME NEW k \in 1 .. rec, Handled(k)
        PROVE  Handled(k)'
    BY <1>2, <2>2 DEF Handled, InFile
  <2>3. ASSUME NEW k \in 1 .. rec - 1
        PROVE  Found(k)'
    <3>1. k \in 1 .. rec /\ Sent(k) = 6
      BY <1>1 DEF Sent
    <3>2. ~Queued(k) /\ ~Taken(k)
      BY <2>1, <3>1 DEF Queued, QueuedAt, Taken, TakenAt
    <3>3. k \in disturbed \/ Handled(k)
      BY <3>1, <3>2 DEF LineInv, Found
    <3>4. QED
      BY <2>1, <2>2, <3>1, <3>3 DEF Found
  <2>4. Found(r)'
    BY <1>3, <2>1 DEF Found
  <2>5. ASSUME rec' = r + 1
        PROVE  Found(r + 1)'
    <3>1. Len(tty') = 0 /\ \A i : i \notin 1 .. 0
      BY <2>1
    <3>2. QueuedAt(r + 1, 0)'
      BY <1>2, <1>4, <1>6, <2>5, <3>1 DEF QueuedAt
    <3>3. QED
      BY <3>1, <3>2 DEF Queued, Found
  <2>6. ASSUME NEW k \in 1 .. rec'
        PROVE  Found(k)'
    BY <1>4, <2>3, <2>4, <2>5
  <2>7. ASSUME NEW k \in 1 .. ended
        PROVE  k \in disturbed' \/ Handled(k)'
    <3>1. k \in 1 .. rec
      BY <1>1 DEF LineInv
    <3>2. QED
      BY <2>1, <2>2, <3>1 DEF LineInv
  <2>8. ended <= rec'
    BY <1>1, <1>4 DEF LineInv
  <2>9. QED
    BY <1>2, <2>6, <2>7, <2>8 DEF LineInv
<1>7. QED
  BY <1>5, <1>6

\* Noise disturbs the line that is being sent, a bare line end only one that
\* has begun.
LEMMA StrayStep ==
  ASSUME LineInv, HoldsInv, DeviceNoise \/ DeviceBlank
  PROVE  LineInv'
<1>1. /\ rec \in Nat \ {0} /\ part \in 1 .. 6 /\ ended \in Nat /\ tty \in Seq(Piece)
      /\ TypeOK
  BY DEF HoldsInv, TypeOK
<1>2. PICK r \in Nat \ {0} : r = rec
  BY <1>1
<1>3. UNCHANGED <<pc, fd, buf, sensor, rec, part, ended, log, unlogged, dropped>>
  BY DEF DeviceNoise, DeviceBlank, logVars, lineVars
<1>4. \E x \in Piece : tty' = Append(tty, x)
  <2>1. CASE DeviceNoise
    BY <2>1 DEF DeviceNoise, Noise, Piece
  <2>2. CASE DeviceBlank
    <3>1. tty = <<>> /\ tty' = <<Blank>> /\ Blank \in Piece
      BY <2>2 DEF DeviceBlank, Blank, Piece
    <3>2. tty' = Append(tty, Blank)
      BY <3>1
    <3>3. QED
      BY <3>1, <3>2
  <2>3. QED
    BY <2>1, <2>2
<1>5. disturbed \subseteq disturbed'
  BY DEF DeviceNoise, DeviceBlank
<1>6. /\ \A k \in 1 .. rec - 1 : Found(k)'
      /\ \A k \in 1 .. ended : k \in disturbed' \/ Handled(k)'
      /\ \A k \in 1 .. rec : k \in disturbed \/ Handled(k) => Found(k)'
      /\ ended <= rec'
  <2>1. rec' \in Nat /\ rec <= rec'
    BY <1>1, <1>3
  <2>2. PICK x \in Piece : tty' = Append(tty, x)
    BY <1>4
  <2>3. QED
    BY <1>1, <1>3, <1>5, <2>1, <2>2, AppendStep
<1>7. Found(r)'
  <2>1. CASE r \in disturbed'
    BY <2>1 DEF Found
  <2>2. CASE r \notin disturbed'
    <3>1. DeviceBlank /\ part = 1
      BY <1>2, <2>2 DEF DeviceNoise, DeviceBlank
    <3>2. tty' = <<Blank>> /\ IsEnd(Blank) /\ Len(tty') = 1 /\ tty'[1] = Blank
      BY <3>1 DEF DeviceBlank, Blank, IsEnd, LineEnds
    <3>3. Sent(r)' = 0
      BY <1>1, <1>2, <1>3, <3>1 DEF Sent
    <3>4. QueuedAt(r, 1)' /\ 1 \in 0 .. Len(tty')
      BY <3>2, <3>3 DEF QueuedAt
    <3>5. QED
      BY <3>4 DEF Queued, Found
  <2>3. QED
    BY <2>1, <2>2
<1>8. ASSUME NEW k \in 1 .. rec
      PROVE  Found(k)'
  <2>1. k \in 1 .. rec - 1 \/ k = r
    BY <1>1, <1>2
  <2>2. QED
    BY <1>6, <1>7, <2>1
<1>9. QED
  BY <1>3, <1>6, <1>8 DEF LineInv

\* A pause or a read error in the middle of a line disturbs it.
LEMMA PauseStep ==
  ASSUME LineInv, HoldsInv, ReadTimeout \/ ReadError
  PROVE  LineInv'
<1>1. /\ rec \in Nat \ {0} /\ part \in 1 .. 6 /\ ended \in Nat /\ TypeOK
  BY DEF HoldsInv, TypeOK
<1>2. /\ UNCHANGED <<fd, buf, sensor, tty, rec, part, ended, log, unlogged, dropped>>
      /\ tty = <<>> /\ pc = "read" /\ pc' \in {"loop", "parse"}
      /\ disturbed' = disturbed \cup RecsOf(buf)
  BY DEF ReadTimeout, ReadError, logVars, lineVars, HoldsInv, HoldInv
<1>3. ASSUME NEW k \in 1 .. rec, Handled(k)
      PROVE  Handled(k)'
  BY <1>2, <1>3 DEF Handled, InFile
<1>4. ASSUME NEW k \in 1 .. rec, NEW o \in 0 .. Len(tty), QueuedAt(k, o)
      PROVE  QueuedAt(k, o)'
  BY <1>2, <1>4 DEF QueuedAt, Sent
<1>5. ASSUME NEW k \in 1 .. rec, NEW c \in 1 .. 4, TakenAt(k, c)
      PROVE  k \in disturbed'
  <2>1. k \in Nat \ {0}
    BY <1>1
  <2>2. QED
    BY <1>1, <1>2, <1>5, <2>1, TakenIsThere
<1>6. ASSUME NEW k \in 1 .. rec
      PROVE  Found(k)'
  <2>1. k \in disturbed \/ Queued(k) \/ Taken(k) \/ Handled(k)
    BY DEF LineInv, Found
  <2>2. Queued(k) => Queued(k)'
    BY <1>2, <1>4 DEF Queued
  <2>3. Taken(k) => k \in disturbed'
    BY <1>5 DEF Taken
  <2>4. QED
    BY <1>2, <1>3, <2>1, <2>2, <2>3 DEF Found
<1>7. ASSUME NEW k \in 1 .. ended
      PROVE  k \in disturbed' \/ Handled(k)'
  <2>1. k \in 1 .. rec
    BY <1>1 DEF LineInv
  <2>2. QED
    BY <1>2, <1>3, <2>1 DEF LineInv
<1>8. QED
  BY <1>2, <1>6, <1>7 DEF LineInv

\* The text of a whole line parses, and its reading has both halves of the id.
LEMMA TextParses ==
  ASSUME IdWidth >= 2, NEW k \in Nat
  PROVE  /\ Parsable(Text(k))
         /\ Reading(Text(k)).temp = k
         /\ [j \in 1 .. Len(Reading(Text(k)).id) |-> Reading(Text(k)).id[j].part]
              = <<3, 4>>
<1>1. /\ Text(k) \in Seq(Piece) /\ Len(Text(k)) = 4
      /\ Text(k)[1] = PieceOf(k, 1) /\ Text(k)[2] = PieceOf(k, 2)
      /\ Text(k)[3] = PieceOf(k, 3) /\ Text(k)[4] = PieceOf(k, 4)
  BY DEF Text, PieceOf, Piece
<1>2. Parsable(Text(k)) /\ Reading(Text(k)).temp = k
  BY <1>1 DEF Parsable, Reading, PieceOf
<1>3. PICK id : id = SubSeq(Text(k), 3, Len(Text(k)))
  OBVIOUS
<1>4. /\ id \in Seq(Piece) /\ Len(id) = 2
      /\ id[1] = Text(k)[3] /\ id[2] = Text(k)[4]
  <2>1. PICK t \in Seq(Piece) : t = Text(k) /\ Len(t) = 4
    BY <1>1
  <2>2. /\ SubSeq(t, 3, Len(t)) \in Seq(Piece)
        /\ Len(SubSeq(t, 3, Len(t))) = Len(t) - 2
        /\ \A i \in 1 .. Len(t) - 2 : SubSeq(t, 3, Len(t))[i] = t[i + 2]
    BY <2>1
  <2>3. QED
    BY <1>3, <2>1, <2>2
<1>5. id[1].part = 3 /\ id[2].part = 4
  BY <1>1, <1>4 DEF PieceOf
<1>6. [j \in 1 .. Len(id) |-> id[j].part] = <<3, 4>>
  BY <1>4, <1>5
<1>7. Reading(Text(k)).id = id
  <2>1. IdEnd(Text(k)) = Len(Text(k))
    BY <1>1, GatewayAssumption DEF GatewayAssumption, IdEnd
  <2>2. QED
    BY <1>3, <2>1 DEF Reading
<1>8. QED
  BY <1>2, <1>6, <1>7

\* parse_sensor_data and write_log carry a whole line on.
LEMMA WorkStep ==
  ASSUME IdWidth >= 2, LineInv, HoldsInv, parse_sensor_data \/ write_log
  PROVE  LineInv'
<1>1. /\ rec \in Nat \ {0} /\ part \in 1 .. 6 /\ ended \in Nat /\ TypeOK
      /\ log \in Seq(SensorData) /\ sensor \in SensorData
  BY DEF HoldsInv, TypeOK
<1>2. /\ UNCHANGED <<fd, buf, tty, rec, part, ended, disturbed>>
      /\ pc \in {"parse", "log"} /\ pc' \in {"log", "publish", "loop"}
  BY DEF parse_sensor_data, write_log, logVars, lineVars
<1>3. ASSUME NEW k \in Nat \ {0}, InFile(k)
      PROVE  InFile(k)'
  <2>1. CASE log' = log
    BY <1>3, <2>1 DEF InFile
  <2>2. CASE log' = Append(log, sensor)
    <3>1. /\ Len(log') = Len(log) + 1
          /\ \A i \in 1 .. Len(log) : i \in 1 .. Len(log') /\ log'[i] = log[i]
      BY <1>1, <2>2
    <3>2. QED
      BY <1>3, <3>1 DEF InFile
  <2>3. QED
    BY <2>1, <2>2 DEF parse_sensor_data, write_log, logVars
<1>4. ASSUME NEW k \in Nat \ {0}, Handled(k)
      PROVE  Handled(k)'
  <2>1. CASE parse_sensor_data
    <3>1. CASE pc = "parse" /\ buf = Text(k) /\ k >= ended
      <4>1. Parsable(buf)
        BY <3>1, TextParses
      <4>2. pc' = "log" /\ sensor' = Reading(Text(k)) /\ k >= ended'
        BY <1>2, <2>1, <3>1, <4>1 DEF parse_sensor_data
      <4>3. QED
        BY <4>2 DEF Handled
    <3>2. CASE k \in unlogged \cup dropped
      BY <2>1, <3>2 DEF Handled, parse_sensor_data, logVars
    <3>3. CASE InFile(k)
      BY <1>3, <3>3 DEF Handled
    <3>4. QED
      BY <1>4, <2>1, <3>1, <3>2, <3>3 DEF Handled, parse_sensor_data
  <2>2. CASE write_log
    <3>1. CASE sensor = Reading(Text(k))
      <4>1. sensor.temp = k
        BY <3>1, TextParses
      <4>2. CASE log' = Append(log, sensor)
        <5>1. PICK n \in Nat : n = Len(log) + 1
          BY <1>1
        <5>2. n \in 1 .. Len(log') /\ log'[n] = sensor
          BY <1>1, <4>2, <5>1
        <5>3. /\ log'[n].temp = k
              /\ [j \in 1 .. Len(log'[n].id) |-> log'[n].id[j].part] = <<3, 4>>
          BY <3>1, <4>1, <5>2, TextParses
        <5>4. QED
          BY <5>2, <5>3 DEF Handled, InFile
      <4>3. CASE \/ unlogged' = unlogged \cup {sensor.temp}
                 \/ dropped' = dropped \cup {sensor.temp}
        BY <4>1, <4>3 DEF Handled
      <4>4. QED
        BY <2>2, <4>2, <4>3 DEF write_log
    <3>2. CASE k \in unlogged \cup dropped
      BY <2>2, <3>2 DEF Handled, write_log
    <3>3. CASE InFile(k)
      BY <1>3, <3>3 DEF Handled
    <3>4. QED
      BY <1>4, <2>2, <3>1, <3>2, <3>3 DEF Handled, write_log
  <2>3. QED
    BY <2>1, <2>2
<1>5. ASSUME NEW k \in 1 .. rec, NEW o \in 0 .. Len(tty), QueuedAt(k, o)
      PROVE  QueuedAt(k, o)'
  BY <1>2, <1>5 DEF QueuedAt, Sent
<1>6. ASSUME NEW k \in 1 .. rec
      PROVE  Found(k)'
  <2>1. k \in disturbed \/ Queued(k) \/ Taken(k) \/ Handled(k)
    BY DEF LineInv, Found
  <2>2. Queued(k) => Queued(k)'
    BY <1>2, <1>5 DEF Queued
  <2>3. ~Taken(k)
    BY <1>2 DEF Taken, TakenAt
  <2>4. k \in Nat \ {0}
    BY <1>1
  <2>5. QED
    BY <1>2, <1>4, <2>1, <2>2, <2>3, <2>4 DEF Found
<1>7. ASSUME NEW k \in 1 .. ended
      PROVE  k \in disturbed' \/ Handled(k)'
  <2>1. k \in Nat \ {0}
    BY <1>1
  <2>2. QED
    BY <1>2, <1>4, <2>1 DEF LineInv
<1>8. QED
  BY <1>2, <1>6, <1>7 DEF LineInv

\* A byte is read: the line at the head of the queue moves into raw_buf, its CR
\* hands raw_buf to the parser, and every line behind it moves up.
LEMMA ReadStep ==
  ASSUME BufLimit \in Nat, BufLimit >= 4, LineInv, HoldsInv, InOrder(tty, rec, part),
         ReadByte
  PROVE  LineInv'
<1>1. /\ rec \in Nat \ {0} /\ part \in 1 .. 6 /\ ended \in Nat /\ TypeOK
      /\ tty \in Seq(Piece) /\ buf \in Seq(Piece)
  BY DEF HoldsInv, TypeOK
<1>2. /\ UNCHANGED <<fd, sensor, rec, part, log, unlogged, dropped,
                      disturbed>>
      /\ pc = "read" /\ fd = "open" /\ tty' = Tail(tty) /\ tty /= <<>>
  BY DEF ReadByte, logVars, lineVars
<1>3. PICK h \in Piece : h = Head(tty) /\ h = tty[1]
  BY <1>1, <1>2
<1>4. /\ Len(tty') = Len(tty) - 1 /\ Len(tty) \in Nat /\ Len(tty) >= 1
      /\ \A i \in 1 .. Len(tty') : tty'[i] = tty[i + 1]
  BY <1>1, <1>2
<1>5. /\ IsEnd(h) => /\ pc' = (IF buf = <<>> THEN "read" ELSE "parse")
                     /\ buf' = buf
      /\ ~IsEnd(h) => /\ buf' = Append(buf, h)
                      /\ pc' = IF Len(buf') = BufLimit THEN "parse" ELSE "read"
      /\ ended' = IF h.part = 5 THEN h.rec ELSE ended
  BY <1>3 DEF ReadByte, TakePiece, IsEnd
<1>6. h.rec \in Nat /\ h.part \in Nat
  <2>1. h.rec \in Nat /\ h.part \in 0 .. 6
    BY PieceFields
  <2>2. QED
    BY <2>1
<1>7. ASSUME NEW k \in Nat, NEW i \in Nat, h = PieceOf(k, i)
      PROVE  h.rec = k /\ h.part = i
  BY <1>7 DEF PieceOf
<1>8. h.part = 5 => /\ h.rec /= 0 /\ Before(h, rec, part)
                    /\ \A j \in 1 .. Len(tty) :
                         1 < j /\ Real(tty[j]) => Before(h, tty[j].rec, tty[j].part)
  <2>1. 1 \in 1 .. Len(tty)
    BY <1>4
  <2>2. QED
    BY <1>3, <2>1 DEF InOrder, Real
<1>9. ended' \in Nat /\ ended' <= rec
  <2>1. CASE h.part = 5
    BY <1>1, <1>5, <1>6, <1>8, <2>1 DEF Before, Earlier
  <2>2. CASE h.part /= 5
    BY <1>1, <1>5, <2>2 DEF LineInv
  <2>3. QED
    BY <2>1, <2>2
\* What has been handled stays so.
<1>10. ASSUME NEW k \in 1 .. rec, Handled(k)
       PROVE  Handled(k)'
  BY <1>2, <1>10 DEF Handled, InFile
\* A line queued behind others moves up; the first one is begun.
<1>11. ASSUME NEW k \in 1 .. rec, NEW o \in 0 .. Len(tty), QueuedAt(k, o),
              k > ended
       PROVE  /\ Queued(k)' \/ Taken(k)'
              /\ h.part = 5 => h.rec < k
  <2>1. /\ Sent(k) \in Nat /\ Sent(k)' = Sent(k) /\ Sent(k) <= 6
        /\ Sent(k) = 0 => k = rec /\ part = 1
    BY <1>1, <1>2 DEF Sent
  <2>2. /\ o + Sent(k) <= Len(tty)
        /\ \A i \in 1 .. Sent(k) : tty[o + i] = PieceOf(k, i)
        /\ k = rec => o + Sent(k) = Len(tty)
        /\ o > 0 => IsEnd(tty[o])
        /\ o = 0 => buf = <<>>
    BY <1>2, <1>11 DEF QueuedAt
  <2>3. CASE o > 0
    <3>1. PICK m \in Nat : m = o - 1
      BY <2>3
    <3>2. m \in 0 .. Len(tty') /\ m + Sent(k) <= Len(tty')
          /\ (k = rec => m + Sent(k) = Len(tty'))
      BY <1>4, <2>1, <2>2, <2>3, <3>1
    <3>3. ASSUME NEW i \in 1 .. Sent(k)
          PROVE  tty'[m + i] = PieceOf(k, i)
      <4>1. m + i \in 1 .. Len(tty') /\ (m + i) + 1 = o + i
        BY <1>4, <2>1, <2>2, <3>1, <3>2
      <4>2. tty'[m + i] = tty[(m + i) + 1]
        BY <1>4, <4>1
      <4>3. QED
        BY <2>2, <4>1, <4>2
    <3>4. ASSUME m > 0
          PROVE  IsEnd(tty'[m])
      <4>1. m \in 1 .. Len(tty') /\ m + 1 = o
        BY <3>1, <3>2, <3>4
      <4>2. tty'[m] = tty[m + 1]
        BY <1>4, <4>1
      <4>3. QED
        BY <2>2, <2>3, <4>1, <4>2
    <3>5. ASSUME m = 0, pc' = "read"
          PROVE  buf' = <<>>
      <4>1. o = 1
        BY <3>1, <3>5
      <4>2. IsEnd(h)
        BY <1>3, <2>2, <2>3, <4>1
      <4>3. QED
        BY <1>5, <3>5, <4>2
    <3>6. QueuedAt(k, m)'
      BY <1>2, <2>1, <3>2, <3>3, <3>4, <3>5 DEF QueuedAt
    <3>7. Queued(k)'
      BY <3>2, <3>6 DEF Queued
    <3>8. ASSUME h.part = 5
          PROVE  h.rec < k
      <4>1. CASE Sent(k) = 0
        BY <1>1, <1>6, <1>8, <2>1, <3>8, <4>1 DEF Before, Earlier
      <4>2. CASE Sent(k) >= 1
        <5>1. o + 1 \in 1 .. Len(tty) /\ 1 < o + 1 /\ tty[o + 1] = PieceOf(k, 1)
          BY <1>4, <2>1, <2>2, <2>3, <4>2
        <5>2. tty[o + 1].rec = k /\ tty[o + 1].part = 1
          BY <5>1 DEF PieceOf
        <5>3. Before(h, k, 1)
          BY <1>8, <3>8, <5>1, <5>2 DEF Real
        <5>4. QED
          BY <1>6, <3>8, <5>3 DEF Before, Earlier
      <4>3. QED
        BY <2>1, <4>1, <4>2
    <3>9. QED
      BY <3>7, <3>8
  <2>4. CASE o = 0
    <3>1. Sent(k) >= 1
      BY <1>4, <2>1, <2>2, <2>4
    <3>2. h = PieceOf(k, 1)
      BY <1>3, <2>1, <2>2, <2>4, <3>1
    <3>3. h.rec = k /\ h.part = 1 /\ ~IsEnd(h)
      BY <3>2 DEF PieceOf, IsEnd, LineEnds
    <3>4. Len(buf') = 1 /\ buf'[1] = PieceOf(k, 1)
      BY <1>5, <2>2, <2>4, <3>2, <3>3
    <3>5. pc' = "read" /\ ended' = ended
      BY <1>5, <3>3, <3>4
    <3>6. ASSUME NEW i \in 1 .. Sent(k) - 1
          PROVE  tty'[i] = PieceOf(k, 1 + i)
      <4>1. i \in 1 .. Len(tty') /\ i + 1 \in 1 .. Sent(k) /\ 0 + (i + 1) = i + 1
              /\ 1 + i = i + 1
        BY <1>4, <2>1, <2>2, <2>4
      <4>2. QED
        BY <1>4, <2>2, <2>4, <4>1
    <3>7. /\ Sent(k) - 1 <= Len(tty')
          /\ k = rec => Sent(k) - 1 = Len(tty')
      BY <1>4, <2>1, <2>2, <2>4
    <3>8. \A i \in 1 .. 1 : buf'[i] = PieceOf(k, i)
      BY <3>4
    <3>9. TakenAt(k, 1)'
      BY <1>2, <1>11, <2>1, <3>1, <3>4, <3>5, <3>6, <3>7, <3>8 DEF TakenAt
    <3>10. Taken(k)'
      BY <3>9 DEF Taken
    <3>11. QED
      BY <3>3, <3>10
  <2>5. QED
    BY <1>4, <2>3, <2>4
\* The line in raw_buf grows, or is complete.
<1>12. ASSUME NEW k \in 1 .. rec, NEW c \in 1 .. 4, TakenAt(k, c)
       PROVE  /\ Taken(k)' \/ Handled(k)'
              /\ h.part = 5 => Handled(k)'
  <2>1. Sent(k) \in Nat /\ Sent(k)' = Sent(k) /\ Sent(k) <= 6
        /\ (k /= rec => Sent(k) = 6)
    BY <1>1, <1>2 DEF Sent
  <2>2. /\ k > ended /\ c <= Sent(k) /\ c < BufLimit /\ Len(buf) = c
        /\ \A i \in 1 .. c : buf[i] = PieceOf(k, i)
        /\ Sent(k) - c <= Len(tty)
        /\ \A i \in 1 .. Sent(k) - c : tty[i] = PieceOf(k, c + i)
        /\ k = rec => Sent(k) - c = Len(tty)
    BY <1>12 DEF TakenAt
  <2>3. Sent(k) - c >= 1
    BY <1>4, <2>1, <2>2
  <2>4. h = PieceOf(k, c + 1)
    BY <1>3, <2>1, <2>2, <2>3
  <2>5. h.rec = k /\ h.part = c + 1
    BY <2>4 DEF PieceOf
  <2>6. \A b \in Seq(Piece) :
          Len(b) = 4 /\ (\A i \in 1 .. 4 : b[i] = PieceOf(k, i)) => b = Text(k)
    BY DEF Text
  <2>7. CASE c = 4
    <3>1. IsEnd(h) /\ h.part = 5 /\ buf /= <<>>
      <4>1. IsEnd(h) /\ h.part = 5
        BY <2>5, <2>7 DEF IsEnd, LineEnds
      <4>2. Len(buf) = 4 /\ Len(<<>>) = 0
        BY <2>2, <2>7
      <4>3. QED
        BY <4>1, <4>2
    <3>2. pc' = "parse" /\ buf' = buf /\ ended' = k
      BY <1>5, <2>5, <3>1
    <3>3. buf = Text(k)
      BY <1>1, <2>2, <2>6, <2>7
    <3>4. Handled(k)'
      BY <3>2, <3>3 DEF Handled
    <3>5. QED
      BY <3>4
  <2>8. CASE c < 4
    <3>1. ~IsEnd(h) /\ h.part /= 5
      BY <2>5, <2>8 DEF IsEnd, LineEnds
    <3>2. buf' = Append(buf, h) /\ ended' = ended
      BY <1>5, <3>1
    <3>3. PICK d \in 2 .. 4 : d = c + 1
      BY <2>8
    <3>4. /\ buf' \in Seq(Piece) /\ Len(buf') = d /\ buf'[d] = h
          /\ \A i \in 1 .. c : buf'[i] = buf[i]
      BY <1>1, <2>2, <3>2, <3>3
    <3>5. ASSUME NEW i \in 1 .. d
          PROVE  buf'[i] = PieceOf(k, i)
      <4>1. i = d \/ i \in 1 .. c
        BY <3>3
      <4>2. QED
        BY <2>2, <2>4, <3>3, <3>4, <4>1
    <3>6. CASE d = BufLimit
      <4>1. d = 4 /\ pc' = "parse"
        BY <1>5, <3>1, <3>3, <3>4, <3>6
      <4>2. buf' = Text(k)
        BY <2>6, <3>4, <3>5, <4>1
      <4>3. k >= ended'
        BY <1>1, <2>2, <3>2
      <4>4. Handled(k)'
        BY <4>1, <4>2, <4>3 DEF Handled
      <4>5. QED
        BY <4>4
    <3>7. CASE d /= BufLimit
      <4>1. pc' = "read" /\ d < BufLimit
        BY <1>5, <2>2, <3>1, <3>3, <3>4, <3>7
      <4>2. /\ d <= Sent(k) /\ Sent(k) - d <= Len(tty')
            /\ k = rec => Sent(k) - d = Len(tty')
        BY <1>4, <2>1, <2>2, <2>3, <3>3
      <4>3. ASSUME NEW i \in 1 .. Sent(k) - d
            PROVE  tty'[i] = PieceOf(k, d + i)
        <5>1. /\ i \in 1 .. Len(tty') /\ i + 1 \in 1 .. Sent(k) - c
              /\ c + (i + 1) = d + i
          BY <1>4, <2>1, <3>3, <4>2
        <5>2. tty'[i] = tty[i + 1]
          BY <1>4, <5>1
        <5>3. tty[i + 1] = PieceOf(k, c + (i + 1))
          BY <2>2, <5>1
        <5>4. QED
          BY <5>1, <5>2, <5>3
      <4>4. TakenAt(k, d)'
        BY <1>2, <2>1, <2>2, <3>2, <3>4, <3>5, <4>1, <4>2, <4>3 DEF TakenAt
      <4>5. Taken(k)'
        BY <3>3, <4>4 DEF Taken
      <4>6. QED
        BY <3>1, <4>5
    <3>8. QED
      BY <3>6, <3>7
  <2>9. QED
    BY <2>7, <2>8
<1>13. ASSUME NEW k \in 1 .. rec
       PROVE  Found(k)'
  <2>1. CASE k \in disturbed \/ Handled(k)
    BY <1>2, <1>10, <2>1 DEF Found
  <2>2. CASE ~(k \in disturbed \/ Handled(k))
    <3>1. k > ended
      BY <1>1, <2>2 DEF LineInv
    <3>2. Queued(k) \/ Taken(k)
      BY <2>2 DEF LineInv, Found
    <3>3. Queued(k) => Found(k)'
      BY <1>11, <3>1 DEF Queued, Found
    <3>4. Taken(k) => Found(k)'
      BY <1>12 DEF Taken, Found
    <3>5. QED
      BY <3>2, <3>3, <3>4
  <2>3. QED
    BY <2>1, <2>2
<1>14. ASSUME NEW k \in 1 .. ended'
       PROVE  k \in disturbed' \/ Handled(k)'
  <2>1. k \in 1 .. rec
    BY <1>1, <1>9
  <2>2. CASE k \in disturbed \/ Handled(k)
    BY <1>2, <1>10, <2>1, <2>2
  <2>3. CASE ~(k \in disturbed \/ Handled(k))
    <3>1. k > ended
      BY <1>1, <2>1, <2>3 DEF LineInv
    <3>2. h.part = 5 /\ ended' = h.rec /\ ~(h.rec < k)
      BY <1>1, <1>5, <1>6, <3>1
    <3>3. Queued(k) \/ Taken(k)
      BY <2>1, <2>3 DEF LineInv, Found
    <3>4. ~Queued(k)
      BY <1>11, <2>1, <3>1, <3>2 DEF Queued
    <3>5. Taken(k) => Handled(k)'
      BY <1>12, <2>1, <3>2 DEF Taken
    <3>6. QED
      BY <3>3, <3>4, <3>5
  <2>4. QED
    BY <2>2, <2>3
<1>15. QED
  BY <1>2, <1>9, <1>13, <1>14 DEF LineInv

\* LineInv is inductive, given the order of the pieces, when raw_buf has room
\* for the text of a line and %31s for its id.
LEMMA LineInductive ==
  ASSUME BufLimit >= 4, IdWidth >= 2
  PROVE  /\ Init => OrderInv /\ LineInv
         /\ OrderInv /\ LineInv /\ [Next]_vars => (OrderInv /\ LineInv)'
<1>1. Init => LineInv
  <2> SUFFICES ASSUME Init
               PROVE  LineInv
    OBVIOUS
  <2>1. rec = 1 /\ part = 1 /\ ended = 0 /\ Len(tty) = 0 /\ pc = "open"
    BY DEF Init
  <2>2. QueuedAt(1, 0)
    BY <2>1 DEF QueuedAt, Sent
  <2>3. Found(1)
    BY <2>1, <2>2 DEF Found, Queued
  <2>4. \A k \in 1 .. rec : k = 1
    BY <2>1
  <2>5. \A k \in 1 .. rec : Found(k)
    BY <2>3, <2>4
  <2>6. QED
    BY <2>1, <2>5 DEF LineInv
<1>2. ASSUME OrderInv, LineInv, [Next]_vars
      PROVE  LineInv'
  <2>1. /\ HoldsInv /\ TypeOK /\ HoldInv /\ InOrder(tty, rec, part)
        /\ rec \in Nat /\ ended \in Nat
    BY <1>2 DEF OrderInv, HoldsInv, StreamInv, TypeOK
  <2>2. BufLimit \in Nat
    BY GatewayAssumption
  <2> USE DEF mqttVars, lineVars, logVars
  <2>3. CASE DeviceSend
    BY <1>2, <2>1, <2>3, SendStep
  <2>4. CASE DeviceNoise \/ DeviceBlank
    BY <1>2, <2>1, <2>4, StrayStep
  <2>5. CASE Unplug
    <3>1. /\ tty' = <<>> /\ disturbed' = disturbed \cup RecsOf(tty)
          /\ UNCHANGED <<rec, part, ended, log, unlogged, dropped, pc, buf,
                         sensor>>
          /\ fd' /= "open"
      BY <2>5 DEF Unplug
    <3>2. QED
      BY <1>2, <2>1, <3>1, FlushStep
  <2>6. CASE serial_configure \/ data_source_cleanup
    <3>1. /\ tty' = <<>> /\ disturbed' = disturbed \cup RecsOf(tty)
          /\ UNCHANGED <<rec, part, ended, log, unlogged, dropped>>
          /\ pc \notin {"read", "parse", "log"} /\ pc' /= "read"
      BY <2>6 DEF serial_configure, data_source_cleanup
    <3>2. QED
      BY <1>2, <2>1, <3>1, FlushStep
  <2>7. CASE BrokerLost \/ signal_handler \/ UNCHANGED vars
    <3>1. UNCHANGED <<tty, rec, part, disturbed, ended, log, unlogged, dropped, pc,
                      fd, buf, sensor>>
      BY <2>7 DEF BrokerLost, signal_handler, vars
    <3>2. QED
      BY <1>2, <2>1, <3>1, QuietStep
  <2>8. CASE data_source_init \/ mqtt_client_init \/ LoopTest
    <3>1. /\ UNCHANGED <<tty, rec, part, disturbed, ended, log, unlogged, dropped>>
          /\ pc \notin {"read", "parse", "log"}
          /\ pc' = "read" => buf' = <<>>
      BY <2>8 DEF data_source_init, mqtt_client_init, LoopTest
    <3>2. QED
      BY <1>2, <2>1, <3>1, QuietStep
  <2>9. CASE mqtt_publish_json \/ mqtt_client_cleanup
    <3>1. /\ UNCHANGED <<tty, rec, part, disturbed, ended, log, unlogged, dropped>>
          /\ pc \notin {"read", "parse", "log"} /\ pc' /= "read"
      BY <2>9 DEF mqtt_publish_json, mqtt_client_cleanup
    <3>2. QED
      BY <1>2, <2>1, <3>1, QuietStep
  <2>10. CASE ReadByte
    BY <1>2, <2>1, <2>2, <2>10, ReadStep
  <2>11. CASE ReadTimeout \/ ReadError
    BY <1>2, <2>1, <2>11, PauseStep
  <2>12. CASE parse_sensor_data \/ write_log
    BY <1>2, <2>1, <2>12, WorkStep
  <2>13. QED
    BY <1>2, <2>3, <2>4, <2>5, <2>6, <2>7, <2>8, <2>9, <2>10, <2>11, <2>12
       DEF Next, main, Environment
<1>3. QED
  BY <1>1, <1>2, OrderInductive

\* A line that nothing disturbs is in the file with its whole id, once its CR
\* has been read and the work on it is done, unless the file did not open or
\* lost the entry: raw_buf, 128 bytes in main.c, has room for the text of a
\* line, and %31s for its device id.
THEOREM UndisturbedLinesAreLogged ==
  ASSUME BufLimit >= 4, IdWidth >= 2
  PROVE  Spec => []UndisturbedIsLogged
<1>1. OrderInv /\ LineInv => UndisturbedIsLogged
  <2> SUFFICES ASSUME OrderInv, LineInv, NEW k \in 1 .. ended
               PROVE  \/ k \in disturbed \cup unlogged \cup dropped
                      \/ k = ended /\ pc \in {"parse", "log"}
                      \/ InFile(k)
    BY DEF UndisturbedIsLogged, InFile
  <2>1. ended \in Nat
    BY DEF OrderInv, HoldsInv, TypeOK
  <2>2. k \in disturbed \/ Handled(k)
    BY DEF LineInv
  <2>3. k >= ended => k = ended
    BY <2>1
  <2>4. QED
    BY <2>2, <2>3 DEF Handled
<1>2. QED
  BY <1>1, LineInductive, PTL DEF Spec

----------------------------------------------------------------------------
(* What is published.                                                        *)

\* The publications in K have entries of their own among the first n of the
\* file, in the same order.
Recorded(K, pub, lg, n) ==
  \E line \in [K -> 1 .. n] :
    /\ \A i, j \in K : i < j => line[i] < line[j]
    /\ \A i \in K : pub[i] = lg[line[i]]

\* A reading whose entry was written is being published: it is the last entry
\* of the file, and the publications before it have entries before that one.
Pending == pc = "publish" /\ sensor.temp \notin dropped
Settled == IF Pending THEN Len(log) - 1 ELSE Len(log)

PublishInv ==
  /\ Pending => log /= <<>> /\ log[Len(log)] = sensor
  /\ Recorded(Kept, published, log, Settled)
PublishesInv == TypeOK /\ PublishInv

\* Fewer publications have entries in a longer file too.
LEMMA RecordedStill ==
  ASSUME NEW K, NEW L, L \subseteq K, NEW pub, NEW pub2, NEW lg, NEW lg2,
         NEW n \in Int, NEW m \in Int, n <= m,
         \A i \in L : pub2[i] = pub[i],
         \A i \in 1 .. n : lg2[i] = lg[i],
         Recorded(K, pub, lg, n)
  PROVE  Recorded(L, pub2, lg2, m)
<1>1. PICK line \in [K -> 1 .. n] :
        /\ \A i, j \in K : i < j => line[i] < line[j]
        /\ \A i \in K : pub[i] = lg[line[i]]
  BY DEF Recorded
<1> DEFINE short == [i \in L |-> line[i]]
<1>2. /\ \A i \in L : short[i] = line[i]
      /\ \A i \in L : line[i] \in 1 .. n /\ line[i] \in 1 .. m
  BY <1>1
<1>3. short \in [L -> 1 .. m]
  BY <1>2
<1> HIDE DEF short
<1>4. \A i, j \in L : i < j => short[i] < short[j]
  BY <1>1, <1>2
<1>5. \A i \in L : pub2[i] = lg2[short[i]]
  BY <1>1, <1>2
<1>6. QED
  BY <1>3, <1>4, <1>5 DEF Recorded

\* A publication after all of them gets the entry behind theirs.
LEMMA RecordedNext ==
  ASSUME NEW K, NEW q \in Int, \A i \in K : i \in Int /\ i < q,
         NEW pub, NEW pub2, NEW lg, NEW n \in Nat,
         \A i \in K : pub2[i] = pub[i],
         pub2[q] = lg[n + 1],
         Recorded(K, pub, lg, n)
  PROVE  Recorded(K \cup {q}, pub2, lg, n + 1)
<1>1. PICK line \in [K -> 1 .. n] :
        /\ \A i, j \in K : i < j => line[i] < line[j]
        /\ \A i \in K : pub[i] = lg[line[i]]
  BY DEF Recorded
<1> DEFINE L == K \cup {q}
           long == [i \in L |-> IF i = q THEN n + 1 ELSE line[i]]
<1>2. q \notin K
  OBVIOUS
<1>3. /\ long[q] = n + 1
      /\ \A i \in K : long[i] = line[i] /\ long[i] \in 1 .. n
  BY <1>1, <1>2
<1>4. \A i \in L : long[i] \in 1 .. n + 1
  BY <1>3
<1>5. long \in [L -> 1 .. n + 1]
  BY <1>4
<1> HIDE DEF long
<1>6. \A i, j \in L : i < j => long[i] < long[j]
  <2> SUFFICES ASSUME NEW i \in L, NEW j \in L, i < j
               PROVE  long[i] < long[j]
    OBVIOUS
  <2>1. i \in K
    OBVIOUS
  <2>2. CASE j = q
    BY <1>3, <2>1, <2>2
  <2>3. CASE j \in K
    BY <1>1, <1>3, <2>1, <2>3
  <2>4. QED
    BY <2>2, <2>3
<1>7. \A i \in L : pub2[i] = lg[long[i]]
  BY <1>1, <1>3
<1>8. QED
  BY <1>5, <1>6, <1>7 DEF Recorded

\* PublishInv is inductive.
LEMMA PublishInductive ==
  /\ Init => PublishesInv
  /\ PublishesInv /\ [Next]_vars => PublishesInv'
<1>1. Init => PublishInv
  <2> SUFFICES ASSUME Init
               PROVE  PublishInv
    OBVIOUS
  <2>1. pc = "open" /\ Len(published) = 0 /\ Len(log) = 0
    BY DEF Init
  <2>2. ~Pending /\ Settled = 0 /\ Kept = {}
    BY <2>1 DEF Settled, Pending, Kept
  <2>3. [i \in {} |-> 0] \in [{} -> 1 .. 0]
    OBVIOUS
  <2>4. Recorded({}, published, log, 0)
    BY <2>3 DEF Recorded
  <2>5. QED
    BY <2>2, <2>4 DEF PublishInv
<1>2. ASSUME PublishesInv, [Next]_vars
      PROVE  PublishInv'
  <2>1. /\ log \in Seq(SensorData) /\ published \in Seq(SensorData)
        /\ sensor \in SensorData
    BY <1>2 DEF PublishesInv, TypeOK
  <2>2. /\ Len(log) \in Nat /\ Len(published) \in Nat /\ Settled \in Int
        /\ Settled <= Len(log)
    BY <2>1 DEF Settled
  <2>3. /\ Recorded(Kept, published, log, Settled)
        /\ Pending => log /= <<>> /\ log[Len(log)] = sensor
    BY <1>2 DEF PublishesInv, PublishInv
  \* A step that touches neither the file nor the publications.
  <2>4. ASSUME UNCHANGED <<log, published, dropped>>,
               pc' = "publish" => pc = "publish" /\ sensor' = sensor
        PROVE  PublishInv'
    <3>1. Pending' => Pending /\ sensor' = sensor
      BY <2>4 DEF Pending
    <3>2. Settled' \in Int /\ Settled <= Settled' /\ Kept' = Kept
      BY <2>2, <2>4, <3>1 DEF Settled, Kept
    <3>3. Recorded(Kept, published, log, Settled')
      BY <2>2, <2>3, <3>2, RecordedStill
    <3>4. QED
      BY <2>3, <2>4, <3>1, <3>2, <3>3 DEF PublishInv
  <2> USE DEF mqttVars, lineVars, logVars
  <2>5. CASE write_log
    <3>1. /\ pc = "log" /\ published' = published /\ sensor' = sensor
          /\ ~Pending /\ Settled = Len(log)
      BY <2>5 DEF write_log, Pending, Settled
    <3>2. CASE UNCHANGED <<log, dropped>> /\ pc' = "loop"
      BY <2>4, <3>1, <3>2
    <3>3. CASE log' = Append(log, sensor) /\ dropped' = dropped
      <4>1. /\ Len(log') = Len(log) + 1 /\ log'[Len(log) + 1] = sensor
            /\ log' /= <<>>
            /\ \A i \in 1 .. Len(log) : log'[i] = log[i]
        BY <2>1, <3>3
      <4>2. Settled' \in Int /\ Len(log) <= Settled' /\ Kept' = Kept
        BY <2>2, <3>1, <3>3, <4>1 DEF Settled, Kept
      <4>3. Recorded(Kept, published, log', Settled')
        BY <2>2, <2>3, <3>1, <4>1, <4>2, RecordedStill
      <4>4. log'[Len(log')] = sensor'
        BY <3>1, <4>1
      <4>5. QED
        BY <3>1, <4>1, <4>2, <4>3, <4>4 DEF PublishInv
    <3>4. CASE log' = log /\ dropped' = dropped \cup {sensor.temp}
      <4>1. ~Pending' /\ Settled' = Len(log)
        BY <3>1, <3>4 DEF Pending, Settled
      <4>2. Kept' \subseteq Kept
        BY <3>1, <3>4 DEF Kept
      <4>3. Recorded(Kept', published, log, Len(log))
        BY <2>2, <2>3, <3>1, <4>2, RecordedStill
      <4>4. QED
        BY <3>1, <3>4, <4>1, <4>3 DEF PublishInv
    <3>5. QED
      BY <2>5, <3>2, <3>3, <3>4 DEF write_log
  <2>6. CASE mqtt_publish_json
    <3>1. /\ pc = "publish" /\ pc' = "loop" /\ UNCHANGED <<log, sensor, dropped>>
          /\ ~Pending' /\ Settled' = Len(log)
      BY <2>6 DEF mqtt_publish_json, Pending, Settled
    <3>2. CASE published' = published
      BY <2>4, <3>1, <3>2
    <3>3. CASE published' = Append(published, sensor)
      <4>1. PICK q \in Nat : q = Len(published) + 1
        BY <2>2
      <4>2. /\ Len(published') = q /\ published'[q] = sensor
            /\ \A i \in 1 .. Len(published) : published'[i] = published[i]
            /\ 1 .. q = (1 .. Len(published)) \cup {q}
        BY <2>1, <3>3, <4>1
      <4>3. /\ \A i \in Kept : i \in Int /\ i < q /\ published'[i] = published[i]
            /\ Kept' = IF sensor.temp \in dropped THEN Kept ELSE Kept \cup {q}
        BY <3>1, <4>1, <4>2 DEF Kept
      <4>4. CASE sensor.temp \in dropped
        <5>1. Recorded(Kept, published', log, Len(log))
          BY <2>2, <2>3, <4>3, RecordedStill
        <5>2. QED
          BY <3>1, <4>3, <4>4, <5>1 DEF PublishInv
      <4>5. CASE sensor.temp \notin dropped
        <5>1. /\ Pending /\ Len(log) >= 1 /\ log[Len(log)] = sensor
              /\ Settled = Len(log) - 1
          BY <2>1, <2>3, <3>1, <4>5 DEF Pending, Settled
        <5>2. PICK n \in Nat : n = Settled /\ n + 1 = Len(log)
          BY <2>2, <5>1
        <5>3. Recorded(Kept \cup {q}, published', log, n + 1)
          <6>1. Recorded(Kept, published, log, n)
            BY <2>3, <5>2
          <6>2. published'[q] = log[n + 1]
            BY <4>2, <5>1, <5>2
          <6>3. q \in Int
            BY <4>1
          <6>4. QED
            BY <4>3, <6>1, <6>2, <6>3, RecordedNext
        <5>4. QED
          BY <3>1, <4>3, <4>5, <5>2, <5>3 DEF PublishInv
      <4>6. QED
        BY <4>4, <4>5
    <3>4. QED
      BY <2>6, <3>2, <3>3 DEF mqtt_publish_json
  <2>7. CASE DeviceSend \/ DeviceNoise \/ DeviceBlank \/ Unplug \/ BrokerLost
    <3>1. UNCHANGED <<log, published, dropped, pc, sensor>>
      BY <2>7 DEF DeviceSend, DeviceNoise, DeviceBlank, Unplug, BrokerLost
    <3>2. QED
      BY <2>4, <3>1
  <2>8. CASE signal_handler \/ UNCHANGED vars
    <3>1. UNCHANGED <<log, published, dropped, pc, sensor>>
      BY <2>8 DEF signal_handler, vars
    <3>2. QED
      BY <2>4, <3>1
  <2>9. CASE data_source_init \/ serial_configure \/ mqtt_client_init \/ LoopTest
    <3>1. UNCHANGED <<log, published, dropped>> /\ pc' /= "publish"
      BY <2>9 DEF data_source_init, serial_configure, mqtt_client_init, LoopTest
    <3>2. QED
      BY <2>4, <3>1
  <2>10. CASE ReadByte
    <3>1. UNCHANGED <<log, published, dropped>> /\ pc' /= "publish"
      BY <2>10 DEF ReadByte, TakePiece
    <3>2. QED
      BY <2>4, <3>1
  <2>11. CASE ReadTimeout \/ ReadError \/ parse_sensor_data
    <3>1. UNCHANGED <<log, published, dropped>> /\ pc' /= "publish"
      BY <2>11 DEF ReadTimeout, ReadError, parse_sensor_data
    <3>2. QED
      BY <2>4, <3>1
  <2>12. CASE mqtt_client_cleanup \/ data_source_cleanup
    <3>1. UNCHANGED <<log, published, dropped>> /\ pc' /= "publish"
      BY <2>12 DEF mqtt_client_cleanup, data_source_cleanup
    <3>2. QED
      BY <2>4, <3>1
  <2>13. QED
    BY <1>2, <2>5, <2>6, <2>7, <2>8, <2>9, <2>10, <2>11, <2>12
       DEF Next, main, Environment
<1>3. QED
  BY <1>1, <1>2, TypeInductive DEF PublishesInv

\* What is handed to the broker is in the file, in the same order and each
\* publication with an entry of its own, whatever fopen and the broker do; only
\* a write error that write_log ignores loses the entry of one.
THEOREM PublicationsAreLogged == Spec => []PublishedIsLogged
<1>1. PublishesInv => PublishedIsLogged
  <2> SUFFICES ASSUME PublishesInv
               PROVE  PublishedIsLogged
    OBVIOUS
  <2>1. Len(log) \in Nat
    BY DEF PublishesInv, TypeOK
  <2>2. Settled \in Int /\ Settled <= Len(log)
    BY <2>1 DEF Settled
  <2>3. Recorded(Kept, published, log, Settled)
    BY DEF PublishesInv, PublishInv
  <2>4. Recorded(Kept, published, log, Len(log))
    BY <2>1, <2>2, <2>3, RecordedStill
  <2>5. QED
    BY <2>4 DEF Recorded, PublishedIsLogged
<1>2. QED
  BY <1>1, PublishInductive, PTL DEF Spec
============================================================================
