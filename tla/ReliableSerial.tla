-------------------------- MODULE ReliableSerial --------------------------
(***************************************************************************)
(* cpp_modules/reliable_serial_demo: the gateway sends a request as a frame  *)
(* of ten bytes and sends the same frame again when no ACK arrives; the      *)
(* device executes a SEQ once and answers a repeated one from its cache.     *)
(*                                                                           *)
(* The demo plays one request, a lost ACK and one retry.  Here the gateway   *)
(* does this for several requests, in any order, and between it and the      *)
(* device there is a serial line that keeps the order of the frames, loses   *)
(* some and damages one byte of others.  A timeout may come at any moment:   *)
(* also while a frame or its ACK is still on its way.                        *)
(***************************************************************************)
EXTENDS Integers, Sequences, FiniteSets

CONSTANTS Requests,      \* the requests of the gateway, no two with one SEQ
          MaxAttempts,   \* how often it sends one
          MaxFaults,     \* frames the line loses or damages
          DamagedBytes   \* what a damaged byte may become

Byte == {n \in Nat : n < 256}
CommandCode == {1, 2, 3, 4}
ResultCode == [Ok |-> 0, InvalidCommand |-> 1, ExecutionFailed |-> 2]
FrameType == [Request |-> 1, Ack |-> 2]
RequestFrame == [sequence : {n \in Nat : n < 65536}, command : CommandCode]

ASSUME ReliableSerialAssumption ==
  /\ Requests \subseteq RequestFrame
  /\ \A r, s \in Requests : r.sequence = s.sequence => r = s
  /\ MaxAttempts \in Nat /\ MaxFaults \in Nat
  /\ DamagedBytes \subseteq Byte
----------------------------------------------------------------------------
(* ProtocolCodec.                                                           *)

\* The exclusive or of the bytes 3 to 7 of a frame: bit n of the result is the
\* parity of their bits n.
calculateChecksum(b) ==
  LET bit(n) == n * (((b[3] \div n) + (b[4] \div n) + (b[5] \div n)
                      + (b[6] \div n) + (b[7] \div n)) % 2)
  IN bit(1) + bit(2) + bit(4) + bit(8) + bit(16) + bit(32) + bit(64) + bit(128)

\* encodeRequest and encodeAck differ in the type and the meaning of the code.
encode(sequence, type, code) ==
  LET body == <<170, 85, 4, (sequence \div 256) % 256, sequence % 256, type, code>>
  IN body \o <<calculateChecksum(body), 13, 10>>

encodeRequest(frame) == encode(frame.sequence, FrameType.Request, frame.command)
encodeAck(frame) == encode(frame.sequence, FrameType.Ack, frame.result)

\* What decodeRequest and decodeAck return.  Neither looks at the length byte,
\* nor whether the code is one of the enumeration.
Wellformed(bytes, type) ==
  /\ Len(bytes) = 10
  /\ bytes[1] = 170 /\ bytes[2] = 85
  /\ bytes[9] = 13 /\ bytes[10] = 10
  /\ bytes[6] = type
  /\ calculateChecksum(bytes) = bytes[8]

decodeRequest(bytes) == Wellformed(bytes, FrameType.Request)

\* Mutant: the checksum of an ACK is not compared.
decodeAck_unchecked(bytes) ==
  /\ Len(bytes) = 10
  /\ bytes[1] = 170 /\ bytes[2] = 85
  /\ bytes[9] = 13 /\ bytes[10] = 10
  /\ bytes[6] = FrameType.Ack

decodeAck(bytes) == Wellformed(bytes, FrameType.Ack)

\* The fields they store in the frame.
RequestOf(bytes) == [sequence |-> bytes[4] * 256 + bytes[5], command |-> bytes[7]]
AckOf(bytes) == [sequence |-> bytes[4] * 256 + bytes[5], result |-> bytes[7]]
----------------------------------------------------------------------------
VARIABLES
  attempts,     \* how often each request was sent
  acks,         \* the ACKs the gateway decoded
  toDevice, toGateway,   \* the frames on the line, and whether each is damaged
  ackCache,     \* ackCache_, the ACKs it holds (the SEQ is the key)
  stats,        \* stats_
  executions,   \* history: the requests executed
  faults        \* frames the line lost or damaged so far

line == <<toDevice, toGateway>>
device == <<ackCache, stats, executions>>
vars == <<attempts, acks, line, device, faults>>

Init ==
  /\ attempts = [r \in Requests |-> 0]
  /\ acks = {}
  /\ toDevice = <<>> /\ toGateway = <<>>
  /\ ackCache = {}
  /\ stats = [received |-> 0, executed |-> 0, duplicates |-> 0]
  /\ executions = <<>>
  /\ faults = 0

Intact(bytes) == [bytes |-> bytes, damaged |-> FALSE]

Acknowledged(r) == \E ack \in acks : ack.sequence = r.sequence

\* The first attempt, or a retry after the timeout: the same bytes.
Send(r) ==
  /\ attempts[r] < MaxAttempts
  /\ ~Acknowledged(r)
  /\ attempts' = [attempts EXCEPT ![r] = @ + 1]
  /\ toDevice' = Append(toDevice, Intact(encodeRequest(r)))
  /\ UNCHANGED <<acks, toGateway, device, faults>>

Cached(sequence) == {ack \in ackCache : ack.sequence = sequence}

\* Mutant: nothing is looked up, a retry is executed again.
handleRequest_uncached(bytes) ==
  LET request == RequestOf(bytes)
      ack == [sequence |-> request.sequence, result |-> ResultCode.Ok]
  IN IF ~decodeRequest(bytes) THEN UNCHANGED <<device, toGateway>>
     ELSE /\ stats' = [stats EXCEPT !.received = @ + 1, !.executed = @ + 1]
          /\ executions' = Append(executions, request)
          /\ ackCache' = ackCache \cup {ack}
          /\ toGateway' = Append(toGateway, Intact(encodeAck(ack)))

\* Mutant: a repeated request is dropped in silence.
handleRequest_silent(bytes) ==
  LET request == RequestOf(bytes)
      ack == [sequence |-> request.sequence, result |-> ResultCode.Ok]
  IN IF ~decodeRequest(bytes) \/ Cached(request.sequence) /= {}
     THEN UNCHANGED <<device, toGateway>>
     ELSE /\ stats' = [stats EXCEPT !.received = @ + 1, !.executed = @ + 1]
          /\ executions' = Append(executions, request)
          /\ ackCache' = ackCache \cup {ack}
          /\ toGateway' = Append(toGateway, Intact(encodeAck(ack)))

\* SimulatedDevice::handleRequest and what becomes of the bytes it returns.
handleRequest(bytes) ==
  LET request == RequestOf(bytes)
      hit == Cached(request.sequence)
      ack == IF hit /= {} THEN CHOOSE a \in hit : TRUE
             ELSE [sequence |-> request.sequence, result |-> ResultCode.Ok]
  IN IF ~decodeRequest(bytes) THEN UNCHANGED <<device, toGateway>>
     ELSE /\ IF hit /= {}
             THEN /\ stats' = [stats EXCEPT !.received = @ + 1, !.duplicates = @ + 1]
                  /\ UNCHANGED <<executions, ackCache>>
             ELSE /\ stats' = [stats EXCEPT !.received = @ + 1, !.executed = @ + 1]
                  /\ executions' = Append(executions, request)
                  /\ ackCache' = ackCache \cup {ack}
          /\ toGateway' = Append(toGateway, Intact(encodeAck(ack)))

DeviceReceive ==
  /\ toDevice /= <<>>
  /\ toDevice' = Tail(toDevice)
  /\ handleRequest(Head(toDevice).bytes)
  /\ UNCHANGED <<attempts, acks, faults>>

GatewayReceive ==
  /\ toGateway /= <<>>
  /\ toGateway' = Tail(toGateway)
  /\ acks' = IF decodeAck(Head(toGateway).bytes)
             THEN acks \cup {AckOf(Head(toGateway).bytes)} ELSE acks
  /\ UNCHANGED <<attempts, toDevice, device, faults>>
----------------------------------------------------------------------------
(* The serial line.                                                         *)

\* Exactly one byte of a frame differs, or its last byte is missing.
Damage(frame) ==
  {[bytes |-> [frame.bytes EXCEPT ![i] = b], damaged |-> TRUE] :
      i \in 1 .. 10, b \in DamagedBytes}
  \cup {[bytes |-> SubSeq(frame.bytes, 1, 9), damaged |-> TRUE]}

\* What may become of the frame at the head of one direction.
Disturbed(frames) ==
  {Tail(frames)} \cup
  {<<f>> \o Tail(frames) : f \in {d \in Damage(Head(frames)) :
                                    d.bytes /= Head(frames).bytes}}

Disturb ==
  /\ faults < MaxFaults
  /\ \/ /\ toDevice /= <<>> /\ ~Head(toDevice).damaged
        /\ toDevice' \in Disturbed(toDevice)
        /\ UNCHANGED toGateway
     \/ /\ toGateway /= <<>> /\ ~Head(toGateway).damaged
        /\ toGateway' \in Disturbed(toGateway)
        /\ UNCHANGED toDevice
  /\ faults' = faults + 1
  /\ UNCHANGED <<attempts, acks, device>>

Finished ==
  /\ line = <<<<>>, <<>>>>
  /\ \A r \in Requests : Acknowledged(r) \/ attempts[r] = MaxAttempts

Next == \/ \E r \in Requests : Send(r)
        \/ DeviceReceive
        \/ GatewayReceive
        \/ Disturb
        \/ Finished /\ UNCHANGED vars

Spec == Init /\ [][Next]_vars

\* The gateway's timeout expires, both ends read what arrives.  Nothing is
\* assumed of the line but the bound on its faults.
FairSpec == /\ Spec
            /\ \A r \in Requests : WF_vars(Send(r))
            /\ WF_vars(DeviceReceive)
            /\ WF_vars(GatewayReceive)
----------------------------------------------------------------------------
\* However frames are lost, damaged, delayed and repeated, the device executes
\* nothing that the gateway did not send, no SEQ twice, and counts what it did:
\* a retry is a duplicate and never an execution.
ExecutedOnceAsSent ==
  /\ \A i \in 1 .. Len(executions) : executions[i] \in Requests
  /\ \A i, j \in 1 .. Len(executions) :
       executions[i].sequence = executions[j].sequence => i = j
  /\ stats.executed = Len(executions)
  /\ stats.received = stats.executed + stats.duplicates

\* An ACK the gateway accepts says Ok about a request that was executed: a
\* damaged ACK is never taken for the ACK of another request, nor a request
\* for an ACK.
AcksAreTrue ==
  \A ack \in acks :
    /\ ack.result = ResultCode.Ok
    /\ \E i \in 1 .. Len(executions) : executions[i].sequence = ack.sequence

\* While the line disturbs fewer frames than there are attempts, every request
\* is executed and its ACK arrives: the retry is answered although its SEQ was
\* executed before.
EveryRequestAcked == <>(\A r \in Requests : Acknowledged(r))
============================================================================
