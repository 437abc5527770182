---------------------------- MODULE ServerProofs ----------------------------
(***************************************************************************)
(* Theorems about the two echo servers, for every buffer size, every stream *)
(* and, in SelectServer, every number of descriptors, connections, bytes    *)
(* and faults.  First the one-client server, then the one with select.      *)
(***************************************************************************)
EXTENDS SelectServer, EchoServer, FiniteSetTheorems, SequenceTheorems,
        WellFoundedInduction, TLAPS

-----------------------------------------------------------------------------
(* The one-client server.                                                   *)

Byte == 0 .. 255

\* n bytes from position a on.
LEMMA PartOf ==
  ASSUME NEW s \in Seq(Byte), NEW a \in Nat, NEW n \in Nat, a + n <= Len(s)
  PROVE  /\ SubSeq(s, a + 1, a + n) \in Seq(Byte)
         /\ Len(SubSeq(s, a + 1, a + n)) = n
         /\ \A k \in 1 .. n : SubSeq(s, a + 1, a + n)[k] = s[a + k]
<1>1. PICK l \in Int : l = a + 1
  OBVIOUS
<1>2. PICK h \in Int : h = a + n
  OBVIOUS
<1>3. \A i \in l .. h : s[i] \in Byte
  BY <1>1, <1>2, LenProperties
<1>4. /\ SubSeq(s, l, h) \in Seq(Byte)
      /\ Len(SubSeq(s, l, h)) = IF l <= h THEN h - l + 1 ELSE 0
      /\ \A i \in 1 .. h - l + 1 : SubSeq(s, l, h)[i] = s[l + i - 1]
  BY <1>3, SubSeqProperties
<1>5. h - l + 1 = n /\ \A k \in 1 .. n : l + k - 1 = a + k
  BY <1>1, <1>2
<1>6. Len(SubSeq(s, l, h)) = n /\ \A k \in 1 .. n : SubSeq(s, l, h)[k] = s[a + k]
  BY <1>4, <1>5
<1>7. QED
  BY <1>1, <1>2, <1>4, <1>6

\* The first n bytes.
LEMMA FrontOf ==
  ASSUME NEW s \in Seq(Byte), NEW n \in Nat, n <= Len(s)
  PROVE  /\ SubSeq(s, 1, n) \in Seq(Byte)
         /\ Len(SubSeq(s, 1, n)) = n
         /\ \A k \in 1 .. n : SubSeq(s, 1, n)[k] = s[k]
<1>1. /\ SubSeq(s, 0 + 1, 0 + n) \in Seq(Byte)
      /\ Len(SubSeq(s, 0 + 1, 0 + n)) = n
      /\ \A k \in 1 .. n : SubSeq(s, 0 + 1, 0 + n)[k] = s[0 + k]
  BY PartOf
<1>2. 0 + 1 = 1 /\ 0 + n = n /\ \A k \in 1 .. n : 0 + k = k
  OBVIOUS
<1>3. QED
  BY <1>1, <1>2

EchoType ==
  /\ statement \in {"socket", "setsockopt", "bind", "listen", "accept",
                    "recv", "send", "cleanup", "returned"}
  /\ server_fd \in {"none", "open", "closed"}
  /\ client_fd \in {"none", "open", "closed"}
  /\ exit_status \in {0, 1}
  /\ client \in {"connected", "closed", "reset"}
  /\ buffer \in Seq(Byte) /\ echoed \in Seq(Byte)
  /\ sent \in Nat /\ received \in Nat /\ written \in Nat

\* The positions: of the bytes received, those of the buffer that are not sent
\* yet are the ones that the echo lacks.
EchoCounts ==
  /\ written <= Len(Stream) /\ received <= written
  /\ Len(buffer) < ECHO_BUFFER_SIZE /\ Len(buffer) <= received
  /\ sent <= Len(buffer)
  /\ Len(echoed) = received - Len(buffer) + sent

\* The bytes at these positions.
EchoBytes ==
  /\ \A k \in 1 .. Len(buffer) : buffer[k] = Stream[received - Len(buffer) + k]
  /\ \A k \in 1 .. Len(echoed) : echoed[k] = Stream[k]

\* Where main is.
EchoControl ==
  /\ statement \notin {"send", "cleanup", "returned"} => sent = Len(buffer)
  /\ statement \notin {"cleanup", "returned"} => exit_status = 1
  /\ exit_status = 0 => client = "closed" /\ received = written /\ sent = Len(buffer)
  /\ statement = "returned" => "open" \notin {server_fd, client_fd}

EchoInv == EchoType /\ EchoCounts /\ EchoBytes /\ EchoControl

\* Nothing is received or sent before the first recv.
LEMMA EchoInitInv == EchoInit => EchoInv
<1>1. <<>> \in Seq(Byte) /\ Len(<<>>) = 0
  OBVIOUS
<1>2. Len(Stream) \in Nat
  BY EchoServerAssumption
<1>3. EchoInit => EchoType /\ EchoControl
  BY <1>1 DEF EchoInit, EchoType, EchoControl
<1>4. EchoInit => EchoCounts
  <2>1. PICK l \in Nat : l = Len(Stream)
    BY <1>2
  <2>2. 0 <= l /\ 0 < ECHO_BUFFER_SIZE /\ 0 <= 0 /\ 0 = 0 - 0 + 0
    BY EchoServerAssumption
  <2>3. QED
    BY <1>1, <2>1, <2>2 DEF EchoInit, EchoCounts
<1>5. EchoInit => EchoBytes
  BY <1>1 DEF EchoInit, EchoBytes
<1>6. QED
  BY <1>3, <1>4, <1>5 DEF EchoInv

\* A step that leaves the bytes alone: set-up, a failure, the cleanup.
LEMMA EchoQuietSteps ==
  ASSUME EchoInv, SetupStep \/ SetupFails \/ EchoRecvFails \/ EchoSendFails \/ cleanup
  PROVE  EchoInv'
<1>1. UNCHANGED <<buffer, sent, exit_status, received, echoed, written, client>>
  BY DEF SetupStep, SetupFails, EchoRecvFails, EchoSendFails, cleanup, locals, peer
<1>2. EchoCounts' /\ EchoBytes'
  BY <1>1 DEF EchoInv, EchoCounts, EchoBytes
<1>3. CASE SetupStep
  <2>1. PICK i \in 1 .. 5 : /\ statement = Setup[i]
                            /\ statement' = IF i = 5 THEN "recv" ELSE Setup[i + 1]
    BY <1>3 DEF SetupStep, Setup
  <2>2. /\ statement \in {"socket", "setsockopt", "bind", "listen", "accept"}
        /\ statement' \in {"setsockopt", "bind", "listen", "accept", "recv"}
    BY <2>1 DEF Setup
  <2>3. server_fd' \in {"none", "open", "closed"} /\ client_fd' \in {"none", "open", "closed"}
    BY <1>3 DEF SetupStep, EchoInv, EchoType
  <2>4. EchoType' /\ EchoControl'
    BY <1>1, <2>2, <2>3 DEF EchoInv, EchoType, EchoControl
  <2>5. QED
    BY <1>2, <2>4 DEF EchoInv
<1>4. CASE SetupFails \/ EchoRecvFails \/ EchoSendFails
  <2>1. statement' = "cleanup" /\ UNCHANGED <<server_fd, client_fd>>
    BY <1>4 DEF SetupFails, EchoRecvFails, EchoSendFails, locals
  <2>2. EchoType' /\ EchoControl'
    BY <1>1, <2>1 DEF EchoInv, EchoType, EchoControl
  <2>3. QED
    BY <1>2, <2>2 DEF EchoInv
<1>5. CASE cleanup
  <2>1. statement = "cleanup" /\ statement' = "returned"
    BY <1>5 DEF cleanup
  <2>2. server_fd' \in {"none", "closed"} /\ client_fd' \in {"none", "closed"}
    BY <1>5 DEF cleanup, ClosedFd
  <2>3. EchoType' /\ EchoControl'
    BY <1>1, <2>1, <2>2 DEF EchoInv, EchoType, EchoControl
  <2>4. QED
    BY <1>2, <2>3 DEF EchoInv
<1>6. QED
  BY <1>3, <1>4, <1>5

\* A recv takes the next bytes of the stream into a buffer that was sent.
LEMMA EchoRecvStep ==
  ASSUME EchoInv, EchoRecv
  PROVE  EchoInv'
<1>1. PICK n \in 1 .. ECHO_BUFFER_SIZE - 1 :
        /\ received + n <= written
        /\ buffer' = SubSeq(Stream, received + 1, received + n)
        /\ received' = received + n
  BY DEF EchoRecv
<1>2. /\ sent' = 0 /\ statement' = "send" /\ statement = "recv"
      /\ UNCHANGED <<server_fd, client_fd, exit_status, echoed, written, client>>
  BY DEF EchoRecv, peer
<1>3. /\ n \in Nat /\ n < ECHO_BUFFER_SIZE /\ Stream \in Seq(Byte) /\ Len(Stream) \in Nat
      /\ received \in Nat /\ written \in Nat /\ written <= Len(Stream)
  BY EchoServerAssumption DEF EchoInv, EchoType, EchoCounts, Byte
<1>4. PICK b \in Seq(Byte) : b = buffer'
  <2>1. received + n <= Len(Stream)
    BY <1>1, <1>3
  <2>2. SubSeq(Stream, received + 1, received + n) \in Seq(Byte)
    BY <2>1, <1>3, PartOf
  <2>3. QED
    BY <2>2, <1>1
<1>5. Len(b) = n /\ \A k \in 1 .. n : b[k] = Stream[received + k]
  <2>1. received + n <= Len(Stream)
    BY <1>1, <1>3
  <2>2. /\ Len(SubSeq(Stream, received + 1, received + n)) = n
        /\ \A k \in 1 .. n : SubSeq(Stream, received + 1, received + n)[k] = Stream[received + k]
    BY <2>1, <1>3, PartOf
  <2>3. b = SubSeq(Stream, received + 1, received + n)
    BY <1>1, <1>4
  <2>4. QED
    BY <2>2, <2>3
<1>6. EchoType'
  BY <1>1, <1>2, <1>3, <1>4 DEF EchoInv, EchoType
<1>7. EchoCounts'
  <2>1. Len(echoed) = received
    <3>1. sent = Len(buffer) /\ Len(buffer) \in Nat
      BY <1>2 DEF EchoInv, EchoType, EchoControl
    <3>2. Len(echoed) = received - Len(buffer) + sent
      BY DEF EchoInv, EchoCounts
    <3>3. QED
      BY <1>3, <3>1, <3>2
  <2>2. Len(echoed') = received' - Len(buffer') + sent'
    BY <1>1, <1>2, <1>3, <1>4, <1>5, <2>1
  <2>3. QED
    BY <2>2, <1>1, <1>2, <1>3, <1>4, <1>5 DEF EchoInv, EchoCounts
<1>8. EchoBytes'
  <2>1. \A k \in 1 .. n : received' - Len(buffer') + k = received + k
    BY <1>1, <1>3, <1>4, <1>5
  <2>2. \A k \in 1 .. Len(buffer') : buffer'[k] = Stream[received' - Len(buffer') + k]
    BY <2>1, <1>4, <1>5
  <2>3. QED
    BY <2>2, <1>2 DEF EchoInv, EchoBytes
<1>9. EchoControl'
  BY <1>2 DEF EchoInv, EchoControl
<1>10. QED
  BY <1>6, <1>7, <1>8, <1>9 DEF EchoInv

\* A send appends the next bytes of the buffer to the echo.
LEMMA EchoSendStep ==
  ASSUME EchoInv, send_all
  PROVE  EchoInv'
<1>1. PICK n \in 1 .. Len(buffer) - sent :
        /\ echoed' = echoed \o SubSeq(buffer, sent + 1, sent + n)
        /\ sent' = sent + n
  BY DEF send_all
<1>2. /\ statement = "send"
      /\ statement' = IF sent' < Len(buffer) THEN "send" ELSE "recv"
      /\ UNCHANGED <<server_fd, client_fd, buffer, exit_status, received, written, client>>
  BY DEF send_all, peer
<1>3. /\ buffer \in Seq(Byte) /\ echoed \in Seq(Byte) /\ Len(buffer) \in Nat
      /\ sent \in Nat /\ received \in Nat /\ written \in Nat
      /\ n \in Nat /\ sent + n <= Len(buffer) /\ Len(echoed) \in Nat
      /\ Len(echoed) = received - Len(buffer) + sent
  BY <1>1 DEF EchoInv, EchoType, EchoCounts
<1>4. PICK p \in Seq(Byte) : p = SubSeq(buffer, sent + 1, sent + n)
  BY <1>3, PartOf
<1>5. Len(p) = n /\ \A k \in 1 .. n : p[k] = buffer[sent + k]
  BY <1>3, <1>4, PartOf
<1>6. PICK e \in Seq(Byte) : e = echoed \o p
  BY <1>3, ConcatProperties
<1>7. /\ Len(e) = Len(echoed) + n
      /\ \A k \in 1 .. Len(echoed) + n :
            e[k] = IF k <= Len(echoed) THEN echoed[k] ELSE p[k - Len(echoed)]
  BY <1>3, <1>5, <1>6, ConcatProperties
<1>8. echoed' = e
  BY <1>1, <1>4, <1>6
<1>9. EchoType'
  BY <1>1, <1>2, <1>3, <1>8 DEF EchoInv, EchoType
<1>10. EchoCounts'
  <2>1. PICK l \in Nat : l = Len(buffer)
    BY <1>3
  <2>2. received - l + (sent + n) = (received - l + sent) + n
    BY <1>3
  <2>3. Len(echoed') = received' - Len(buffer') + sent' /\ sent' <= Len(buffer')
    BY <1>1, <1>2, <1>3, <1>7, <1>8, <2>1, <2>2
  <2>4. QED
    BY <1>2, <2>3 DEF EchoInv, EchoCounts
<1>11. EchoBytes'
  <2>1. ASSUME NEW k \in 1 .. Len(e) PROVE e[k] = Stream[k]
    <3>1. CASE k <= Len(echoed)
      BY <3>1, <1>3, <1>7 DEF EchoInv, EchoBytes
    <3>2. CASE k > Len(echoed)
      <4>1. PICK l \in Nat : l = Len(echoed)
        BY <1>3
      <4>2. PICK b \in Nat : b = Len(buffer)
        BY <1>3
      <4>3. k \in Nat /\ l < k /\ k <= l + n
        BY <3>2, <4>1, <1>7
      <4>4. PICK j \in Nat : j = k - l
        BY <4>3
      <4>5. j \in 1 .. n
        BY <4>3, <4>4
      <4>6. e[k] = p[j]
        BY <4>1, <4>3, <4>4, <1>7
      <4>7. p[j] = buffer[sent + j]
        BY <4>5, <1>5
      <4>8. sent + n <= b /\ l = received - b + sent
        BY <4>1, <4>2, <1>3
      <4>9. sent + j \in 1 .. b /\ received - b + (sent + j) = k
        BY <4>4, <4>5, <4>8, <1>3
      <4>10. buffer[sent + j] = Stream[received - Len(buffer) + (sent + j)]
        BY <4>2, <4>9 DEF EchoInv, EchoBytes
      <4>11. QED
        BY <4>2, <4>6, <4>7, <4>9, <4>10
    <3>3. QED
      BY <3>1, <3>2, <1>3, <1>7
  <2>2. QED
    BY <2>1, <1>2, <1>8 DEF EchoInv, EchoBytes
<1>12. EchoControl'
  BY <1>1, <1>2, <1>3 DEF EchoInv, EchoControl
<1>13. QED
  BY <1>9, <1>10, <1>11, <1>12 DEF EchoInv

\* recv returns 0 when the client has closed and all it wrote was received.
LEMMA EchoEndStep ==
  ASSUME EchoInv, EchoRecvEnd
  PROVE  EchoInv'
<1>1. /\ statement = "recv" /\ client = "closed" /\ received = written
      /\ exit_status' = 0 /\ statement' = "cleanup"
      /\ UNCHANGED <<server_fd, client_fd, buffer, sent, received, echoed, written, client>>
  BY DEF EchoRecvEnd, peer
<1>2. EchoType' /\ EchoControl'
  BY <1>1 DEF EchoInv, EchoType, EchoControl
<1>3. EchoCounts' /\ EchoBytes'
  BY <1>1 DEF EchoInv, EchoCounts, EchoBytes
<1>4. QED
  BY <1>2, <1>3 DEF EchoInv

\* The client writes only while it is connected, so never after main saw its end.
LEMMA EchoClientSteps ==
  ASSUME EchoInv, ClientWrites \/ ClientEnds
  PROVE  EchoInv'
<1>1. /\ client = "connected"
      /\ UNCHANGED <<statement, server_fd, client_fd, buffer, sent, exit_status,
                     received, echoed>>
  BY DEF ClientWrites, ClientEnds, locals
<1>2. /\ client' \in {"connected", "closed", "reset"} /\ written' \in Nat
      /\ written <= written' /\ written' <= Len(Stream)
  BY <1>1, EchoServerAssumption
     DEF ClientWrites, ClientEnds, EchoInv, EchoType, EchoCounts
<1>3. exit_status = 1
  BY <1>1 DEF EchoInv, EchoType, EchoControl
<1>4. EchoType' /\ EchoControl'
  BY <1>1, <1>2, <1>3 DEF EchoInv, EchoType, EchoControl
<1>5. EchoCounts'
  BY <1>1, <1>2 DEF EchoInv, EchoType, EchoCounts
<1>6. EchoBytes'
  BY <1>1 DEF EchoInv, EchoBytes
<1>7. QED
  BY <1>4, <1>5, <1>6 DEF EchoInv

\* Every step keeps the invariant.
LEMMA EchoStep == EchoInv /\ [EchoNext]_echoVars => EchoInv'
<1> SUFFICES ASSUME EchoInv, [EchoNext]_echoVars PROVE EchoInv'
  OBVIOUS
<1>1. CASE EchoNext
  BY <1>1, EchoQuietSteps, EchoRecvStep, EchoSendStep, EchoEndStep, EchoClientSteps
     DEF EchoNext, EchoMain
<1>2. CASE UNCHANGED echoVars
  <2>1. UNCHANGED <<statement, server_fd, client_fd, buffer, sent, exit_status, received,
                    echoed, written, client>>
    BY <1>2 DEF echoVars, locals, peer
  <2>2. QED
    BY <2>1 DEF EchoInv, EchoType, EchoCounts, EchoBytes, EchoControl
<1>3. QED
  BY <1>1, <1>2

\* Two sequences with the same bytes are one.
LEMMA SameBytes ==
  ASSUME NEW s \in Seq(Byte), NEW t \in Seq(Byte), Len(s) = Len(t),
         \A k \in 1 .. Len(s) : s[k] = t[k]
  PROVE  s = t
  OBVIOUS

\* The invariant says what EchoExact says.
LEMMA EchoInvExact == EchoInv => EchoExact
<1> SUFFICES ASSUME EchoInv PROVE EchoExact
  OBVIOUS
<1>1. /\ Stream \in Seq(Byte) /\ Len(Stream) \in Nat
      /\ written \in Nat /\ written <= Len(Stream) /\ echoed \in Seq(Byte)
      /\ Len(echoed) \in Nat /\ Len(echoed) <= written
  BY EchoServerAssumption DEF EchoInv, EchoType, EchoCounts, Byte
<1>2. PICK w \in Seq(Byte) : w = SubSeq(Stream, 1, written)
  BY <1>1, FrontOf
<1>3. Len(w) = written /\ \A k \in 1 .. written : w[k] = Stream[k]
  BY <1>1, <1>2, FrontOf
<1>4. \A k \in 1 .. Len(echoed) : echoed[k] = w[k]
  BY <1>1, <1>3 DEF EchoInv, EchoBytes
<1>5. PICK x \in Seq(Byte) : x = SubSeq(echoed, 1, Len(echoed))
  BY <1>1, FrontOf
<1>6. PICK y \in Seq(Byte) : y = SubSeq(w, 1, Len(echoed))
  BY <1>1, <1>3, FrontOf
<1>7. Len(x) = Len(echoed) /\ \A k \in 1 .. Len(echoed) : x[k] = echoed[k]
  BY <1>1, <1>5, FrontOf
<1>8. Len(y) = Len(echoed) /\ \A k \in 1 .. Len(echoed) : y[k] = w[k]
  BY <1>1, <1>3, <1>6, FrontOf
<1>9. x = y
  BY <1>4, <1>7, <1>8, SameBytes
<1>10. IsPrefix(echoed, SubSeq(Stream, 1, written))
  BY <1>1, <1>2, <1>3, <1>5, <1>6, <1>9 DEF IsPrefix
<1>11. ASSUME exit_status = 0 PROVE client = "closed" /\ echoed = SubSeq(Stream, 1, written)
  <2>1. client = "closed" /\ Len(echoed) = written
    BY <1>11 DEF EchoInv, EchoType, EchoCounts, EchoControl
  <2>2. QED
    BY <2>1, <1>1, <1>2, <1>3, <1>4, SameBytes
<1>12. QED
  BY <1>10, <1>11 DEF EchoInv, EchoCounts, EchoControl, EchoExact

\* The one-client server of day04 (main and send_all) echoes exactly what it was
\* sent, for every stream, every size of the buffer and every split by recv and
\* send; status 0 means that all of it went back, and no socket stays open.
THEOREM EchoIsExact == EchoSpec => []EchoExact
<1>1. EchoSpec => []EchoInv
  BY EchoInitInv, EchoStep, PTL DEF EchoSpec
<1>2. QED
  BY <1>1, EchoInvExact, PTL

-----------------------------------------------------------------------------
(* The server with select.  The library's Max and Min choose an element; that *)
(* there is one to choose needs the least-number principle.                  *)

\* A set of numbers that is not empty has a least one.
LEMMA LeastNat ==
  ASSUME NEW T \in SUBSET Nat, T # {}
  PROVE  \E m \in T : \A k \in T : m <= k
<1>1. PICK R : R = OpToRel(<, Nat)
  OBVIOUS
<1>2. IsWellFoundedOn(R, Nat)
  BY <1>1, NatLessThanWellFounded
<1>3. PICK m \in T : \A k \in T : ~ (<<k, m>> \in R)
  BY <1>2, WFMin
<1>4. ASSUME NEW k \in T PROVE m <= k
  <2>1. ~ (k < m)
    BY <1>1, <1>3 DEF OpToRel
  <2>2. QED
    BY <2>1
<1>5. QED
  BY <1>3, <1>4

\* Max of numbers with a bound.
LEMMA MaxOf ==
  ASSUME NEW S, NEW n \in Nat, S \subseteq 0 .. n, S # {}
  PROVE  Max(S) \in S /\ \A k \in S : k <= Max(S)
<1>1. PICK T \in SUBSET Nat : T = {m \in Nat : \A k \in S : k <= m}
  OBVIOUS
<1>2. n \in T
  BY <1>1
<1>3. PICK m \in T : \A k \in T : m <= k
  BY <1>2, LeastNat
<1>4. m \in S
  <2>1. SUFFICES ASSUME m \notin S PROVE FALSE
    OBVIOUS
  <2>2. m \in Nat /\ \A k \in S : k \in Nat /\ k <= m /\ k # m
    BY <1>1, <1>3, <2>1
  <2>3. PICK k \in S : TRUE
    OBVIOUS
  <2>4. m - 1 \in Nat
    BY <2>2, <2>3
  <2>5. m - 1 \in T
    BY <1>1, <2>2, <2>4
  <2>6. QED
    BY <1>3, <2>2, <2>5
<1>5. m \in S /\ \A y \in S : m >= y
  BY <1>1, <1>3, <1>4
<1>6. Max(S) \in S /\ \A y \in S : Max(S) >= y
  BY <1>5 DEF Max
<1>7. QED
  BY <1>6

\* Min of numbers.
LEMMA MinOf ==
  ASSUME NEW S \in SUBSET Nat, S # {}
  PROVE  Min(S) \in S /\ \A k \in S : Min(S) <= k
<1>1. PICK m \in S : \A k \in S : m <= k
  BY LeastNat
<1>2. QED
  BY <1>1 DEF Min

-----------------------------------------------------------------------------
(* The invariant.                                                           *)

Socket == [unread : Nat, end : {"none", "eof", "reset"}, echoed : Nat]

\* The descriptors that fit into an fd_set; the listening one is the lowest.
ClientFds == FirstFd + 1 .. FD_SETSIZE - 1

SelectType ==
  /\ pc \in {"create", "select", "scan", "send", "exit"}
  /\ socket \in [Open -> Socket]
  /\ Open \subseteq ClientFds
  /\ descriptor \in Nat
  /\ backlog \in Nat

\* What is watched: the listening descriptor and every open client, all of them
\* within an fd_set and none above max_fd.
WatchesAll ==
  pc \in {"select", "scan", "send"} =>
      /\ listen_fd = FirstFd
      /\ master_set = Open \union {FirstFd}
      /\ max_fd \in 0 .. FD_SETSIZE
      /\ \A fd \in master_set : fd <= max_fd

NothingYet == pc = "create" => Open = {}

\* The bits that the scan has still to look at.
Pending == {fd \in read_set : fd >= descriptor}

\* Each of them is watched and readable, and they are as many as counted.
ScanInv ==
  pc \in {"scan", "send"} =>
      /\ read_set \subseteq FirstFd .. FD_SETSIZE
      /\ Pending \subseteq master_set
      /\ \A fd \in Pending : Readable(fd)
      /\ ready_count = Cardinality(Pending)

\* The client that SendAll writes to has been counted off and is open.
SendInv == pc = "send" => Sending \in Open

SelectInv == SelectType /\ WatchesAll /\ NothingYet /\ ScanInv /\ SendInv

\* Facts about the constants and the sets in use.
LEMMA FdFacts ==
  /\ FirstFd \in Nat /\ FD_SETSIZE \in Nat /\ FirstFd < FD_SETSIZE
  /\ ClientFds \subseteq Nat /\ FirstFd \notin ClientFds /\ FD_SETSIZE \notin ClientFds
  /\ \A fd \in ClientFds : FirstFd < fd /\ fd < FD_SETSIZE /\ fd \in 0 .. FD_SETSIZE
  BY SelectServerAssumption DEF ClientFds

\* The bits of a pass are finitely many numbers.
LEMMA PendingFinite ==
  ASSUME NEW S, S \subseteq FirstFd .. FD_SETSIZE
  PROVE  IsFiniteSet(S) /\ Cardinality(S) \in Nat /\ (Cardinality(S) > 0 => S # {})
<1>1. IsFiniteSet(FirstFd .. FD_SETSIZE)
  BY FdFacts, FS_Interval
<1>2. IsFiniteSet(S)
  BY <1>1, FS_Subset
<1>3. Cardinality(S) \in Nat
  BY <1>2, FS_CardinalityType
<1>4. S = {} => Cardinality(S) = 0
  BY FS_EmptySet
<1>5. QED
  BY <1>2, <1>3, <1>4

\* NeverBlocks from the invariant.
LEMMA SelectInvNeverBlocks == SelectInv => NeverBlocks
<1> SUFFICES ASSUME SelectInv, pc = "scan"
             PROVE  /\ Scanning /\ FD_ISSET => Readable(descriptor)
                    /\ ready_count = Cardinality({fd \in read_set : fd >= descriptor})
                    /\ ready_count > 0 => Max(read_set) <= max_fd
  BY DEF NeverBlocks
<1>1. /\ read_set \subseteq FirstFd .. FD_SETSIZE
      /\ Pending \subseteq master_set
      /\ \A fd \in Pending : Readable(fd)
      /\ ready_count = Cardinality(Pending)
      /\ descriptor \in Nat
  BY DEF SelectInv, ScanInv, SelectType
<1>2. FD_ISSET => Readable(descriptor)
  BY <1>1 DEF FD_ISSET, Pending
<1>3. ASSUME ready_count > 0 PROVE Max(read_set) <= max_fd
  <2>1. Pending # {}
    <3>1. Pending \subseteq FirstFd .. FD_SETSIZE
      BY <1>1 DEF Pending
    <3>2. QED
      BY <3>1, <1>1, <1>3, PendingFinite
  <2>2. read_set \subseteq 0 .. FD_SETSIZE /\ read_set # {}
    BY <1>1, <2>1, FdFacts DEF Pending
  <2>3. Max(read_set) \in read_set /\ \A k \in read_set : k <= Max(read_set)
    BY <2>2, FdFacts, MaxOf
  <2>4. PICK p \in Pending : TRUE
    BY <2>1
  <2>5. PICK m \in Nat : m = Max(read_set)
    <3>1. Max(read_set) \in 0 .. FD_SETSIZE
      BY <2>2, <2>3
    <3>2. QED
      BY <3>1
  <2>6. p \in Nat /\ p >= descriptor /\ p <= m
    BY <2>2, <2>3, <2>4, <2>5 DEF Pending
  <2>7. m \in Pending
    BY <1>1, <2>3, <2>5, <2>6 DEF Pending
  <2>8. m <= max_fd
    BY <2>7, <1>1 DEF SelectInv, WatchesAll
  <2>9. QED
    BY <2>5, <2>8
<1>4. QED
  BY <1>1, <1>2, <1>3 DEF Pending

\* A server that has not started satisfies the invariant.
LEMMA SelectInitInv == Init => SelectInv
<1> SUFFICES ASSUME Init PROVE SelectInv
  OBVIOUS
<1>1. Open = {}
  BY DEF Init, Open
<1>2. socket \in [Open -> Socket]
  BY <1>1 DEF Init, Open
<1>3. QED
  BY <1>1, <1>2
     DEF Init, SelectInv, SelectType, WatchesAll, NothingYet, ScanInv, SendInv

-----------------------------------------------------------------------------
(* The steps of the server.                                                 *)

\* What a pending bit needs of a client is there after the step as before.
StillReadable(fd) ==
  /\ fd \in Open'
  /\ socket[fd].unread > 0 \/ socket[fd].end # "none"
       => socket'[fd].unread > 0 \/ socket'[fd].end # "none"

\* A step in the middle of a pass that leaves the bits alone: it is enough that
\* the clients behind them stay.
LEMMA PendingKept ==
  ASSUME SelectInv, pc \in {"scan", "send"},
         UNCHANGED <<read_set, ready_count, listen_fd>>, Pending' = Pending,
         master_set' = Open' \union {FirstFd},
         backlog' \in Nat, backlog' >= backlog,
         \A fd \in Pending : fd \in Open => StillReadable(fd)
  PROVE  ScanInv'
<1>1. /\ read_set \subseteq FirstFd .. FD_SETSIZE
      /\ Pending \subseteq master_set
      /\ \A fd \in Pending : Readable(fd)
      /\ ready_count = Cardinality(Pending)
      /\ listen_fd = FirstFd /\ master_set = Open \union {FirstFd}
      /\ FirstFd \notin Open /\ backlog \in Nat
  BY FdFacts DEF SelectInv, ScanInv, WatchesAll, SelectType
<1>3. ASSUME NEW fd \in Pending PROVE fd \in master_set' /\ Readable(fd)'
  <2>1. CASE fd = FirstFd
    <3>1. backlog > 0
      BY <2>1, <1>1, <1>3 DEF Readable
    <3>2. backlog' > 0
      BY <3>1, <1>1
    <3>3. QED
      BY <2>1, <1>1, <3>2 DEF Readable
  <2>2. CASE fd # FirstFd
    <3>1. fd \in Open /\ (socket[fd].unread > 0 \/ socket[fd].end # "none")
      BY <2>2, <1>1, <1>3 DEF Readable
    <3>2. fd \in Open' /\ (socket'[fd].unread > 0 \/ socket'[fd].end # "none")
      BY <3>1, <1>3 DEF StillReadable
    <3>3. QED
      BY <2>2, <1>1, <3>2 DEF Readable
  <2>3. QED
    BY <2>1, <2>2
<1>4. QED
  BY <1>1, <1>3 DEF ScanInv

\* A set bit is served: it leaves the pending ones, whose clients stay.
LEMMA PendingTaken ==
  ASSUME SelectInv, pc = "scan", TakeBit,
         master_set' = Open' \union {FirstFd},
         backlog' \in Nat, descriptor = FirstFd \/ backlog' = backlog,
         \A fd \in Pending : fd \in Open /\ fd # descriptor => StillReadable(fd)
  PROVE  ScanInv'
<1>1. /\ read_set \subseteq FirstFd .. FD_SETSIZE
      /\ Pending \subseteq master_set
      /\ \A fd \in Pending : Readable(fd)
      /\ ready_count = Cardinality(Pending)
      /\ listen_fd = FirstFd /\ master_set = Open \union {FirstFd}
      /\ FirstFd \notin Open /\ descriptor \in Nat
  BY FdFacts DEF SelectInv, ScanInv, WatchesAll, SelectType
<1>2. /\ descriptor \in read_set /\ descriptor' = descriptor + 1
      /\ ready_count' = ready_count - 1 /\ UNCHANGED <<listen_fd, read_set>>
  BY DEF TakeBit, FD_ISSET
<1>3. descriptor \in Pending
  BY <1>1, <1>2 DEF Pending
<1>4. Pending' = Pending \ {descriptor}
  <2>1. \A fd \in read_set : fd >= descriptor + 1 <=> fd >= descriptor /\ fd # descriptor
    BY <1>1, FdFacts
  <2>2. QED
    BY <2>1, <1>2 DEF Pending
<1>5. ready_count' = Cardinality(Pending')
  <2>1. Pending \subseteq FirstFd .. FD_SETSIZE
    BY <1>1 DEF Pending
  <2>2. IsFiniteSet(Pending)
    BY <2>1, PendingFinite
  <2>3. Cardinality(Pending \ {descriptor}) = Cardinality(Pending) - 1
    BY <2>2, <1>3, FS_RemoveElement
  <2>4. QED
    BY <2>3, <1>1, <1>2, <1>4
<1>6. ASSUME NEW fd \in Pending, fd # descriptor PROVE fd \in master_set' /\ Readable(fd)'
  <2>1. CASE fd = FirstFd
    <3>1. backlog > 0 /\ backlog' = backlog
      BY <2>1, <1>1, <1>6 DEF Readable
    <3>2. QED
      BY <2>1, <1>1, <1>2, <3>1 DEF Readable
  <2>2. CASE fd # FirstFd
    <3>1. fd \in Open /\ (socket[fd].unread > 0 \/ socket[fd].end # "none")
      BY <2>2, <1>1, <1>6 DEF Readable
    <3>2. fd \in Open' /\ (socket'[fd].unread > 0 \/ socket'[fd].end # "none")
      BY <3>1, <1>6 DEF StillReadable
    <3>3. QED
      BY <2>2, <1>1, <1>2, <3>2 DEF Readable
  <2>3. QED
    BY <2>1, <2>2
<1>7. QED
  BY <1>1, <1>2, <1>4, <1>5, <1>6 DEF ScanInv

\* Where main is in the middle of a pass, or waits for select.
LEMMA ServingFacts ==
  ASSUME SelectInv, pc \in {"select", "scan", "send"}
  PROVE  /\ listen_fd = FirstFd /\ master_set = Open \union {FirstFd}
         /\ max_fd \in Nat /\ max_fd <= FD_SETSIZE
         /\ \A fd \in Open : fd \in Nat /\ fd <= max_fd /\ FirstFd < fd
         /\ FirstFd \notin Open /\ FirstFd <= max_fd
         /\ Open \subseteq ClientFds /\ socket \in [Open -> Socket]
         /\ descriptor \in Nat /\ backlog \in Nat
  BY FdFacts DEF SelectInv, SelectType, WatchesAll

\* A step that changes no socket and only moves main within the pass.
LEMMA QuietStep ==
  ASSUME SelectInv, pc \in {"select", "scan", "send"}, pc' \in {"select", "scan"},
         UNCHANGED <<listen_fd, master_set, max_fd, socket>>,
         descriptor' \in Nat, backlog' \in Nat, pc' = "scan" => ScanInv'
  PROVE  SelectInv'
<1>1. Open' = Open
  BY DEF Open
<1>2. SelectType'
  BY <1>1 DEF SelectInv, SelectType
<1>3. WatchesAll'
  BY <1>1 DEF SelectInv, WatchesAll
<1>4. NothingYet' /\ SendInv' /\ ScanInv'
  BY DEF NothingYet, SendInv, ScanInv
<1>5. QED
  BY <1>2, <1>3, <1>4 DEF SelectInv

\* Creating the listening socket keeps the invariant.
LEMMA CreateStep ==
  ASSUME SelectInv, CreateListenSocket
  PROVE  SelectInv'
<1>1. /\ pc = "create" /\ Open = {} /\ Open' = Open
      /\ UNCHANGED <<descriptor, socket, backlog>>
  BY DEF CreateListenSocket, SelectInv, NothingYet, Open
<1>2. pc' \in {"select", "exit"}
  BY DEF CreateListenSocket
<1>3. SelectType'
  BY <1>1, <1>2 DEF SelectInv, SelectType
<1>4. WatchesAll'
  <2>1. CASE pc' = "exit"
    BY <2>1 DEF WatchesAll
  <2>2. CASE pc' = "select"
    <3>1. listen_fd' = FirstFd /\ master_set' = {FirstFd} /\ max_fd' = FirstFd
      BY <2>2 DEF CreateListenSocket
    <3>2. QED
      BY <3>1, <1>1, FdFacts DEF WatchesAll
  <2>3. QED
    BY <1>2, <2>1, <2>2
<1>5. QED
  BY <1>2, <1>3, <1>4 DEF SelectInv, NothingYet, ScanInv, SendInv

\* The pass begins with exactly the readable descriptors.
LEMMA SelectStep ==
  ASSUME SelectInv, Select
  PROVE  SelectInv'
<1>1. PICK ready : /\ ready = {fd \in Watched : Readable(fd)}
                   /\ read_set' = ready /\ ready_count' = Cardinality(ready)
  BY DEF Select
<1>2. /\ pc = "select" /\ pc' = "scan" /\ descriptor' = 0
      /\ UNCHANGED <<listen_fd, master_set, max_fd, unsent, socket, backlog>>
  BY DEF Select
<1>3. ready \subseteq master_set
  BY <1>1 DEF Watched
<1>4. ready \subseteq FirstFd .. FD_SETSIZE
  BY <1>2, <1>3, ServingFacts, FdFacts
<1>5. Pending' = ready
  <2>1. \A fd \in ready : fd >= 0
    BY <1>4, FdFacts
  <2>2. QED
    BY <1>1, <1>2, <2>1 DEF Pending
<1>6. ASSUME NEW fd \in ready PROVE Readable(fd)'
  BY <1>1, <1>2 DEF Readable, Open
<1>7. ScanInv'
  BY <1>1, <1>2, <1>3, <1>4, <1>5, <1>6 DEF ScanInv
<1>8. descriptor' \in Nat /\ backlog' \in Nat
  BY <1>2 DEF SelectInv, SelectType
<1>9. QED
  BY <1>2, <1>7, <1>8, QuietStep

\* A select that fails or is interrupted keeps it.
LEMMA SelectFailsStep ==
  ASSUME SelectInv, SelectFails
  PROVE  SelectInv'
<1>1. pc = "select" /\ UNCHANGED <<master_set, max_fd, descriptor, backlog>>
  BY DEF SelectFails
<1>2. CASE UNCHANGED <<pc, socket, listen_fd>>
  <2>1. descriptor' \in Nat /\ backlog' \in Nat
    BY <1>1 DEF SelectInv, SelectType
  <2>2. QED
    BY <1>1, <1>2, <2>1, QuietStep
<1>3. CASE pc' = "exit" /\ socket' = [fd \in Open \ Watched |-> socket[fd]]
  <2>1. Open' = Open \ Watched
    BY <1>3 DEF Open
  <2>2. socket' \in [Open' -> Socket]
    BY <1>3, <2>1 DEF SelectInv, SelectType
  <2>3. SelectType'
    BY <1>1, <1>3, <2>1, <2>2 DEF SelectInv, SelectType
  <2>4. QED
    BY <1>3, <2>3 DEF SelectInv, WatchesAll, NothingYet, ScanInv, SendInv
<1>4. QED
  BY <1>2, <1>3 DEF SelectFails

\* A descriptor that is not ready is passed over.
LEMMA SkipStep ==
  ASSUME SelectInv, Skip
  PROVE  SelectInv'
<1>1. /\ pc = "scan" /\ descriptor \notin read_set /\ descriptor' = descriptor + 1
      /\ UNCHANGED <<pc, listen_fd, master_set, read_set, max_fd, ready_count, socket, backlog>>
  BY DEF Skip, Scanning, FD_ISSET
<1>2. /\ read_set \subseteq FirstFd .. FD_SETSIZE /\ descriptor \in Nat /\ backlog \in Nat
  BY <1>1 DEF SelectInv, ScanInv, SelectType
<1>3. Pending' = Pending
  <2>1. \A fd \in read_set : fd >= descriptor + 1 <=> fd >= descriptor
    BY <1>1, <1>2, FdFacts
  <2>2. QED
    BY <1>1, <2>1 DEF Pending
<1>4. Open' = Open /\ \A fd \in Pending : fd \in Open => StillReadable(fd)
  BY <1>1 DEF Open, StillReadable
<1>5. backlog' \in Nat /\ backlog' >= backlog /\ master_set' = Open' \union {FirstFd}
  BY <1>1, <1>2, <1>4, ServingFacts
<1>6. ScanInv'
  BY <1>1, <1>3, <1>4, <1>5, PendingKept
<1>7. QED
  BY <1>1, <1>2, <1>6, QuietStep

\* The scan ends when ready_count is used up.
LEMMA EndScanStep ==
  ASSUME SelectInv, EndScan
  PROVE  SelectInv'
<1>1. /\ pc = "scan" /\ pc' = "select"
      /\ UNCHANGED <<listen_fd, master_set, max_fd, descriptor, socket, backlog>>
  BY DEF EndScan, server
<1>2. descriptor' \in Nat /\ backlog' \in Nat
  BY <1>1 DEF SelectInv, SelectType
<1>3. QED
  BY <1>1, <1>2, QuietStep

\* An accept or a recv that was interrupted: the bit is gone, nothing else.
LEMMA InterruptedStep ==
  ASSUME SelectInv, AcceptFails \/ RecvInterrupted
  PROVE  SelectInv'
<1>1. /\ TakeBit /\ pc = "scan"
      /\ UNCHANGED <<pc, listen_fd, master_set, max_fd, socket, backlog>>
  BY DEF AcceptFails, RecvInterrupted, TakeBit, Scanning
<1>2. descriptor' = descriptor + 1 /\ descriptor \in Nat /\ backlog \in Nat
  BY <1>1 DEF TakeBit, SelectInv, SelectType
<1>3. Open' = Open /\ \A fd \in Pending : fd \in Open => StillReadable(fd)
  BY <1>1 DEF Open, StillReadable
<1>4. master_set' = Open' \union {FirstFd}
  BY <1>1, <1>3, ServingFacts
<1>5. ScanInv'
  BY <1>1, <1>2, <1>3, <1>4, PendingTaken
<1>6. QED
  BY <1>1, <1>2, <1>5, QuietStep

\* A step that changes one open socket and no descriptor.
LEMMA OneSocketStep ==
  ASSUME SelectInv, pc \in {"select", "scan", "send"}, pc' \in {"select", "scan", "send"},
         NEW fd \in Open, NEW new \in Socket,
         socket' = [socket EXCEPT ![fd] = new],
         UNCHANGED <<listen_fd, master_set, max_fd, backlog>>,
         descriptor' \in Nat, ScanInv', SendInv'
  PROVE  SelectInv'
<1>1. Open' = Open /\ socket' \in [Open' -> Socket]
  BY ServingFacts DEF Open
<1>2. SelectType'
  BY <1>1 DEF SelectInv, SelectType
<1>3. WatchesAll'
  BY <1>1 DEF SelectInv, WatchesAll
<1>4. NothingYet'
  BY DEF NothingYet
<1>5. QED
  BY <1>2, <1>3, <1>4 DEF SelectInv

\* accept opens a number that no pending bit stands for: those are all in use.
LEMMA AcceptStep ==
  ASSUME SelectInv, Accept
  PROVE  SelectInv'
<1>1. /\ TakeBit /\ pc = "scan" /\ descriptor = listen_fd /\ backlog > 0
      /\ backlog' = backlog - 1 /\ UNCHANGED pc
  BY DEF Accept, TakeBit, Scanning
<1>2. /\ listen_fd = FirstFd /\ listen_fd' = listen_fd /\ descriptor' = descriptor + 1
      /\ descriptor' \in Nat /\ backlog' \in Nat
      /\ master_set = Open \union {FirstFd} /\ socket \in [Open -> Socket]
      /\ Open \subseteq ClientFds
  BY <1>1, ServingFacts DEF TakeBit
<1>3. CASE LowestFree >= FD_SETSIZE
  <2>1. UNCHANGED <<socket, master_set, max_fd>>
    BY <1>3 DEF Accept
  <2>2. Open' = Open /\ \A fd \in Pending : fd \in Open => StillReadable(fd)
    BY <2>1 DEF Open, StillReadable
  <2>3. ScanInv'
    BY <1>1, <1>2, <2>1, <2>2, PendingTaken
  <2>4. QED
    BY <1>1, <1>2, <2>1, <2>3, QuietStep
<1>4. CASE ~(LowestFree >= FD_SETSIZE)
  <2>1. PICK c : c = LowestFree
    OBVIOUS
  <2>2. /\ socket' = [fd \in Open \union {c} |-> IF fd = c THEN NewSocket ELSE socket[fd]]
        /\ master_set' = master_set \union {c}
        /\ max_fd' = IF c > max_fd THEN c ELSE max_fd
    BY <1>4, <2>1 DEF Accept, Raised
  <2>3. c \in ClientFds /\ c \notin Open
    <3>1. PICK S : S = (FirstFd .. FD_SETSIZE) \ (Open \union {listen_fd})
      OBVIOUS
    <3>2. S \subseteq Nat /\ FD_SETSIZE \in S
      BY <3>1, <1>2, FdFacts
    <3>3. c \in S
      BY <3>1, <3>2, <2>1, MinOf DEF LowestFree
    <3>4. c \in Nat /\ c < FD_SETSIZE
      BY <3>2, <3>3, <2>1, <1>4, FdFacts
    <3>5. QED
      BY <3>1, <3>3, <3>4, <1>2, FdFacts DEF ClientFds
  <2>4. Open' = Open \union {c} /\ socket' \in [Open' -> Socket]
    <3>1. NewSocket \in Socket
      BY DEF NewSocket, Socket
    <3>2. Open' = Open \union {c}
      BY <2>2 DEF Open
    <3>3. QED
      BY <2>2, <1>2, <3>1, <3>2
  <2>5. \A fd \in Open : StillReadable(fd)
    BY <2>2, <2>3, <2>4 DEF StillReadable
  <2>6. master_set' = Open' \union {FirstFd}
    BY <1>2, <2>2, <2>4
  <2>7. ScanInv'
    BY <1>1, <1>2, <2>5, <2>6, PendingTaken
  <2>8. SelectType'
    BY <1>1, <1>2, <2>3, <2>4 DEF SelectInv, SelectType
  <2>9. WatchesAll'
    <3>1. c \in Nat /\ c <= FD_SETSIZE /\ max_fd \in Nat /\ max_fd <= FD_SETSIZE
      BY <2>3, <1>1, FdFacts, ServingFacts
    <3>2. /\ max_fd' \in 0 .. FD_SETSIZE /\ c <= max_fd' /\ max_fd <= max_fd'
      BY <3>1, <2>2, FdFacts
    <3>3. \A fd \in Open : fd \in Nat /\ fd <= max_fd
      BY <1>1, ServingFacts
    <3>4. FirstFd \in Nat /\ FirstFd <= max_fd
      BY <1>1, FdFacts, ServingFacts
    <3>5. \A fd \in master_set' : fd <= max_fd'
      BY <2>4, <2>6, <3>1, <3>2, <3>3, <3>4
    <3>6. QED
      BY <1>2, <2>6, <3>2, <3>5 DEF WatchesAll
  <2>10. QED
    BY <1>1, <2>7, <2>8, <2>9 DEF SelectInv, NothingYet, SendInv
<1>5. QED
  BY <1>3, <1>4

\* recv takes bytes from the client whose bit was counted off.
LEMMA RecvStep ==
  ASSUME SelectInv, Recv
  PROVE  SelectInv'
<1>1. /\ TakeBit /\ pc = "scan" /\ pc' = "send" /\ descriptor \in Open
      /\ UNCHANGED <<listen_fd, master_set, max_fd, backlog>>
  BY DEF Recv, TakeBit, Scanning
<1>2. /\ descriptor' = descriptor + 1 /\ descriptor \in Nat /\ backlog \in Nat
      /\ master_set = Open \union {FirstFd} /\ socket \in [Open -> Socket]
  BY <1>1, ServingFacts DEF TakeBit
<1>3. PICK r \in 1 .. BUFFER_SIZE :
         /\ r <= socket[descriptor].unread
         /\ socket' = [socket EXCEPT ![descriptor].unread = @ - r]
  BY DEF Recv
<1>4. PICK old \in Socket : old = socket[descriptor]
  BY <1>1, <1>2
<1>5. PICK new : new = [old EXCEPT !.unread = @ - r]
  OBVIOUS
<1>6. new \in Socket
  <2>1. r \in Nat /\ old.unread \in Nat /\ r <= old.unread
    BY <1>3, <1>4, SelectServerAssumption DEF Socket
  <2>2. old.unread - r \in Nat
    BY <2>1
  <2>3. QED
    BY <2>2, <1>4, <1>5 DEF Socket
<1>7. socket' = [socket EXCEPT ![descriptor] = new]
  BY <1>3, <1>4, <1>5
<1>8. Open' = Open /\ \A fd \in Open : fd # descriptor => StillReadable(fd)
  BY <1>2, <1>7 DEF Open, StillReadable
<1>9. ScanInv'
  BY <1>1, <1>2, <1>8, PendingTaken
<1>10. SendInv'
  <2>1. Sending' = descriptor
    BY <1>2 DEF Sending
  <2>2. QED
    BY <2>1, <1>1, <1>8 DEF SendInv
<1>11. descriptor' \in Nat /\ pc' \in {"select", "scan", "send"}
  BY <1>1, <1>2
<1>12. PICK fd \in Open : fd = descriptor
  BY <1>1
<1>13. socket' = [socket EXCEPT ![fd] = new]
  BY <1>7, <1>12
<1>14. QED
  BY <1>1, <1>6, <1>9, <1>10, <1>11, <1>13, OneSocketStep

\* Removing a client: FD_CLR, close, and the new max_fd is above all that stay.
LEMMA RemoveStep ==
  ASSUME SelectInv, pc \in {"scan", "send"}, pc' = "scan",
         NEW fd \in Open, RemoveDescriptor(fd),
         UNCHANGED <<listen_fd, backlog>>, descriptor' \in Nat, ScanInv'
  PROVE  SelectInv'
<1>1. /\ listen_fd = FirstFd /\ master_set = Open \union {FirstFd}
      /\ max_fd \in Nat /\ max_fd <= FD_SETSIZE /\ FirstFd \notin Open
      /\ \A f \in master_set : f \in Nat /\ f <= max_fd
      /\ Open \subseteq ClientFds /\ socket \in [Open -> Socket] /\ backlog \in Nat
  BY ServingFacts, FdFacts
<1>2. /\ master_set' = master_set \ {fd}
      /\ socket' = [f \in Open \ {fd} |-> socket[f]]
      /\ max_fd' = IF fd = max_fd THEN Max({0} \union {f \in master_set' : f <= max_fd})
                                  ELSE max_fd
  BY DEF RemoveDescriptor
<1>3. Open' = Open \ {fd} /\ socket' \in [Open' -> Socket]
  BY <1>1, <1>2 DEF Open
<1>4. master_set' = Open' \union {FirstFd}
  BY <1>1, <1>2, <1>3
<1>5. max_fd' \in 0 .. FD_SETSIZE /\ \A f \in master_set' : f <= max_fd'
  <2>1. CASE fd # max_fd
    BY <2>1, <1>1, <1>2, FdFacts
  <2>2. CASE fd = max_fd
    <3>1. PICK S : S = {0} \union {f \in master_set' : f <= max_fd}
      OBVIOUS
    <3>2. S \subseteq 0 .. max_fd /\ S # {} /\ master_set' \subseteq S
      BY <3>1, <1>1, <1>2
    <3>3. Max(S) \in S /\ \A k \in S : k <= Max(S)
      BY <3>2, <1>1, MaxOf
    <3>4. max_fd' = Max(S)
      BY <2>2, <1>2, <3>1
    <3>5. max_fd' \in 0 .. max_fd
      BY <3>2, <3>3, <3>4
    <3>6. max_fd' \in 0 .. FD_SETSIZE
      BY <3>5, <1>1, FdFacts
    <3>7. QED
      BY <3>2, <3>3, <3>4, <3>6
  <2>3. QED
    BY <2>1, <2>2
<1>6. SelectType'
  BY <1>1, <1>3 DEF SelectInv, SelectType
<1>7. WatchesAll'
  BY <1>1, <1>4, <1>5 DEF WatchesAll
<1>8. QED
  BY <1>6, <1>7 DEF SelectInv, NothingYet, SendInv

\* A client that left or failed is removed.
LEMMA RecvEndStep ==
  ASSUME SelectInv, RecvEnd
  PROVE  SelectInv'
<1>1. /\ TakeBit /\ pc = "scan" /\ pc' = "scan" /\ descriptor \in Open
      /\ RemoveDescriptor(descriptor) /\ UNCHANGED <<listen_fd, backlog>>
  BY DEF RecvEnd, TakeBit, Scanning
<1>2. /\ descriptor' = descriptor + 1 /\ descriptor \in Nat /\ backlog \in Nat
      /\ master_set = Open \union {FirstFd} /\ FirstFd \notin Open
  BY <1>1, ServingFacts DEF TakeBit
<1>3. socket' = [f \in Open \ {descriptor} |-> socket[f]]
  BY <1>1 DEF RemoveDescriptor
<1>4. Open' = Open \ {descriptor}
  BY <1>3 DEF Open
<1>5. \A fd \in Open : fd # descriptor => StillReadable(fd)
  BY <1>3, <1>4 DEF StillReadable
<1>6. master_set' = Open' \union {FirstFd}
  BY <1>1, <1>2, <1>4 DEF RemoveDescriptor
<1>7. ScanInv'
  BY <1>1, <1>2, <1>5, <1>6, PendingTaken
<1>8. QED
  BY <1>1, <1>2, <1>7, RemoveStep

\* What SendAll writes to is behind the scan.
LEMMA SendingFacts ==
  ASSUME SelectInv, pc = "send"
  PROVE  /\ Sending \in Open /\ Sending \notin Pending
         /\ socket \in [Open -> Socket]
<1>1. Sending \in Open /\ descriptor \in Nat
  BY DEF SelectInv, SendInv, SelectType
<1>2. Sending < descriptor /\ Sending \in Int
  BY <1>1 DEF Sending
<1>3. QED
  BY <1>1, <1>2 DEF Pending, SelectInv, SelectType

\* SendAll sends a part.
LEMMA SendSomeStep ==
  ASSUME SelectInv, SendSome
  PROVE  SelectInv'
<1>1. /\ pc = "send" /\ pc' \in {"scan", "send"}
      /\ UNCHANGED <<listen_fd, master_set, read_set, max_fd, ready_count, descriptor, backlog>>
  BY DEF SendSome, server
<1>2. /\ descriptor \in Nat /\ backlog \in Nat /\ master_set = Open \union {FirstFd}
  BY <1>1, ServingFacts
<1>3. PICK n \in 1 .. unsent :
         /\ socket[Sending].echoed + n <= Window
         /\ socket' = [socket EXCEPT ![Sending].echoed = @ + n]
  BY DEF SendSome
<1>4. PICK fd \in Open : fd = Sending /\ fd \notin Pending /\ socket \in [Open -> Socket]
  BY <1>1, SendingFacts
<1>5. PICK old \in Socket : old = socket[fd]
  BY <1>4
<1>6. PICK new : new = [old EXCEPT !.echoed = @ + n]
  OBVIOUS
<1>7. new \in Socket
  <2>1. n \in Nat /\ old.echoed \in Nat
    BY <1>3, <1>5 DEF Socket
  <2>2. old.echoed + n \in Nat
    BY <2>1
  <2>3. QED
    BY <2>2, <1>5, <1>6 DEF Socket
<1>8. socket' = [socket EXCEPT ![fd] = new]
  BY <1>3, <1>4, <1>5, <1>6
<1>9. Open' = Open /\ \A f \in Open : f # fd => StillReadable(f)
  BY <1>4, <1>8 DEF Open, StillReadable
<1>10. Pending' = Pending /\ Sending' = Sending
  BY <1>1 DEF Pending, Sending
<1>11. ScanInv'
  <2>1. \A f \in Pending : f \in Open => StillReadable(f)
    BY <1>4, <1>9
  <2>2. backlog' \in Nat /\ backlog' >= backlog /\ master_set' = Open' \union {FirstFd}
    BY <1>1, <1>2, <1>9
  <2>3. QED
    BY <1>1, <1>10, <2>1, <2>2, PendingKept
<1>12. SendInv'
  BY <1>4, <1>9, <1>10 DEF SendInv
<1>13. QED
  BY <1>1, <1>2, <1>7, <1>8, <1>11, <1>12, OneSocketStep

\* A client that cannot be sent to is removed.
LEMMA SendFailsStep ==
  ASSUME SelectInv, SendFails
  PROVE  SelectInv'
<1>1. /\ pc = "send" /\ pc' = "scan" /\ RemoveDescriptor(Sending)
      /\ UNCHANGED <<listen_fd, read_set, ready_count, descriptor, backlog>>
  BY DEF SendFails
<1>2. /\ descriptor \in Nat /\ backlog \in Nat /\ master_set = Open \union {FirstFd}
      /\ FirstFd \notin Open
  BY <1>1, ServingFacts
<1>3. PICK fd \in Open : fd = Sending /\ fd \notin Pending
  BY <1>1, SendingFacts
<1>4. /\ socket' = [f \in Open \ {fd} |-> socket[f]] /\ master_set' = master_set \ {fd}
  BY <1>1, <1>3 DEF RemoveDescriptor
<1>5. Open' = Open \ {fd}
  BY <1>4 DEF Open
<1>6. \A f \in Open : f # fd => StillReadable(f)
  BY <1>4, <1>5 DEF StillReadable
<1>7. Pending' = Pending
  BY <1>1 DEF Pending
<1>8. ScanInv'
  <2>1. \A f \in Pending : f \in Open => StillReadable(f)
    BY <1>3, <1>6
  <2>2. backlog' \in Nat /\ backlog' >= backlog /\ master_set' = Open' \union {FirstFd}
    BY <1>1, <1>2, <1>3, <1>4, <1>5
  <2>3. QED
    BY <1>1, <1>7, <2>1, <2>2, PendingKept
<1>9. RemoveDescriptor(fd)
  BY <1>1, <1>3
<1>10. QED
  BY <1>1, <1>2, <1>8, <1>9, RemoveStep

-----------------------------------------------------------------------------
(* The clients.                                                             *)

\* Whatever a client does leaves the bit that select set for it justified.
LEMMA ClientSocketStep ==
  ASSUME SelectInv, NEW fd \in Open, NEW new \in Socket,
         socket' = [socket EXCEPT ![fd] = new],
         socket[fd].unread > 0 \/ socket[fd].end # "none"
            => new.unread > 0 \/ new.end # "none",
         UNCHANGED <<pc, server, backlog>>
  PROVE  SelectInv'
<1>1. UNCHANGED <<listen_fd, master_set, read_set, max_fd, ready_count, descriptor>>
  BY DEF server
<1>2. socket \in [Open -> Socket] /\ descriptor \in Nat /\ backlog \in Nat
  BY DEF SelectInv, SelectType
<1>3. Open' = Open /\ socket' \in [Open' -> Socket]
  BY <1>2 DEF Open
<1>4. \A f \in Open : StillReadable(f)
  BY <1>2, <1>3 DEF StillReadable
<1>5. CASE pc \in {"create", "exit"}
  <2>1. pc = "exit"
    BY <1>5 DEF SelectInv, NothingYet
  <2>2. SelectType'
    BY <1>1, <1>3 DEF SelectInv, SelectType
  <2>3. QED
    BY <2>1, <2>2 DEF SelectInv, WatchesAll, NothingYet, ScanInv, SendInv
<1>6. CASE pc \in {"select", "scan", "send"}
  <2>1. ScanInv'
    <3>1. CASE pc = "select"
      BY <3>1 DEF ScanInv
    <3>2. CASE pc \in {"scan", "send"}
      <4>1. Pending' = Pending
        BY <1>1 DEF Pending
      <4>2. backlog' \in Nat /\ backlog' >= backlog /\ master_set' = Open' \union {FirstFd}
        BY <1>1, <1>2, <1>3, <1>6, ServingFacts
      <4>3. QED
        BY <3>2, <1>1, <1>4, <4>1, <4>2, PendingKept
    <3>3. QED
      BY <1>6, <3>1, <3>2
  <2>2. SendInv'
    BY <1>1, <1>3 DEF SelectInv, SendInv, Sending
  <2>3. descriptor' \in Nat /\ pc' \in {"select", "scan", "send"}
    BY <1>1, <1>2, <1>6
  <2>4. QED
    BY <1>1, <1>6, <2>1, <2>2, <2>3, OneSocketStep
<1>7. QED
  BY <1>5, <1>6 DEF SelectInv, SelectType

\* A client connects.
LEMMA ConnectStep ==
  ASSUME SelectInv, Connect
  PROVE  SelectInv'
<1>1. /\ backlog' = backlog + 1
      /\ UNCHANGED <<pc, listen_fd, master_set, read_set, max_fd, ready_count, descriptor, socket>>
  BY DEF Connect, server
<1>2. backlog \in Nat /\ backlog' \in Nat /\ backlog' >= backlog /\ Open' = Open
  BY <1>1 DEF SelectInv, SelectType, Open
<1>3. SelectType' /\ WatchesAll' /\ NothingYet' /\ SendInv'
  BY <1>1, <1>2 DEF SelectInv, SelectType, WatchesAll, NothingYet, SendInv, Sending
<1>4. CASE pc \in {"scan", "send"}
  <2>1. Pending' = Pending /\ \A fd \in Open : StillReadable(fd)
    BY <1>1, <1>2 DEF Pending, StillReadable
  <2>2. master_set' = Open' \union {FirstFd}
    BY <1>1, <1>2, <1>4, ServingFacts
  <2>3. ScanInv'
    BY <1>1, <1>2, <1>4, <2>1, <2>2, PendingKept
  <2>4. QED
    BY <1>3, <2>3 DEF SelectInv
<1>5. CASE pc \notin {"scan", "send"}
  BY <1>1, <1>3, <1>5 DEF SelectInv, ScanInv
<1>6. QED
  BY <1>4, <1>5

\* A client sends, reads, leaves or resets.
LEMMA ClientFdStep ==
  ASSUME SelectInv, NEW fd \in Open,
         ClientSends(fd) \/ ClientLeaves(fd) \/ ClientResets(fd) \/ ClientReads(fd)
  PROVE  SelectInv'
<1>1. PICK old \in Socket : old = socket[fd]
  BY DEF SelectInv, SelectType
<1>2. socket \in [Open -> Socket] /\ UNCHANGED <<pc, server, backlog>>
  BY DEF SelectInv, SelectType, ClientSends, ClientLeaves, ClientResets, ClientReads
<1>3. old.unread \in Nat /\ old.echoed \in Nat /\ old.end \in {"none", "eof", "reset"}
  BY <1>1 DEF Socket
<1>4. CASE ClientSends(fd)
  <2>1. PICK new : new = [old EXCEPT !.unread = @ + 1]
    OBVIOUS
  <2>2. new \in Socket /\ new.unread > 0
    BY <2>1, <1>1, <1>3 DEF Socket
  <2>3. socket' = [socket EXCEPT ![fd] = new]
    BY <1>1, <1>4, <2>1 DEF ClientSends
  <2>4. QED
    BY <1>2, <2>2, <2>3, ClientSocketStep
<1>5. CASE ClientLeaves(fd)
  <2>1. PICK new : new = [old EXCEPT !.end = "eof"]
    OBVIOUS
  <2>2. new \in Socket /\ new.end # "none"
    BY <2>1, <1>1, <1>3 DEF Socket
  <2>3. socket' = [socket EXCEPT ![fd] = new]
    BY <1>1, <1>5, <2>1 DEF ClientLeaves
  <2>4. QED
    BY <1>2, <2>2, <2>3, ClientSocketStep
<1>6. CASE ClientResets(fd)
  <2>1. PICK new : new = [old EXCEPT !.end = "reset", !.unread = 0]
    OBVIOUS
  <2>2. new \in Socket /\ new.end # "none"
    BY <2>1, <1>1, <1>3 DEF Socket
  <2>3. socket' = [socket EXCEPT ![fd] = new]
    BY <1>1, <1>2, <1>6, <2>1 DEF ClientResets
  <2>4. QED
    BY <1>2, <2>2, <2>3, ClientSocketStep
<1>7. CASE ClientReads(fd)
  <2>1. PICK new : new = [old EXCEPT !.echoed = @ - 1]
    OBVIOUS
  <2>2. old.echoed - 1 \in Nat
    BY <1>1, <1>3, <1>7 DEF ClientReads
  <2>3. new \in Socket /\ new.unread = old.unread /\ new.end = old.end
    BY <2>1, <2>2, <1>1, <1>3 DEF Socket
  <2>4. socket' = [socket EXCEPT ![fd] = new]
    BY <1>1, <1>7, <2>1 DEF ClientReads
  <2>5. QED
    BY <1>1, <1>2, <2>3, <2>4, ClientSocketStep
<1>8. QED
  BY <1>4, <1>5, <1>6, <1>7

-----------------------------------------------------------------------------
(* The theorems.                                                            *)

\* Every step of the server and of its clients keeps the invariant.
LEMMA SelectInvStep == SelectInv /\ [Next]_vars => SelectInv'
<1> SUFFICES ASSUME SelectInv, [Next]_vars PROVE SelectInv'
  OBVIOUS
<1>1. CASE Server
  BY <1>1, CreateStep, SelectStep, SelectFailsStep, SkipStep, EndScanStep, AcceptStep,
     InterruptedStep, RecvStep, RecvEndStep, SendSomeStep, SendFailsStep DEF Server
<1>2. CASE Client
  BY <1>2, ConnectStep, ClientFdStep DEF Client
<1>3. CASE UNCHANGED vars
  <2>1. UNCHANGED <<pc, listen_fd, master_set, read_set, max_fd, ready_count, descriptor,
                    socket, backlog>>
    BY <1>3 DEF vars, server
  <2>2. Open' = Open /\ Pending' = Pending /\ Sending' = Sending
    BY <2>1 DEF Open, Pending, Sending
  <2>3. \A fd : Readable(fd)' <=> Readable(fd)
    BY <2>1, <2>2 DEF Readable
  <2>4. SelectType' /\ WatchesAll' /\ NothingYet' /\ SendInv'
    BY <2>1, <2>2 DEF SelectInv, SelectType, WatchesAll, NothingYet, SendInv
  <2>5. ScanInv'
    BY <2>1, <2>2, <2>3 DEF SelectInv, ScanInv
  <2>6. QED
    BY <2>4, <2>5 DEF SelectInv
<1>4. QED
  BY <1>1, <1>2, <1>3 DEF Next

\* The inductive invariant of the select server.
LEMMA SelectInvariant == Spec => []SelectInv
  BY SelectInitInv, SelectInvStep, PTL DEF Spec

\* No accept or recv of the select server (day17_select_echo_server.c, main) is
\* called on a descriptor where nothing waits, although clients are accepted and
\* removed and numbers given out again during the pass, and ready_count ends the
\* scan exactly at the last bit: for any number of descriptors and connections.
THEOREM SelectNeverBlocks == Spec => []NeverBlocks
  BY SelectInvariant, SelectInvNeverBlocks, PTL

\* Every open client is watched, and FD_SET is given no number beyond the set.
EveryoneWatched ==
  pc \in {"select", "scan", "send"} =>
      /\ master_set = Open \union {listen_fd}
      /\ \A fd \in master_set : fd \in 0 .. FD_SETSIZE - 1 /\ fd <= max_fd

\* While the server runs it watches the listening descriptor and every open
\* client, none of them outside an fd_set or above max_fd (RemoveDescriptor and
\* the accept branch of main): nobody drops out of select's sight.
THEOREM SelectWatchesEveryone == Spec => []EveryoneWatched
<1>1. SelectInv => EveryoneWatched
  <2> SUFFICES ASSUME SelectInv, pc \in {"select", "scan", "send"}
               PROVE  /\ master_set = Open \union {listen_fd}
                      /\ \A fd \in master_set : fd \in 0 .. FD_SETSIZE - 1 /\ fd <= max_fd
    BY DEF EveryoneWatched
  <2>1. master_set = Open \union {listen_fd} /\ listen_fd = FirstFd /\ Open \subseteq ClientFds
    BY ServingFacts
  <2>2. \A fd \in master_set : fd <= max_fd
    BY DEF SelectInv, WatchesAll
  <2>3. \A fd \in master_set : fd \in 0 .. FD_SETSIZE - 1
    BY <2>1, FdFacts DEF ClientFds
  <2>4. QED
    BY <2>1, <2>2, <2>3
<1>2. QED
  BY <1>1, SelectInvariant, PTL
=============================================================================
