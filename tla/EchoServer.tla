----------------------------- MODULE EchoServer -----------------------------
(***************************************************************************)
(* The one-client TCP echo server of examples/day04_tcp_echo_server.c:     *)
(* socket, setsockopt, bind, listen, accept, then recv and send_all until  *)
(* the client closes, every error going to one cleanup label.              *)
(*                                                                         *)
(* The client writes the bytes of Stream one after the other.  What it has *)
(* written and the server has not received waits in the connection, and a  *)
(* recv takes any part of it that fits into the buffer.                    *)
(***************************************************************************)
EXTENDS Integers, Sequences, SequencesExt

CONSTANTS
    ECHO_BUFFER_SIZE,   \* BUFFER_SIZE; one byte is kept for the terminating zero
    Stream              \* the bytes the client would send

ASSUME EchoServerAssumption ==
    /\ ECHO_BUFFER_SIZE \in Nat /\ ECHO_BUFFER_SIZE > 1
    /\ Stream \in Seq(0 .. 255)

VARIABLES
    statement,     \* the one main is at
    server_fd,     \* "none" (-1), "open" or "closed"
    client_fd,
    buffer,        \* bytes the last recv returned
    sent,          \* how many of them send_all has sent
    exit_status,
    written,       \* number of bytes of Stream the client has written
    received,      \* number of those the server has received
    echoed,        \* bytes the server has sent back
    client         \* "connected", "closed" (end of stream) or "reset"

locals == <<server_fd, client_fd, buffer, sent, exit_status>>
peer   == <<written, client>>
echoVars == <<statement, locals, received, echoed, peer>>

EchoInit ==
    /\ statement = "socket"
    /\ server_fd = "none" /\ client_fd = "none"
    /\ buffer = <<>> /\ sent = 0
    /\ exit_status = 1
    /\ written = 0 /\ received = 0 /\ echoed = <<>>
    /\ client = "connected"

-----------------------------------------------------------------------------

\* The calls that set the server up, each of which may fail.
Setup == <<"socket", "setsockopt", "bind", "listen", "accept">>

SetupStep ==
    /\ \E i \in DOMAIN Setup :
          /\ statement = Setup[i]
          /\ statement' = IF i = Len(Setup) THEN "recv" ELSE Setup[i + 1]
    /\ server_fd' = IF statement = "socket" THEN "open" ELSE server_fd
    /\ client_fd' = IF statement = "accept" THEN "open" ELSE client_fd
    /\ UNCHANGED <<buffer, sent, exit_status, received, echoed, peer>>

SetupFails ==
    /\ \E i \in DOMAIN Setup : statement = Setup[i]
    /\ statement' = "cleanup"
    /\ UNCHANGED <<locals, received, echoed, peer>>

\* recv returns at least one byte and leaves room for the zero it appends.
EchoRecv ==
    /\ statement = "recv" /\ client # "reset"
    /\ \E n \in 1 .. ECHO_BUFFER_SIZE - 1 :
          /\ received + n <= written
          /\ buffer' = SubSeq(Stream, received + 1, received + n)
          /\ received' = received + n
    /\ sent' = 0
    /\ statement' = "send"
    /\ UNCHANGED <<server_fd, client_fd, exit_status, echoed, peer>>

\* recv returns 0: the client has closed and everything it wrote was received.
EchoRecvEnd ==
    /\ statement = "recv" /\ client = "closed" /\ received = written
    /\ exit_status' = 0
    /\ statement' = "cleanup"
    /\ UNCHANGED <<server_fd, client_fd, buffer, sent, received, echoed, peer>>

\* recv returns -1: a reset, or an error of the server's own end.  EINTR calls
\* recv again and changes nothing.
EchoRecvFails ==
    /\ statement = "recv"
    /\ statement' = "cleanup"
    /\ UNCHANGED <<locals, received, echoed, peer>>

\* Mutant: every send of send_all starts at the front of the buffer again.
send_all_from_front ==
    /\ statement = "send" /\ client # "reset"
    /\ \E n \in 1 .. Len(buffer) - sent :
          /\ echoed' = echoed \o SubSeq(buffer, 1, n)
          /\ sent' = sent + n
    /\ statement' = IF sent' < Len(buffer) THEN "send" ELSE "recv"
    /\ UNCHANGED <<server_fd, client_fd, buffer, exit_status, received, peer>>

\* One send of send_all takes any part of what is left; EINTR tries it again.
send_all ==
    /\ statement = "send" /\ client # "reset"
    /\ \E n \in 1 .. Len(buffer) - sent :
          /\ echoed' = echoed \o SubSeq(buffer, sent + 1, sent + n)
          /\ sent' = sent + n
    /\ statement' = IF sent' < Len(buffer) THEN "send" ELSE "recv"
    /\ UNCHANGED <<server_fd, client_fd, buffer, exit_status, received, peer>>

\* SIGPIPE is ignored: a client that has gone makes send fail.
EchoSendFails ==
    /\ statement = "send"
    /\ statement' = "cleanup"
    /\ UNCHANGED <<locals, received, echoed, peer>>

ClosedFd(fd) == IF fd = "none" THEN fd ELSE "closed"

cleanup ==
    /\ statement = "cleanup"
    /\ client_fd' = ClosedFd(client_fd)
    /\ server_fd' = ClosedFd(server_fd)
    /\ statement' = "returned"
    /\ UNCHANGED <<buffer, sent, exit_status, received, echoed, peer>>

EchoMain ==
    \/ SetupStep \/ SetupFails \/ EchoRecv \/ EchoRecvEnd \/ EchoRecvFails
    \/ send_all \/ EchoSendFails \/ cleanup

-----------------------------------------------------------------------------
(* The client, once it is connected.                                        *)

ClientWrites ==
    /\ client_fd = "open" /\ client = "connected" /\ written < Len(Stream)
    /\ written' = written + 1
    /\ UNCHANGED <<statement, locals, received, echoed, client>>

ClientEnds ==
    /\ client_fd = "open" /\ client = "connected"
    /\ client' \in {"closed", "reset"}
    /\ UNCHANGED <<statement, locals, received, echoed, written>>

EchoNext == EchoMain \/ ClientWrites \/ ClientEnds

EchoSpec == EchoInit /\ [][EchoNext]_echoVars

-----------------------------------------------------------------------------

\* What the client gets back is what it wrote (lines 16-44 and 119-179): however
\* recv splits the stream and however little each send takes, the echo is a
\* prefix of it, without a gap or a repeated byte, and the zero that main appends
\* stays inside the buffer.  When main returns, both sockets it opened are
\* closed, and status 0 means that the client closed the connection itself and
\* has been sent back every byte.
EchoExact ==
    /\ IsPrefix(echoed, SubSeq(Stream, 1, written))
    /\ Len(buffer) < ECHO_BUFFER_SIZE
    /\ statement = "returned" =>
          /\ "open" \notin {server_fd, client_fd}
          /\ exit_status = 0 => /\ client = "closed"
                                /\ echoed = SubSeq(Stream, 1, written)

=============================================================================
