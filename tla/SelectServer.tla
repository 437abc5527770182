---------------------------- MODULE SelectServer ----------------------------
(***************************************************************************)
(* The select() echo server of test/day17_select_echo_server.c: one thread *)
(* that serves every client from a set of descriptors.  A pass copies      *)
(* master_set, waits in select, and scans the descriptors from 0 to max_fd *)
(* while ready_count lasts; connections are accepted and removed, and      *)
(* descriptor numbers used again, while the bits of the pass are read.     *)
(*                                                                         *)
(* Clients are modelled by what the server can see of them: connections    *)
(* that wait, bytes that have arrived, the end of the stream or a reset,   *)
(* and echoed bytes the client has not read yet, of which the kernel holds *)
(* at most Window: a send beyond that blocks the whole server.             *)
(***************************************************************************)
EXTENDS Integers, FiniteSets, FiniteSetsExt

CONSTANTS
    FirstFd,      \* lowest free descriptor when the program starts
    FD_SETSIZE,   \* first descriptor that no longer fits into an fd_set
    BUFFER_SIZE,  \* bytes that one recv takes at most
    Window,       \* echoed bytes the kernel holds for a client
    Connections,  \* bound: connections that clients open
    Bytes,        \* bound: bytes that clients send
    Faults        \* bound: interrupted and failed system calls

ASSUME SelectServerAssumption ==
    /\ FirstFd \in Nat /\ FD_SETSIZE \in Nat /\ FirstFd < FD_SETSIZE
    /\ {BUFFER_SIZE, Window} \subseteq Nat \ {0}
    /\ {Connections, Bytes, Faults} \subseteq Nat

VARIABLES
    pc,           \* where main is: "create", "select", "scan", "send", "exit"
    listen_fd,
    master_set,   \* descriptors that are watched
    read_set,     \* the copy select has answered in
    max_fd,
    ready_count,
    descriptor,   \* loop variable of the scan
    unsent,       \* bytes of the buffer that SendAll has not sent yet
    socket,       \* per open client descriptor: what is there to read
    backlog,      \* connections that wait for accept
    left          \* what the bounds leave to clients and to faults

server  == <<listen_fd, master_set, read_set, max_fd, ready_count, descriptor>>
vars    == <<pc, server, unsent, socket, backlog, left>>

Open == DOMAIN socket

NewSocket == [unread |-> 0, end |-> "none", echoed |-> 0]

\* select's notion of readable: recv or accept would not block.
Readable(fd) ==
    IF fd = listen_fd THEN backlog > 0
                      ELSE fd \in Open /\ (socket[fd].unread > 0 \/ socket[fd].end # "none")

\* The kernel gives out the lowest number that is free.
LowestFree == Min((FirstFd .. FD_SETSIZE) \ (Open \union {listen_fd}))

Init ==
    /\ pc = "create"
    /\ listen_fd = -1
    /\ master_set = {} /\ read_set = {}
    /\ max_fd = -1
    /\ ready_count = 0 /\ descriptor = 0
    /\ unsent = 0
    /\ socket = <<>>
    /\ backlog = 0
    /\ left = [connections |-> Connections, bytes |-> Bytes, faults |-> Faults]

-----------------------------------------------------------------------------
(* The server.                                                              *)

Fault == left.faults > 0 /\ left' = [left EXCEPT !.faults = @ - 1]

\* socket, setsockopt, bind and listen; a failure of any of them closes the
\* descriptor and ends the program.
CreateListenSocket ==
    /\ pc = "create"
    /\ \/ /\ listen_fd' = FirstFd
          /\ master_set' = {FirstFd} /\ max_fd' = FirstFd
          /\ pc' = "select"
          /\ UNCHANGED left
       \/ /\ Fault
          /\ pc' = "exit"
          /\ UNCHANGED <<listen_fd, master_set, max_fd>>
    /\ UNCHANGED <<read_set, ready_count, descriptor, unsent, socket, backlog>>

\* select looks at the first max_fd + 1 descriptors of its copy.
Watched == {fd \in master_set : fd < max_fd + 1}

Select ==
    /\ pc = "select"
    /\ LET ready == {fd \in Watched : Readable(fd)}
       IN  /\ ready # {}
           /\ read_set' = ready
           /\ ready_count' = Cardinality(ready)
    /\ descriptor' = 0
    /\ pc' = "scan"
    /\ UNCHANGED <<listen_fd, master_set, max_fd, unsent, socket, backlog, left>>

\* EINTR starts the pass again; any other error closes what master_set holds
\* and ends the program.
SelectFails ==
    /\ pc = "select"
    /\ Fault
    /\ \/ UNCHANGED <<pc, socket, listen_fd>>
       \/ /\ pc' = "exit"
          /\ socket' = [fd \in Open \ Watched |-> socket[fd]]
          /\ listen_fd' = IF listen_fd \in Watched THEN -1 ELSE listen_fd
    /\ UNCHANGED <<master_set, read_set, max_fd, ready_count, descriptor, unsent, backlog>>

\* Mutant: the scan asks master_set instead of select's answer.
FD_ISSET_master == descriptor \in master_set

\* The bit the scan looks at, while the loop runs.
FD_ISSET == descriptor \in read_set

Scanning == pc = "scan" /\ descriptor <= max_fd /\ ready_count > 0

Skip ==
    /\ Scanning /\ ~FD_ISSET
    /\ descriptor' = descriptor + 1
    /\ UNCHANGED <<pc, listen_fd, master_set, read_set, max_fd, ready_count,
                   unsent, socket, backlog, left>>

EndScan ==
    /\ pc = "scan" /\ ~Scanning
    /\ pc' = "select"
    /\ UNCHANGED <<server, unsent, socket, backlog, left>>

\* A set bit is counted off and the scan moves on.
TakeBit ==
    /\ Scanning /\ FD_ISSET
    /\ ready_count' = ready_count - 1
    /\ descriptor' = descriptor + 1
    /\ UNCHANGED <<listen_fd, read_set>>

\* Mutant: max_fd stays behind a new descriptor.
Raised_not(fd) == max_fd

\* max_fd with a new descriptor.
Raised(fd) == IF fd > max_fd THEN fd ELSE max_fd

\* accept blocks while no connection waits.  A number that does not fit into an
\* fd_set is closed at once.
Accept ==
    /\ TakeBit
    /\ descriptor = listen_fd /\ backlog > 0
    /\ backlog' = backlog - 1
    /\ LET client_fd == LowestFree
       IN  IF client_fd >= FD_SETSIZE
           THEN UNCHANGED <<socket, master_set, max_fd>>
           ELSE /\ socket' = [fd \in Open \union {client_fd} |->
                                 IF fd = client_fd THEN NewSocket ELSE socket[fd]]
                /\ master_set' = master_set \union {client_fd}
                /\ max_fd' = Raised(client_fd)
    /\ UNCHANGED <<pc, unsent, left>>

AcceptFails ==
    /\ TakeBit
    /\ descriptor = listen_fd
    /\ Fault
    /\ UNCHANGED <<pc, master_set, max_fd, unsent, socket, backlog>>

\* FD_CLR, close, and max_fd lowered to the highest descriptor still watched.
RemoveDescriptor(fd) ==
    /\ master_set' = master_set \ {fd}
    /\ socket' = [f \in Open \ {fd} |-> socket[f]]
    /\ max_fd' = IF fd = max_fd THEN Max({0} \union {f \in master_set' : f <= max_fd})
                                ELSE max_fd

\* recv with data: the bytes go to SendAll.
Recv ==
    /\ TakeBit
    /\ descriptor \in Open
    /\ socket[descriptor].end # "reset" /\ socket[descriptor].unread > 0
    /\ \E received \in 1 .. BUFFER_SIZE :
          /\ received <= socket[descriptor].unread
          /\ unsent' = received
          /\ socket' = [socket EXCEPT ![descriptor].unread = @ - received]
    /\ pc' = "send"
    /\ UNCHANGED <<master_set, max_fd, backlog, left>>

\* recv returns 0 at the end of the stream and -1 after a reset: the client is
\* removed.
RecvEnd ==
    /\ TakeBit
    /\ descriptor \in Open
    /\ \/ socket[descriptor].end = "reset"
       \/ socket[descriptor].end = "eof" /\ socket[descriptor].unread = 0
    /\ RemoveDescriptor(descriptor)
    /\ UNCHANGED <<pc, unsent, backlog, left>>

RecvInterrupted ==
    /\ TakeBit
    /\ descriptor # listen_fd
    /\ Fault
    /\ UNCHANGED <<pc, master_set, max_fd, unsent, socket, backlog>>

\* SendAll: the scan has already counted the client off (descriptor - 1).
Sending == descriptor - 1

\* Every send takes as many bytes as the kernel has room for, one at least.
SendSome ==
    /\ pc = "send"
    /\ socket[Sending].end # "reset"
    /\ \E sent \in 1 .. unsent :
          /\ socket[Sending].echoed + sent <= Window
          /\ unsent' = unsent - sent
          /\ socket' = [socket EXCEPT ![Sending].echoed = @ + sent]
    /\ pc' = IF unsent' = 0 THEN "scan" ELSE "send"
    /\ UNCHANGED <<server, backlog, left>>

\* The client has gone (MSG_NOSIGNAL: an error, not a signal).
SendFails ==
    /\ pc = "send"
    /\ socket[Sending].end # "none"
    /\ unsent' = 0
    /\ pc' = "scan"
    /\ RemoveDescriptor(Sending)
    /\ UNCHANGED <<listen_fd, read_set, ready_count, descriptor, backlog, left>>

Server ==
    \/ CreateListenSocket \/ Select \/ SelectFails \/ Skip \/ EndScan
    \/ Accept \/ AcceptFails \/ Recv \/ RecvEnd \/ RecvInterrupted
    \/ SendSome \/ SendFails

-----------------------------------------------------------------------------
(* The clients.                                                             *)

Connect ==
    /\ listen_fd >= 0 /\ left.connections > 0
    /\ backlog' = backlog + 1
    /\ left' = [left EXCEPT !.connections = @ - 1]
    /\ UNCHANGED <<pc, server, unsent, socket>>

ClientSends(fd) ==
    /\ left.bytes > 0 /\ socket[fd].end = "none"
    /\ socket' = [socket EXCEPT ![fd].unread = @ + 1]
    /\ left' = [left EXCEPT !.bytes = @ - 1]
    /\ UNCHANGED <<pc, server, unsent, backlog>>

ClientLeaves(fd) ==
    /\ socket[fd].end = "none"
    /\ socket' = [socket EXCEPT ![fd].end = "eof"]
    /\ UNCHANGED <<pc, server, unsent, backlog, left>>

\* A reset drops what has arrived.
ClientResets(fd) ==
    /\ socket[fd].end # "reset"
    /\ socket' = [socket EXCEPT ![fd].end = "reset", ![fd].unread = 0]
    /\ UNCHANGED <<pc, server, unsent, backlog, left>>

ClientReads(fd) ==
    /\ socket[fd].echoed > 0
    /\ socket' = [socket EXCEPT ![fd].echoed = @ - 1]
    /\ UNCHANGED <<pc, server, unsent, backlog, left>>

Client ==
    \/ Connect
    \/ \E fd \in Open : \/ ClientSends(fd) \/ ClientLeaves(fd)
                        \/ ClientResets(fd) \/ ClientReads(fd)

Next == Server \/ Client

\* main runs on; a client reads what it is sent, however late.
Fairness ==
    /\ WF_vars(Server)
    /\ \A fd \in FirstFd .. FD_SETSIZE : WF_vars(fd \in Open /\ ClientReads(fd))

Spec == Init /\ [][Next]_vars /\ Fairness

-----------------------------------------------------------------------------

\* accept and recv are called only where something waits (lines 188-239).  A
\* descriptor the scan is about to serve is open and readable although clients
\* were accepted and removed, and numbers given out again, since select
\* answered; the call that follows a set bit can never block the other clients.
\* And ready_count ends the scan neither before the last bit nor after it.
NeverBlocks ==
    pc = "scan" =>
        /\ Scanning /\ FD_ISSET => Readable(descriptor)
        /\ ready_count = Cardinality({fd \in read_set : fd >= descriptor})
        /\ ready_count > 0 => Max(read_set) <= max_fd

\* Nobody is starved (lines 151-276): a connection that waits is accepted, and
\* whatever a client sends, its end and its reset included, is read, unless the
\* program has ended on a failed select.  Descriptors above a removed max_fd,
\* numbers used twice and clients that read slowly do not stop the others.
EveryoneServed ==
    /\ backlog > 0 ~> backlog = 0 \/ pc = "exit"
    /\ \A fd \in FirstFd + 1 .. FD_SETSIZE - 1 :
          fd \in Open /\ Readable(fd) ~> fd \notin Open \/ ~Readable(fd) \/ pc = "exit"

=============================================================================
