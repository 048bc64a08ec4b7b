------------------------------ MODULE TfSocket ------------------------------
(***************************************************************************)
(* How tfnet makes connections (tflib/tf_socket.c): several threads        *)
(* connect, listen and accept; each system call may fail, and the threads  *)
(* compete for the descriptors.  A call is described by its role, whether  *)
(* it is given a name or an address to convert, and whether the socket is  *)
(* to be nonblocking.                                                      *)
(***************************************************************************)
EXTENDS Integers, FiniteSetsExt

CONSTANTS
    Callers,    \* threads of the program
    Fds         \* descriptors a process can have

ASSUME SocketAssumption == Fds \subseteq Nat

VARIABLES
    sock,       \* the kernel's state of each descriptor
    nonblock,   \* the descriptors with O_NONBLOCK
    job,        \* the call each thread is in
    mine,       \* the descriptors the program was given, with the call that gave them
    lost        \* history: descriptors that stay open because an option failed

sockVars == <<sock, nonblock, job, mine, lost>>

\* The functions that make a socket, by what they do with it.
tfnet_tcp_generic_connect == [role : {"connect"}, named : {TRUE}, nb : BOOLEAN]
tfnet_tcp_generic_connect2 == [role : {"connect"}, named : {FALSE}, nb : BOOLEAN]
tfnet_unix_generic_connect == [role : {"connect"}, named : {FALSE}, nb : BOOLEAN]
tfnet_tcp_server == [role : {"listen"}, named : BOOLEAN, nb : {FALSE}]
tfnet_tcp_server2 == [role : {"listen"}, named : {FALSE}, nb : {FALSE}]
tfnet_unix_server == [role : {"listen"}, named : {FALSE}, nb : {FALSE}]

CallKinds == UNION {tfnet_tcp_generic_connect, tfnet_tcp_generic_connect2, tfnet_unix_generic_connect,
                    tfnet_tcp_server, tfnet_tcp_server2, tfnet_unix_server}

NoJob == [at |-> "none", fd |-> -1, kind |-> {}]

FreeFds == {f \in Fds : sock[f] = "closed"}
Closed(f) == [sock EXCEPT ![f] = "closed"]

SocketInit ==
    /\ sock = [f \in Fds |-> "closed"]
    /\ nonblock = {} /\ lost = {}
    /\ job = [c \in Callers |-> NoJob]
    /\ mine = [f \in {} |-> {}]
-----------------------------------------------------------------------------
Leave(c) == job' = [job EXCEPT ![c] = NoJob]
GoOn(c, place) == job' = [job EXCEPT ![c].at = place]
Give(f, kind) == mine' = [g \in DOMAIN mine \cup {f} |-> IF g = f THEN kind ELSE mine[g]]

\* socket gives the lowest free descriptor, or fails.
tfnet_create_socket(c, kind) ==
    /\ job[c] = NoJob
    /\ FreeFds # {}
    /\ sock' = [sock EXCEPT ![Min(FreeFds)] = "new"]
    /\ nonblock' = nonblock \ {Min(FreeFds)}
    /\ job' = [job EXCEPT ![c] = [at |-> "option", fd |-> Min(FreeFds), kind |-> kind]]
    /\ UNCHANGED <<mine, lost>>

\* setsockopt of tfnet_create_socket: when it fails the socket stays open.
SetReuseAddr(c) ==
    /\ job[c].at = "option"
    /\ \/ GoOn(c, "address") /\ UNCHANGED lost
       \/ Leave(c) /\ lost' = lost \cup {job[c].fd}
    /\ UNCHANGED <<sock, nonblock, mine>>

\* inet_aton and gethostbyname.
ConvertAddress(c) ==
    /\ job[c].at = "address"
    /\ \/ GoOn(c, IF job[c].kind.nb THEN "nonblock" ELSE job[c].kind.role) /\ UNCHANGED sock
       \/ job[c].kind.named /\ Leave(c) /\ sock' = Closed(job[c].fd)
    /\ UNCHANGED <<nonblock, mine, lost>>

\* tfnet_nonblock in a connect: when it fails the socket stays open.
SetNonblock(c) ==
    /\ job[c].at = "nonblock"
    /\ \/ GoOn(c, "connect") /\ nonblock' = nonblock \cup {job[c].fd} /\ UNCHANGED lost
       \/ Leave(c) /\ lost' = lost \cup {job[c].fd} /\ UNCHANGED nonblock
    /\ UNCHANGED <<sock, mine>>

\* Mutant of Connect: a socket in progress is given out although it blocks.
ConnectInProgress(c) ==
    /\ job[c].at = "connect"
    /\ \E state \in {"connected", "connecting"} :
          sock' = [sock EXCEPT ![job[c].fd] = state] /\ Give(job[c].fd, job[c].kind)
    /\ Leave(c)
    /\ UNCHANGED <<nonblock, lost>>

\* A connection in progress is given out if the socket does not block.
Connect(c) ==
    /\ job[c].at = "connect"
    /\ \/ \E state \in {"connected", "connecting"} :
             /\ state = "connecting" => job[c].kind.nb
             /\ sock' = [sock EXCEPT ![job[c].fd] = state]
             /\ Give(job[c].fd, job[c].kind)
       \/ sock' = Closed(job[c].fd) /\ UNCHANGED mine
    /\ Leave(c)
    /\ UNCHANGED <<nonblock, lost>>

\* bind and listen.
tfnet_listen(c) ==
    /\ job[c].at = "listen"
    /\ \/ sock' = [sock EXCEPT ![job[c].fd] = "listening"] /\ Give(job[c].fd, job[c].kind)
       \/ sock' = Closed(job[c].fd) /\ UNCHANGED mine
    /\ Leave(c)
    /\ UNCHANGED <<nonblock, lost>>

\* An accept that is interrupted is repeated.
tfnet_generic_accept(c, s) ==
    /\ job[c] = NoJob /\ s \in DOMAIN mine /\ sock[s] = "listening"
    /\ FreeFds # {}
    /\ LET f == Min(FreeFds)
       IN  /\ sock' = [sock EXCEPT ![f] = "connected"]
           /\ Give(f, [role |-> "accept", named |-> FALSE, nb |-> FALSE])
           /\ nonblock' = nonblock \ {f}
    /\ UNCHANGED <<job, lost>>

tfnet_nonblock(c, s) ==
    /\ job[c] = NoJob /\ s \in DOMAIN mine
    /\ nonblock' = nonblock \cup {s}
    /\ UNCHANGED <<sock, job, mine, lost>>

\* External: the network completes a connection; the program closes a socket.
Completed(s) ==
    /\ sock[s] = "connecting"
    /\ sock' = [sock EXCEPT ![s] = "connected"]
    /\ UNCHANGED <<nonblock, job, mine, lost>>

ProgramCloses(s) ==
    /\ s \in DOMAIN mine
    /\ sock' = Closed(s)
    /\ mine' = [f \in DOMAIN mine \ {s} |-> mine[f]]
    /\ UNCHANGED <<nonblock, job, lost>>

\* External: the program ends and starts again.
NewProcess ==
    /\ FreeFds = {}
    /\ sock' = [f \in Fds |-> "closed"]
    /\ nonblock' = {} /\ lost' = {}
    /\ job' = [c \in Callers |-> NoJob]
    /\ mine' = [f \in {} |-> {}]

SocketNext ==
    \/ \E c \in Callers :
          \/ \E kind \in CallKinds : tfnet_create_socket(c, kind)
          \/ SetReuseAddr(c) \/ ConvertAddress(c) \/ SetNonblock(c)
          \/ Connect(c) \/ tfnet_listen(c)
          \/ \E s \in Fds : tfnet_generic_accept(c, s) \/ tfnet_nonblock(c, s)
    \/ \E s \in Fds : Completed(s) \/ ProgramCloses(s)
    \/ NewProcess

SocketSpec == SocketInit /\ [][SocketNext]_sockVars
-----------------------------------------------------------------------------
(* Correctness.                                                            *)

\* The sockets that calls in progress work on.
InProgress == {job[c].fd : c \in {d \in Callers : job[d] # NoJob}}

\* Every open descriptor has one owner: the program, to which a call returned
\* it in the state that was asked for (connected, or in progress and not
\* blocking; listening), one call that is still in progress, or nobody if
\* SO_REUSEADDR or O_NONBLOCK could not be set.  All other error paths close
\* what they opened, and close nothing else (tf_socket.c:164-292, 352-442).
DescriptorsOwned ==
    /\ Fds \ FreeFds = DOMAIN mine \cup InProgress \cup lost
    /\ DOMAIN mine \cap (InProgress \cup lost) = {} /\ InProgress \cap lost = {}
    /\ \A c, d \in Callers : job[c] # NoJob /\ job[c].fd = job[d].fd => c = d
    /\ \A f \in DOMAIN mine :
          /\ sock[f] \in (IF mine[f].role = "listen" THEN {"listening"} ELSE {"connected", "connecting"})
          /\ sock[f] = "connecting" \/ mine[f].nb => f \in nonblock
=============================================================================
