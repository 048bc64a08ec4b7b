------------------------------ MODULE NacPeers ------------------------------
(***************************************************************************)
(* The peer table of tfnac (tfnac/main.c, tfnac/config.c): TCP clients are *)
(* given slots of a table in System V shared memory, their requests go to  *)
(* a message queue tagged with the slot's id, and the responses that come  *)
(* back on another queue are written to whatever connection the slot holds *)
(* then.  The table and the queues outlive the process; descriptors, event *)
(* registrations, the internal socketpair and the connection count do not. *)
(*                                                                         *)
(* Each handler runs to completion on the event loop's thread and is one   *)
(* action.  The process may die in any state, in the middle of the         *)
(* initialisation and of accept_tcp_handler too.                           *)
(***************************************************************************)
EXTENDS Integers, Sequences, FiniteSets, FiniteSetsExt

CONSTANTS
    MAX_PEER_NUMS,
    PEER_ID_OFFSET,
    MAX_PACKET_LEN,
    MAX_MQUEUE_LEN,
    U16,          \* the number of values of a __u16 (65536 in the code)
    Fds,          \* the descriptors that accept can return
    MaxConns,     \* bound: connections ever accepted
    MaxBoots,     \* bound: how often the service is started
    QueueCap,     \* messages that fit in a queue
    Lens,         \* the length fields that clients send
    Timeouts      \* the values of socket_timeout in the configuration

ASSUME PeersAssumption ==
    /\ MAX_PEER_NUMS \in Nat \ {0} /\ PEER_ID_OFFSET \in Nat \ {0}
    /\ MAX_PACKET_LEN \in Nat /\ MAX_MQUEUE_LEN \in Nat
    /\ U16 \in Nat \ {0, 1}
    /\ Fds \subseteq Nat \ {0} /\ IsFiniteSet(Fds)
    /\ MaxConns \in Nat /\ MaxBoots \in Nat /\ QueueCap \in Nat
    /\ Lens \subseteq Nat
    /\ Timeouts \subseteq 0..(U16 - 1)

Slots  == 0..(MAX_PEER_NUMS - 1)
Conns  == 1..MaxConns
NoConn == 0
NoSlot == -1

VARIABLES
    \* shared memory and queues: they survive the process
    shm,            \* does the segment exist?
    slots,          \* its content
    outq, inq,      \* device_out_queue and device_in_queue
    \* the process
    pc,             \* "down", "booting" (segment attached), "run"
    reload,
    socket_timeout,
    connections,
    registered,     \* fd -> the slot given to aeCreateFileEvent as clientData
    open,           \* fd -> the connection behind it (the kernel's table)
    mqueue,         \* the socketpair between wait_response_thread and the loop
    \* bounds and auxiliary variables
    boots,
    nextConn,
    conn,           \* slot -> the connection accepted into it since the start
    idle,           \* slot -> life cycles since its last traffic
    bootActive,     \* slots that were already active when the service started
    leaked,         \* connections accepted with a full table
    unfinished      \* was the segment created without being initialised?

shared  == <<shm, slots, outq, inq>>
process == <<pc, reload, socket_timeout, connections, registered, open, mqueue>>
vars    == <<shm, slots, outq, inq, pc, reload, socket_timeout, connections,
             registered, open, mqueue, boots, nextConn, conn, idle, bootActive,
             leaked, unfinished>>

Active  == {i \in Slots : slots[i].active}
Live    == {i \in Active : conn[i] # NoConn}

Zeroed  == [i \in Slots |-> [id |-> 0, fd |-> 0, active |-> FALSE, session_timer |-> 0]]
-----------------------------------------------------------------------------
Init ==
    /\ shm = FALSE
    /\ slots = Zeroed
    /\ outq = <<>> /\ inq = <<>>
    /\ pc = "down"
    /\ reload = FALSE
    /\ socket_timeout = 0
    /\ connections = 0
    /\ registered = [f \in Fds |-> NoSlot]
    /\ open = [f \in Fds |-> NoConn]
    /\ mqueue = <<>>
    /\ boots = 0
    /\ nextConn = 1
    /\ conn = [i \in Slots |-> NoConn]
    /\ idle = [i \in Slots |-> 0]
    /\ bootActive = {}
    /\ leaked = {}
    /\ unfinished = FALSE
-----------------------------------------------------------------------------
(* Start and end of the process.                                           *)

\* The segment outlives the process that created it: a later one finds it,
\* slots and all.
ipc_shm_open == shm
ipc_shm_create == Zeroed

\* load_sharememory: attach the segment, or create it zeroed, which forces
\* the initialisation of the slots whatever the configuration says.
AttachSegment ==
    /\ shm' = TRUE
    /\ slots' = IF ipc_shm_open THEN slots ELSE ipc_shm_create
    /\ unfinished' = (unfinished \/ ~ipc_shm_open)

load_sharememory(cfg) ==
    /\ AttachSegment
    /\ reload' = (cfg \/ ~ipc_shm_open)

\* initialize, up to the message queues.
initialize(cfg, timeout) ==
    /\ pc = "down"
    /\ boots < MaxBoots
    /\ boots' = boots + 1
    /\ load_sharememory(cfg)
    /\ socket_timeout' = timeout
    /\ connections' = 0
    /\ pc' = "booting"
    /\ UNCHANGED <<outq, inq, registered, open, mqueue, nextConn, conn, idle,
                   bootActive, leaked>>

\* With -cli the process attaches the segment, runs the (empty) console and
\* exits: init_peers is not called.
InitializeConsole ==
    /\ pc = "down"
    /\ boots < MaxBoots
    /\ boots' = boots + 1
    /\ AttachSegment
    /\ UNCHANGED <<outq, inq, process, nextConn, conn, idle, bootActive, leaked>>

\* init_peers and the rest of main up to aeMain.
init_peers ==
    /\ pc = "booting"
    /\ pc' = "run"
    /\ IF reload
       THEN /\ slots' = [i \in Slots |-> [id |-> i + PEER_ID_OFFSET, fd |-> 0,
                                          active |-> FALSE, session_timer |-> 0]]
            /\ bootActive' = {}
            /\ unfinished' = FALSE
       ELSE /\ bootActive' = Active
            /\ UNCHANGED <<slots, unfinished>>
    /\ UNCHANGED <<shm, outq, inq, reload, socket_timeout, connections, registered,
                   open, mqueue, boots, nextConn, conn, idle, leaked>>

\* The process is gone, and with it everything that is not in the kernel.
Gone ==
    /\ pc' = "down"
    /\ reload' = FALSE
    /\ socket_timeout' = 0
    /\ connections' = 0
    /\ registered' = [f \in Fds |-> NoSlot]
    /\ open' = [f \in Fds |-> NoConn]
    /\ mqueue' = <<>>
    /\ conn' = [i \in Slots |-> NoConn]
    /\ idle' = [i \in Slots |-> 0]
    /\ bootActive' = {}
    /\ leaked' = {}

\* A crash, or the orderly end of main: neither touches the slots.
Die ==
    /\ pc # "down"
    /\ Gone
    /\ UNCHANGED <<shared, boots, nextConn, unfinished>>
-----------------------------------------------------------------------------
(* Closing peers.                                                          *)

\* Mutant of ClosePeers: aeDeleteFileEvent is forgotten.
ClosePeersKeepEvent(S, table, ticks) ==
    LET fds == {table[i].fd : i \in S}
    IN  /\ slots' = [i \in Slots |-> IF i \in S THEN [table[i] EXCEPT !.active = FALSE]
                                               ELSE table[i]]
        /\ registered' = registered
        /\ open' = [f \in Fds |-> IF f \in fds THEN NoConn ELSE open[f]]
        /\ connections' = (connections - Cardinality(S)) % U16
        /\ conn' = [i \in Slots |-> IF i \in S THEN NoConn ELSE conn[i]]
        /\ idle' = [i \in Slots |-> IF i \in S THEN 0 ELSE ticks[i]]
        /\ leaked' = leaked \ {open[f] : f \in fds \cap Fds}

\* close_peer for every slot of S, given the slots (and the auxiliary idle
\* times) as the handler left them.  The event and the descriptor that go
\* are those of the slot's fd field.
ClosePeers(S, table, ticks) ==
    LET fds == {table[i].fd : i \in S}
    IN  /\ slots' = [i \in Slots |-> IF i \in S THEN [table[i] EXCEPT !.active = FALSE]
                                               ELSE table[i]]
        /\ registered' = [f \in Fds |-> IF f \in fds THEN NoSlot ELSE registered[f]]
        /\ open' = [f \in Fds |-> IF f \in fds THEN NoConn ELSE open[f]]
        /\ connections' = (connections - Cardinality(S)) % U16
        /\ conn' = [i \in Slots |-> IF i \in S THEN NoConn ELSE conn[i]]
        /\ idle' = [i \in Slots |-> IF i \in S THEN 0 ELSE ticks[i]]
        /\ leaked' = leaked \ {open[f] : f \in fds \cap Fds}

close_peer(i) == ClosePeers({i}, slots, idle)
-----------------------------------------------------------------------------
(* accept_tcp_handler.                                                     *)

FreeFds == {f \in Fds : open[f] = NoConn}
NewFd   == Min(FreeFds)           \* the kernel gives the lowest free number
Idle    == Slots \ Active

get_idle_peer == Min(Idle)

CanAccept == pc = "run" /\ nextConn <= MaxConns /\ FreeFds # {}

\* The table is full: the handler returns and nobody closes cfd.
AcceptWithoutSlot ==
    /\ CanAccept
    /\ Idle = {}
    /\ open' = [open EXCEPT ![NewFd] = nextConn]
    /\ leaked' = leaked \cup {nextConn}
    /\ nextConn' = nextConn + 1
    /\ UNCHANGED <<shared, pc, reload, socket_timeout, connections, registered, mqueue,
                   boots, conn, idle, bootActive, unfinished>>

\* Mutant of accept_tcp_handler: the slot keeps its old session timer.
AcceptKeepsTimer ==
    /\ CanAccept
    /\ Idle # {}
    /\ LET i == get_idle_peer
       IN  /\ slots' = [slots EXCEPT ![i].fd = NewFd, ![i].active = TRUE]
           /\ registered' = [registered EXCEPT ![NewFd] = i]
           /\ conn' = [conn EXCEPT ![i] = nextConn]
           /\ idle' = [idle EXCEPT ![i] = 0]
    /\ open' = [open EXCEPT ![NewFd] = nextConn]
    /\ connections' = (connections + 1) % U16
    /\ nextConn' = nextConn + 1
    /\ UNCHANGED <<shm, outq, inq, pc, reload, socket_timeout, mqueue, boots,
                   bootActive, leaked, unfinished>>

accept_tcp_handler ==
    /\ CanAccept
    /\ Idle # {}
    /\ LET i == get_idle_peer
       IN  /\ slots' = [slots EXCEPT ![i].fd = NewFd, ![i].active = TRUE,
                                     ![i].session_timer = socket_timeout]
           /\ registered' = [registered EXCEPT ![NewFd] = i]
           /\ conn' = [conn EXCEPT ![i] = nextConn]
           /\ idle' = [idle EXCEPT ![i] = 0]
    /\ open' = [open EXCEPT ![NewFd] = nextConn]
    /\ connections' = (connections + 1) % U16
    /\ nextConn' = nextConn + 1
    /\ UNCHANGED <<shm, outq, inq, pc, reload, socket_timeout, mqueue, boots,
                   bootActive, leaked, unfinished>>

\* Mutant of AcceptNotRegistered: the count is not taken back.
AcceptNotRegisteredCounts ==
    /\ CanAccept
    /\ Idle # {}
    /\ slots' = [slots EXCEPT ![get_idle_peer].fd = NewFd]
    /\ nextConn' = nextConn + 1
    /\ connections' = (connections + 1) % U16
    /\ UNCHANGED <<shm, outq, inq, pc, reload, socket_timeout, registered, open, mqueue,
                   boots, conn, idle, bootActive, leaked, unfinished>>

\* aeCreateFileEvent fails (fd beyond the set, epoll_ctl error): the slot and
\* the descriptor are given back by close_peer.
AcceptNotRegistered ==
    /\ CanAccept
    /\ Idle # {}
    /\ slots' = [slots EXCEPT ![get_idle_peer].fd = NewFd]
    /\ nextConn' = nextConn + 1
    /\ UNCHANGED <<shm, outq, inq, process, boots, conn, idle, bootActive,
                   leaked, unfinished>>

\* The process dies between peer->active = true and the session timer.
DieInAccept ==
    /\ CanAccept
    /\ Idle # {}
    /\ slots' = [slots EXCEPT ![get_idle_peer].fd = NewFd, ![get_idle_peer].active = TRUE]
    /\ nextConn' = nextConn + 1
    /\ Gone
    /\ UNCHANGED <<shm, outq, inq, boots, unfinished>>
-----------------------------------------------------------------------------
(* peer_request_handler, called for a registered fd with the slot it was   *)
(* registered with.                                                        *)

PeerOf(f) == registered[f]

\* The connection is broken, or a complete packet did not arrive in time.
RequestBroken(f) ==
    /\ pc = "run"
    /\ PeerOf(f) # NoSlot
    /\ close_peer(PeerOf(f))
    /\ UNCHANGED <<shm, outq, inq, pc, reload, socket_timeout, mqueue, boots, nextConn,
                   bootActive, unfinished>>

InRange(len) == len >= 8 /\ len <= MAX_PACKET_LEN

\* ipc_write_queue succeeds: the size limit is that of the queue entry, 16
\* bytes of which are the header that replaces the client's.
Writable(len, dstid) ==
    /\ len + 16 < MAX_MQUEUE_LEN
    /\ dstid # 0
    /\ Len(outq) < QueueCap

peer_request_handler(f, len, dstid) ==
    /\ pc = "run"
    /\ PeerOf(f) # NoSlot
    /\ LET i == PeerOf(f)
       IN  IF InRange(len) /\ Writable(len, dstid)
           THEN /\ outq' = Append(outq, [id |-> slots[i].id, conn |-> open[f]])
                /\ slots' = [slots EXCEPT ![i].session_timer = socket_timeout]
                /\ idle' = [idle EXCEPT ![i] = 0]
                /\ UNCHANGED <<connections, registered, open, conn, leaked>>
           ELSE /\ close_peer(i)
                /\ outq' = outq
    /\ UNCHANGED <<shm, inq, pc, reload, socket_timeout, mqueue, boots, nextConn,
                   bootActive, unfinished>>
-----------------------------------------------------------------------------
(* Responses.                                                              *)

\* External: the device takes a request and answers it, or does not.
DeviceAnswers ==
    /\ outq # <<>>
    /\ Len(inq) < QueueCap
    /\ outq' = Tail(outq)
    /\ inq' = Append(inq, Head(outq))
    /\ UNCHANGED <<shm, slots, process, boots, nextConn, conn, idle, bootActive,
                   leaked, unfinished>>

DeviceIgnores ==
    /\ outq # <<>>
    /\ outq' = Tail(outq)
    /\ UNCHANGED <<shm, slots, inq, process, boots, nextConn, conn, idle, bootActive,
                   leaked, unfinished>>

wait_response_thread ==
    /\ pc = "run"
    /\ inq # <<>>
    /\ Len(mqueue) < QueueCap
    /\ inq' = Tail(inq)
    /\ mqueue' = Append(mqueue, Head(inq))
    /\ UNCHANGED <<shm, slots, outq, pc, reload, socket_timeout, connections, registered,
                   open, boots, nextConn, conn, idle, bootActive, leaked, unfinished>>

\* Mutants of get_active_peer: the index is one too high; slot 1 is left out.
NextActivePeer(id) ==
    {i \in Active : i = id - PEER_ID_OFFSET + 1}

ActivePeerFromTwo(id) ==
    {i \in Active : i = id - PEER_ID_OFFSET /\ i > 1}

\* get_active_peer: the slots an id may stand for (none or one).  Slot 0 is
\* never among them.
get_active_peer(id) ==
    {i \in Active : i = id - PEER_ID_OFFSET /\ i > 0}

ReadResponse ==
    /\ pc = "run"
    /\ mqueue # <<>>
    /\ mqueue' = Tail(mqueue)

ResponseLost ==
    /\ ReadResponse
    /\ get_active_peer(Head(mqueue).id) = {}
    /\ UNCHANGED <<shared, pc, reload, socket_timeout, connections, registered, open,
                   boots, nextConn, conn, idle, bootActive, leaked, unfinished>>

\* tfnet_write to peer->fd succeeds: there must be a connection behind it.
ResponseWritten(i) ==
    /\ ReadResponse
    /\ i \in get_active_peer(Head(mqueue).id)
    /\ slots[i].fd \in Fds /\ open[slots[i].fd] # NoConn
    /\ slots' = [slots EXCEPT ![i].session_timer = socket_timeout]
    /\ idle' = [idle EXCEPT ![i] = 0]
    /\ UNCHANGED <<shm, outq, inq, pc, reload, socket_timeout, connections, registered,
                   open, boots, nextConn, conn, bootActive, leaked, unfinished>>

ResponseNotWritten(i) ==
    /\ ReadResponse
    /\ i \in get_active_peer(Head(mqueue).id)
    /\ close_peer(i)
    /\ UNCHANGED <<shm, outq, inq, pc, reload, socket_timeout, boots, nextConn,
                   bootActive, unfinished>>
-----------------------------------------------------------------------------
\* Mutant of life_cycle_handler: no slot is ever found to have expired.
LifeCycleNeverCloses ==
    /\ pc = "run"
    /\ LET table == [i \in Slots |->
                        IF i \in Active
                        THEN [slots[i] EXCEPT !.session_timer = (@ - 1) % U16]
                        ELSE slots[i]]
           ticks == [i \in Slots |->
                        IF i \in Live /\ idle[i] < U16 THEN idle[i] + 1 ELSE idle[i]]
       IN  ClosePeers({}, table, ticks)
    /\ UNCHANGED <<shm, outq, inq, pc, reload, socket_timeout, mqueue, boots, nextConn,
                   bootActive, unfinished>>

\* The timer of every active slot counts down (as a __u16) and the slots that
\* reach 0 are closed.
life_cycle_handler ==
    /\ pc = "run"
    /\ LET table == [i \in Slots |->
                        IF i \in Active
                        THEN [slots[i] EXCEPT !.session_timer = (@ - 1) % U16]
                        ELSE slots[i]]
           ticks == [i \in Slots |->
                        IF i \in Live /\ idle[i] < U16 THEN idle[i] + 1 ELSE idle[i]]
       IN  ClosePeers({i \in Active : table[i].session_timer = 0}, table, ticks)
    /\ UNCHANGED <<shm, outq, inq, pc, reload, socket_timeout, mqueue, boots, nextConn,
                   bootActive, unfinished>>
-----------------------------------------------------------------------------
Next ==
    \/ InitializeConsole
    \/ \E cfg \in BOOLEAN, t \in Timeouts : initialize(cfg, t)
    \/ init_peers
    \/ Die \/ DieInAccept
    \/ AcceptWithoutSlot \/ accept_tcp_handler \/ AcceptNotRegistered
    \/ \E f \in Fds : RequestBroken(f)
    \/ \E f \in Fds, len \in Lens, dstid \in {0, 1} : peer_request_handler(f, len, dstid)
    \/ DeviceAnswers \/ DeviceIgnores \/ wait_response_thread
    \/ ResponseLost
    \/ \E i \in Slots : ResponseWritten(i) \/ ResponseNotWritten(i)
    \/ life_cycle_handler

Spec == Init /\ [][Next]_vars

\* The life cycle timer is rearmed by its own return value and the loop runs
\* its time events in every iteration.
FairSpec == Spec /\ WF_vars(life_cycle_handler)
-----------------------------------------------------------------------------
(* Correctness.                                                            *)

\* The count logged as "Total peers" is the number of active slots less those
\* that were already active when the service started: exact after a start
\* that initialises the table, otherwise off by the stale slots, wrapping
\* around below zero when these time out (main.c:122, 171).
ConnectionsAccounted ==
    pc = "run" =>
        connections = (Cardinality(Active) - Cardinality(bootActive)) % U16

\* After a start without stale slots the slots, the event registrations and
\* the descriptors agree: an active slot's fd is open, is the connection that
\* was accepted into the slot and calls the handler with that slot; an idle
\* slot owns nothing; and the only other open connections are those accepted
\* with a full table.
SlotsOwnTheirFds ==
    (pc = "run" /\ bootActive = {}) =>
        /\ \A i \in Active :
              /\ slots[i].fd \in Fds
              /\ conn[i] # NoConn
              /\ open[slots[i].fd] = conn[i]
              /\ registered[slots[i].fd] = i
        /\ \A f \in Fds :
              /\ registered[f] # NoSlot => registered[f] \in Active /\ slots[registered[f]].fd = f
              /\ open[f] # NoConn => registered[f] # NoSlot \/ open[f] \in leaked

\* The session timer measures the time since the last traffic of the
\* connection that is in the slot now, never that of an earlier occupant, so
\* no connection is kept longer than socket_timeout life cycles without
\* traffic and none is closed before.  A configured 0 stands for U16 cycles.
IdleTimeBounded ==
    \A i \in Live :
        /\ (slots[i].session_timer + idle[i]) % U16 = socket_timeout
        /\ idle[i] < (IF socket_timeout = 0 THEN U16 ELSE socket_timeout)

\* A response reaches a connection other than the one that asked only if the
\* latter is closed: slots are reused, but never under a connection in use,
\* across restarts with a stale table too.
AstrayOnlyAfterClose ==
    [][\A i \in Slots : ResponseWritten(i) =>
          LET asker == Head(mqueue).conn
          IN  open[slots[i].fd] = asker \/ \A f \in Fds : open[f] # asker]_vars

\* A response is dropped only if the connection that asked has left its slot,
\* except in slot 0 and in a table whose initialisation was cut short.
LostOnlyAfterClose ==
    [][ResponseLost =>
          \A i \in Live \ {0} : conn[i] = Head(mqueue).conn => unfinished]_vars

\* "Peer client[%u] info lost" (main.c:247): a response is dropped only if
\* the slot no longer holds the connection that asked.
DroppedMeansLost ==
    [][ResponseLost =>
          \A i \in Live : conn[i] = Head(mqueue).conn => unfinished]_vars

\* No connection keeps a slot for ever without traffic.
IdlePeersLeave ==
    \A c \in Conns :
        []<>(\A i \in Live : conn[i] = c => idle[i] = 0)
=============================================================================
