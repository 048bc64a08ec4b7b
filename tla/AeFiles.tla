------------------------------ MODULE AeFiles -------------------------------
(***************************************************************************)
(* The file events of the ae event loop (tflib/ae/ae.c) over the epoll     *)
(* back end (tflib/ae/ae_epoll.c): the table of registered events, the     *)
(* highest registered descriptor, the kernel's interest list, and the      *)
(* dispatch of one batch of fired events while the handlers change all of  *)
(* these, close descriptors and open new ones.                             *)
(***************************************************************************)
EXTENDS Integers, Sequences, FiniteSets

CONSTANTS
    SETSIZE,    \* eventLoop->setsize
    MaxFd,      \* the highest descriptor the process may have
    Procs,      \* handler functions
    NoProc,     \* an uninitialised function pointer
    MaxFiles    \* bound: files ever opened

ASSUME FilesAssumption ==
    /\ SETSIZE \in Nat \ {0}
    /\ MaxFd \in Nat /\ MaxFd >= SETSIZE - 1
    /\ MaxFiles \in Nat
    /\ NoProc \notin Procs

Fds   == 0..MaxFd
Table == 0..(SETSIZE - 1)

AE_NONE     == {}
AE_READABLE == "readable"
AE_WRITABLE == "writable"
Masks == SUBSET {AE_READABLE, AE_WRITABLE}

NoFile == 0

VARIABLES
    events,      \* fd -> [mask, rfileProc, wfileProc]
    maxfd,
    interest,    \* the kernel's side: fd -> events that epoll watches
    file,        \* the kernel's side: fd -> the open file behind it
    nextFile,
    pc,          \* "app", "read", "inread", "write", "inwrite"
    fired,       \* the events that aeApiPoll returned; "file" is auxiliary
    j,           \* index of the dispatch loop
    rfired,
    served,      \* auxiliary: the reader called for fired[j]
    owed,        \* auxiliary: fired events whose handler must still be called
    touched      \* auxiliary: descriptors whose registration changed since the poll

loop == <<events, maxfd, interest>>
batch == <<pc, fired, j, rfired, served>>
vars == <<events, maxfd, interest, file, nextFile, pc, fired, j, rfired, served,
          owed, touched>>

Registered == {f \in Table : events[f].mask # AE_NONE}
-----------------------------------------------------------------------------
\* aeCreateEventLoop, before the application has opened anything else.
Init ==
    /\ events = [f \in Table |-> [mask |-> AE_NONE, rfileProc |-> NoProc,
                                  wfileProc |-> NoProc]]
    /\ maxfd = -1
    /\ interest = [f \in Fds |-> AE_NONE]
    /\ file = [f \in Fds |-> NoFile]
    /\ nextFile = 1
    /\ pc = "app"
    /\ fired = <<>>
    /\ j = 1
    /\ rfired = FALSE
    /\ served = NoProc
    /\ owed = {}
    /\ touched = {}
-----------------------------------------------------------------------------
(* What the application does between two polls and inside its handlers.    *)

InApplication == pc \in {"app", "inread", "inwrite"}

Open(f) ==
    /\ InApplication
    /\ nextFile <= MaxFiles
    /\ file[f] = NoFile /\ \A g \in 0..(f - 1) : file[g] # NoFile
    /\ file' = [file EXCEPT ![f] = nextFile]
    /\ nextFile' = nextFile + 1
    /\ UNCHANGED <<loop, batch, owed, touched>>

\* The application deletes a descriptor's events before it closes it, as
\* close_peer does.  A close removes the file from epoll.
Close(f) ==
    /\ InApplication
    /\ file[f] # NoFile
    /\ f \in Table => events[f].mask = AE_NONE
    /\ file' = [file EXCEPT ![f] = NoFile]
    /\ interest' = [interest EXCEPT ![f] = AE_NONE]
    /\ UNCHANGED <<events, maxfd, nextFile, batch, owed, touched>>

\* epoll_ctl: ADD wants a descriptor that is not watched, MOD one that is.
EpollAccepts(op, f) == file[f] # NoFile /\ (op = "add" <=> interest[f] = AE_NONE)

\* aeApiAddEvent: the operation and the merged mask come from the loop's table.
aeApiAddEvent(f, mask) ==
    /\ EpollAccepts(IF events[f].mask = AE_NONE THEN "add" ELSE "mod", f)
    /\ interest' = [interest EXCEPT ![f] = mask \cup events[f].mask]

\* A descriptor out of range, or one that epoll_ctl refuses, changes nothing
\* (AE_ERR).
aeCreateFileEvent(f, mask, proc) ==
    /\ InApplication
    /\ f < SETSIZE
    /\ aeApiAddEvent(f, mask)
    /\ events' = [events EXCEPT ![f] =
                     [mask |-> @.mask \cup mask,
                      rfileProc |-> IF AE_READABLE \in mask THEN proc ELSE @.rfileProc,
                      wfileProc |-> IF AE_WRITABLE \in mask THEN proc ELSE @.wfileProc]]
    /\ maxfd' = IF f > maxfd THEN f ELSE maxfd
    /\ owed' = owed \ ({f} \X {AE_READABLE, AE_WRITABLE})
    /\ touched' = touched \cup {f}
    /\ UNCHANGED <<file, nextFile, batch>>

\* Mutant of HighestBelow: the next lower number, registered or not.
NextBelow(f) == f - 1

\* The highest descriptor below f that is still registered, or -1.
HighestBelow(f) ==
    CHOOSE g \in -1..(f - 1) :
        /\ g # -1 => events[g].mask # AE_NONE
        /\ \A h \in (g + 1)..(f - 1) : events[h].mask = AE_NONE

\* Mutant of aeApiDelEvent: EPOLL_CTL_DEL whatever is left.
DelWholeDescriptor(f, mask) ==
    interest' = [interest EXCEPT ![f] = AE_NONE]

\* aeApiDelEvent, called with the table already updated.
aeApiDelEvent(f, mask) ==
    interest' = [interest EXCEPT ![f] = mask]

aeDeleteFileEvent(f, mask) ==
    /\ InApplication
    /\ f < SETSIZE
    /\ events[f].mask # AE_NONE
    /\ LET left == events[f].mask \ mask
       IN  /\ events' = [events EXCEPT ![f].mask = left]
           /\ maxfd' = IF f = maxfd /\ left = AE_NONE THEN HighestBelow(f) ELSE maxfd
           /\ aeApiDelEvent(f, left)
    /\ owed' = owed \ ({f} \X mask)
    /\ touched' = touched \cup {f}
    /\ UNCHANGED <<file, nextFile, batch>>
-----------------------------------------------------------------------------
(* aeApiPoll and the dispatch loop of aeProcessEvents.                     *)

\* What epoll_wait may report of a watched descriptor: requested events, and
\* an error or hang-up, which is reported as writable without being asked for.
Reportable(f) == {m \in Masks \ {{}} : AE_READABLE \in m => AE_READABLE \in interest[f]}

Entry(f, m) == [fd |-> f, mask |-> m, file |-> file[f]]

\* epoll_wait is given room for setsize events.
Batches ==
    LET W == {f \in Fds : interest[f] # AE_NONE}
        E == UNION {{Entry(f, m) : m \in Reportable(f)} : f \in W}
    IN  UNION {[1..n -> E] : n \in 0..SETSIZE}

DistinctFds(s) == \A a, b \in DOMAIN s : a # b => s[a].fd # s[b].fd

aeApiPoll(s) ==
    /\ pc = "app"
    /\ maxfd # -1 \/ s = <<>>
    /\ DistinctFds(s)
    /\ pc' = "read"
    /\ fired' = s
    /\ j' = 1
    /\ rfired' = FALSE
    /\ served' = NoProc
    /\ owed' = UNION {{s[k].fd} \X (s[k].mask \cap events[s[k].fd].mask) : k \in DOMAIN s}
    /\ touched' = {}
    /\ UNCHANGED <<loop, file, nextFile>>

fe == events[fired[j].fd]

Valid(ev) == ev \in fe.mask /\ ev \in fired[j].mask

CallReader ==
    /\ pc = "read"
    /\ j <= Len(fired)
    /\ Valid(AE_READABLE)
    /\ pc' = "inread"
    /\ rfired' = TRUE
    /\ served' = fe.rfileProc
    /\ owed' = owed \ {<<fired[j].fd, AE_READABLE>>}
    /\ UNCHANGED <<loop, file, nextFile, fired, j, touched>>

NoReader ==
    /\ pc = "read"
    /\ j <= Len(fired)
    /\ ~Valid(AE_READABLE)
    /\ pc' = "write"
    /\ UNCHANGED <<loop, file, nextFile, fired, j, rfired, served, owed, touched>>

ReaderReturns ==
    /\ pc = "inread"
    /\ pc' = "write"
    /\ UNCHANGED <<loop, file, nextFile, fired, j, rfired, served, owed, touched>>

\* Mutant of WriterDue: never after a reader.
WriterInsteadOfReader == Valid(AE_WRITABLE) /\ ~rfired

\* The writer is called unless it is the function that was called as reader.
WriterDue == Valid(AE_WRITABLE) /\ (~rfired \/ fe.wfileProc # fe.rfileProc)

CallWriter ==
    /\ pc = "write"
    /\ WriterDue
    /\ pc' = "inwrite"
    /\ owed' = owed \ {<<fired[j].fd, AE_WRITABLE>>}
    /\ UNCHANGED <<loop, file, nextFile, fired, j, rfired, served, touched>>

NextEntry ==
    /\ pc' = "read"
    /\ j' = j + 1
    /\ rfired' = FALSE
    /\ served' = NoProc

\* The one function that serves both events has served this one.
NoWriter ==
    /\ pc = "write"
    /\ ~WriterDue
    /\ owed' = IF Valid(AE_WRITABLE) /\ fe.wfileProc = served
               THEN owed \ {<<fired[j].fd, AE_WRITABLE>>} ELSE owed
    /\ NextEntry
    /\ UNCHANGED <<loop, file, nextFile, fired, touched>>

WriterReturns ==
    /\ pc = "inwrite"
    /\ NextEntry
    /\ UNCHANGED <<loop, file, nextFile, fired, owed, touched>>

EndBatch ==
    /\ pc = "read"
    /\ j > Len(fired)
    /\ pc' = "app"
    /\ fired' = <<>>
    /\ j' = 1
    /\ touched' = {}
    /\ UNCHANGED <<loop, file, nextFile, rfired, served, owed>>
-----------------------------------------------------------------------------
Next ==
    \/ \E f \in Fds : Open(f) \/ Close(f)
    \/ \E f \in Fds, m \in Masks \ {{}}, p \in Procs : aeCreateFileEvent(f, m, p)
    \/ \E f \in Fds, m \in Masks \ {{}} : aeDeleteFileEvent(f, m)
    \/ \E s \in Batches : aeApiPoll(s)
    \/ CallReader \/ NoReader \/ ReaderReturns
    \/ CallWriter \/ NoWriter \/ WriterReturns
    \/ EndBatch

Spec == Init /\ [][Next]_vars
-----------------------------------------------------------------------------
(* Correctness.                                                            *)

\* maxfd is the "highest file descriptor currently registered" (ae.h:71), or
\* -1, in whatever order descriptors are registered and deleted: select
\* relies on it, and aeProcessEvents does not poll when it is -1.
MaxfdIsHighest ==
    /\ \A f \in Registered : f <= maxfd
    /\ maxfd # -1 => maxfd \in Registered

\* The kernel watches exactly what the loop's table says, and only open
\* descriptors: the choice between ADD and MOD never goes wrong and every
\* file event that an application registered can fire.
KernelMatchesTable ==
    /\ \A f \in Table : interest[f] = events[f].mask
    /\ \A f \in Fds : interest[f] # AE_NONE => f \in Table /\ file[f] # NoFile

\* When the loop has gone through a batch, every handler whose event fired
\* and whose registration no handler changed in the meantime has been called.
NoFiredEventMissed == [][EndBatch => owed = {}]_vars

\* "we check if the event is still valid" (ae.c:362-364): a handler is called
\* only for an event of the file that is open behind the descriptor now.
EventStillValid ==
    [][CallReader \/ CallWriter => fired[j].file = file[fired[j].fd]]_vars
=============================================================================
