----------------------------- MODULE AeBackends -----------------------------
(***************************************************************************)
(* The select and kqueue back ends (tflib/ae/ae_select.c, ae_kqueue.c)     *)
(* next to the event port one: the same program, compiled with one or the  *)
(* other, registers and deletes the same events and polls when the same    *)
(* descriptors are ready.  Which handlers ae.c calls for what a poll       *)
(* reports must not depend on the back end; how often it calls them does,  *)
(* with kqueue, when one function is registered for both events.           *)
(*                                                                         *)
(* select looks at the descriptors up to maxfd, which are all registered   *)
(* ones (MaxfdIsHighest of AeFiles).                                       *)
(***************************************************************************)
EXTENDS AeEvport

CONSTANTS
    Procs,              \* functions that can be registered
    setsize             \* room for kevents, and in eventLoop->fired

ASSUME BackendsAssumption == setsize \in Nat

VARIABLES
    proc,       \* events[fd].rfileProc and wfileProc, as fd -> event -> function
    fds,        \* select: event -> the descriptors in rfds or wfds
    filters     \* kqueue, the kernel's side: fd -> the filters added

backends == <<proc, fds, filters>>
allVars  == <<vars, backends>>

\* The function of an event that is not registered is never looked at.
NoProc == "none"

BackendsInit ==
    /\ Init
    /\ proc = [f \in Fds |-> [e \in Events |-> NoProc]]
    /\ fds = [e \in Events |-> {}]
    /\ filters = [f \in Fds |-> {}]
-----------------------------------------------------------------------------
(* select.                                                                 *)

SelectAddEvent(f, m) ==
    fds' = [e \in Events |-> IF e \in m THEN fds[e] \cup {f} ELSE fds[e]]

SelectDelEvent(f, m) ==
    fds' = [e \in Events |-> IF e \in m THEN fds[e] \ {f} ELSE fds[e]]

\* What select leaves in the copies _rfds and _wfds.
Selected(e) == {f \in fds[e] : e \in ready[f]}

\* What a poll puts in eventLoop->fired.  Every registered descriptor gets an
\* entry, even one for no event.
SelectPoll ==
    IF \A e \in Events : Selected(e) = {} THEN {}
    ELSE {[fd |-> f, mask |-> {e \in mask[f] : f \in Selected(e)}] :
              f \in {g \in Fds : mask[g] # AE_NONE}}
-----------------------------------------------------------------------------
(* kqueue.                                                                 *)

KqueueAddEvent(f, m) == filters' = [filters EXCEPT ![f] = @ \cup m]

\* The filter for writing is refused after the one for reading was added.
KqueueAddFails(f) == filters' = [filters EXCEPT ![f] = @ \cup {"readable"}]

KqueueDelEvent(f, m) == filters' = [filters EXCEPT ![f] = @ \ m]

Triggered == {t \in Fds \X Events : t[2] \in filters[t[1]] \cap ready[t[1]]}

\* What kevent may return: all that triggers, or as many as there is room for.
Batches == {T \in SUBSET Triggered : IF Cardinality(Triggered) <= setsize
                                     THEN T = Triggered
                                     ELSE Cardinality(T) = setsize}

\* Mutant of KqueuePoll: the entry of a descriptor is taken from one of its
\* filters.
KqueuePollMerges(T) ==
    {[fd |-> t[1], mask |-> {CHOOSE e \in Events : <<t[1], e>> \in T}] : t \in T}

\* What a poll puts in eventLoop->fired: one entry per kevent.
KqueuePoll(T) == {[fd |-> t[1], mask |-> {t[2]}] : t \in T}
-----------------------------------------------------------------------------
(* The three side by side.  A poll of select or kqueue changes nothing but *)
(* eventLoop->fired.                                                       *)

Create(f, m, p) ==
    /\ aeCreateFileEvent(f, m)
    /\ proc' = [proc EXCEPT ![f] = [e \in Events |-> IF e \in m THEN p ELSE @[e]]]
    /\ SelectAddEvent(f, m)
    /\ KqueueAddEvent(f, m)

\* kqueue's aeCreateFileEvent returns AE_ERR, and the table is not changed;
\* the call is left out of the programs built with the other two.
CreateFails(f) ==
    /\ aborted = Running
    /\ KqueueAddFails(f)
    /\ UNCHANGED <<vars, proc, fds>>

Delete(f, m) ==
    /\ aeDeleteFileEvent(f, m)
    /\ SelectDelEvent(f, m)
    /\ KqueueDelEvent(f, m)
    /\ proc' = [proc EXCEPT ![f] = [e \in Events |-> IF e \in m THEN NoProc ELSE @[e]]]

BackendsNext ==
    \/ \E f \in Fds, m \in Masks :
          \/ \E p \in Procs : Create(f, m, p)
          \/ Delete(f, m)
          \/ DeleteRefused(f, m) /\ UNCHANGED backends
          \/ Change(f, m) /\ UNCHANGED backends
    \/ \E f \in Fds :
          \/ CreateFails(f)
          \/ (RestoreRefused(f) \/ Fail(f)) /\ UNCHANGED backends
    \/ \E S \in SUBSET Fds : aeApiPoll(S) /\ UNCHANGED backends
    \/ PollNothing /\ UNCHANGED backends

BackendsSpec == BackendsInit /\ [][BackendsNext]_allVars
-----------------------------------------------------------------------------
(* What ae.c does with a batch.                                            *)

\* The functions called for an entry, as far as the table has a handler for
\* it: each once, since wfileProc is not called after an rfileProc that is the
\* same function.
Called(b) == {proc[b.fd][e] : e \in b.mask \cap mask[b.fd]}

\* Mutant of Calls: wfileProc is called whatever rfileProc was.
CallsWithoutLooking(batch, f, p) ==
    Cardinality({t \in batch \X Events :
        t[1].fd = f /\ t[2] \in t[1].mask \cap mask[f] /\ proc[f][t[2]] = p})

\* How often a batch leads to a call of p for f, if no handler changes the
\* table meanwhile.
Calls(batch, f, p) == Cardinality({b \in batch : b.fd = f /\ p \in Called(b)})
-----------------------------------------------------------------------------
(* Correctness.                                                            *)

EvportBatch == {[fd |-> f, mask |-> Restored[f] \cap ready[f]] : f \in Deliverable}

\* The events of f that are registered with p and ready.
DueTo(f, p) == {e \in mask[f] \cap ready[f] : proc[f][e] = p}

\* While there is room in its batch, a poll leads to calls of the functions
\* that are registered for an event that is ready and of no others, whichever
\* back end the library was built with: although select reports descriptors
\* that are not ready, kqueue may know filters the table does not, and the
\* event port forgets an association whenever it reports it.  With select and
\* event ports each function is called once per descriptor; with kqueue once
\* per event, so that one registered for both events is called twice, which
\* the comparison of ae.c:370 cannot prevent.
BackEndsAgree ==
    aborted = Running =>
        \A f \in Fds, p \in Procs :
            LET once == IF DueTo(f, p) = {} THEN 0 ELSE 1
            IN  /\ Calls(SelectPoll, f, p) = once
                /\ Calls(EvportBatch, f, p) = once
                /\ \A T \in Batches : Cardinality(T) < setsize =>
                      Calls(KqueuePoll(T), f, p) = Cardinality(DueTo(f, p))
=============================================================================
