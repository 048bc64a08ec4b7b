------------------------------- MODULE AePoll -------------------------------
(***************************************************************************)
(* What ae.c expects of a polling back end (the aeApi functions): it knows *)
(* the events each descriptor is registered for, and a poll reports the    *)
(* descriptors that are ready for such an event, once each, with exactly   *)
(* those events, leaving out none while there is room in the batch.  A     *)
(* registered descriptor may also be reported for no event, which ae.c     *)
(* ignores, and a poll may come back with nothing (a signal, or the        *)
(* timeout).                                                               *)
(***************************************************************************)
EXTENDS Integers, FiniteSets

CONSTANTS Fds, Events, BatchSize

VARIABLES
    interest,   \* fd -> the events it is registered for
    ready,      \* fd -> the events it is ready for (level-triggered)
    fired       \* what the last poll returned

vars == <<interest, ready, fired>>

Masks == SUBSET Events

Init ==
    /\ interest = [f \in Fds |-> {}]
    /\ ready = [f \in Fds |-> {}]
    /\ fired = {}

Add(f, mask) ==
    /\ interest' = [interest EXCEPT ![f] = @ \cup mask]
    /\ UNCHANGED <<ready, fired>>

Del(f, mask) ==
    /\ interest' = [interest EXCEPT ![f] = @ \ mask]
    /\ UNCHANGED <<ready, fired>>

\* Data arrives, is read, a buffer fills or drains.
Change(f, mask) ==
    /\ ready' = [ready EXCEPT ![f] = mask]
    /\ UNCHANGED <<interest, fired>>

Due == {f \in Fds : interest[f] \cap ready[f] # {}}

\* S are the descriptors reported.
Poll(S) ==
    /\ \A f \in S : interest[f] # {}
    /\ Due \subseteq S \/ Cardinality(S) = BatchSize
    /\ fired' = {[fd |-> f, mask |-> interest[f] \cap ready[f]] : f \in S}
    /\ UNCHANGED <<interest, ready>>

PollNothing ==
    /\ fired' = {}
    /\ UNCHANGED <<interest, ready>>

Next ==
    \/ \E f \in Fds, m \in Masks : Add(f, m) \/ Del(f, m) \/ Change(f, m)
    \/ \E S \in SUBSET Fds : Poll(S)
    \/ PollNothing

Spec == Init /\ [][Next]_vars
=============================================================================
