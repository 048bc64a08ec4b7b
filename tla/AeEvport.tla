------------------------------ MODULE AeEvport ------------------------------
(***************************************************************************)
(* The Solaris event port back end (tflib/ae/ae_evport.c) under the calls  *)
(* ae.c makes on it.  An association with the port ends when it delivers   *)
(* an event; the back end remembers such descriptors as pending and        *)
(* restores the association at the next poll, so that a handler that did   *)
(* not consume everything is told again.  In between, handlers add and     *)
(* delete events of pending and of associated descriptors alike.           *)
(***************************************************************************)
EXTENDS Integers, FiniteSets

CONSTANTS
    Fds,
    Events,             \* {readable, writable}
    MAX_EVENT_BATCHSZ

ASSUME EvportAssumption ==
    /\ IsFiniteSet(Fds)
    /\ IsFiniteSet(Events)
    /\ MAX_EVENT_BATCHSZ \in Nat \ {0}

VARIABLES
    mask,       \* eventLoop->events[fd].mask
    assoc,      \* the kernel's side: fd -> events associated with the port
    pending,    \* pending_fds and pending_masks, as fd -> mask; {} is not pending
    ready,      \* the kernel's side: fd -> events it is ready for
    failed,     \* the kernel's side: descriptors in error or hung up
    fired,      \* eventLoop->fired after the last aeApiPoll
    aborted     \* the call after which the back end called abort(), if any

vars == <<mask, assoc, pending, ready, failed, fired, aborted>>

AE_NONE == {}
Running == "no"
Masks == SUBSET Events
-----------------------------------------------------------------------------
Init ==
    /\ mask = [f \in Fds |-> AE_NONE]
    /\ assoc = [f \in Fds |-> AE_NONE]
    /\ pending = [f \in Fds |-> AE_NONE]
    /\ ready = [f \in Fds |-> {}]
    /\ failed = {}
    /\ fired = {}
    /\ aborted = Running

\* port_associate replaces whatever was associated before.
aeApiAssociate(f, m) == assoc' = [assoc EXCEPT ![f] = m]

Pending(f) == pending[f] # AE_NONE

\* Mutant of aeApiAddEvent: a pending descriptor is associated at once.
AddAssociatesPending(f, m) ==
    LET fullmask == m \cup mask[f]
    IN  /\ aeApiAssociate(f, fullmask)
        /\ pending' = pending

\* Mutant of aeApiAddEvent: the pending entry is given the table's mask only.
AddForgetsNewEvent(f, m) ==
    LET fullmask == m \cup mask[f]
    IN  IF Pending(f)
        THEN /\ pending' = [pending EXCEPT ![f] = @ \cup mask[f]]
             /\ assoc' = assoc
        ELSE /\ aeApiAssociate(f, fullmask)
             /\ pending' = pending

aeApiAddEvent(f, m) ==
    LET fullmask == m \cup mask[f]
    IN  IF Pending(f)
        THEN /\ pending' = [pending EXCEPT ![f] = @ \cup fullmask]
             /\ assoc' = assoc
        ELSE /\ aeApiAssociate(f, fullmask)
             /\ pending' = pending

aeCreateFileEvent(f, m) ==
    /\ aborted = Running
    /\ m # AE_NONE
    /\ aeApiAddEvent(f, m)
    /\ mask' = [mask EXCEPT ![f] = @ \cup m]
    /\ UNCHANGED <<ready, failed, fired, aborted>>

\* Called after the loop's mask has become left.  Dissociating a descriptor
\* that is not associated is an error, and the back end aborts.
aeApiDelEvent(f, m, left) ==
    \/ /\ Pending(f)
       /\ pending' = [pending EXCEPT ![f] = @ \ m]
       /\ UNCHANGED <<assoc, aborted>>
    \/ /\ ~Pending(f)
       /\ left = AE_NONE
       /\ assoc' = [assoc EXCEPT ![f] = AE_NONE]
       /\ aborted' = IF assoc[f] = AE_NONE THEN "dissociate" ELSE aborted
       /\ pending' = pending
    \/ /\ ~Pending(f)
       /\ left # AE_NONE
       /\ aeApiAssociate(f, left)
       /\ UNCHANGED <<pending, aborted>>

aeDeleteFileEvent(f, m) ==
    /\ aborted = Running
    /\ mask[f] # AE_NONE
    /\ mask' = [mask EXCEPT ![f] = @ \ m]
    /\ aeApiDelEvent(f, m, mask[f] \ m)
    /\ UNCHANGED <<ready, failed, fired>>

\* The associations once the pending ones are restored.
Restored == [f \in Fds |-> IF Pending(f) THEN pending[f] ELSE assoc[f]]

\* POLLERR and POLLHUP are delivered for every associated descriptor.
Deliverable ==
    {f \in Fds : Restored[f] # AE_NONE /\ (f \in failed \/ Restored[f] \cap ready[f] # {})}

\* port_getn takes what there is, up to the size of the batch, and ends the
\* associations of what it takes.  A descriptor that only failed is reported
\* for no event, and is pending all the same.
aeApiPoll(S) ==
    /\ aborted = Running
    /\ S \subseteq Deliverable
    /\ S = Deliverable \/ Cardinality(S) = MAX_EVENT_BATCHSZ
    /\ fired' = {[fd |-> f, mask |-> Restored[f] \cap ready[f]] : f \in S}
    /\ assoc' = [f \in Fds |-> IF f \in S THEN AE_NONE ELSE Restored[f]]
    /\ pending' = [f \in Fds |-> IF f \in S THEN Restored[f] ELSE AE_NONE]
    /\ UNCHANGED <<mask, ready, failed, aborted>>

\* port_getn times out or is interrupted: the associations are restored.
PollNothing ==
    /\ aborted = Running
    /\ fired' = {}
    /\ assoc' = Restored
    /\ pending' = [f \in Fds |-> AE_NONE]
    /\ UNCHANGED <<mask, ready, failed, aborted>>

\* port_associate may fail for want of resources.  aeCreateFileEvent then
\* changes nothing and returns AE_ERR; elsewhere the process aborts.
DeleteRefused(f, m) ==
    /\ aborted = Running
    /\ ~Pending(f)
    /\ mask[f] \ m # AE_NONE
    /\ mask' = [mask EXCEPT ![f] = @ \ m]
    /\ aborted' = "associate"
    /\ UNCHANGED <<assoc, pending, ready, failed, fired>>

RestoreRefused(f) ==
    /\ aborted = Running
    /\ Pending(f)
    /\ aborted' = "associate"
    /\ UNCHANGED <<mask, assoc, pending, ready, failed, fired>>

\* External: a descriptor becomes ready or stops being so.
Change(f, m) ==
    /\ ready' = [ready EXCEPT ![f] = m]
    /\ UNCHANGED <<mask, assoc, pending, failed, fired, aborted>>

\* External: the peer hangs up or an error is noted, or is over.
Fail(f) ==
    /\ failed' = IF f \in failed THEN failed \ {f} ELSE failed \cup {f}
    /\ UNCHANGED <<mask, assoc, pending, ready, fired, aborted>>

Next ==
    \/ \E f \in Fds, m \in Masks :
          \/ aeCreateFileEvent(f, m)
          \/ aeDeleteFileEvent(f, m) \/ DeleteRefused(f, m)
          \/ Change(f, m)
    \/ \E f \in Fds : RestoreRefused(f) \/ Fail(f)
    \/ \E S \in SUBSET Fds : aeApiPoll(S)
    \/ PollNothing

Spec == Init /\ [][Next]_vars
-----------------------------------------------------------------------------
(* Correctness.                                                            *)

TypeOK ==
    /\ mask \in [Fds -> Masks]
    /\ assoc \in [Fds -> Masks]
    /\ pending \in [Fds -> Masks]
    /\ ready \in [Fds -> Masks]
    /\ failed \subseteq Fds
    /\ fired \subseteq [fd : Fds, mask : Masks]
    /\ aborted \in {Running, "associate", "dissociate"}

\* "each fd association is EITHER (a) represented only via the in-kernel
\* assocation OR (b) represented by pending_fds and pending_masks. (b) is
\* only true for the last fds we returned from aeApiPoll" (ae_evport.c:35):
\* and together they are what the loop's table says.
EitherKernelOrPending ==
    aborted = Running =>
        \A f \in Fds :
            /\ assoc[f] = AE_NONE \/ pending[f] = AE_NONE
            /\ assoc[f] \cup pending[f] = mask[f]
            /\ Pending(f) => \E e \in fired : e.fd = f

\* "Failure here indicates a bug" (ae_evport.c:191): port_dissociate is only
\* called for a descriptor that is associated.
NeverAborts == aborted # "dissociate"

\* The back end does what ae.c expects of a poller: no registered event of a
\* ready descriptor is lost by the one-shot associations, and nothing is
\* reported that is not registered.
Poller == INSTANCE AePoll WITH interest <- mask, BatchSize <- MAX_EVENT_BATCHSZ

ImplementsPoller == Poller!Spec
=============================================================================
