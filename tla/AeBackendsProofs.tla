-------------------------- MODULE AeBackendsProofs --------------------------
(***************************************************************************)
(* The back ends of ae.c, for any set of descriptors, any set of events    *)
(* and any batch size.  Event ports: what a descriptor is registered for   *)
(* is always held in exactly one of the two places the back end keeps it,  *)
(* no dissociation fails, and the back end implements the poller that ae.c *)
(* expects.  Event ports, select and kqueue: a poll leads to calls of the  *)
(* same functions, and how often.                                          *)
(***************************************************************************)
EXTENDS AeBackends, FiniteSetTheorems, TLAPS

\* The inductive invariant.  EitherKernelOrPending says nothing of a process
\* that aborted, and so does not by itself exclude a failed dissociation.
EvportInv == TypeOK /\ EitherKernelOrPending /\ NeverAborts
-----------------------------------------------------------------------------
\* A descriptor that is not pending is associated with what the table says,
\* and a pending one will be.
LEMMA HeldInOnePlace ==
    ASSUME EvportInv, aborted = Running, NEW f \in Fds
    PROVE  /\ ~Pending(f) => assoc[f] = mask[f]
           /\ Pending(f) => pending[f] = mask[f]
  <1>1. /\ assoc[f] = {} \/ pending[f] = {}
        /\ assoc[f] \cup pending[f] = mask[f]
    BY DEF EvportInv, EitherKernelOrPending, AE_NONE
  <1>2. assoc[f] \cup {} = assoc[f] /\ {} \cup pending[f] = pending[f]
    OBVIOUS
  <1> QED
    BY <1>1, <1>2 DEF Pending, AE_NONE

\* While the invariant holds, restoring the pending associations gives back
\* what the loop's table says: the one-shot associations lose nothing.
LEMMA RestoredIsMask ==
    ASSUME EvportInv, aborted = Running
    PROVE  Restored = mask
  <1>1. \A f \in Fds : (IF Pending(f) THEN pending[f] ELSE assoc[f]) = mask[f]
    BY HeldInOnePlace
  <1> QED
    BY <1>1 DEF EvportInv, TypeOK, Restored

LEMMA EvportInit == Init => EvportInv
  BY DEF Init, EvportInv, TypeOK, EitherKernelOrPending, NeverAborts, Pending, Masks,
         AE_NONE, Running
-----------------------------------------------------------------------------
LEMMA EvportCreate ==
    ASSUME EvportInv, NEW f \in Fds, NEW m \in Masks, aeCreateFileEvent(f, m)
    PROVE  EvportInv'
  <1> USE DEF Masks
  <1>1. aborted = Running /\ UNCHANGED <<ready, failed, fired, aborted>>
        /\ mask' = [mask EXCEPT ![f] = @ \cup m]
    BY DEF aeCreateFileEvent
  <1>2. CASE Pending(f)
    <2>1. pending' = [pending EXCEPT ![f] = @ \cup (m \cup mask[f])] /\ assoc' = assoc
      BY <1>2 DEF aeCreateFileEvent, aeApiAddEvent
    <2>2. TypeOK'
      BY <1>1, <2>1 DEF EvportInv, TypeOK
    <2>3. EitherKernelOrPending'
      BY <1>1, <1>2, <2>1 DEF EvportInv, TypeOK, EitherKernelOrPending, Pending, AE_NONE
    <2> QED
      BY <1>1, <2>2, <2>3 DEF EvportInv, NeverAborts
  <1>3. CASE ~Pending(f)
    <2>1. assoc' = [assoc EXCEPT ![f] = m \cup mask[f]] /\ pending' = pending
      BY <1>3 DEF aeCreateFileEvent, aeApiAddEvent, aeApiAssociate
    <2>2. TypeOK'
      BY <1>1, <2>1 DEF EvportInv, TypeOK
    <2>3. EitherKernelOrPending'
      BY <1>1, <1>3, <2>1 DEF EvportInv, TypeOK, EitherKernelOrPending, Pending, AE_NONE
    <2> QED
      BY <1>1, <2>2, <2>3 DEF EvportInv, NeverAborts
  <1> QED
    BY <1>2, <1>3

LEMMA EvportDelete ==
    ASSUME EvportInv, NEW f \in Fds, NEW m \in Masks, aeDeleteFileEvent(f, m)
    PROVE  EvportInv'
  <1> USE DEF Masks
  <1>1. aborted = Running /\ mask[f] # AE_NONE /\ UNCHANGED <<ready, failed, fired>>
        /\ mask' = [mask EXCEPT ![f] = @ \ m] /\ aeApiDelEvent(f, m, mask[f] \ m)
    BY DEF aeDeleteFileEvent
  <1>2. CASE Pending(f)
    <2>1. pending' = [pending EXCEPT ![f] = @ \ m] /\ assoc' = assoc /\ aborted' = aborted
      BY <1>1, <1>2 DEF aeApiDelEvent
    <2>2. TypeOK'
      BY <1>1, <2>1 DEF EvportInv, TypeOK
    <2>3. EitherKernelOrPending'
      BY <1>1, <1>2, <2>1 DEF EvportInv, TypeOK, EitherKernelOrPending, Pending, AE_NONE
    <2> QED
      BY <1>1, <2>1, <2>2, <2>3 DEF EvportInv, NeverAborts
  <1>3. CASE ~Pending(f)
    <2>1. assoc[f] = mask[f]
      BY <1>1, <1>3, HeldInOnePlace
    <2>2. assoc' = [assoc EXCEPT ![f] = mask[f] \ m] /\ pending' = pending
          /\ aborted' = aborted
      BY <1>1, <1>3, <2>1 DEF aeApiDelEvent, aeApiAssociate
    <2>3. TypeOK'
      BY <1>1, <2>2 DEF EvportInv, TypeOK
    <2>4. EitherKernelOrPending'
      BY <1>1, <1>3, <2>2 DEF EvportInv, TypeOK, EitherKernelOrPending, Pending, AE_NONE
    <2> QED
      BY <1>1, <2>2, <2>3, <2>4 DEF EvportInv, NeverAborts
  <1> QED
    BY <1>2, <1>3

LEMMA EvportPoll ==
    ASSUME EvportInv, NEW S \in SUBSET Fds, aeApiPoll(S)
    PROVE  EvportInv'
  <1> USE DEF Masks
  <1>1. aborted = Running /\ UNCHANGED <<mask, ready, failed, aborted>> /\ Restored = mask
    BY RestoredIsMask DEF aeApiPoll
  <1>2. /\ fired' = {[fd |-> f, mask |-> mask[f] \cap ready[f]] : f \in S}
        /\ assoc' = [f \in Fds |-> IF f \in S THEN AE_NONE ELSE mask[f]]
        /\ pending' = [f \in Fds |-> IF f \in S THEN mask[f] ELSE AE_NONE]
    BY <1>1 DEF aeApiPoll
  <1>3. TypeOK'
    <2>1. fired' \subseteq [fd : Fds, mask : SUBSET Events]
      BY <1>2 DEF EvportInv, TypeOK
    <2> QED
      BY <1>1, <1>2, <2>1 DEF EvportInv, TypeOK, AE_NONE
  <1>4. \A f \in S : \E e \in fired' : e.fd = f
    <2> TAKE f \in S
    <2> DEFINE e == [fd |-> f, mask |-> mask[f] \cap ready[f]]
    <2>1. e \in fired' /\ e.fd = f
      BY <1>2
    <2> QED
      BY <2>1
  <1>5. EitherKernelOrPending'
    BY <1>1, <1>2, <1>4 DEF EvportInv, TypeOK, EitherKernelOrPending, Pending, AE_NONE
  <1> QED
    BY <1>1, <1>3, <1>5 DEF EvportInv, NeverAborts

LEMMA EvportPollNothing ==
    ASSUME EvportInv, PollNothing
    PROVE  EvportInv'
  <1> USE DEF Masks
  <1>1. /\ aborted = Running /\ UNCHANGED <<mask, ready, failed, aborted>>
        /\ fired' = {}
        /\ assoc' = mask
        /\ pending' = [f \in Fds |-> AE_NONE]
    BY RestoredIsMask DEF PollNothing
  <1> QED
    BY <1>1 DEF EvportInv, TypeOK, EitherKernelOrPending, NeverAborts, Pending, AE_NONE

LEMMA EvportStep == EvportInv /\ [Next]_vars => EvportInv'
  <1> SUFFICES ASSUME EvportInv, [Next]_vars PROVE EvportInv'
    OBVIOUS
  <1>1. ASSUME NEW f \in Fds, NEW m \in Masks, DeleteRefused(f, m) PROVE EvportInv'
    BY <1>1 DEF DeleteRefused, EvportInv, TypeOK, EitherKernelOrPending, NeverAborts,
                Running, Masks
  <1>2. ASSUME NEW f \in Fds, RestoreRefused(f) PROVE EvportInv'
    BY <1>2 DEF RestoreRefused, EvportInv, TypeOK, EitherKernelOrPending, NeverAborts,
                Running
  <1>3. ASSUME NEW f \in Fds, NEW m \in Masks, Change(f, m) PROVE EvportInv'
    BY <1>3 DEF Change, EvportInv, TypeOK, EitherKernelOrPending, NeverAborts, Pending
  <1>4. ASSUME NEW f \in Fds, Fail(f) PROVE EvportInv'
    BY <1>4 DEF Fail, EvportInv, TypeOK, EitherKernelOrPending, NeverAborts, Pending
  <1>5. CASE UNCHANGED vars
    BY <1>5 DEF vars, EvportInv, TypeOK, EitherKernelOrPending, NeverAborts, Pending
  <1> QED
    BY <1>1, <1>2, <1>3, <1>4, <1>5, EvportCreate, EvportDelete, EvportPoll, EvportPollNothing
    DEF Next
-----------------------------------------------------------------------------
\* Type correctness of the event port back end.
THEOREM EvportTypeCorrect == Spec => []TypeOK
  <1>1. EvportInv => TypeOK
    BY DEF EvportInv
  <1> QED
    BY <1>1, EvportInit, EvportStep, PTL DEF Spec

\* The invariant that the head comment of ae_evport.c states: a registration
\* is either in the kernel or pending, never both and never neither.
THEOREM EvportEitherKernelOrPending == Spec => []EitherKernelOrPending
  <1>1. EvportInv => EitherKernelOrPending
    BY DEF EvportInv
  <1> QED
    BY <1>1, EvportInit, EvportStep, PTL DEF Spec

\* aeApiDelEvent never dissociates a descriptor that is not associated, so
\* the abort() that "indicates a bug" is not reached.
THEOREM EvportNeverAborts == Spec => []NeverAborts
  <1>1. EvportInv => NeverAborts
    BY DEF EvportInv
  <1> QED
    BY <1>1, EvportInit, EvportStep, PTL DEF Spec
-----------------------------------------------------------------------------
\* Every step of the back end is a step of the abstract poller or leaves its
\* variables alone.
LEMMA StepRefines == EvportInv /\ [Next]_vars => [Poller!Next]_(Poller!vars)
  <1> SUFFICES ASSUME EvportInv, [Next]_vars PROVE [Poller!Next]_(Poller!vars)
    OBVIOUS
  <1>1. ASSUME NEW f \in Fds, NEW m \in Masks, aeCreateFileEvent(f, m)
        PROVE  Poller!Next
    BY <1>1 DEF aeCreateFileEvent, Poller!Next, Poller!Add, Poller!Masks, Masks
  <1>2. ASSUME NEW f \in Fds, NEW m \in Masks, aeDeleteFileEvent(f, m)
        PROVE  Poller!Next
    BY <1>2 DEF aeDeleteFileEvent, Poller!Next, Poller!Del, Poller!Masks, Masks
  <1>3. ASSUME NEW f \in Fds, NEW m \in Masks, DeleteRefused(f, m)
        PROVE  Poller!Next
    BY <1>3 DEF DeleteRefused, Poller!Next, Poller!Del, Poller!Masks, Masks
  <1>4. ASSUME NEW f \in Fds, NEW m \in Masks, Change(f, m)
        PROVE  Poller!Next
    BY <1>4 DEF Change, Poller!Next, Poller!Change, Poller!Masks, Masks
  <1>5. ASSUME NEW f \in Fds, RestoreRefused(f)
        PROVE  UNCHANGED Poller!vars
    BY <1>5 DEF RestoreRefused, Poller!vars
  <1>6. ASSUME NEW S \in SUBSET Fds, aeApiPoll(S)
        PROVE  Poller!Next
    <2>1. Restored = mask
      BY <1>6, RestoredIsMask DEF aeApiPoll
    <2>2. Poller!Due \subseteq Deliverable /\ \A f \in Deliverable : mask[f] # {}
      BY <2>1 DEF Deliverable, Poller!Due, AE_NONE
    <2>3. Poller!Poll(S)
      BY <1>6, <2>1, <2>2 DEF aeApiPoll, Poller!Poll, Poller!Cardinality, Cardinality
    <2> QED
      BY <2>3 DEF Poller!Next
  <1>7. ASSUME NEW f \in Fds, Fail(f)
        PROVE  UNCHANGED Poller!vars
    BY <1>7 DEF Fail, Poller!vars
  <1>8. CASE PollNothing
    BY <1>8 DEF PollNothing, Poller!Next, Poller!PollNothing
  <1>9. CASE UNCHANGED vars
    BY <1>9 DEF vars, Poller!vars
  <1> QED
    BY <1>1, <1>2, <1>3, <1>4, <1>5, <1>6, <1>7, <1>8, <1>9 DEF Next

\* The one-shot associations of event ports, with the pending list that makes
\* up for them, implement a level-triggered poller: a ready descriptor is
\* reported for exactly the events it is registered for, and none is missed.
THEOREM EvportImplementsPoller == Spec => ImplementsPoller
  <1>1. Init => Poller!Init
    BY DEF Init, Poller!Init, AE_NONE
  <1> QED
    BY <1>1, EvportInit, EvportStep, StepRefines, PTL DEF Spec, ImplementsPoller, Poller!Spec
-----------------------------------------------------------------------------
(* The three back ends side by side.                                       *)

Filters == Events \cup {"readable"}

\* The copies of the registrations that select and kqueue keep.  kqueue may
\* keep more than the table has.
CopiesInv ==
    /\ fds \in [Events -> SUBSET Fds]
    /\ filters \in [Fds -> SUBSET Filters]
    /\ aborted = Running =>
          /\ \A f \in Fds, e \in Events : f \in fds[e] <=> e \in mask[f]
          /\ \A f \in Fds : mask[f] \subseteq filters[f]

BackendsInv == EvportInv /\ CopiesInv

\* A program that is followed with three back ends is one of the event port.
LEMMA BackendsStepIsEvports == [BackendsNext]_allVars => [Next]_vars
  BY DEF BackendsNext, Create, CreateFails, Delete, allVars, Next, vars

LEMMA CopiesInit == BackendsInit => CopiesInv
  <1> SUFFICES ASSUME BackendsInit
               PROVE  CopiesInv
    OBVIOUS
  <1>1. fds \in [Events -> SUBSET Fds] /\ filters \in [Fds -> SUBSET Filters]
    BY DEF BackendsInit
  <1>2. /\ \A e \in Events : fds[e] = {}
        /\ \A f \in Fds : mask[f] = {} /\ filters[f] = {}
    BY DEF BackendsInit, Init, AE_NONE
  <1> QED
    BY <1>1, <1>2 DEF CopiesInv

LEMMA CopiesCreate ==
    ASSUME BackendsInv, NEW f \in Fds, NEW m \in Masks, NEW p \in Procs, Create(f, m, p)
    PROVE  CopiesInv'
  <1>1. /\ aborted = Running /\ mask' = [mask EXCEPT ![f] = @ \cup m]
        /\ fds' = [e \in Events |-> IF e \in m THEN fds[e] \cup {f} ELSE fds[e]]
        /\ filters' = [filters EXCEPT ![f] = @ \cup m]
    BY DEF Create, aeCreateFileEvent, SelectAddEvent, KqueueAddEvent
  <1>2. mask \in [Fds -> Masks] /\ m \subseteq Events
    BY DEF BackendsInv, EvportInv, TypeOK, Masks
  <1>3. fds' \in [Events -> SUBSET Fds] /\ filters' \in [Fds -> SUBSET Filters]
    BY <1>1, <1>2 DEF BackendsInv, CopiesInv, Filters
  <1>4. \A g \in Fds, e \in Events : g \in fds'[e] <=> e \in mask'[g]
    BY <1>1, <1>2 DEF BackendsInv, CopiesInv
  <1>5. \A g \in Fds : mask'[g] \subseteq filters'[g]
    BY <1>1, <1>2 DEF BackendsInv, CopiesInv
  <1> QED
    BY <1>3, <1>4, <1>5 DEF CopiesInv

LEMMA CopiesDelete ==
    ASSUME BackendsInv, NEW f \in Fds, NEW m \in Masks, Delete(f, m)
    PROVE  CopiesInv'
  <1>1. /\ aborted = Running /\ mask' = [mask EXCEPT ![f] = @ \ m]
        /\ fds' = [e \in Events |-> IF e \in m THEN fds[e] \ {f} ELSE fds[e]]
        /\ filters' = [filters EXCEPT ![f] = @ \ m]
    BY DEF Delete, aeDeleteFileEvent, SelectDelEvent, KqueueDelEvent
  <1>2. mask \in [Fds -> Masks]
    BY DEF BackendsInv, EvportInv, TypeOK
  <1>3. fds' \in [Events -> SUBSET Fds] /\ filters' \in [Fds -> SUBSET Filters]
    BY <1>1 DEF BackendsInv, CopiesInv
  <1>4. \A g \in Fds, e \in Events : g \in fds'[e] <=> e \in mask'[g]
    BY <1>1, <1>2 DEF BackendsInv, CopiesInv
  <1>5. \A g \in Fds : mask'[g] \subseteq filters'[g]
    BY <1>1, <1>2 DEF BackendsInv, CopiesInv
  <1> QED
    BY <1>3, <1>4, <1>5 DEF CopiesInv

LEMMA BackendsStep == BackendsInv /\ [BackendsNext]_allVars => BackendsInv'
  <1> SUFFICES ASSUME BackendsInv, [BackendsNext]_allVars
               PROVE  BackendsInv'
    OBVIOUS
  <1>1. EvportInv'
    BY BackendsStepIsEvports, EvportStep DEF BackendsInv
  <1> SUFFICES CopiesInv'
    BY <1>1 DEF BackendsInv
  <1>2. ASSUME NEW f \in Fds, CreateFails(f)
        PROVE  CopiesInv'
    <2>1. /\ filters' = [filters EXCEPT ![f] = @ \cup {"readable"}]
          /\ UNCHANGED <<mask, aborted, fds>>
      BY <1>2 DEF CreateFails, KqueueAddFails, vars
    <2>2. filters' \in [Fds -> SUBSET Filters] /\ \A g \in Fds : filters[g] \subseteq filters'[g]
      BY <2>1 DEF BackendsInv, CopiesInv, Filters
    <2> QED
      BY <2>1, <2>2 DEF BackendsInv, CopiesInv
  <1>3. ASSUME UNCHANGED <<fds, filters>>, mask' = mask, aborted = aborted' \/ aborted' # Running
        PROVE  CopiesInv'
    BY <1>3 DEF BackendsInv, CopiesInv
  <1>4. ASSUME NEW f \in Fds, NEW m \in Masks, DeleteRefused(f, m), UNCHANGED backends
        PROVE  CopiesInv'
    BY <1>4 DEF DeleteRefused, backends, BackendsInv, CopiesInv, Running
  <1>5. ASSUME NEW f \in Fds, NEW m \in Masks, Change(f, m), UNCHANGED backends
        PROVE  CopiesInv'
    BY <1>3, <1>5 DEF Change, backends
  <1>6. ASSUME NEW f \in Fds, RestoreRefused(f), UNCHANGED backends
        PROVE  CopiesInv'
    BY <1>3, <1>6 DEF RestoreRefused, backends, Running
  <1>7. ASSUME NEW f \in Fds, Fail(f), UNCHANGED backends
        PROVE  CopiesInv'
    BY <1>3, <1>7 DEF Fail, backends
  <1>8. ASSUME NEW S \in SUBSET Fds, aeApiPoll(S), UNCHANGED backends
        PROVE  CopiesInv'
    BY <1>3, <1>8 DEF aeApiPoll, backends
  <1>9. CASE PollNothing /\ UNCHANGED backends
    BY <1>3, <1>9 DEF PollNothing, backends
  <1>10. CASE UNCHANGED allVars
    BY <1>3, <1>10 DEF allVars, vars, backends
  <1> QED
    BY <1>2, <1>4, <1>5, <1>6, <1>7, <1>8, <1>9, <1>10, CopiesCreate, CopiesDelete DEF BackendsNext
-----------------------------------------------------------------------------
\* A function is called for an entry when one of the entry's events is
\* registered with it.
LEMMA CalledFor ==
    ASSUME NEW b, NEW f, b.fd = f, NEW p
    PROVE  p \in Called(b) <=> \E e \in b.mask : e \in mask[f] /\ proc[f][e] = p
  BY DEF Called

\* A batch with one entry for f, which stands for the events of f that are
\* due, calls each function once.
LEMMA OneEntryOneCall ==
    ASSUME NEW batch, NEW f, NEW p, NEW b0, b0.fd = f,
           \A b \in batch : b.fd = f => b = b0,
           \A e \in mask[f] : e \in b0.mask <=> e \in ready[f],
           mask[f] \cap ready[f] # {} => b0 \in batch
    PROVE  Calls(batch, f, p) = IF DueTo(f, p) = {} THEN 0 ELSE 1
  <1> DEFINE C == {b \in batch : b.fd = f /\ p \in Called(b)}
  <1>1. p \in Called(b0) <=> \E e \in b0.mask : e \in mask[f] /\ proc[f][e] = p
    BY CalledFor
  <1>2. p \in Called(b0) <=> DueTo(f, p) # {}
    BY <1>1 DEF DueTo
  <1>3. CASE DueTo(f, p) = {}
    <2>1. C = {}
      BY <1>2, <1>3
    <2> QED
      BY <1>3, <2>1, FS_EmptySet DEF Calls
  <1>4. CASE DueTo(f, p) # {}
    <2>1. mask[f] \cap ready[f] # {}
      BY <1>4 DEF DueTo
    <2>2. C = {b0}
      BY <1>2, <1>4, <2>1
    <2>3. Cardinality(C) = 1
      BY <2>2, FS_Singleton
    <2> QED
      BY <1>4, <2>3 DEF Calls
  <1> QED
    BY <1>3, <1>4

LEMMA SelectCalls ==
    ASSUME BackendsInv, aborted = Running, NEW f \in Fds, NEW p
    PROVE  Calls(SelectPoll, f, p) = IF DueTo(f, p) = {} THEN 0 ELSE 1
  <1> DEFINE Of(g) == [fd |-> g, mask |-> {e \in mask[g] : g \in Selected(e)}]
  <1>1. \A g \in Fds, e \in Events : g \in Selected(e) <=> e \in mask[g] /\ e \in ready[g]
    BY DEF BackendsInv, CopiesInv, Selected
  <1>2. mask \in [Fds -> SUBSET Events]
    BY DEF BackendsInv, EvportInv, TypeOK, Masks
  <1>3. Of(f).fd = f /\ \A e \in mask[f] : e \in Of(f).mask <=> e \in ready[f]
    BY <1>1, <1>2
  <1>4. \A b \in SelectPoll : b.fd = f => b = Of(f)
    BY DEF SelectPoll
  <1>5. mask[f] \cap ready[f] # {} => Of(f) \in SelectPoll
    BY <1>1, <1>2 DEF SelectPoll, AE_NONE
  <1> QED
    <2> PICK b0 : b0 = Of(f)
      OBVIOUS
    <2> HIDE DEF Of
    <2> QED
      BY <1>3, <1>4, <1>5, OneEntryOneCall

LEMMA EvportCalls ==
    ASSUME BackendsInv, aborted = Running, NEW f \in Fds, NEW p
    PROVE  Calls(EvportBatch, f, p) = IF DueTo(f, p) = {} THEN 0 ELSE 1
  <1> DEFINE Of(g) == [fd |-> g, mask |-> mask[g] \cap ready[g]]
  <1>1. Restored = mask
    BY RestoredIsMask DEF BackendsInv
  <1>2. EvportBatch = {Of(g) : g \in Deliverable}
    BY <1>1 DEF EvportBatch
  <1>3. mask[f] \cap ready[f] # {} => f \in Deliverable
    BY <1>1 DEF Deliverable, AE_NONE
  <1>4. Of(f).fd = f /\ \A e \in mask[f] : e \in Of(f).mask <=> e \in ready[f]
    OBVIOUS
  <1>5. \A b \in EvportBatch : b.fd = f => b = Of(f)
    BY <1>2
  <1>6. mask[f] \cap ready[f] # {} => Of(f) \in EvportBatch
    BY <1>2, <1>3
  <1> QED
    <2> PICK b0 : b0 = Of(f)
      OBVIOUS
    <2> HIDE DEF Of
    <2> QED
      BY <1>4, <1>5, <1>6, OneEntryOneCall

\* kqueue's batch has an entry for every event that is due, and so calls the
\* function once for each of them.
LEMMA KqueueCalls ==
    ASSUME BackendsInv, aborted = Running, NEW f \in Fds, NEW p
    PROVE  Calls(KqueuePoll(Triggered), f, p) = Cardinality(DueTo(f, p))
  <1> DEFINE B == KqueuePoll(Triggered)
             D == DueTo(f, p)
             C == {b \in B : b.fd = f /\ p \in Called(b)}
             Of(e) == [fd |-> f, mask |-> {e}]
             F == [e \in D |-> Of(e)]
  <1>1. \A e \in Events : <<f, e>> \in Triggered <=> e \in filters[f] /\ e \in ready[f]
    BY DEF Triggered
  <1>2. mask[f] \subseteq Events /\ mask[f] \subseteq filters[f]
    BY DEF BackendsInv, CopiesInv, EvportInv, TypeOK, Masks
  <1>3. B = {[fd |-> t[1], mask |-> {t[2]}] : t \in Triggered}
    BY DEF KqueuePoll
  <1>4. ASSUME NEW e \in D
        PROVE  Of(e) \in C
    <2>1. e \in mask[f] /\ e \in ready[f] /\ proc[f][e] = p
      BY <1>4 DEF DueTo
    <2>2. PICK t \in Triggered : t[1] = f /\ t[2] = e
      BY <1>1, <1>2, <2>1
    <2>3. Of(e) = [fd |-> t[1], mask |-> {t[2]}]
      BY <2>2
    <2>4. Of(e) \in B
      BY <1>3, <2>3
    <2>5. p \in Called(Of(e))
      BY <2>1 DEF Called
    <2> QED
      BY <2>4, <2>5
  <1>5. ASSUME NEW b \in C
        PROVE  \E e \in D : b = Of(e)
    <2>1. PICK t \in Triggered : b = [fd |-> t[1], mask |-> {t[2]}]
      BY <1>3, <1>5
    <2>2. t[1] = f /\ t \in Fds \X Events /\ t[2] \in ready[t[1]] /\ b.mask = {t[2]}
      BY <1>5, <2>1 DEF Triggered
    <2>3. b = Of(t[2])
      BY <2>1, <2>2
    <2>4. \E e \in b.mask : e \in mask[f] /\ proc[f][e] = p
      BY <1>5, CalledFor
    <2>5. t[2] \in D
      BY <2>2, <2>4 DEF DueTo
    <2> QED
      BY <2>3, <2>5
  <1>6. \A d, e \in D : Of(d) = Of(e) => d = e
    <2> SUFFICES ASSUME NEW d \in D, NEW e \in D, Of(d) = Of(e)
                 PROVE  d = e
      OBVIOUS
    <2>1. Of(d).mask = Of(e).mask
      OBVIOUS
    <2> QED
      BY <2>1
  <1> HIDE DEF B, C, D, Of
  <1>7. F \in [D -> C] /\ \A e \in D : F[e] = Of(e)
    BY <1>4
  <1> HIDE DEF F
  <1>8. F \in Bijection(D, C)
    BY <1>5, <1>6, <1>7 DEF Bijection, Injection, IsInjective, Surjection
  <1>9. IsFiniteSet(D)
    <2>1. D \in SUBSET Events
      BY <1>2 DEF D, DueTo
    <2> QED
      BY <2>1, EvportAssumption, FS_Subset
  <1>10. Cardinality(C) = Cardinality(D)
    BY <1>8, <1>9, FS_Bijection DEF ExistsBijection
  <1> QED
    BY <1>10 DEF B, C, D, Calls

LEMMA BatchWithRoom ==
    ASSUME NEW T \in Batches, Cardinality(T) < setsize
    PROVE  T = Triggered
  BY BackendsAssumption DEF Batches

\* Whichever back end the library was built with, a poll with room in its
\* batch leads ae.c to call the functions registered for what is ready: once
\* per descriptor with select and event ports, once per event with kqueue.
THEOREM BackEndsCallTheSame == BackendsSpec => []BackEndsAgree
  <1>1. BackendsInit => BackendsInv
    BY EvportInit, CopiesInit DEF BackendsInit, BackendsInv
  <1>2. BackendsInv => BackEndsAgree
    BY SelectCalls, KqueueCalls, EvportCalls, BatchWithRoom DEF BackEndsAgree
  <1> QED
    BY <1>1, <1>2, BackendsStep, PTL DEF BackendsSpec
=============================================================================
