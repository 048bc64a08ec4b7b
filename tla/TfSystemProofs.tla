--------------------------- MODULE TfSystemProofs ---------------------------
(***************************************************************************)
(* The parts of tflib that stand between a program and the system, which   *)
(* share no state: threads and mutexes, for any number of threads; the     *)
(* making of sockets, for any number of threads and descriptors; whole-    *)
(* file transfers, for files and buffers of any size; configuration files  *)
(* of any length.                                                          *)
(***************************************************************************)
EXTENDS TfThread, TfSocket, TfFile, ConfFile, FiniteSetTheorems, SequenceTheorems, WellFoundedInduction, TLAPS

-----------------------------------------------------------------------------
(* Threads and mutexes.                                                    *)

Places == {"absent", "idle", "create", "count", "locking", "inside", "waiting", "woken"}

\* The inductive invariant: the property, and the type of the places.
ThreadInv ==
    /\ at \in [Tids -> Places]
    /\ mutex \in {"none", "free", "locked"}
    /\ thread_inited \in BOOLEAN /\ early \in BOOLEAN
    /\ MutexesProtect

\* Initially the threads are not initialized, and MutexesProtect says nothing.
LEMMA ThreadInvInit == ThreadInit => ThreadInv
BY ThreadAssumption DEF ThreadInit, ThreadInv, MutexesProtect, Places

\* A step of one thread other than initialization leaves the two flags of
\* MutexesProtect alone, so that only the section and the mutex matter.
LEMMA ThreadInvStep == ThreadInv /\ [ThreadNext]_thrVars => ThreadInv'
<1> SUFFICES ASSUME ThreadInv, [ThreadNext]_thrVars
             PROVE  ThreadInv'
  OBVIOUS
<1> USE DEF ThreadInv, Places
<1>1. ASSUME NEW t \in Tids, NEW n \in Limits, NEW ok \in BOOLEAN, tf_init_threads(t, n, ok)
      PROVE  ThreadInv'
  <2>1. at' = at /\ mutex' = mutex
    BY <1>1 DEF tf_init_threads
  <2>2. thread_inited' \in BOOLEAN /\ early' \in BOOLEAN
    BY <1>1 DEF tf_init_threads, Users
  <2>3. CASE ok /\ ~thread_inited
    BY <1>1, <2>1, <2>2, <2>3 DEF tf_init_threads, MutexesProtect, Users, Inside
  <2>4. CASE ~ok \/ thread_inited
    <3>1. early' = early /\ thread_inited' = thread_inited
      BY <1>1, <2>4 DEF tf_init_threads
    <3> QED BY <2>1, <3>1 DEF MutexesProtect, Inside
  <2> QED BY <2>3, <2>4
<1>2. ASSUME NEW t \in Tids, CreateCheck(t) \/ CreateCount(t)
      PROVE  ThreadInv'
  BY <1>2 DEF CreateCheck, CreateCount, Idle, Goto, MutexesProtect, Inside
<1>11. ASSUME NEW t \in Tids, ThreadEnd(t)
      PROVE  ThreadInv'
  BY <1>11 DEF ThreadEnd, Idle, Goto, MutexesProtect, Inside
<1>3. ASSUME NEW t \in Tids, PthreadCreate(t)
      PROVE  ThreadInv'
  <2>1. at' \in [Tids -> Places] /\ Inside' = Inside
    BY <1>3 DEF PthreadCreate, Goto, Inside
  <2> QED BY <1>3, <2>1 DEF PthreadCreate, MutexesProtect
<1>4. ASSUME NEW t \in Tids, tf_mutex_init(t) \/ tf_mutex_destroy(t)
      PROVE  ThreadInv'
  BY <1>4 DEF tf_mutex_init, tf_mutex_destroy, Idle, Users, MutexesProtect, Inside
<1>5. ASSUME NEW t \in Tids, tf_mutex_lock(t)
      PROVE  ThreadInv'
  BY <1>5 DEF tf_mutex_lock, Idle, Goto, MutexesProtect, Inside
<1>6. ASSUME NEW t \in Tids, Acquire(t) \/ tf_mutex_trylock(t)
      PROVE  ThreadInv'
  <2>1. at' \in [Tids -> Places] /\ Inside' = Inside \cup {t}
    BY <1>6 DEF Acquire, tf_mutex_trylock, Goto, Inside
  <2>2. thread_inited /\ ~early => Inside = {} /\ mutex' = "locked"
    BY <1>6 DEF Acquire, tf_mutex_trylock, MutexesProtect
  <2> QED BY <1>6, <2>1, <2>2 DEF Acquire, tf_mutex_trylock, MutexesProtect
<1>7. ASSUME NEW t \in Tids, tf_mutex_unlock(t) \/ tf_cond_wait(t)
      PROVE  ThreadInv'
  <2>1. at' \in [Tids -> Places] /\ t \in Inside /\ Inside' = Inside \ {t}
    BY <1>7 DEF tf_mutex_unlock, tf_cond_wait, Goto, Inside
  <2>2. thread_inited /\ ~early => Inside' = {} /\ mutex' = "free"
    BY <1>7, <2>1 DEF tf_mutex_unlock, tf_cond_wait, MutexesProtect
  <2> QED BY <1>7, <2>1, <2>2 DEF tf_mutex_unlock, tf_cond_wait, MutexesProtect
<1>8. ASSUME NEW t \in Tids, tf_cond_signal(t)
      PROVE  ThreadInv'
  BY <1>8 DEF tf_cond_signal, Goto, MutexesProtect, Inside
<1>9. CASE Restarted
  BY <1>9 DEF Restarted, MutexesProtect
<1>10. CASE UNCHANGED thrVars
  BY <1>10 DEF thrVars, MutexesProtect, Inside
<1> QED
  BY <1>1, <1>2, <1>3, <1>4, <1>5, <1>6, <1>7, <1>8, <1>9, <1>10, <1>11 DEF ThreadNext

\* The mutexes protect their sections and are not left locked, for any number
\* of threads, provided that tf_init_threads first succeeded while no section
\* was in use.
THEOREM ThreadMutexesProtect == ThreadSpec => []MutexesProtect
<1>1. ThreadInv => MutexesProtect
  BY DEF ThreadInv
<1> QED
  BY ThreadInvInit, ThreadInvStep, <1>1, PTL DEF ThreadSpec

\* The inductive invariant: a thread on its way to write the count has read
\* one that leaves room for the thread it has created.
CountInv ==
    /\ nthreads \in Nat /\ created \in Nat /\ seen \in [Tids -> Nat]
    /\ at \in [Tids -> Places]
    /\ nthreads <= created
    /\ \A t \in Tids : at[t] = "count" => seen[t] + 1 <= created

LEMMA CountInvInit == ThreadInit => CountInv
  BY ThreadAssumption DEF ThreadInit, CountInv, Places

\* Steps that create and count no thread, and put none on its way to count.
LEMMA CountKept ==
    ASSUME CountInv, at' \in [Tids -> Places], nthreads' = nthreads, seen' = seen, created' = created,
           \A t \in Tids : at'[t] = "count" => at[t] = "count"
    PROVE  CountInv'
  BY DEF CountInv

LEMMA CountInvStep == CountInv /\ [ThreadNext]_thrVars => CountInv'
  <1> SUFFICES ASSUME CountInv, [ThreadNext]_thrVars
               PROVE  CountInv'
    OBVIOUS
  <1>1. ASSUME NEW t \in Tids, NEW place \in Places \ {"count"}, Goto(t, place)
        PROVE  /\ at' \in [Tids -> Places]
               /\ \A s \in Tids : at'[s] = "count" => at[s] = "count" /\ s # t
    BY <1>1 DEF CountInv, Goto
  <1>2. ASSUME at' = at, nthreads' = nthreads, seen' = seen, created' = created
        PROVE  CountInv'
    BY <1>2, CountKept DEF CountInv
  <1>3. ASSUME NEW t \in Tids, NEW n \in Limits, NEW ok \in BOOLEAN, tf_init_threads(t, n, ok)
        PROVE  CountInv'
    BY <1>2, <1>3 DEF tf_init_threads
  <1>4. ASSUME NEW t \in Tids,
               \/ CreateCheck(t) \/ ThreadEnd(t) \/ tf_mutex_lock(t) \/ Acquire(t) \/ tf_mutex_trylock(t)
               \/ tf_mutex_unlock(t) \/ tf_cond_wait(t) \/ tf_cond_signal(t)
        PROVE  CountInv'
    <2>1. nthreads' = nthreads /\ seen' = seen /\ created' = created
      BY <1>4 DEF CreateCheck, ThreadEnd, tf_mutex_lock, Acquire, tf_mutex_trylock, tf_mutex_unlock,
                  tf_cond_wait, tf_cond_signal
    <2>2. \E place \in Places \ {"count"} : Goto(t, place)
      BY <1>4 DEF CreateCheck, ThreadEnd, tf_mutex_lock, Acquire, tf_mutex_trylock, tf_mutex_unlock,
                  tf_cond_wait, tf_cond_signal, Places
    <2> QED
      BY <1>1, <2>1, <2>2, CountKept
  <1>5. ASSUME NEW t \in Tids, tf_mutex_init(t) \/ tf_mutex_destroy(t)
        PROVE  CountInv'
    BY <1>2, <1>5 DEF tf_mutex_init, tf_mutex_destroy
  <1>6. ASSUME NEW t \in Tids, PthreadCreate(t)
        PROVE  CountInv'
    <2>1. nthreads' = nthreads
      BY <1>6 DEF PthreadCreate
    <2>2. CASE Goto(t, "idle") /\ UNCHANGED <<seen, created>>
      BY <1>1, <2>1, <2>2, CountKept DEF Places
    <2>3. ASSUME NEW new \in Tids, at[new] = "absent",
                 at' = [at EXCEPT ![t] = "count", ![new] = "idle"],
                 seen' = [seen EXCEPT ![t] = nthreads], created' = created + 1
          PROVE  CountInv'
      <3>1. at' \in [Tids -> Places] /\ \A s \in Tids : s # t /\ at'[s] = "count" => at[s] = "count"
        BY <2>3 DEF CountInv, Places
      <3>2. /\ seen' \in [Tids -> Nat] /\ seen'[t] = nthreads
            /\ \A s \in Tids : s # t => seen'[s] = seen[s]
        BY <2>3 DEF CountInv
      <3>3. created' \in Nat /\ nthreads + 1 <= created' /\ created <= created'
        BY <2>3 DEF CountInv
      <3>4. \A s \in Tids : at'[s] = "count" => seen'[s] + 1 <= created'
        BY <2>3, <3>1, <3>2, <3>3 DEF CountInv
      <3> QED
        BY <2>1, <2>3, <3>1, <3>2, <3>3, <3>4 DEF CountInv
    <2> QED
      BY <1>6, <2>2, <2>3 DEF PthreadCreate
  <1>7. ASSUME NEW t \in Tids, CreateCount(t)
        PROVE  CountInv'
    <2>1. /\ at[t] = "count" /\ nthreads' = seen[t] + 1 /\ Goto(t, "idle")
          /\ seen' = [seen EXCEPT ![t] = 0] /\ created' = created
      BY <1>7 DEF CreateCount
    <2>2. /\ at' \in [Tids -> Places]
          /\ \A s \in Tids : at'[s] = "count" => at[s] = "count" /\ s # t
      BY <1>1, <2>1 DEF Places
    <2>3. nthreads' \in Nat /\ nthreads' <= created
      BY <2>1 DEF CountInv
    <2>4. seen' \in [Tids -> Nat] /\ \A s \in Tids : s # t => seen'[s] = seen[s]
      BY <2>1 DEF CountInv
    <2> QED
      BY <2>1, <2>2, <2>3, <2>4 DEF CountInv
  <1>8. CASE Restarted
    BY <1>8 DEF Restarted, CountInv, Places
  <1>9. CASE UNCHANGED thrVars
    BY <1>2, <1>9 DEF thrVars
  <1> QED
    BY <1>3, <1>4, <1>5, <1>6, <1>7, <1>8, <1>9 DEF ThreadNext

\* However the unsynchronized increments of tf_create_thread interleave, and
\* whichever threads end meanwhile, the count stays at or below the number of
\* threads that have been created (tf_thread.c:15, 32).
THEOREM ThreadsNeverRefusedEarly == ThreadSpec => []NeverRefusedEarly
  <1>1. CountInv => NeverRefusedEarly
    BY DEF CountInv, NeverRefusedEarly
  <1> QED
    BY <1>1, CountInvInit, CountInvStep, PTL DEF ThreadSpec
-----------------------------------------------------------------------------
(* Sockets.                                                                *)

KindType == [role : {"connect", "listen", "accept"}, named : BOOLEAN, nb : BOOLEAN]
JobType  == [at : {"option", "address", "nonblock", "connect", "listen"}, fd : Fds, kind : CallKinds]
Busy     == {c \in Callers : job[c] # NoJob}

SocketTypeOK ==
    /\ sock \in [Fds -> {"closed", "new", "connected", "connecting", "listening"}]
    /\ nonblock \subseteq Fds /\ lost \subseteq Fds
    /\ job \in [Callers -> JobType \cup {NoJob}]
    /\ DOMAIN mine \subseteq Fds
    /\ mine \in [DOMAIN mine -> KindType]

\* How far a call has come with its socket.
JobsInv ==
    \A c \in Callers :
        /\ job[c].at = "nonblock" => job[c].kind.nb
        /\ job[c].at = "connect" =>
              job[c].kind.role = "connect" /\ (job[c].kind.nb => job[c].fd \in nonblock)
        /\ job[c].at = "listen" => job[c].kind.role = "listen"

SocketInv == SocketTypeOK /\ JobsInv /\ DescriptorsOwned

LEMMA KindsOfCalls ==
    ASSUME NEW k \in CallKinds
    PROVE  /\ k \in KindType /\ k.role \in {"connect", "listen"}
           /\ k.nb => k.role = "connect"
  <1>1. \/ k \in [role : {"connect"}, named : BOOLEAN, nb : BOOLEAN]
        \/ k \in [role : {"listen"}, named : BOOLEAN, nb : {FALSE}]
    <2>1. \/ k \in tfnet_tcp_generic_connect \/ k \in tfnet_tcp_generic_connect2
          \/ k \in tfnet_unix_generic_connect \/ k \in tfnet_tcp_server
          \/ k \in tfnet_tcp_server2 \/ k \in tfnet_unix_server
      BY DEF CallKinds
    <2> QED
      BY <2>1 DEF tfnet_tcp_generic_connect, tfnet_tcp_generic_connect2,
                  tfnet_unix_generic_connect, tfnet_tcp_server, tfnet_tcp_server2, tfnet_unix_server
  <1>2. CASE k \in [role : {"connect"}, named : BOOLEAN, nb : BOOLEAN]
    BY <1>2 DEF KindType
  <1>3. CASE k \in [role : {"listen"}, named : BOOLEAN, nb : {FALSE}]
    <2>1. k.role = "listen" /\ k.nb = FALSE
      BY <1>3
    <2>2. k \in KindType
      BY <1>3 DEF KindType
    <2> QED
      BY <2>1, <2>2
  <1> QED
    BY <1>1, <1>2, <1>3

\* The socket of a call in progress is open and belongs to this call only.
LEMMA JobFacts ==
    ASSUME SocketInv, NEW c \in Callers, job[c].at # "none"
    PROVE  /\ job[c] # NoJob /\ job[c] \in JobType /\ job[c].fd \in Fds /\ job[c].kind \in CallKinds
           /\ job[c].fd \in InProgress /\ job[c].fd \notin DOMAIN mine /\ job[c].fd \notin lost
           /\ sock[job[c].fd] # "closed"
           /\ \A d \in Callers : d # c => job[d].fd # job[c].fd
  <1>1. job[c] # NoJob /\ job[c] \in JobType
    BY DEF SocketInv, SocketTypeOK, NoJob
  <1>2. job[c].fd \in Fds /\ job[c].kind \in CallKinds
    BY <1>1 DEF JobType
  <1>3. job[c].fd \in InProgress
    BY <1>1 DEF InProgress
  <1>4. /\ Fds \ FreeFds = DOMAIN mine \cup InProgress \cup lost
        /\ DOMAIN mine \cap (InProgress \cup lost) = {} /\ InProgress \cap lost = {}
        /\ \A d \in Callers : job[c] # NoJob /\ job[c].fd = job[d].fd => c = d
    BY DEF SocketInv, DescriptorsOwned
  <1>5. job[c].fd \notin DOMAIN mine /\ job[c].fd \notin lost /\ job[c].fd \notin FreeFds
    BY <1>3, <1>4
  <1>6. sock[job[c].fd] # "closed"
    BY <1>2, <1>5 DEF FreeFds
  <1> QED
    BY <1>1, <1>2, <1>3, <1>4, <1>5, <1>6

\* DescriptorsOwned, descriptor by descriptor.
LEMMA PointwiseOwned ==
    ASSUME SocketInv
    PROVE  /\ \A f \in Fds : sock[f] # "closed" <=> f \in DOMAIN mine \/ f \in InProgress \/ f \in lost
           /\ DOMAIN mine \subseteq Fds /\ InProgress \subseteq Fds /\ lost \subseteq Fds
           /\ \A f \in Fds : /\ ~(f \in DOMAIN mine /\ f \in InProgress)
                             /\ ~(f \in DOMAIN mine /\ f \in lost)
                             /\ ~(f \in InProgress /\ f \in lost)
           /\ \A c, d \in Callers : job[c] # NoJob /\ job[c].fd = job[d].fd => c = d
           /\ \A f \in DOMAIN mine :
                 /\ sock[f] \in (IF mine[f].role = "listen" THEN {"listening"}
                                 ELSE {"connected", "connecting"})
                 /\ sock[f] = "connecting" \/ mine[f].nb => f \in nonblock
  <1>1. DescriptorsOwned
    BY DEF SocketInv
  <1>2. Fds \ FreeFds = DOMAIN mine \cup InProgress \cup lost
        /\ DOMAIN mine \cap (InProgress \cup lost) = {} /\ InProgress \cap lost = {}
    BY <1>1 DEF DescriptorsOwned
  <1>3. \A f \in Fds : sock[f] # "closed" <=> f \notin FreeFds
    BY DEF FreeFds
  <1> QED
    BY <1>1, <1>2, <1>3 DEF DescriptorsOwned

LEMMA LowestFree ==
    ASSUME FreeFds # {}
    PROVE  Min(FreeFds) \in Fds /\ sock[Min(FreeFds)] = "closed"
  <1>1. FreeFds \subseteq Nat
    BY SocketAssumption DEF FreeFds
  <1>2. PICK x \in FreeFds : \A y \in FreeFds : ~(<<y, x>> \in OpToRel(<, Nat))
    BY <1>1, NatLessThanWellFounded, WFMin
  <1>3. \A y \in FreeFds : ~(y < x)
    BY <1>1, <1>2 DEF OpToRel
  <1>4. \A y \in FreeFds : x <= y
    BY <1>1, <1>3
  <1>5. Min(FreeFds) \in FreeFds
    BY <1>4 DEF Min
  <1> QED
    BY <1>5 DEF FreeFds
-----------------------------------------------------------------------------
LEMMA SocketInvInit == SocketInit => SocketInv
  <1> SUFFICES ASSUME SocketInit
               PROVE  SocketInv
    OBVIOUS
  <1>1. /\ sock = [f \in Fds |-> "closed"] /\ nonblock = {} /\ lost = {}
        /\ job = [c \in Callers |-> NoJob] /\ DOMAIN mine = {} /\ mine = [f \in {} |-> {}]
    BY DEF SocketInit
  <1>2. SocketTypeOK
    BY <1>1 DEF SocketTypeOK
  <1>3. JobsInv
    BY <1>1 DEF JobsInv, NoJob
  <1>4. InProgress = {}
    BY <1>1 DEF InProgress
  <1>5. DescriptorsOwned
    BY <1>1, <1>4 DEF DescriptorsOwned, FreeFds
  <1> QED
    BY <1>2, <1>3, <1>5 DEF SocketInv

LEMMA JobMoved ==
    ASSUME NEW r \in JobType, NEW place \in {"address", "nonblock", "connect", "listen"}
    PROVE  \E n \in JobType : n = [r EXCEPT !.at = place] /\ n.at = place /\ n.fd = r.fd /\ n.kind = r.kind
  <1> DEFINE n == [at |-> place, fd |-> r.fd, kind |-> r.kind]
  <1>1. [r EXCEPT !.at = place] = n
    BY DEF JobType
  <1>2. n \in JobType /\ n.at = place /\ n.fd = r.fd /\ n.kind = r.kind
    BY DEF JobType
  <1> HIDE DEF n
  <1> QED
    BY <1>1, <1>2

\* A call goes on with its socket.
LEMMA GoOnStep ==
    ASSUME SocketInv, NEW c \in Callers, job[c].at # "none",
           NEW place \in {"address", "nonblock", "connect", "listen"}, GoOn(c, place),
           UNCHANGED <<sock, mine, lost>>, nonblock \subseteq nonblock', nonblock' \subseteq Fds,
           place = "nonblock" => job[c].kind.nb,
           place = "connect" => job[c].kind.role = "connect" /\ (job[c].kind.nb => job[c].fd \in nonblock'),
           place = "listen" => job[c].kind.role = "listen"
    PROVE  SocketInv'
  <1>1. job[c] # NoJob /\ job[c] \in JobType
    BY JobFacts
  <1>2. job \in [Callers -> JobType \cup {NoJob}] /\ job' = [job EXCEPT ![c] = [job[c] EXCEPT !.at = place]]
    BY DEF SocketInv, SocketTypeOK, GoOn
  <1>3. PICK new \in JobType : /\ new = [job[c] EXCEPT !.at = place] /\ new.at = place
                               /\ new.fd = job[c].fd /\ new.kind = job[c].kind
    <2>1. PICK r \in JobType : r = job[c]
      BY <1>1
    <2>2. PICK n \in JobType : n = [r EXCEPT !.at = place] /\ n.at = place /\ n.fd = r.fd /\ n.kind = r.kind
      BY JobMoved
    <2> QED
      BY <2>1, <2>2
  <1>4. /\ job' \in [Callers -> JobType \cup {NoJob}] /\ job'[c] = new
        /\ \A d \in Callers : d # c => job'[d] = job[d]
    BY <1>2, <1>3
  <1>5. new # NoJob
    BY <1>3 DEF JobType, NoJob
  <1>6. \A d \in Callers : job'[d].fd = job[d].fd /\ (job'[d] # NoJob <=> job[d] # NoJob)
    BY <1>1, <1>3, <1>4, <1>5
  <1>7. InProgress' = InProgress
    BY <1>6 DEF InProgress
  <1>8. SocketTypeOK'
    BY <1>4 DEF SocketInv, SocketTypeOK
  <1>9. JobsInv'
    <2> SUFFICES ASSUME NEW d \in Callers
                 PROVE  /\ job'[d].at = "nonblock" => job'[d].kind.nb
                        /\ job'[d].at = "connect" =>
                              /\ job'[d].kind.role = "connect"
                              /\ job'[d].kind.nb => job'[d].fd \in nonblock'
                        /\ job'[d].at = "listen" => job'[d].kind.role = "listen"
      BY DEF JobsInv
    <2>1. CASE d = c
      BY <1>3, <1>4, <2>1
    <2>2. CASE d # c
      BY <1>4, <2>2 DEF SocketInv, JobsInv
    <2> QED
      BY <2>1, <2>2
  <1>10. DescriptorsOwned'
    BY <1>6, <1>7 DEF SocketInv, DescriptorsOwned, FreeFds
  <1> QED
    BY <1>8, <1>9, <1>10 DEF SocketInv

\* A call ends; its socket is no longer in progress.
LEMMA LeaveFacts ==
    ASSUME SocketInv, NEW c \in Callers, job[c].at # "none", Leave(c), nonblock' = nonblock
    PROVE  /\ job' \in [Callers -> JobType \cup {NoJob}]
           /\ InProgress' = InProgress \ {job[c].fd}
           /\ JobsInv'
           /\ \A a, d \in Callers : job'[a] # NoJob /\ job'[a].fd = job'[d].fd => a = d
  <1>1. job \in [Callers -> JobType \cup {NoJob}] /\ job' = [job EXCEPT ![c] = NoJob]
    BY DEF SocketInv, SocketTypeOK, Leave
  <1>2. /\ job' \in [Callers -> JobType \cup {NoJob}] /\ job'[c] = NoJob
        /\ \A d \in Callers : d # c => job'[d] = job[d]
    BY <1>1
  <1>3. job[c].fd \in Fds /\ \A d \in Callers : d # c => job[d].fd # job[c].fd
    BY JobFacts
  <1>4. InProgress' = InProgress \ {job[c].fd}
    BY <1>2, <1>3 DEF InProgress
  <1>5. JobsInv'
    BY <1>2 DEF SocketInv, JobsInv, NoJob
  <1>6. ASSUME NEW a \in Callers, NEW d \in Callers, job'[a] # NoJob, job'[a].fd = job'[d].fd
        PROVE  a = d
    <2>1. a # c /\ job'[a] = job[a] /\ job[a] \in JobType
      BY <1>1, <1>2, <1>6
    <2>2. job[a].fd \in Nat /\ NoJob.fd = -1
      BY <2>1, SocketAssumption DEF JobType, NoJob
    <2>3. d # c
      BY <1>2, <1>6, <2>1, <2>2
    <2> QED
      BY <1>2, <1>6, <2>1, <2>3 DEF SocketInv, DescriptorsOwned
  <1> QED
    BY <1>2, <1>4, <1>5, <1>6

\* It leaves the socket open,
LEMMA LoseStep ==
    ASSUME SocketInv, NEW c \in Callers, job[c].at # "none", Leave(c), nonblock' = nonblock,
           lost' = lost \cup {job[c].fd}, UNCHANGED <<sock, mine>>
    PROVE  SocketInv'
  <1>1. PICK f \in Fds : f = job[c].fd /\ f \notin DOMAIN mine /\ f \notin lost /\ f \in InProgress
    BY JobFacts
  <1>2. SocketTypeOK'
    BY <1>1, LeaveFacts DEF SocketInv, SocketTypeOK
  <1>3. InProgress' = InProgress \ {f} /\ lost' = lost \cup {f}
    BY <1>1, LeaveFacts
  <1>4. DescriptorsOwned'
    BY <1>1, <1>3, LeaveFacts, PointwiseOwned DEF DescriptorsOwned, FreeFds
  <1> QED
    BY <1>2, <1>4, LeaveFacts DEF SocketInv

\* or closes it,
LEMMA CloseStep ==
    ASSUME SocketInv, NEW c \in Callers, job[c].at # "none", Leave(c), nonblock' = nonblock,
           sock' = Closed(job[c].fd), UNCHANGED <<mine, lost>>
    PROVE  SocketInv'
  <1>1. PICK f \in Fds : f = job[c].fd /\ f \notin DOMAIN mine /\ f \notin lost /\ f \in InProgress
    BY JobFacts
  <1>2. /\ sock' \in [Fds -> {"closed", "new", "connected", "connecting", "listening"}]
        /\ sock'[f] = "closed" /\ \A g \in Fds : g # f => sock'[g] = sock[g]
    BY <1>1 DEF SocketInv, SocketTypeOK, Closed
  <1>3. SocketTypeOK'
    BY <1>2, LeaveFacts DEF SocketInv, SocketTypeOK
  <1>4. InProgress' = InProgress \ {f}
    BY <1>1, LeaveFacts
  <1>5. DescriptorsOwned'
    BY <1>1, <1>2, <1>4, LeaveFacts, PointwiseOwned DEF DescriptorsOwned, FreeFds
  <1> QED
    BY <1>3, <1>5, LeaveFacts DEF SocketInv

\* Giving a descriptor to the program.
LEMMA GiveFacts ==
    ASSUME SocketInv, NEW f \in Fds, NEW kind \in KindType, Give(f, kind)
    PROVE  /\ DOMAIN mine' = DOMAIN mine \cup {f} /\ DOMAIN mine' \subseteq Fds
           /\ mine' \in [DOMAIN mine' -> KindType]
           /\ mine'[f] = kind /\ \A g \in DOMAIN mine : g # f => mine'[g] = mine[g]
  <1>1. DOMAIN mine \subseteq Fds /\ mine \in [DOMAIN mine -> KindType]
    BY DEF SocketInv, SocketTypeOK
  <1>2. mine' = [g \in DOMAIN mine \cup {f} |-> IF g = f THEN kind ELSE mine[g]]
    BY DEF Give
  <1> QED
    BY <1>1, <1>2

\* or gives it to the program.
LEMMA GiveStep ==
    ASSUME SocketInv, NEW c \in Callers, job[c].at # "none", Leave(c), nonblock' = nonblock,
           Give(job[c].fd, job[c].kind), lost' = lost,
           NEW state \in {"connected", "connecting", "listening"},
           sock' = [sock EXCEPT ![job[c].fd] = state],
           state \in (IF job[c].kind.role = "listen" THEN {"listening"} ELSE {"connected", "connecting"}),
           state = "connecting" \/ job[c].kind.nb => job[c].fd \in nonblock
    PROVE  SocketInv'
  <1>1. PICK f \in Fds : f = job[c].fd /\ f \notin DOMAIN mine /\ f \notin lost /\ f \in InProgress
    BY JobFacts
  <1>2. PICK kind \in KindType : kind = job[c].kind
    BY JobFacts, KindsOfCalls
  <1>3. Give(f, kind)
    BY <1>1, <1>2
  <1>4. /\ DOMAIN mine' = DOMAIN mine \cup {f} /\ DOMAIN mine' \subseteq Fds
        /\ mine' \in [DOMAIN mine' -> KindType]
        /\ mine'[f] = kind /\ \A g \in DOMAIN mine : g # f => mine'[g] = mine[g]
    BY <1>3, GiveFacts
  <1>5. /\ sock' \in [Fds -> {"closed", "new", "connected", "connecting", "listening"}]
        /\ sock'[f] = state /\ \A g \in Fds : g # f => sock'[g] = sock[g]
    BY <1>1 DEF SocketInv, SocketTypeOK
  <1>6. SocketTypeOK'
    BY <1>4, <1>5, LeaveFacts DEF SocketInv, SocketTypeOK
  <1>7. InProgress' = InProgress \ {f}
    BY <1>1, LeaveFacts
  <1>8. \A g \in DOMAIN mine' :
          /\ sock'[g] \in (IF mine'[g].role = "listen" THEN {"listening"} ELSE {"connected", "connecting"})
          /\ sock'[g] = "connecting" \/ mine'[g].nb => g \in nonblock'
    <2> SUFFICES ASSUME NEW g \in DOMAIN mine'
                 PROVE  /\ sock'[g] \in (IF mine'[g].role = "listen" THEN {"listening"}
                                         ELSE {"connected", "connecting"})
                        /\ sock'[g] = "connecting" \/ mine'[g].nb => g \in nonblock'
      OBVIOUS
    <2>1. CASE g = f
      BY <1>1, <1>2, <1>4, <1>5, <2>1
    <2>2. CASE g # f
      BY <1>4, <1>5, <2>2, PointwiseOwned
    <2> QED
      BY <2>1, <2>2
  <1>9. Fds \ FreeFds' = DOMAIN mine' \cup InProgress' \cup lost'
    BY <1>1, <1>4, <1>5, <1>7, PointwiseOwned DEF FreeFds
  <1>10. DOMAIN mine' \cap (InProgress' \cup lost') = {} /\ InProgress' \cap lost' = {}
    BY <1>1, <1>4, <1>7, PointwiseOwned
  <1>11. DescriptorsOwned'
    BY <1>8, <1>9, <1>10, LeaveFacts DEF DescriptorsOwned
  <1> QED
    BY <1>6, <1>11, LeaveFacts DEF SocketInv

LEMMA CreateSocketStep ==
    ASSUME SocketInv, NEW c \in Callers, NEW kind \in CallKinds, tfnet_create_socket(c, kind)
    PROVE  SocketInv'
  <1>1. PICK f \in Fds : f = Min(FreeFds) /\ sock[f] = "closed"
    BY LowestFree DEF tfnet_create_socket
  <1>2. PICK new \in JobType : new = [at |-> "option", fd |-> f, kind |-> kind]
    BY DEF JobType
  <1>3. /\ job[c] = NoJob /\ sock' = [sock EXCEPT ![f] = "new"] /\ nonblock' = nonblock \ {f}
        /\ job' = [job EXCEPT ![c] = new] /\ UNCHANGED <<mine, lost>>
    BY <1>1, <1>2 DEF tfnet_create_socket
  <1>4. /\ sock' \in [Fds -> {"closed", "new", "connected", "connecting", "listening"}]
        /\ sock'[f] = "new" /\ \A g \in Fds : g # f => sock'[g] = sock[g]
    BY <1>3 DEF SocketInv, SocketTypeOK
  <1>5. /\ job' \in [Callers -> JobType \cup {NoJob}] /\ job'[c] = new
        /\ \A d \in Callers : d # c => job'[d] = job[d]
    BY <1>3 DEF SocketInv, SocketTypeOK
  <1>6. new # NoJob /\ new.fd = f /\ new.at = "option"
    BY <1>2 DEF NoJob
  <1>7. f \notin DOMAIN mine /\ f \notin InProgress /\ f \notin lost
    BY <1>1, PointwiseOwned
  <1>8. \A d \in Callers : job[d].fd # f
    <2> SUFFICES ASSUME NEW d \in Callers, job[d].fd = f
                 PROVE  FALSE
      OBVIOUS
    <2>1. NoJob.fd = -1 /\ f \in Nat
      BY SocketAssumption DEF NoJob
    <2>2. job[d] # NoJob
      BY <2>1
    <2> QED
      BY <1>7, <2>2 DEF InProgress
  <1>9. InProgress' = InProgress \cup {f}
    BY <1>3, <1>5, <1>6 DEF InProgress
  <1>10. SocketTypeOK'
    BY <1>3, <1>4, <1>5 DEF SocketInv, SocketTypeOK
  <1>11. JobsInv'
    <2> SUFFICES ASSUME NEW d \in Callers
                 PROVE  /\ job'[d].at = "nonblock" => job'[d].kind.nb
                        /\ job'[d].at = "connect" =>
                              /\ job'[d].kind.role = "connect"
                              /\ job'[d].kind.nb => job'[d].fd \in nonblock'
                        /\ job'[d].at = "listen" => job'[d].kind.role = "listen"
      BY DEF JobsInv
    <2>1. CASE d = c
      BY <1>5, <1>6, <2>1
    <2>2. CASE d # c
      BY <1>3, <1>5, <1>8, <2>2 DEF SocketInv, JobsInv
    <2> QED
      BY <2>1, <2>2
  <1>12. \A a, d \in Callers : job'[a] # NoJob /\ job'[a].fd = job'[d].fd => a = d
    BY <1>3, <1>5, <1>6, <1>8, PointwiseOwned
  <1>13. \A g \in DOMAIN mine : g # f
    BY <1>7
  <1>14. Fds \ FreeFds' = DOMAIN mine' \cup InProgress' \cup lost'
    BY <1>3, <1>4, <1>9, PointwiseOwned DEF FreeFds
  <1>15. DOMAIN mine' \cap (InProgress' \cup lost') = {} /\ InProgress' \cap lost' = {}
    BY <1>3, <1>7, <1>9, PointwiseOwned
  <1>16. \A g \in DOMAIN mine' :
          /\ sock'[g] \in (IF mine'[g].role = "listen" THEN {"listening"} ELSE {"connected", "connecting"})
          /\ sock'[g] = "connecting" \/ mine'[g].nb => g \in nonblock'
    BY <1>3, <1>4, <1>13, PointwiseOwned
  <1>17. DescriptorsOwned'
    BY <1>12, <1>14, <1>15, <1>16 DEF DescriptorsOwned
  <1> QED
    BY <1>10, <1>11, <1>17 DEF SocketInv

LEMMA AcceptStep ==
    ASSUME SocketInv, NEW c \in Callers, NEW s \in Fds, tfnet_generic_accept(c, s)
    PROVE  SocketInv'
  <1>1. PICK f \in Fds : f = Min(FreeFds) /\ sock[f] = "closed"
    BY LowestFree DEF tfnet_generic_accept
  <1> DEFINE k == [role |-> "accept", named |-> FALSE, nb |-> FALSE]
  <1>a. k \in KindType
    BY DEF KindType
  <1>b. k.role = "accept"
    OBVIOUS
  <1>c. k.nb = FALSE
    BY Zenon
  <1>2. PICK kind \in KindType : kind = k /\ kind.role = "accept" /\ kind.nb = FALSE
    <2> HIDE DEF k
    <2> QED
      BY <1>a, <1>b, <1>c
  <1>3. /\ sock' = [sock EXCEPT ![f] = "connected"] /\ nonblock' = nonblock \ {f}
        /\ Give(f, kind) /\ UNCHANGED <<job, lost>>
    BY <1>1, <1>2 DEF tfnet_generic_accept
  <1>4. /\ DOMAIN mine' = DOMAIN mine \cup {f} /\ DOMAIN mine' \subseteq Fds
        /\ mine' \in [DOMAIN mine' -> KindType]
        /\ mine'[f] = kind /\ \A g \in DOMAIN mine : g # f => mine'[g] = mine[g]
    BY <1>3, GiveFacts
  <1>5. /\ sock' \in [Fds -> {"closed", "new", "connected", "connecting", "listening"}]
        /\ sock'[f] = "connected" /\ \A g \in Fds : g # f => sock'[g] = sock[g]
    BY <1>3 DEF SocketInv, SocketTypeOK
  <1>6. f \notin DOMAIN mine /\ f \notin InProgress /\ f \notin lost
    BY <1>1, PointwiseOwned
  <1>7. InProgress' = InProgress
    BY <1>3 DEF InProgress
  <1>8. SocketTypeOK'
    BY <1>3, <1>4, <1>5 DEF SocketInv, SocketTypeOK
  <1>9. JobsInv'
    <2>1. \A d \in Callers : job[d].at = "connect" => job[d].fd # f
      BY <1>6, JobFacts
    <2> QED
      BY <1>3, <2>1 DEF SocketInv, JobsInv
  <1>10. Fds \ FreeFds' = DOMAIN mine' \cup InProgress' \cup lost'
    BY <1>3, <1>4, <1>5, <1>7, PointwiseOwned DEF FreeFds
  <1>11. DOMAIN mine' \cap (InProgress' \cup lost') = {} /\ InProgress' \cap lost' = {}
    BY <1>3, <1>4, <1>6, <1>7, PointwiseOwned
  <1>12. \A g \in DOMAIN mine' :
          /\ sock'[g] \in (IF mine'[g].role = "listen" THEN {"listening"} ELSE {"connected", "connecting"})
          /\ sock'[g] = "connecting" \/ mine'[g].nb => g \in nonblock'
    <2> SUFFICES ASSUME NEW g \in DOMAIN mine'
                 PROVE  /\ sock'[g] \in (IF mine'[g].role = "listen" THEN {"listening"}
                                         ELSE {"connected", "connecting"})
                        /\ sock'[g] = "connecting" \/ mine'[g].nb => g \in nonblock'
      OBVIOUS
    <2>1. CASE g = f
      BY <1>2, <1>4, <1>5, <2>1
    <2>2. CASE g # f
      BY <1>3, <1>4, <1>5, <2>2, PointwiseOwned
    <2> QED
      BY <2>1, <2>2
  <1>13. DescriptorsOwned'
    BY <1>3, <1>10, <1>11, <1>12, PointwiseOwned DEF DescriptorsOwned
  <1> QED
    BY <1>8, <1>9, <1>13 DEF SocketInv

LEMMA ProgramStep ==
    ASSUME SocketInv, NEW s \in Fds, Completed(s) \/ ProgramCloses(s)
    PROVE  SocketInv'
  <1>1. UNCHANGED <<nonblock, job, lost>>
    BY DEF Completed, ProgramCloses
  <1>2. InProgress' = InProgress /\ JobsInv'
    BY <1>1 DEF InProgress, SocketInv, JobsInv
  <1>3. CASE Completed(s)
    <2>1. /\ sock[s] = "connecting" /\ sock' = [sock EXCEPT ![s] = "connected"] /\ mine' = mine
      BY <1>3 DEF Completed
    <2>2. /\ sock' \in [Fds -> {"closed", "new", "connected", "connecting", "listening"}]
          /\ sock'[s] = "connected" /\ \A g \in Fds : g # s => sock'[g] = sock[g]
      BY <2>1 DEF SocketInv, SocketTypeOK
    <2>3. SocketTypeOK'
      BY <1>1, <2>1, <2>2 DEF SocketInv, SocketTypeOK
    <2>4. FreeFds' = FreeFds
      BY <2>1, <2>2 DEF FreeFds
    <2>5. DescriptorsOwned'
      BY <1>1, <1>2, <2>1, <2>2, <2>4, PointwiseOwned DEF SocketInv, DescriptorsOwned
    <2> QED
      BY <1>2, <2>3, <2>5 DEF SocketInv
  <1>4. CASE ProgramCloses(s)
    <2>1. /\ s \in DOMAIN mine /\ sock' = Closed(s)
          /\ mine' = [f \in DOMAIN mine \ {s} |-> mine[f]]
      BY <1>4 DEF ProgramCloses
    <2>2. /\ sock' \in [Fds -> {"closed", "new", "connected", "connecting", "listening"}]
          /\ sock'[s] = "closed" /\ \A g \in Fds : g # s => sock'[g] = sock[g]
      BY <2>1 DEF SocketInv, SocketTypeOK, Closed
    <2>3. DOMAIN mine' = DOMAIN mine \ {s} /\ DOMAIN mine' \subseteq Fds
          /\ mine' \in [DOMAIN mine' -> KindType] /\ \A f \in DOMAIN mine' : mine'[f] = mine[f]
      BY <2>1 DEF SocketInv, SocketTypeOK
    <2>4. SocketTypeOK'
      BY <1>1, <2>2, <2>3 DEF SocketInv, SocketTypeOK
    <2>5. Fds \ FreeFds' = DOMAIN mine' \cup InProgress' \cup lost'
      BY <1>1, <1>2, <2>1, <2>2, <2>3, PointwiseOwned DEF FreeFds
    <2>6. DescriptorsOwned'
      BY <1>1, <1>2, <2>2, <2>3, <2>5, PointwiseOwned DEF SocketInv, DescriptorsOwned
    <2> QED
      BY <1>2, <2>4, <2>6 DEF SocketInv
  <1> QED
    BY <1>3, <1>4

LEMMA SocketInvStep == SocketInv /\ [SocketNext]_sockVars => SocketInv'
  <1> SUFFICES ASSUME SocketInv, [SocketNext]_sockVars
               PROVE  SocketInv'
    OBVIOUS
  <1>1. ASSUME NEW c \in Callers, SetReuseAddr(c)
        PROVE  SocketInv'
    <2>1. job[c].at = "option" /\ UNCHANGED <<sock, nonblock, mine>>
      BY <1>1 DEF SetReuseAddr
    <2>2. CASE GoOn(c, "address") /\ lost' = lost
      BY <2>1, <2>2, GoOnStep DEF SocketInv, SocketTypeOK
    <2>3. CASE Leave(c) /\ lost' = lost \cup {job[c].fd}
      BY <2>1, <2>3, LoseStep
    <2> QED
      BY <1>1, <2>2, <2>3 DEF SetReuseAddr
  <1>2. ASSUME NEW c \in Callers, ConvertAddress(c)
        PROVE  SocketInv'
    <2>1. job[c].at = "address" /\ UNCHANGED <<nonblock, mine, lost>>
      BY <1>2 DEF ConvertAddress
    <2>2. PICK k \in CallKinds : k = job[c].kind
      BY <2>1, JobFacts
    <2>3. k.role \in {"connect", "listen"} /\ (k.nb => k.role = "connect")
      BY KindsOfCalls
    <2>4. CASE GoOn(c, IF k.nb THEN "nonblock" ELSE k.role) /\ sock' = sock
      <3>1. nonblock \subseteq Fds
        BY DEF SocketInv, SocketTypeOK
      <3>2. CASE k.nb
        <4>1. GoOn(c, "nonblock")
          BY <2>4, <3>2
        <4> QED
          BY <2>1, <2>2, <2>4, <3>1, <3>2, <4>1, GoOnStep
      <3>3. CASE ~k.nb
        <4>1. PICK place \in {"connect", "listen"} : place = k.role /\ GoOn(c, place)
          BY <2>3, <2>4, <3>3
        <4> QED
          BY <2>1, <2>2, <2>4, <3>1, <3>3, <4>1, GoOnStep
      <3> QED
        BY <3>2, <3>3
    <2>5. CASE Leave(c) /\ sock' = Closed(job[c].fd)
      BY <2>1, <2>5, CloseStep
    <2> QED
      BY <1>2, <2>2, <2>4, <2>5 DEF ConvertAddress
  <1>3. ASSUME NEW c \in Callers, SetNonblock(c)
        PROVE  SocketInv'
    <2>1. job[c].at = "nonblock" /\ UNCHANGED <<sock, mine>> /\ nonblock \subseteq Fds
      BY <1>3 DEF SetNonblock, SocketInv, SocketTypeOK
    <2>2. job[c].fd \in Fds /\ job[c].kind \in CallKinds /\ job[c].kind.nb
      BY <2>1, JobFacts DEF SocketInv, JobsInv
    <2>3. job[c].kind.role = "connect"
      BY <2>2, KindsOfCalls
    <2>4. CASE GoOn(c, "connect") /\ nonblock' = nonblock \cup {job[c].fd} /\ lost' = lost
      BY <2>1, <2>2, <2>3, <2>4, GoOnStep
    <2>5. CASE Leave(c) /\ lost' = lost \cup {job[c].fd} /\ nonblock' = nonblock
      BY <2>1, <2>5, LoseStep
    <2> QED
      BY <1>3, <2>4, <2>5 DEF SetNonblock
  <1>4. ASSUME NEW c \in Callers, Connect(c)
        PROVE  SocketInv'
    <2>1. job[c].at = "connect" /\ Leave(c) /\ UNCHANGED <<nonblock, lost>>
      BY <1>4 DEF Connect
    <2>2. job[c].kind.role = "connect" /\ (job[c].kind.nb => job[c].fd \in nonblock)
      BY <2>1 DEF SocketInv, JobsInv
    <2>3. ASSUME NEW state \in {"connected", "connecting"}, state = "connecting" => job[c].kind.nb,
                 sock' = [sock EXCEPT ![job[c].fd] = state], Give(job[c].fd, job[c].kind)
          PROVE  SocketInv'
      BY <2>1, <2>2, <2>3, GiveStep
    <2>4. CASE sock' = Closed(job[c].fd) /\ mine' = mine
      BY <2>1, <2>4, CloseStep
    <2> QED
      BY <1>4, <2>3, <2>4 DEF Connect
  <1>5. ASSUME NEW c \in Callers, tfnet_listen(c)
        PROVE  SocketInv'
    <2>1. job[c].at = "listen" /\ Leave(c) /\ UNCHANGED <<nonblock, lost>>
      BY <1>5 DEF tfnet_listen
    <2>2. job[c].kind.role = "listen" /\ ~job[c].kind.nb
      <3>1. job[c].kind.role = "listen" /\ job[c].kind \in CallKinds
        BY <2>1, JobFacts DEF SocketInv, JobsInv
      <3> QED
        BY <3>1, KindsOfCalls
    <2>3. CASE sock' = [sock EXCEPT ![job[c].fd] = "listening"] /\ Give(job[c].fd, job[c].kind)
      BY <2>1, <2>2, <2>3, GiveStep
    <2>4. CASE sock' = Closed(job[c].fd) /\ mine' = mine
      BY <2>1, <2>4, CloseStep
    <2> QED
      BY <1>5, <2>3, <2>4 DEF tfnet_listen
  <1>6. ASSUME NEW c \in Callers, NEW s \in Fds, tfnet_nonblock(c, s)
        PROVE  SocketInv'
    BY <1>6 DEF tfnet_nonblock, SocketInv, SocketTypeOK, JobsInv, DescriptorsOwned, FreeFds, InProgress
  <1>7. CASE NewProcess
    <2>1. /\ sock' = [f \in Fds |-> "closed"] /\ nonblock' = {} /\ lost' = {}
          /\ job' = [c \in Callers |-> NoJob] /\ DOMAIN mine' = {} /\ mine' = [f \in {} |-> {}]
      BY <1>7 DEF NewProcess
    <2>2. SocketTypeOK'
      BY <2>1 DEF SocketTypeOK
    <2>3. JobsInv'
      BY <2>1 DEF JobsInv, NoJob
    <2>4. InProgress' = {}
      BY <2>1 DEF InProgress
    <2>5. DescriptorsOwned'
      BY <2>1, <2>4 DEF DescriptorsOwned, FreeFds
    <2> QED
      BY <2>2, <2>3, <2>5 DEF SocketInv
  <1>8. CASE UNCHANGED sockVars
    BY <1>8 DEF sockVars, SocketInv, SocketTypeOK, JobsInv, DescriptorsOwned, FreeFds, InProgress
  <1> QED
    BY <1>1, <1>2, <1>3, <1>4, <1>5, <1>6, <1>7, <1>8, CreateSocketStep, AcceptStep, ProgramStep
    DEF SocketNext

\* Whatever calls fail and however the threads compete, no open descriptor is
\* without an owner, except after the two option failures, and none has two;
\* what a caller gets is in the state it asked for.
THEOREM SocketDescriptorsOwned == SocketSpec => []DescriptorsOwned
  <1>1. SocketInv => DescriptorsOwned
    BY DEF SocketInv
  <1> QED
    BY <1>1, SocketInvInit, SocketInvStep, PTL DEF SocketSpec
-----------------------------------------------------------------------------
(* Whole-file transfers.                                                   *)

\* What is transferred is a part of the file, or of the caller's buffer,
\* that ends at a known place: while a copy runs, what was written and what
\* was read and not yet written make up the bytes up to the offset; while a
\* buffer is written, the whole buffer; while a buffer is read into, its
\* contents end at the offset.
FileTypeOK ==
    /\ size \in Nat /\ size0 \in Nat /\ pos \in Nat /\ asked \in Nat
    /\ size0 <= size /\ pos <= size
    /\ last \in {"none", "copy", "write", "read", "readfile", "readstdin"}
    /\ last = "readfile" => asked <= size0

ResultInv ==
    /\ result \in BOOLEAN /\ call \in {"none", last}
    /\ call # "none" \/ last = "none" => result = FALSE

CopyInv ==
    last = "copy" => /\ \E n \in 0..pos : dest = Bytes(0, n) /\ out = Bytes(n, pos)
                     /\ result => out = <<>> /\ pos >= size0

WriteInv ==
    last = "write" => /\ \E n \in 0..asked : dest = Bytes(0, n) /\ out = Bytes(n, asked)
                      /\ result => out = <<>>

ReadInv ==
    last \in Readers => \E from \in 0..pos : /\ got = Bytes(from, pos) /\ pos <= from + asked
                                             /\ last = "read" /\ result => pos = from + asked
                                             /\ last # "read" => from = 0

FileInv == FileTypeOK /\ ResultInv /\ CopyInv /\ WriteInv /\ ReadInv

LEMMA BytesFacts ==
    ASSUME NEW a \in Nat, NEW b \in Nat, a <= b
    PROVE  /\ Bytes(a, b) \in Seq(Nat)
           /\ Len(Bytes(a, b)) = b - a
           /\ Bytes(a, b) = <<>> <=> a = b
  <1>1. b - a \in Nat
    OBVIOUS
  <1>2. Bytes(a, b) \in [1..(b - a) -> Nat]
    BY DEF Bytes
  <1>3. Bytes(a, b) \in Seq(Nat) /\ Len(Bytes(a, b)) = b - a
    BY <1>1, <1>2
  <1> HIDE DEF Bytes
  <1>4. Bytes(a, b) = <<>> <=> Len(Bytes(a, b)) = 0
    BY <1>3, EmptySeq
  <1> QED
    BY <1>3, <1>4

LEMMA BytesPick ==
    ASSUME NEW a \in Nat, NEW b \in Nat, a <= b
    PROVE  \E x \in Seq(Nat) : /\ x = Bytes(a, b) /\ Len(x) = b - a
                               /\ \A i \in 1..(b - a) : x[i] = a + i
  <1>1. \A i \in 1..(b - a) : Bytes(a, b)[i] = a + i
    BY DEF Bytes
  <1> QED
    BY <1>1, BytesFacts

\* The same for a piece that has a name.
LEMMA PieceFacts ==
    ASSUME NEW s, NEW a \in Nat, NEW b \in Nat, a <= b, s = Bytes(a, b)
    PROVE  Len(s) = b - a /\ (s = <<>> => a = b)
  <1>1. Len(Bytes(a, b)) = b - a /\ (Bytes(a, b) = <<>> => a = b)
    BY BytesFacts
  <1> QED
    BY <1>1

LEMMA EmptyPiece == \A a \in Nat : Bytes(a, a) = <<>>
  BY BytesFacts

\* Two pieces that meet are one piece.
LEMMA BytesJoin ==
    ASSUME NEW a \in Nat, NEW b \in Nat, NEW c \in Nat, a <= b, b <= c
    PROVE  Bytes(a, b) \o Bytes(b, c) = Bytes(a, c)
  <1>1. PICK x \in Seq(Nat) : x = Bytes(a, b) /\ Len(x) = b - a /\ \A i \in 1..(b - a) : x[i] = a + i
    BY BytesPick
  <1>2. PICK y \in Seq(Nat) : y = Bytes(b, c) /\ Len(y) = c - b /\ \A i \in 1..(c - b) : y[i] = b + i
    BY BytesPick
  <1>0. a <= c
    OBVIOUS
  <1>3. PICK z \in Seq(Nat) : z = Bytes(a, c) /\ Len(z) = c - a /\ \A i \in 1..(c - a) : z[i] = a + i
    BY <1>0, BytesPick
  <1>4. /\ x \o y \in Seq(Nat) /\ Len(x \o y) = Len(x) + Len(y)
        /\ \A i \in 1..(Len(x) + Len(y)) : (x \o y)[i] = IF i <= Len(x) THEN x[i] ELSE y[i - Len(x)]
    BY ConcatProperties
  <1>5. Len(x) + Len(y) = c - a /\ Len(x \o y) = c - a
    BY <1>1, <1>2, <1>4
  <1>6. ASSUME NEW i \in 1..(c - a)
        PROVE  (x \o y)[i] = z[i]
    <2>1. (x \o y)[i] = IF i <= Len(x) THEN x[i] ELSE y[i - Len(x)]
      BY <1>4, <1>5
    <2>2. CASE i <= b - a
      <3>1. i \in 1..(b - a) /\ i <= Len(x)
        BY <1>1, <2>2
      <3>2. (x \o y)[i] = x[i] /\ x[i] = a + i
        BY <1>1, <2>1, <3>1
      <3> QED
        BY <1>3, <3>2
    <2>3. CASE ~(i <= b - a)
      <3>1. i - (b - a) \in 1..(c - b)
        BY <2>3
      <3>2. (x \o y)[i] = y[i - (b - a)]
        BY <1>1, <2>1, <2>3
      <3>3. y[i - (b - a)] = b + (i - (b - a))
        BY <1>2, <3>1
      <3>4. b + (i - (b - a)) = a + i
        BY <2>3
      <3> QED
        BY <1>3, <3>2, <3>3, <3>4
    <2> QED
      BY <2>2, <2>3
  <1>7. x \o y = z
    <2> DEFINE w == x \o y
    <2>1. w \in Seq(Nat) /\ Len(w) = Len(z) /\ \A i \in 1..Len(w) : w[i] = z[i]
      BY <1>3, <1>4, <1>5, <1>6
    <2> HIDE DEF w
    <2>2. w = z
      BY <2>1, SeqEqual
    <2> QED
      BY <2>2 DEF w
  <1> QED
    BY <1>1, <1>2, <1>3, <1>7

\* What is written and what is left are two pieces.
LEMMA BytesCut ==
    ASSUME NEW a \in Nat, NEW b \in Nat, a <= b, NEW n \in 0..(b - a)
    PROVE  /\ SubSeq(Bytes(a, b), 1, n) = Bytes(a, a + n)
           /\ SubSeq(Bytes(a, b), n + 1, b - a) = Bytes(a + n, b)
  <1>1. SubSeq(Bytes(a, b), 1, n) = Bytes(a, a + n)
    BY DEF Bytes
  <1>2. SubSeq(Bytes(a, b), n + 1, b - a) = Bytes(a + n, b)
    BY DEF Bytes
  <1> QED
    BY <1>1, <1>2

LEMMA MinOfTwo ==
    ASSUME NEW a \in Int, NEW b \in Int
    PROVE  /\ Min({a, b}) \in {a, b} /\ Min({a, b}) \in Int
           /\ Min({a, b}) <= a /\ Min({a, b}) <= b
  <1>1. \E x \in {a, b} : \A y \in {a, b} : x <= y
    OBVIOUS
  <1>2. Min({a, b}) \in {a, b} /\ \A y \in {a, b} : Min({a, b}) <= y
    BY <1>1 DEF Min
  <1> QED
    BY <1>2
-----------------------------------------------------------------------------
\* The four calls: what is left over from earlier ones is thrown away.
LEMMA CopyBegins == ASSUME FileInv, tf_copyfile PROVE FileInv'
  <1>1. /\ last' = "copy" /\ call' = "copy" /\ result' = FALSE /\ size0' = size /\ size' = size
        /\ dest' = <<>> /\ out' = <<>> /\ pos' = 0 /\ asked' = asked
    BY DEF tf_copyfile, Start
  <1>2. FileTypeOK' /\ WriteInv' /\ ReadInv'
    BY <1>1 DEF FileInv, FileTypeOK, WriteInv, ReadInv, Readers
  <1>5. ResultInv'
    BY <1>1 DEF ResultInv
  <1>3. Bytes(0, 0) = <<>> /\ 0 \in 0..0
    BY EmptyPiece
  <1>4. CopyInv'
    BY <1>1, <1>3 DEF CopyInv
  <1> QED
    BY <1>2, <1>4, <1>5 DEF FileInv

LEMMA WriteBegins ==
    ASSUME FileInv, NEW n \in 0..MaxSize, tf_writefile(n)
    PROVE  FileInv'
  <1>1. /\ last' = "write" /\ call' = "write" /\ result' = FALSE /\ size0' = size /\ size' = size
        /\ dest' = <<>> /\ out' = Bytes(0, n) /\ pos' = pos /\ asked' = n
    BY DEF tf_writefile, Start
  <1>2. n \in Nat /\ 0 \in 0..n
    BY FileAssumption
  <1>3. FileTypeOK' /\ CopyInv' /\ ReadInv'
    BY <1>1, <1>2 DEF FileInv, FileTypeOK, CopyInv, ReadInv, Readers
  <1>4. Bytes(0, 0) = <<>>
    BY EmptyPiece
  <1>5. WriteInv'
    BY <1>1, <1>2, <1>4 DEF WriteInv
  <1>6. ResultInv'
    BY <1>1 DEF ResultInv
  <1> QED
    BY <1>3, <1>5, <1>6 DEF FileInv

LEMMA ReadBegins ==
    ASSUME FileInv, Start(last'), last' \in Readers, NEW n \in Nat, NEW from \in Nat, from <= size,
           pos' = from, got' = <<>>, asked' = n, last' = "readfile" => n <= size,
           last' # "read" => from = 0
    PROVE  FileInv'
  <1>1. call' = last' /\ result' = FALSE /\ size0' = size /\ size' = size
    BY DEF Start
  <1>2. FileTypeOK'
    BY <1>1 DEF FileInv, FileTypeOK, Readers
  <1>3. CopyInv' /\ WriteInv'
    BY DEF CopyInv, WriteInv, Readers
  <1>4. Bytes(from, from) = <<>> /\ from \in 0..from /\ from <= from + n
    BY EmptyPiece
  <1>5. ReadInv'
    BY <1>1, <1>4 DEF ReadInv
  <1>6. ResultInv'
    BY <1>1 DEF ResultInv
  <1> QED
    BY <1>2, <1>3, <1>5, <1>6 DEF FileInv

LEMMA CallBegins ==
    ASSUME FileInv, NEW n \in 0..MaxSize
    PROVE  /\ \A from \in 0..size : tf_read(from, n) => FileInv'
           /\ \A path \in BOOLEAN : tf_readfile(n, path) => FileInv'
  <1>1. n \in Nat /\ size \in Nat /\ MaxSize \in Nat
    BY FileAssumption DEF FileInv, FileTypeOK
  <1>2. ASSUME NEW from \in 0..size, tf_read(from, n)
        PROVE  FileInv'
    <2>1. from \in Nat /\ from <= size
      BY <1>1
    <2>2. Start(last') /\ last' = "read" /\ pos' = from /\ got' = <<>> /\ asked' = n
      BY <1>2 DEF tf_read, Start
    <2> QED
      BY <1>1, <2>1, <2>2, ReadBegins DEF Readers
  <1>3. ASSUME NEW path \in BOOLEAN, tf_readfile(n, path)
        PROVE  FileInv'
    <2>0. PICK a \in Int, b \in Int : a = size /\ b = n
      BY <1>1
    <2>1. PICK least \in Int : least = Min({size, n}) /\ least \in {size, n} /\ least <= size
      BY <2>0, MinOfTwo
    <2>2. PICK m \in Nat : m = asked' /\ (path => m <= size)
      <3>1. /\ n > 0 /\ path => asked' = least
            /\ n = 0 /\ path => asked' = size
            /\ n > 0 /\ ~path => asked' = n
            /\ n = 0 /\ ~path => asked' = MaxSize
        BY <1>3, <2>1 DEF tf_readfile
      <3> QED
        BY <1>1, <2>1, <3>1
    <2>3. /\ Start(last') /\ last' = IF path THEN "readfile" ELSE "readstdin"
      BY <1>3 DEF tf_readfile, Start
    <2>4. pos' = 0 /\ got' = <<>> /\ 0 <= size
      BY <1>1, <1>3 DEF tf_readfile
    <2>5. PICK z \in Nat : z = 0
      OBVIOUS
    <2> QED
      BY <2>2, <2>3, <2>4, <2>5, ReadBegins DEF Readers
  <1> QED
    BY <1>2, <1>3
-----------------------------------------------------------------------------
LEMMA CopyReadStep ==
    ASSUME FileInv, CopyRead
    PROVE  FileInv'
  <1>1. /\ call = "copy" /\ last = "copy" /\ result = FALSE /\ out = <<>>
        /\ UNCHANGED <<size, dest, last, got, asked, size0>>
    BY DEF FileInv, ResultInv, CopyRead
  <1>2. size \in Nat /\ pos \in Nat /\ size0 <= size /\ size0 \in Nat
    BY DEF FileInv, FileTypeOK
  <1>3. PICK m \in 0..pos : dest = Bytes(0, m) /\ out = Bytes(m, pos)
    BY <1>1 DEF FileInv, CopyInv
  <1>4. m \in Nat /\ m <= pos
    BY <1>2
  <1>5. m = pos
    BY <1>1, <1>2, <1>3, <1>4, PieceFacts
  <1>6. WriteInv' /\ ReadInv'
    BY <1>1 DEF WriteInv, ReadInv, Readers
  <1>7. ASSUME NEW n \in 1..Min({TFIOBUFSIZ, size - pos}),
               out' = Bytes(pos, pos + n), pos' = pos + n, UNCHANGED <<call, result>>
        PROVE  FileInv'
    <2>1. PICK room \in Int : room = size - pos
      BY <1>2
    <2>2. PICK least \in Int : least = Min({TFIOBUFSIZ, room}) /\ least <= room
      <3>1. PICK unit \in Int : unit = TFIOBUFSIZ
        BY FileAssumption
      <3> QED
        BY <3>1, MinOfTwo
    <2>3. n \in Nat /\ pos + n <= size
      BY <1>2, <2>1, <2>2
    <2>4. dest' = Bytes(0, pos) /\ out' = Bytes(pos, pos') /\ pos \in 0..pos'
      BY <1>1, <1>2, <1>3, <1>5, <1>7, <2>3
    <2>5. CopyInv'
      BY <1>1, <1>7, <2>4 DEF CopyInv
    <2>6. FileTypeOK'
      BY <1>1, <1>2, <1>7, <2>3 DEF FileInv, FileTypeOK
    <2>7. ResultInv'
      BY <1>1, <1>7 DEF ResultInv
    <2> QED
      BY <1>6, <2>5, <2>6, <2>7 DEF FileInv
  <1>8. ASSUME NEW ok \in BOOLEAN, ok => pos >= size, Return(ok), UNCHANGED <<out, pos>>
        PROVE  FileInv'
    <2>1. CopyInv'
      BY <1>1, <1>2, <1>3, <1>8 DEF CopyInv, Return
    <2>2. FileTypeOK'
      BY <1>1, <1>2, <1>8 DEF FileInv, FileTypeOK
    <2>3. ResultInv'
      BY <1>1, <1>8 DEF ResultInv, Return
    <2> QED
      BY <1>6, <2>1, <2>2, <2>3 DEF FileInv
  <1> QED
    BY <1>7, <1>8 DEF CopyRead

\* A write moves bytes from what is left to what is written.
LEMMA WrittenPart ==
    ASSUME NEW to \in Nat, NEW m \in Nat, m <= to, dest = Bytes(0, m), out = Bytes(m, to),
           NEW n \in 0..Len(out), dest' = dest \o SubSeq(out, 1, n),
           out' = SubSeq(out, n + 1, Len(out))
    PROVE  \E k \in 0..to : dest' = Bytes(0, k) /\ out' = Bytes(k, to)
  <1>1. Len(out) = to - m
    BY PieceFacts
  <1>2. n \in 0..(to - m)
    BY <1>1
  <1>3. SubSeq(out, 1, n) = Bytes(m, m + n) /\ out' = Bytes(m + n, to)
    BY <1>1, <1>2, BytesCut
  <1>4. PICK k \in Nat : k = m + n /\ m <= k /\ k <= to
    BY <1>2
  <1>5. Bytes(0, m) \o Bytes(m, k) = Bytes(0, k)
    <2>1. PICK z \in Nat : z = 0 /\ z <= m
      OBVIOUS
    <2> QED
      BY <1>4, <2>1, BytesJoin
  <1>6. dest' = Bytes(0, k) /\ out' = Bytes(k, to) /\ k \in 0..to
    BY <1>3, <1>4, <1>5
  <1> QED
    BY <1>6

LEMMA WriteSomeStep ==
    ASSUME FileInv, WriteSome
    PROVE  FileInv'
  <1>1. /\ call \in {"copy", "write"} /\ last = call /\ result = FALSE
        /\ UNCHANGED <<size, last, pos, got, asked, size0>>
    BY DEF FileInv, ResultInv, WriteSome
  <1>2. PICK to \in Nat : to = IF call = "copy" THEN pos ELSE asked
    BY DEF FileInv, FileTypeOK
  <1>3. PICK m \in 0..to : dest = Bytes(0, m) /\ out = Bytes(m, to)
    BY <1>1, <1>2 DEF FileInv, CopyInv, WriteInv
  <1>4. m \in Nat /\ m <= to
    OBVIOUS
  <1>5. ReadInv'
    BY <1>1 DEF ReadInv, Readers
  <1>6. ASSUME NEW n \in 0..Len(out), dest' = dest \o SubSeq(out, 1, n),
               out' = SubSeq(out, n + 1, Len(out)),
               \/ out' = <<>> /\ call = "write" /\ \E ok \in BOOLEAN : Return(ok)
               \/ (out' # <<>> \/ call = "copy") /\ UNCHANGED <<call, result>>
        PROVE  FileInv'
    <2>1. \E k \in 0..to : dest' = Bytes(0, k) /\ out' = Bytes(k, to)
      BY <1>3, <1>4, <1>6, WrittenPart
    <2>2. /\ result' \in BOOLEAN /\ call' \in {"none", last} /\ (call' # "none" => result' = FALSE)
          /\ result' => out' = <<>> /\ last = "write"
      BY <1>1, <1>6 DEF Return
    <2>3. FileTypeOK' /\ ResultInv'
      BY <1>1, <2>2 DEF FileInv, FileTypeOK, ResultInv
    <2>4. CopyInv' /\ WriteInv'
      BY <1>1, <1>2, <2>1, <2>2 DEF CopyInv, WriteInv
    <2> QED
      BY <1>5, <2>3, <2>4 DEF FileInv
  <1>7. CASE Return(FALSE) /\ UNCHANGED <<dest, out>>
    <2>1. FileTypeOK' /\ ResultInv'
      BY <1>1, <1>7 DEF FileInv, FileTypeOK, ResultInv, Return
    <2>2. CopyInv' /\ WriteInv'
      BY <1>1, <1>7 DEF FileInv, CopyInv, WriteInv, Return
    <2> QED
      BY <1>5, <2>1, <2>2 DEF FileInv
  <1> QED
    BY <1>6, <1>7 DEF WriteSome

LEMMA ReadSomeStep ==
    ASSUME FileInv, ReadSome
    PROVE  FileInv'
  <1>1. /\ call \in Readers /\ last = call /\ result = FALSE
        /\ UNCHANGED <<size, dest, last, out, asked, size0>>
    BY DEF FileInv, ResultInv, ReadSome, Readers
  <1>2. size \in Nat /\ pos \in Nat /\ asked \in Nat
    BY DEF FileInv, FileTypeOK
  <1>3. PICK from \in 0..pos : /\ got = Bytes(from, pos) /\ pos <= from + asked
                               /\ last # "read" => from = 0
    BY <1>1 DEF FileInv, ReadInv
  <1>4. from \in Nat /\ from <= pos
    BY <1>2
  <1>5. Len(got) = pos - from
    BY <1>2, <1>3, <1>4, PieceFacts
  <1>6. PICK n \in 1..Min({asked - Len(got), size - pos}) :
          /\ got' = got \o Bytes(pos, pos + n)
          /\ pos' = pos + n
          /\ IF call = "read" /\ Len(got') = asked THEN Return(TRUE) ELSE UNCHANGED <<call, result>>
    BY DEF ReadSome
  <1>7. PICK a \in Int, b \in Int : a = asked - Len(got) /\ b = size - pos
    BY <1>2, <1>4, <1>5
  <1>8. PICK least \in Int : least = Min({a, b}) /\ least <= a /\ least <= b
    BY MinOfTwo
  <1>9. PICK to \in Nat : /\ to = pos + n /\ to = pos' /\ pos <= to /\ from <= to
                          /\ to <= size /\ to <= from + asked
    BY <1>2, <1>4, <1>5, <1>6, <1>7, <1>8
  <1>10. got' = Bytes(from, to)
    <2>1. Bytes(from, pos) \o Bytes(pos, to) = Bytes(from, to)
      BY <1>2, <1>4, <1>9, BytesJoin
    <2> QED
      BY <1>3, <1>6, <1>9, <2>1
  <1>11. Len(got') = to - from
    BY <1>4, <1>9, <1>10, PieceFacts
  <1>12. /\ result' \in BOOLEAN /\ call' \in {"none", last} /\ (call' # "none" => result' = FALSE)
         /\ result' => Len(got') = asked
    BY <1>1, <1>6 DEF Return
  <1>13. ASSUME result'
         PROVE  to = from + asked
    <2>1. to - from = asked
      BY <1>11, <1>12, <1>13
    <2> QED
      BY <1>2, <1>4, <1>9, <2>1
  <1>14. from \in 0..pos' /\ got' = Bytes(from, pos') /\ pos' <= from + asked'
    BY <1>1, <1>4, <1>9, <1>10
  <1>15. ReadInv'
    BY <1>1, <1>3, <1>9, <1>13, <1>14 DEF ReadInv
  <1>16. FileTypeOK'
    BY <1>1, <1>2, <1>9 DEF FileInv, FileTypeOK
  <1>18. ResultInv'
    BY <1>1, <1>12 DEF ResultInv, Readers
  <1>17. CopyInv' /\ WriteInv'
    BY <1>1 DEF CopyInv, WriteInv, Readers
  <1> QED
    BY <1>15, <1>16, <1>17, <1>18 DEF FileInv

LEMMA ReadEndsStep ==
    ASSUME FileInv, ReadEnds
    PROVE  FileInv'
  <1>1. /\ call \in Readers /\ last = call /\ result = FALSE
        /\ UNCHANGED <<size, dest, last, pos, out, got, asked, size0>>
    BY DEF FileInv, ResultInv, ReadEnds, Readers
  <1>2. size \in Nat /\ pos \in Nat /\ asked \in Nat
    BY DEF FileInv, FileTypeOK
  <1>3. PICK from \in 0..pos : /\ got = Bytes(from, pos) /\ pos <= from + asked
                               /\ last # "read" => from = 0
    BY <1>1 DEF FileInv, ReadInv
  <1>4. from \in Nat /\ from <= pos
    BY <1>2
  <1>5. Len(got) = pos - from
    BY <1>2, <1>3, <1>4, PieceFacts
  <1>6. call' = "none" /\ result' \in BOOLEAN /\ (last = "read" /\ result' => Len(got) = asked)
    BY <1>1 DEF ReadEnds, Return
  <1>7. last = "read" /\ result' => pos = from + asked
    BY <1>2, <1>4, <1>5, <1>6
  <1>8. ReadInv'
    BY <1>1, <1>3, <1>7 DEF ReadInv
  <1>9. FileTypeOK' /\ ResultInv'
    BY <1>1, <1>6 DEF FileInv, FileTypeOK, ResultInv, Readers
  <1>10. CopyInv' /\ WriteInv'
    BY <1>1 DEF CopyInv, WriteInv, Readers
  <1> QED
    BY <1>8, <1>9, <1>10 DEF FileInv

LEMMA FileInvStep == FileInv /\ [FileNext]_fileVars => FileInv'
  <1> SUFFICES ASSUME FileInv, [FileNext]_fileVars
               PROVE  FileInv'
    OBVIOUS
  <1>1. CASE Appended
    <2>1. /\ size' = size + 1
          /\ UNCHANGED <<dest, call, last, pos, out, got, asked, result, size0>>
      BY <1>1 DEF Appended
    <2>2. FileTypeOK'
      BY <2>1 DEF FileInv, FileTypeOK
    <2>3. CopyInv' /\ WriteInv' /\ ReadInv' /\ ResultInv'
      BY <2>1 DEF FileInv, ResultInv, CopyInv, WriteInv, ReadInv
    <2> QED
      BY <2>2, <2>3 DEF FileInv
  <1>2. CASE UNCHANGED fileVars
    BY <1>2 DEF fileVars, FileInv, FileTypeOK, ResultInv, CopyInv, WriteInv, ReadInv
  <1> QED
    BY <1>1, <1>2, CopyBegins, WriteBegins, CallBegins, CopyReadStep, WriteSomeStep, ReadSomeStep,
       ReadEndsStep DEF FileNext

LEMMA FileInvInit == FileInit => FileInv
  <1> SUFFICES ASSUME FileInit
               PROVE  FileInv
    OBVIOUS
  <1>1. FileTypeOK
    BY DEF FileInit, FileTypeOK
  <1>2. ResultInv
    BY DEF FileInit, ResultInv
  <1>3. CopyInv /\ WriteInv /\ ReadInv
    BY DEF FileInit, CopyInv, WriteInv, ReadInv, Readers
  <1> QED
    BY <1>1, <1>2, <1>3 DEF FileInv

LEMMA FileInvImplies == FileInv => TransfersWhole
  <1> SUFFICES ASSUME FileInv
               PROVE  TransfersWhole
    OBVIOUS
  <1>1. size \in Nat /\ pos \in Nat /\ asked \in Nat
    BY DEF FileInv, FileTypeOK
  <1>2. PICK z \in Nat : z = 0
    OBVIOUS
  <1>3. ASSUME result, last = "copy"
        PROVE  Len(dest) >= size0 /\ dest = Bytes(0, Len(dest))
    <2>1. PICK m \in 0..pos : dest = Bytes(z, m) /\ out = Bytes(m, pos) /\ out = <<>> /\ pos >= size0
      BY <1>2, <1>3 DEF FileInv, CopyInv
    <2>2. m \in Nat /\ m <= pos /\ z <= m
      BY <1>1, <1>2
    <2>3. m = pos /\ Len(dest) = m - z
      BY <1>1, <2>1, <2>2, PieceFacts
    <2>4. Len(dest) = m
      BY <1>2, <2>2, <2>3
    <2> QED
      BY <1>2, <2>1, <2>3, <2>4
  <1>4. ASSUME result, last = "write"
        PROVE  dest = Bytes(0, asked)
    <2>1. PICK m \in 0..asked : dest = Bytes(0, m) /\ out = Bytes(m, asked) /\ out = <<>>
      BY <1>4 DEF FileInv, WriteInv
    <2>2. m \in Nat /\ m <= asked
      BY <1>1
    <2>3. m = asked
      BY <1>1, <2>1, <2>2, PieceFacts
    <2> QED
      BY <2>1, <2>3
  <1>5. ASSUME last \in Readers
        PROVE  /\ Len(got) <= asked
               /\ last = "read" /\ result => got = Bytes(pos - asked, pos)
               /\ last # "read" => got = Bytes(0, Len(got))
    <2>1. PICK from \in 0..pos : /\ got = Bytes(from, pos) /\ pos <= from + asked
                                 /\ last = "read" /\ result => pos = from + asked
                                 /\ last # "read" => from = 0
      BY <1>5 DEF FileInv, ReadInv
    <2>2. from \in Nat /\ from <= pos
      BY <1>1
    <2>3. Len(got) = pos - from
      BY <1>1, <2>1, <2>2, PieceFacts
    <2>4. Len(got) <= asked
      BY <1>1, <2>1, <2>2, <2>3
    <2>5. last = "read" /\ result => from = pos - asked
      BY <1>1, <2>1, <2>2
    <2>6. last # "read" => Len(got) = pos
      BY <1>1, <2>1, <2>3
    <2> QED
      BY <2>1, <2>4, <2>5, <2>6
  <1>6. last = "readfile" => asked <= size0
    BY DEF FileInv, FileTypeOK
  <1>7. result => last \in {"copy", "write", "read", "readfile", "readstdin"}
    BY DEF FileInv, FileTypeOK, ResultInv
  <1> QED
    BY <1>3, <1>4, <1>5, <1>6, <1>7 DEF TransfersWhole, Readers

\* However short the reads and writes are, a copy, a written file or a read
\* that is reported as done is complete and in order, for files and buffers
\* of any size, and no read goes beyond the buffer that fstat or the caller
\* dimensioned.
THEOREM FileTransfersWhole == FileSpec => []TransfersWhole
  BY FileInvInit, FileInvStep, FileInvImplies, PTL DEF FileSpec
-----------------------------------------------------------------------------
(* Configuration files: what parse_line makes of a line.                   *)

\* The least element of a set of integers is its minimum.
LEMMA LeastIsMin ==
    ASSUME NEW S \in SUBSET Int, NEW x \in S, \A y \in S : x <= y
    PROVE  Min(S) = x
<1>1. Min(S) \in S /\ \A y \in S : Min(S) <= y
  BY DEF Min
<1>2. Min(S) \in Int /\ x \in Int
  BY <1>1
<1>3. Min(S) <= x /\ x <= Min(S)
  BY <1>1
<1> QED
  BY ONLY <1>2, <1>3

\* The greatest element of a set of integers is its maximum.
LEMMA GreatestIsMax ==
    ASSUME NEW S \in SUBSET Int, NEW x \in S, \A y \in S : y <= x
    PROVE  Max(S) = x
<1>1. Max(S) \in S /\ \A y \in S : Max(S) >= y
  BY DEF Max
<1>2. Max(S) \in Int /\ x \in Int
  BY <1>1
<1>3. Max(S) <= x /\ x <= Max(S)
  BY <1>1
<1> QED
  BY ONLY <1>2, <1>3

\* The first token of a kind from n on is k, if none is between them and it
\* is one or k is the end.
LEMMA FirstInIs ==
    ASSUME NEW T, NEW s \in Seq(T), NEW S, NEW n \in Nat \ {0}, NEW k \in n..(Len(s) + 1),
           \A i \in n..(k - 1) : s[i] \notin S, k <= Len(s) => s[k] \in S
    PROVE  FirstIn(s, S, n) = k
<1> DEFINE F == {i \in n..Len(s) : s[i] \in S} \cup {Len(s) + 1}
<1>1. F \in SUBSET Int
  OBVIOUS
<1>2. k \in F
  OBVIOUS
<1>3. \A y \in F : k <= y
  OBVIOUS
<1>4. Min(F) = k
  BY <1>1, <1>2, <1>3, LeastIsMin
<1> QED
  BY <1>4 DEF FirstIn

\* The same for the first token that is not of a kind.
LEMMA FirstNotInIs ==
    ASSUME NEW T, NEW s \in Seq(T), NEW S, NEW n \in Nat \ {0}, NEW k \in n..(Len(s) + 1),
           \A i \in n..(k - 1) : s[i] \in S, k <= Len(s) => s[k] \notin S
    PROVE  FirstNotIn(s, S, n) = k
<1> DEFINE F == {i \in n..Len(s) : s[i] \notin S} \cup {Len(s) + 1}
<1>1. F \in SUBSET Int
  OBVIOUS
<1>2. k \in F
  OBVIOUS
<1>3. \A y \in F : k <= y
  OBVIOUS
<1>4. Min(F) = k
  BY <1>1, <1>2, <1>3, LeastIsMin
<1> QED
  BY <1>4 DEF FirstNotIn

\* t is what s has from a to b.
IsPiece(s, a, b, t) ==
    /\ a \in Nat \ {0} /\ b \in Int /\ a + Len(t) = b + 1 /\ b <= Len(s)
    /\ \A i \in 1..Len(t) : t[i] = s[a + i - 1]

\* SubSeq gives the piece.
LEMMA PieceIs ==
    ASSUME NEW T, NEW s \in Seq(T), NEW t \in Seq(T), NEW a, NEW b, IsPiece(s, a, b, t)
    PROVE  SubSeq(s, a, b) = t
<1> USE DEF IsPiece
<1>1. CASE Len(t) = 0
  <2>1. t = <<>>
    BY <1>1, EmptySeq
  <2>2. b = a - 1
    BY <1>1
  <2> QED
    BY <2>1, <2>2
<1>2. CASE Len(t) # 0
  <2>1. a \in 1..Len(s) /\ b \in a..Len(s)
    BY <1>2
  <2>2. SubSeq(s, a, b) \in Seq(T) /\ Len(SubSeq(s, a, b)) = Len(t)
    BY <2>1
  <2>3. \A i \in 1..Len(t) : SubSeq(s, a, b)[i] = t[i]
    BY <2>1
  <2> QED
    BY <2>2, <2>3, SeqEqual
<1> QED
  BY <1>1, <1>2

\* t is what s has from n on up to the next token of S or the end.
UpTo(s, n, S, t) ==
    /\ n \in Nat \ {0} /\ n + Len(t) <= Len(s) + 1
    /\ \A i \in 1..Len(t) : t[i] = s[n + i - 1] /\ t[i] \notin S
    /\ n + Len(t) <= Len(s) => s[n + Len(t)] \in S

\* It is what SubSeq gives up to FirstIn.
LEMMA CutIs ==
    ASSUME NEW T, NEW s \in Seq(T), NEW t \in Seq(T), NEW n, NEW S, UpTo(s, n, S, t)
    PROVE  SubSeq(s, n, FirstIn(s, S, n) - 1) = t
<1> USE DEF UpTo
<1> DEFINE k == n + Len(t)
<1>1. k \in Nat /\ k = n + Len(t) /\ Len(t) \in Nat
  OBVIOUS
<1> HIDE DEF k
<1>2. FirstIn(s, S, n) = k
  <2>1. n \in Nat \ {0} /\ k \in n..(Len(s) + 1)
    BY <1>1
  <2>2. \A i \in n..(k - 1) : s[i] \notin S
    <3> TAKE i \in n..(k - 1)
    <3>1. i - n + 1 \in 1..Len(t) /\ n + (i - n + 1) - 1 = i
      BY <1>1
    <3> QED
      BY <3>1
  <2>3. k <= Len(s) => s[k] \in S
    BY <1>1
  <2> QED
    BY <2>1, <2>2, <2>3, FirstInIs
<1>3. IsPiece(s, n, k - 1, t)
  BY <1>1 DEF IsPiece
<1>4. SubSeq(s, n, k - 1) = t
  BY <1>3, PieceIs
<1> QED
  BY <1>2, <1>4

\* s is t from a on, and t begins and ends with other tokens than the blanks around it.
BlanksAround(s, a, t) ==
    /\ a \in Nat \ {0} /\ t # <<>> /\ a + Len(t) <= Len(s) + 1
    /\ \A i \in 1..(a - 1) : s[i] = "sp"
    /\ \A i \in (a + Len(t))..Len(s) : s[i] = "sp"
    /\ t[1] # "sp" /\ t[Len(t)] # "sp"
    /\ \A i \in 1..Len(t) : t[i] = s[a + i - 1]

\* Trimming removes the blanks.
LEMMA TrimIs ==
    ASSUME NEW T, NEW s \in Seq(T), NEW t \in Seq(T), NEW a, BlanksAround(s, a, t)
    PROVE  tf_strtrim(s) = t
<1> USE DEF BlanksAround
<1> DEFINE b == a + Len(t) - 1
           F == {i \in DOMAIN s : s[i] # "sp"} \cup {0}
<1>0. Len(t) \in Nat \ {0} /\ Len(s) \in Nat /\ DOMAIN s = 1..Len(s) /\ a \in Nat \ {0}
  BY EmptySeq
<1>1. FirstNotIn(s, {"sp"}, 1) = a
  <2>1. a \in 1..(Len(s) + 1) /\ 1 \in Nat \ {0}
    BY <1>0
  <2>2. \A i \in 1..(a - 1) : s[i] \in {"sp"}
    OBVIOUS
  <2>3. s[a] \notin {"sp"}
    <3>1. t[1] = s[a + 1 - 1] /\ a + 1 - 1 = a
      BY <1>0
    <3> QED
      BY <3>1
  <2> QED
    BY <2>1, <2>2, <2>3, FirstNotInIs
<1>2. Max(F) = b
  <2>1. F \in SUBSET Int
    BY <1>0
  <2>2. b \in F
    <3>1. t[Len(t)] = s[a + Len(t) - 1]
      BY <1>0
    <3>2. b \in 1..Len(s)
      BY <1>0
    <3> QED
      BY <3>1, <3>2, <1>0
  <2>3. \A y \in F : y <= b
    BY <1>0
  <2> HIDE DEF F, b
  <2> QED
    BY <2>1, <2>2, <2>3, GreatestIsMax
<1>3. SubSeq(s, a, b) = t
  <2>1. b \in Int /\ a + Len(t) = b + 1 /\ b <= Len(s)
    BY <1>0
  <2>2. \A i \in 1..Len(t) : t[i] = s[a + i - 1]
    OBVIOUS
  <2> HIDE DEF b
  <2> QED
    BY <1>0, <2>1, <2>2, PieceIs DEF IsPiece
<1> QED
  BY <1>1, <1>2, <1>3 DEF tf_strtrim

\* A word n with separators in front of it.
EndsIn(s, seps, n) ==
    s # <<>> /\ s[Len(s)] = n /\ n \notin seps /\ \A i \in 1..(Len(s) - 1) : s[i] \in seps

\* A header with separators in front of one word only has that word as name.
LEMMA HeaderIs ==
    ASSUME NEW T, NEW s \in Seq(T), NEW seps, NEW n \in T, EndsIn(s, seps, n)
    PROVE  HeaderOf(s, seps) = [key |-> <<n>>, value |-> <<>>]
<1>0. PICK c \in Nat : Len(s) = c + 1
  <2>1. Len(s) \in Nat \ {0}
    BY EmptySeq DEF EndsIn
  <2> QED
    BY <2>1
<1> USE <1>0 DEF EndsIn
<1>1. {i \in DOMAIN s : s[i] \in seps} = 1..c
  OBVIOUS
<1>2. Cardinality(1..c) = c
  BY FS_Interval
<1>3. SubSeq(s, c + 1, Len(s)) = <<n>>
  <2>1. <<n>> \in Seq(T) /\ Len(<<n>>) = 1 /\ <<n>>[1] = n
    OBVIOUS
  <2>2. \A i \in 1..Len(<<n>>) : <<n>>[i] = s[(c + 1) + i - 1]
    BY <2>1
  <2>3. c + 1 \in Nat \ {0} /\ Len(s) \in Int /\ (c + 1) + Len(<<n>>) = Len(s) + 1 /\ Len(s) <= Len(s)
    BY <2>1
  <2> QED
    BY ONLY <2>1, <2>2, <2>3, s \in Seq(T), PieceIs DEF IsPiece
<1> QED
  BY <1>1, <1>2, <1>3 DEF HeaderOf

\* A header of separators only is no line.
LEMMA HeaderWithout ==
    ASSUME NEW T, NEW s \in Seq(T), NEW seps, \A i \in 1..Len(s) : s[i] \in seps
    PROVE  HeaderOf(s, seps) = NoLine
<1>0. PICK c \in Nat : Len(s) = c
  OBVIOUS
<1> USE <1>0
<1>1. {i \in DOMAIN s : s[i] \in seps} = 1..c
  OBVIOUS
<1>2. Cardinality(1..c) = c
  BY FS_Interval
<1>3. SubSeq(s, c + 1, Len(s)) = <<>>
  OBVIOUS
<1> QED
  BY <1>1, <1>2, <1>3 DEF HeaderOf, NoLine

\* A key k and a value v with separators between them.
Separated(s, k, v) ==
    /\ Len(s) >= 3 /\ s[1] = k /\ s[Len(s)] = v
    /\ k \notin {"sp", "=", ":"} /\ v \notin {"sp", "=", ":"}
    /\ \A i \in 2..(Len(s) - 1) : s[i] \in {"sp", "=", ":"}

\* PairOf finds both.
LEMMA PairIs ==
    ASSUME NEW T, NEW s \in Seq(T), NEW k \in T, NEW v \in T, Separated(s, k, v)
    PROVE  PairOf(s) = [key |-> <<k>>, value |-> <<v>>]
<1>0. PICK c \in Nat \ {0, 1, 2} : Len(s) = c
  <2>1. Len(s) \in Nat /\ Len(s) >= 3
    BY DEF Separated
  <2> QED
    BY <2>1
<1> USE <1>0 DEF Separated
<1> DEFINE seps == {"sp", "=", ":"}
<1>1. PICK e \in Nat : e = 2 /\ FirstIn(s, seps, 1) = e
  <2>1. 1 \in Nat \ {0} /\ 2 \in 1..(Len(s) + 1)
    OBVIOUS
  <2>2. \A i \in 1..(2 - 1) : s[i] \notin seps
    OBVIOUS
  <2>3. s[2] \in seps
    OBVIOUS
  <2>4. FirstIn(s, seps, 1) = 2
    BY <2>1, <2>2, <2>3, FirstInIs
  <2> QED
    BY <2>4
<1>2. FirstNotIn(s, seps, e) = c
  <2>1. 2 \in Nat \ {0} /\ c \in 2..(Len(s) + 1)
    OBVIOUS
  <2>2. \A i \in 2..(c - 1) : s[i] \in seps
    OBVIOUS
  <2>3. s[c] \notin seps
    OBVIOUS
  <2> QED
    BY <1>1, <2>1, <2>2, <2>3, FirstNotInIs
<1>3. SubSeq(s, 1, e - 1) = <<k>>
  <2> DEFINE w == <<k>>
             d == e - 1
  <2>1. w \in Seq(T) /\ IsPiece(s, 1, d, w)
    BY <1>1 DEF IsPiece
  <2> HIDE DEF w, d
  <2>2. SubSeq(s, 1, d) = w
    BY <2>1, PieceIs
  <2> QED
    BY <2>2 DEF w, d
<1>4. SubSeq(s, c, Len(s)) = <<v>>
  <2>1. <<v>> \in Seq(T) /\ Len(<<v>>) = 1 /\ <<v>>[1] = v
    OBVIOUS
  <2>2. \A i \in 1..Len(<<v>>) : <<v>>[i] = s[c + i - 1]
    BY <2>1
  <2>3. c \in Nat \ {0} /\ Len(s) \in Int /\ c + Len(<<v>>) = Len(s) + 1 /\ Len(s) <= Len(s)
    BY <2>1
  <2> QED
    BY ONLY <2>1, <2>2, <2>3, s \in Seq(T), PieceIs DEF IsPiece
<1>5. ~(c > Len(s))
  OBVIOUS
<1> QED
  BY <1>1, <1>2, <1>3, <1>4, <1>5 DEF PairOf

\* A word with separators only behind it is no line.
LEMMA PairWithout ==
    ASSUME NEW T, NEW s \in Seq(T), s # <<>>, s[1] \notin {"sp", "=", ":"},
           \A i \in 2..Len(s) : s[i] \in {"sp", "=", ":"}
    PROVE  PairOf(s) = NoLine
<1>0. PICK c \in Nat \ {0} : Len(s) = c
  BY EmptySeq
<1> USE <1>0
<1> DEFINE seps == {"sp", "=", ":"}
<1>1. FirstIn(s, seps, 1) = 2
  <2>1. 1 \in Nat \ {0} /\ 2 \in 1..(Len(s) + 1)
    OBVIOUS
  <2>2. \A i \in 1..(2 - 1) : s[i] \notin seps
    OBVIOUS
  <2>3. 2 <= Len(s) => s[2] \in seps
    OBVIOUS
  <2> QED
    BY <2>1, <2>2, <2>3, FirstInIs
<1>2. FirstNotIn(s, seps, 2) = c + 1
  <2>1. 2 \in Nat \ {0} /\ c + 1 \in 2..(Len(s) + 1)
    OBVIOUS
  <2>2. \A i \in 2..(c + 1 - 1) : s[i] \in seps
    OBVIOUS
  <2>3. ~(c + 1 <= Len(s))
    OBVIOUS
  <2> QED
    BY <2>1, <2>2, <2>3, FirstNotInIs
<1>3. c + 1 > Len(s)
  OBVIOUS
<1> QED
  BY <1>1, <1>2, <1>3 DEF PairOf

\* Marks and words.
Tokens == Marks \cup GroupNames \cup Keys \cup Values

\* Which branch of parse_line a trimmed line takes.
LEMMA Branches ==
    ASSUME NEW str, NEW ptr, tf_strtrim(str) = ptr, ptr # <<>>
    PROVE  /\ ptr[1] = "#" => parse_line(str) = NoLine
           /\ ptr[1] = "group" => parse_line(str) = HeaderOf(Tail(ptr), {"sp", "="})
           /\ ptr[1] = "[" =>
                 parse_line(str) = HeaderOf(SubSeq(ptr, 2, FirstIn(ptr, {"]"}, 2) - 1), {"sp"})
           /\ ptr[1] \notin {"#", "group", "["} =>
                 parse_line(str) = PairOf(SubSeq(ptr, 1, FirstIn(ptr, {"#"}, 1) - 1))
BY DEF parse_line

\* An empty line is none.
LEMMA NothingLeft == ASSUME NEW str, tf_strtrim(str) = <<>> PROVE parse_line(str) = NoLine
BY DEF parse_line

\* The writings of a header without a flaw.
LEMMA PlainHeader ==
    ASSUME NEW n \in GroupNames, NEW str \in HeaderWritings(n, "none")
    PROVE  parse_line(str) = [key |-> <<n>>, value |-> <<>>]
<1> DEFINE T == Tokens
<1>1. n \in T /\ n \notin Marks /\ Marks \subseteq T
  BY WordsAssumption DEF Tokens
<1>2. /\ "sp" \in T /\ "=" \in T /\ "group" \in T /\ "[" \in T /\ "]" \in T /\ "#" \in T
      /\ n \notin {"sp", "="} /\ n \notin {"sp"} /\ n # "]" /\ n # "sp"
  BY <1>1 DEF Marks
<1>3. \/ str = <<"group", "=", n>>
      \/ str = <<"sp", "group", "sp", "=", "sp", n, "sp">>
      \/ str = <<"[", n, "]">>
      \/ str = <<"sp", "[", "sp", n, "]", "sp", "#">>
  BY DEF HeaderWritings
<1> HIDE DEF T
<1>4. CASE str = <<"group", "=", n>>
  <2> DEFINE ptr == <<"group", "=", n>>
             rest == <<"=", n>>
  <2>1. str \in Seq(T) /\ ptr \in Seq(T) /\ rest \in Seq(T) /\ ptr # <<>>
    BY <1>1, <1>2, <1>4
  <2>2. BlanksAround(str, 1, ptr)
    BY <1>2, <1>4 DEF BlanksAround
  <2>3. EndsIn(rest, {"sp", "="}, n)
    BY <1>2 DEF EndsIn
  <2>4. ptr[1] = "group" /\ Tail(ptr) = rest
    OBVIOUS
  <2> HIDE DEF ptr, rest
  <2>5. tf_strtrim(str) = ptr
    BY <2>1, <2>2, TrimIs
  <2>6. HeaderOf(rest, {"sp", "="}) = [key |-> <<n>>, value |-> <<>>]
    BY <1>1, <2>1, <2>3, HeaderIs
  <2> QED
    BY <2>1, <2>4, <2>5, <2>6, Branches
<1>5. CASE str = <<"sp", "group", "sp", "=", "sp", n, "sp">>
  <2> DEFINE ptr == <<"group", "sp", "=", "sp", n>>
             rest == <<"sp", "=", "sp", n>>
  <2>1. str \in Seq(T) /\ ptr \in Seq(T) /\ rest \in Seq(T) /\ ptr # <<>>
    BY <1>1, <1>2, <1>5
  <2>2. BlanksAround(str, 2, ptr)
    BY <1>2, <1>5 DEF BlanksAround
  <2>3. EndsIn(rest, {"sp", "="}, n)
    BY <1>2 DEF EndsIn
  <2>4. ptr[1] = "group" /\ Tail(ptr) = rest
    OBVIOUS
  <2> HIDE DEF ptr, rest
  <2>5. tf_strtrim(str) = ptr
    BY <2>1, <2>2, TrimIs
  <2>6. HeaderOf(rest, {"sp", "="}) = [key |-> <<n>>, value |-> <<>>]
    BY <1>1, <2>1, <2>3, HeaderIs
  <2> QED
    BY <2>1, <2>4, <2>5, <2>6, Branches
<1>6. CASE str = <<"[", n, "]">>
  <2> DEFINE ptr == <<"[", n, "]">>
             rest == <<n>>
  <2>1. str \in Seq(T) /\ ptr \in Seq(T) /\ rest \in Seq(T) /\ ptr # <<>>
    BY <1>1, <1>2, <1>6
  <2>2. BlanksAround(str, 1, ptr)
    BY <1>2, <1>6 DEF BlanksAround
  <2>3. EndsIn(rest, {"sp"}, n)
    BY <1>2 DEF EndsIn
  <2>4. ptr[1] = "["
    OBVIOUS
  <2>5. UpTo(ptr, 2, {"]"}, rest)
    BY <1>2 DEF UpTo
  <2> HIDE DEF ptr, rest
  <2>6. tf_strtrim(str) = ptr
    BY <2>1, <2>2, TrimIs
  <2>7. SubSeq(ptr, 2, FirstIn(ptr, {"]"}, 2) - 1) = rest
    BY <2>1, <2>5, CutIs
  <2>8. HeaderOf(rest, {"sp"}) = [key |-> <<n>>, value |-> <<>>]
    BY <1>1, <2>1, <2>3, HeaderIs
  <2> QED
    BY <2>1, <2>4, <2>6, <2>7, <2>8, Branches
<1>7. CASE str = <<"sp", "[", "sp", n, "]", "sp", "#">>
  <2> DEFINE ptr == <<"[", "sp", n, "]", "sp", "#">>
             rest == <<"sp", n>>
  <2>1. str \in Seq(T) /\ ptr \in Seq(T) /\ rest \in Seq(T) /\ ptr # <<>>
    BY <1>1, <1>2, <1>7
  <2>2. BlanksAround(str, 2, ptr)
    BY <1>2, <1>7 DEF BlanksAround
  <2>3. EndsIn(rest, {"sp"}, n)
    BY <1>2 DEF EndsIn
  <2>4. ptr[1] = "["
    OBVIOUS
  <2>5. UpTo(ptr, 2, {"]"}, rest)
    BY <1>2 DEF UpTo
  <2> HIDE DEF ptr, rest
  <2>6. tf_strtrim(str) = ptr
    BY <2>1, <2>2, TrimIs
  <2>7. SubSeq(ptr, 2, FirstIn(ptr, {"]"}, 2) - 1) = rest
    BY <2>1, <2>5, CutIs
  <2>8. HeaderOf(rest, {"sp"}) = [key |-> <<n>>, value |-> <<>>]
    BY <1>1, <2>1, <2>3, HeaderIs
  <2> QED
    BY <2>1, <2>4, <2>6, <2>7, <2>8, Branches
<1> QED
  BY <1>3, <1>4, <1>5, <1>6, <1>7

\* The name under which the group of a header is kept.
NameRead(m) == CASE m.flaw = "none" -> <<m.name>>
                 [] m.flaw = "blank" -> <<"sp">>
                 [] OTHER -> <<"sp", "#">>

\* A header with a blank behind its name: the name is skipped for the blank.
LEMMA BlankHeader ==
    ASSUME NEW n \in GroupNames
    PROVE  parse_line(<<"[", n, "sp", "]">>) = [key |-> <<"sp">>, value |-> <<>>]
<1> DEFINE T == Tokens
           str == <<"[", n, "sp", "]">>
           rest == <<n, "sp">>
           name == <<"sp">>
<1>1. n \in T /\ n \notin Marks /\ Marks \subseteq T
  BY WordsAssumption DEF Tokens
<1>2. "sp" \in T /\ "[" \in T /\ "]" \in T /\ n # "sp" /\ n # "]"
  BY <1>1 DEF Marks
<1> HIDE DEF T
<1>3. str \in Seq(T) /\ rest \in Seq(T) /\ name \in Seq(T) /\ str # <<>> /\ str[1] = "["
  BY <1>2, <1>1
<1>4. BlanksAround(str, 1, str) /\ UpTo(str, 2, {"]"}, rest)
  BY <1>2 DEF BlanksAround, UpTo
<1>5. {i \in DOMAIN rest : rest[i] \in {"sp"}} = {2}
  BY <1>2
<1>6. Len(rest) = 2 /\ IsPiece(rest, 2, 2, name)
  BY DEF IsPiece
<1> HIDE DEF str, rest, name
<1>7. tf_strtrim(str) = str
  BY <1>3, <1>4, TrimIs
<1>8. SubSeq(str, 2, FirstIn(str, {"]"}, 2) - 1) = rest
  BY <1>3, <1>4, CutIs
<1>9. Cardinality({2}) = 1
  BY FS_Singleton
<1>10. SubSeq(rest, 2, 2) = name
  BY <1>3, <1>6, PieceIs
<1>11. HeaderOf(rest, {"sp"}) = [key |-> name, value |-> <<>>]
  <2>1. Cardinality({i \in DOMAIN rest : rest[i] \in {"sp"}}) + 1 = 2
    BY <1>5, <1>9
  <2> QED
    BY <1>6, <1>10, <2>1 DEF HeaderOf
<1>12. parse_line(str) = [key |-> name, value |-> <<>>]
  BY <1>3, <1>7, <1>8, <1>11, Branches
<1> QED
  BY <1>12 DEF str, name

\* A header with a comment: the comment becomes the name.
LEMMA CommentHeader ==
    ASSUME NEW n \in GroupNames
    PROVE  parse_line(<<"group", "=", n, "sp", "#">>) = [key |-> <<"sp", "#">>, value |-> <<>>]
<1> DEFINE T == Tokens
           str == <<"group", "=", n, "sp", "#">>
           rest == <<"=", n, "sp", "#">>
           name == <<"sp", "#">>
<1>1. n \in T /\ n \notin Marks /\ Marks \subseteq T
  BY WordsAssumption DEF Tokens
<1>2. /\ "sp" \in T /\ "group" \in T /\ "=" \in T /\ "#" \in T
      /\ n \notin {"sp", "="}
  BY <1>1 DEF Marks
<1> HIDE DEF T
<1>3. /\ str \in Seq(T) /\ rest \in Seq(T) /\ name \in Seq(T) /\ str # <<>>
      /\ str[1] = "group" /\ Tail(str) = rest
  BY <1>2, <1>1
<1>4. BlanksAround(str, 1, str)
  BY <1>2 DEF BlanksAround
<1>5. {i \in DOMAIN rest : rest[i] \in {"sp", "="}} = {1, 3}
  <2>1. DOMAIN rest = {1, 2, 3, 4}
    OBVIOUS
  <2>2. rest[1] = "=" /\ rest[2] = n /\ rest[3] = "sp" /\ rest[4] = "#"
    OBVIOUS
  <2> HIDE DEF rest
  <2> QED
    BY <1>2, <2>1, <2>2
<1>6. Len(rest) = 4 /\ IsPiece(rest, 3, 4, name)
  BY DEF IsPiece
<1> HIDE DEF str, rest, name
<1>7. tf_strtrim(str) = str
  BY <1>3, <1>4, TrimIs
<1>8. Cardinality({1, 3}) = 2
  <2>1. IsFiniteSet({1}) /\ Cardinality({1}) = 1
    BY FS_Singleton
  <2>2. Cardinality({1} \cup {3}) = Cardinality({1}) + 1
    BY <2>1, FS_AddElement
  <2>3. {1} \cup {3} = {1, 3}
    OBVIOUS
  <2> QED
    BY <2>1, <2>2, <2>3
<1>9. SubSeq(rest, 3, 4) = name
  <2>1. PICK a, b \in Nat : a = 3 /\ b = 4 /\ IsPiece(rest, a, b, name)
    BY <1>6
  <2>2. SubSeq(rest, a, b) = name
    <3>1. rest \in Seq(T) /\ name \in Seq(T) /\ IsPiece(rest, a, b, name)
      BY <1>3, <2>1
    <3> QED
      BY ONLY <3>1, PieceIs
  <2> QED
    BY <2>1, <2>2
<1>10. HeaderOf(rest, {"sp", "="}) = [key |-> name, value |-> <<>>]
  <2>1. Cardinality({i \in DOMAIN rest : rest[i] \in {"sp", "="}}) + 1 = 3
    BY <1>5, <1>8
  <2> QED
    BY <1>6, <1>9, <2>1 DEF HeaderOf
<1>11. parse_line(str) = [key |-> name, value |-> <<>>]
  BY <1>3, <1>7, <1>10, Branches
<1> QED
  BY <1>11 DEF str, name

\* Every writing of a header opens the group of its name as it is read.
LEMMA HeaderWritten ==
    ASSUME NEW n \in GroupNames, NEW f \in HeaderFlaws, NEW str \in Writings(HeaderLine(n, f))
    PROVE  parse_line(str) = [key |-> NameRead(HeaderLine(n, f)), value |-> <<>>]
<1>1. str \in HeaderWritings(n, f)
  BY DEF Writings, HeaderLine
<1>2. CASE f = "none"
  <2>1. NameRead(HeaderLine(n, f)) = <<n>>
    BY <1>2 DEF NameRead, HeaderLine
  <2> QED
    BY <1>1, <1>2, <2>1, PlainHeader
<1>3. CASE f = "blank"
  <2>1. NameRead(HeaderLine(n, f)) = <<"sp">>
    BY <1>3 DEF NameRead, HeaderLine
  <2>2. str = <<"[", n, "sp", "]">>
    BY <1>1, <1>3 DEF HeaderWritings
  <2> QED
    BY <2>1, <2>2, BlankHeader
<1>4. CASE f = "comment"
  <2>1. NameRead(HeaderLine(n, f)) = <<"sp", "#">>
    BY <1>4 DEF NameRead, HeaderLine
  <2>2. str = <<"group", "=", n, "sp", "#">>
    BY <1>1, <1>4 DEF HeaderWritings
  <2> QED
    BY <2>1, <2>2, CommentHeader
<1> QED
  BY <1>2, <1>3, <1>4 DEF HeaderFlaws

\* The writings of a pair without a flaw.
LEMMA PlainPair ==
    ASSUME NEW k \in Keys, NEW v \in Values, NEW str \in PairWritings(k, v, "none")
    PROVE  parse_line(str) = [key |-> <<k>>, value |-> <<v>>]
<1> DEFINE T == Tokens
<1>1. k \in T /\ v \in T /\ k \notin Marks /\ v \notin Marks /\ Marks \subseteq T
  BY WordsAssumption DEF Tokens
<1>2. /\ "sp" \in T /\ "=" \in T /\ ":" \in T /\ "#" \in T
      /\ k \notin {"sp", "=", ":"} /\ k \notin {"#", "group", "["} /\ k # "#" /\ k # "sp"
      /\ v \notin {"sp", "=", ":"} /\ v # "#" /\ v # "sp"
  BY <1>1 DEF Marks
<1>3. \/ str = <<k, "=", v>>
      \/ str = <<"sp", k, "sp", "=", "sp", v, "sp">>
      \/ str = <<k, ":", "sp", v, "#", k>>
      \/ str = <<k, "sp", v>>
  BY DEF PairWritings
<1> HIDE DEF T
<1>4. CASE str = <<k, "=", v>>
  <2> DEFINE ptr == <<k, "=", v>>
             rest == <<k, "=", v>>
  <2>1. str \in Seq(T) /\ ptr \in Seq(T) /\ rest \in Seq(T) /\ ptr # <<>>
    BY <1>1, <1>2, <1>4
  <2>2. BlanksAround(str, 1, ptr)
    BY <1>2, <1>4 DEF BlanksAround
  <2>3. Separated(rest, k, v)
    BY <1>2 DEF Separated
  <2>4. ptr[1] \notin {"#", "group", "["}
    BY <1>2
  <2>5. UpTo(ptr, 1, {"#"}, rest)
    BY <1>2 DEF UpTo
  <2> HIDE DEF ptr, rest
  <2>6. tf_strtrim(str) = ptr
    BY <2>1, <2>2, TrimIs
  <2>7. SubSeq(ptr, 1, FirstIn(ptr, {"#"}, 1) - 1) = rest
    BY <2>1, <2>5, CutIs
  <2>8. PairOf(rest) = [key |-> <<k>>, value |-> <<v>>]
    BY <1>1, <2>1, <2>3, PairIs
  <2> QED
    BY <2>1, <2>4, <2>6, <2>7, <2>8, Branches
<1>5. CASE str = <<"sp", k, "sp", "=", "sp", v, "sp">>
  <2> DEFINE ptr == <<k, "sp", "=", "sp", v>>
             rest == <<k, "sp", "=", "sp", v>>
  <2>1. str \in Seq(T) /\ ptr \in Seq(T) /\ rest \in Seq(T) /\ ptr # <<>>
    BY <1>1, <1>2, <1>5
  <2>2. BlanksAround(str, 2, ptr)
    BY <1>2, <1>5 DEF BlanksAround
  <2>3. Separated(rest, k, v)
    BY <1>2 DEF Separated
  <2>4. ptr[1] \notin {"#", "group", "["}
    BY <1>2
  <2>5. UpTo(ptr, 1, {"#"}, rest)
    BY <1>2 DEF UpTo
  <2> HIDE DEF ptr, rest
  <2>6. tf_strtrim(str) = ptr
    BY <2>1, <2>2, TrimIs
  <2>7. SubSeq(ptr, 1, FirstIn(ptr, {"#"}, 1) - 1) = rest
    BY <2>1, <2>5, CutIs
  <2>8. PairOf(rest) = [key |-> <<k>>, value |-> <<v>>]
    BY <1>1, <2>1, <2>3, PairIs
  <2> QED
    BY <2>1, <2>4, <2>6, <2>7, <2>8, Branches
<1>6. CASE str = <<k, ":", "sp", v, "#", k>>
  <2> DEFINE ptr == <<k, ":", "sp", v, "#", k>>
             rest == <<k, ":", "sp", v>>
  <2>1. str \in Seq(T) /\ ptr \in Seq(T) /\ rest \in Seq(T) /\ ptr # <<>>
    BY <1>1, <1>2, <1>6
  <2>2. BlanksAround(str, 1, ptr)
    BY <1>2, <1>6 DEF BlanksAround
  <2>3. Separated(rest, k, v)
    BY <1>2 DEF Separated
  <2>4. ptr[1] \notin {"#", "group", "["}
    BY <1>2
  <2>5. UpTo(ptr, 1, {"#"}, rest)
    BY <1>2 DEF UpTo
  <2> HIDE DEF ptr, rest
  <2>6. tf_strtrim(str) = ptr
    BY <2>1, <2>2, TrimIs
  <2>7. SubSeq(ptr, 1, FirstIn(ptr, {"#"}, 1) - 1) = rest
    BY <2>1, <2>5, CutIs
  <2>8. PairOf(rest) = [key |-> <<k>>, value |-> <<v>>]
    BY <1>1, <2>1, <2>3, PairIs
  <2> QED
    BY <2>1, <2>4, <2>6, <2>7, <2>8, Branches
<1>7. CASE str = <<k, "sp", v>>
  <2> DEFINE ptr == <<k, "sp", v>>
             rest == <<k, "sp", v>>
  <2>1. str \in Seq(T) /\ ptr \in Seq(T) /\ rest \in Seq(T) /\ ptr # <<>>
    BY <1>1, <1>2, <1>7
  <2>2. BlanksAround(str, 1, ptr)
    BY <1>2, <1>7 DEF BlanksAround
  <2>3. Separated(rest, k, v)
    BY <1>2 DEF Separated
  <2>4. ptr[1] \notin {"#", "group", "["}
    BY <1>2
  <2>5. UpTo(ptr, 1, {"#"}, rest)
    BY <1>2 DEF UpTo
  <2> HIDE DEF ptr, rest
  <2>6. tf_strtrim(str) = ptr
    BY <2>1, <2>2, TrimIs
  <2>7. SubSeq(ptr, 1, FirstIn(ptr, {"#"}, 1) - 1) = rest
    BY <2>1, <2>5, CutIs
  <2>8. PairOf(rest) = [key |-> <<k>>, value |-> <<v>>]
    BY <1>1, <2>1, <2>3, PairIs
  <2> QED
    BY <2>1, <2>4, <2>6, <2>7, <2>8, Branches
<1> QED
  BY <1>3, <1>4, <1>5, <1>6, <1>7

\* A pair with a comment behind a blank keeps the blank.
LEMMA CommentPair ==
    ASSUME NEW k \in Keys, NEW v \in Values
    PROVE  parse_line(<<k, "sp", "=", "sp", v, "sp", "#", k>>) = [key |-> <<k>>, value |-> <<v, "sp">>]
<1> DEFINE T == Tokens
           str == <<k, "sp", "=", "sp", v, "sp", "#", k>>
           rest == <<k, "sp", "=", "sp", v, "sp">>
           key == <<k>>
           value == <<v, "sp">>
           seps == {"sp", "=", ":"}
<1>1. k \in T /\ v \in T /\ k \notin Marks /\ v \notin Marks /\ Marks \subseteq T
  BY WordsAssumption DEF Tokens
<1>2. /\ "sp" \in T /\ "=" \in T /\ "#" \in T
      /\ k \notin seps /\ k \notin {"#", "group", "["} /\ k # "#" /\ k # "sp"
      /\ v \notin seps /\ v # "#" /\ v # "sp"
  BY <1>1 DEF Marks
<1> HIDE DEF T
<1>3. /\ str \in Seq(T) /\ rest \in Seq(T) /\ key \in Seq(T) /\ value \in Seq(T)
      /\ str # <<>> /\ str[1] \notin {"#", "group", "["} /\ value # <<>>
  BY <1>2, <1>1
<1>4. BlanksAround(str, 1, str) /\ UpTo(str, 1, {"#"}, rest)
  BY <1>2 DEF BlanksAround, UpTo
<1>5. Len(rest) = 6 /\ IsPiece(rest, 1, 1, key) /\ IsPiece(rest, 5, 6, value)
  BY DEF IsPiece
<1>6. /\ rest[1] = k /\ rest[2] = "sp" /\ rest[3] = "=" /\ rest[4] = "sp" /\ rest[5] = v
      /\ rest[1] \notin seps /\ rest[2] \in seps /\ rest[3] \in seps /\ rest[4] \in seps
      /\ rest[5] \notin seps
  BY <1>2
<1> HIDE DEF str, rest, key, value, seps
<1>7. tf_strtrim(str) = str /\ SubSeq(str, 1, FirstIn(str, {"#"}, 1) - 1) = rest
  BY <1>3, <1>4, TrimIs, CutIs
<1>8. FirstIn(rest, seps, 1) = 2
  <2>1. 1 \in Nat \ {0} /\ 2 \in 1..(Len(rest) + 1)
    BY <1>5
  <2>2. \A i \in 1..(2 - 1) : rest[i] \notin seps
    BY <1>6
  <2> QED
    BY <1>3, <1>6, <2>1, <2>2, FirstInIs
<1>9. FirstNotIn(rest, seps, 2) = 5
  <2>1. 2 \in Nat \ {0} /\ 5 \in 2..(Len(rest) + 1)
    BY <1>5
  <2>2. \A i \in 2..(5 - 1) : rest[i] \in seps
    <3>1. 2..(5 - 1) = {2, 3, 4}
      OBVIOUS
    <3> QED
      BY <1>6, <3>1
  <2> QED
    BY <1>3, <1>6, <2>1, <2>2, FirstNotInIs
<1>10. SubSeq(rest, 1, 2 - 1) = key /\ SubSeq(rest, 5, Len(rest)) = value /\ ~(5 > Len(rest))
  <2>1. 2 - 1 = 1
    OBVIOUS
  <2>2. SubSeq(rest, 1, 1) = key
    <3>1. PICK a, b \in Nat : a = 1 /\ b = 1 /\ IsPiece(rest, a, b, key)
      BY <1>5
    <3>2. SubSeq(rest, a, b) = key
      <4>1. rest \in Seq(T) /\ key \in Seq(T) /\ IsPiece(rest, a, b, key)
        BY <1>3, <3>1
      <4> QED
        BY ONLY <4>1, PieceIs
    <3> QED
      BY <3>1, <3>2
  <2>3. SubSeq(rest, 5, 6) = value
    <3>1. PICK a, b \in Nat : a = 5 /\ b = 6 /\ IsPiece(rest, a, b, value)
      BY <1>5
    <3>2. SubSeq(rest, a, b) = value
      <4>1. rest \in Seq(T) /\ value \in Seq(T) /\ IsPiece(rest, a, b, value)
        BY <1>3, <3>1
      <4> QED
        BY ONLY <4>1, PieceIs
    <3> QED
      BY <3>1, <3>2
  <2> QED
    BY <1>5, <2>1, <2>2, <2>3
<1>11. PairOf(rest) = [key |-> key, value |-> value]
  <2>1. FirstIn(rest, {"sp", "=", ":"}, 1) = 2 /\ FirstNotIn(rest, {"sp", "=", ":"}, 2) = 5
    BY <1>8, <1>9 DEF seps
  <2> QED
    BY <1>10, <2>1 DEF PairOf
<1>12. parse_line(str) = [key |-> key, value |-> value]
  BY <1>3, <1>7, <1>11, Branches
<1> QED
  BY <1>12 DEF str, key, value

\* Every writing of a pair gives its key the value as it is read.
LEMMA PairWritten ==
    ASSUME NEW k \in Keys, NEW v \in Values, NEW f \in PairFlaws, NEW str \in Writings(PairLine(k, v, f))
    PROVE  parse_line(str) = [key |-> <<k>>, value |-> ValueRead(PairLine(k, v, f))]
<1>1. str \in PairWritings(k, v, f)
  BY DEF Writings, PairLine
<1>2. CASE f = "none"
  <2>1. ValueRead(PairLine(k, v, f)) = <<v>>
    BY <1>2 DEF ValueRead, PairLine
  <2> QED
    BY <1>1, <1>2, <2>1, PlainPair
<1>3. CASE f = "comment"
  <2>1. ValueRead(PairLine(k, v, f)) = <<v, "sp">>
    BY <1>3 DEF ValueRead, PairLine
  <2>2. str = <<k, "sp", "=", "sp", v, "sp", "#", k>>
    BY <1>1, <1>3 DEF PairWritings
  <2> QED
    BY <2>1, <2>2, CommentPair
<1> QED
  BY <1>2, <1>3 DEF PairFlaws

\* A key without a value.
LEMMA KeyWritten ==
    ASSUME NEW k \in Keys, NEW str, str = <<k, "sp", "=">> \/ str = <<k, "#", "=", k>>
    PROVE  parse_line(str) = NoLine
<1> DEFINE T == Tokens
<1>1. k \in T /\ k \notin Marks /\ Marks \subseteq T
  BY WordsAssumption DEF Tokens
<1>2. /\ "sp" \in T /\ "=" \in T /\ "#" \in T
      /\ k \notin {"sp", "=", ":"} /\ k \notin {"#", "group", "["} /\ k # "#" /\ k # "sp"
  BY <1>1 DEF Marks
<1> HIDE DEF T
<1>3. CASE str = <<k, "sp", "=">>
  <2> DEFINE ptr == <<k, "sp", "=">>
             rest == <<k, "sp", "=">>
  <2>1. str \in Seq(T) /\ ptr \in Seq(T) /\ rest \in Seq(T) /\ ptr # <<>>
    BY <1>1, <1>2, <1>3
  <2>2. BlanksAround(str, 1, ptr)
    BY <1>2, <1>3 DEF BlanksAround
  <2>3. /\ rest # <<>> /\ rest[1] \notin {"sp", "=", ":"}
        /\ \A i \in 2..Len(rest) : rest[i] \in {"sp", "=", ":"}
    BY <1>2
  <2>4. ptr[1] \notin {"#", "group", "["}
    BY <1>2
  <2>5. UpTo(ptr, 1, {"#"}, rest)
    BY <1>2 DEF UpTo
  <2> HIDE DEF ptr, rest
  <2>6. tf_strtrim(str) = ptr
    BY <2>1, <2>2, TrimIs
  <2>7. SubSeq(ptr, 1, FirstIn(ptr, {"#"}, 1) - 1) = rest
    BY <2>1, <2>5, CutIs
  <2>8. PairOf(rest) = NoLine
    BY <2>1, <2>3, PairWithout
  <2> QED
    BY <2>1, <2>4, <2>6, <2>7, <2>8, Branches
<1>4. CASE str = <<k, "#", "=", k>>
  <2> DEFINE ptr == <<k, "#", "=", k>>
             rest == <<k>>
  <2>1. str \in Seq(T) /\ ptr \in Seq(T) /\ rest \in Seq(T) /\ ptr # <<>>
    BY <1>1, <1>2, <1>4
  <2>2. BlanksAround(str, 1, ptr)
    BY <1>2, <1>4 DEF BlanksAround
  <2>3. /\ rest # <<>> /\ rest[1] \notin {"sp", "=", ":"}
        /\ \A i \in 2..Len(rest) : rest[i] \in {"sp", "=", ":"}
    BY <1>2
  <2>4. ptr[1] \notin {"#", "group", "["}
    BY <1>2
  <2>5. UpTo(ptr, 1, {"#"}, rest)
    BY <1>2 DEF UpTo
  <2> HIDE DEF ptr, rest
  <2>6. tf_strtrim(str) = ptr
    BY <2>1, <2>2, TrimIs
  <2>7. SubSeq(ptr, 1, FirstIn(ptr, {"#"}, 1) - 1) = rest
    BY <2>1, <2>5, CutIs
  <2>8. PairOf(rest) = NoLine
    BY <2>1, <2>3, PairWithout
  <2> QED
    BY <2>1, <2>4, <2>6, <2>7, <2>8, Branches
<1> QED
  BY <1>3, <1>4

\* The writings of nothing.
LEMMA NothingWritten ==
    ASSUME NEW str \in Writings(Nothing)
    PROVE  parse_line(str) = NoLine
<1> DEFINE T == Tokens
<1>1. "sp" \in T /\ "=" \in T /\ "#" \in T /\ "group" \in T /\ "[" \in T /\ "]" \in T
  BY DEF Tokens, Marks
<1>2. \/ str = <<>>
      \/ str = <<"sp">>
      \/ str = <<"sp", "#", "group">>
      \/ str = <<"[", "sp", "]">>
      \/ str = <<"group", "=">>
      \/ \E k \in Keys : str = <<k, "sp", "=">> \/ str = <<k, "#", "=", k>>
  BY DEF Writings, Nothing
<1> HIDE DEF T
<1>3. CASE str = <<>> \/ str = <<"sp">>
  <2> DEFINE F == {i \in DOMAIN str : str[i] # "sp"} \cup {0}
  <2>1. str \in Seq(T)
    <3>1. <<>> \in Seq(T)
      OBVIOUS
    <3>2. <<"sp">> \in Seq(T)
      BY <1>1
    <3> QED
      BY <3>1, <3>2, <1>3
  <2>2. \A i \in 1..Len(str) : str[i] = "sp"
    BY <1>3
  <2>3. Len(str) \in Nat /\ DOMAIN str = 1..Len(str)
    BY <2>1
  <2>4. Max(F) = 0
    <3>1. F = {0}
      BY <2>2, <2>3
    <3> QED
      BY <3>1, GreatestIsMax
  <2>5. FirstNotIn(str, {"sp"}, 1) = Len(str) + 1
    <3>1. Len(str) + 1 \in 1..(Len(str) + 1) /\ ~(Len(str) + 1 <= Len(str)) /\ 1 \in Nat \ {0}
      BY <2>3
    <3>2. \A i \in 1..(Len(str) + 1 - 1) : str[i] \in {"sp"}
      BY <2>2, <2>3
    <3> QED
      BY <2>1, <3>1, <3>2, FirstNotInIs
  <2>6. SubSeq(str, Len(str) + 1, 0) = <<>>
    BY <2>1, <2>3
  <2>7. tf_strtrim(str) = <<>>
    BY <2>4, <2>5, <2>6 DEF tf_strtrim
  <2> QED
    BY <2>7, NothingLeft
<1>4. CASE str = <<"sp", "#", "group">>
  <2> DEFINE ptr == <<"#", "group">>
  <2>1. str \in Seq(T) /\ ptr \in Seq(T) /\ ptr # <<>> /\ ptr[1] = "#"
    BY <1>1, <1>4
  <2>2. BlanksAround(str, 2, ptr)
    BY <1>4 DEF BlanksAround
  <2> HIDE DEF ptr
  <2>3. tf_strtrim(str) = ptr
    BY <2>1, <2>2, TrimIs
  <2> QED
    BY <2>1, <2>3, Branches
<1>5. CASE str = <<"[", "sp", "]">>
  <2> DEFINE ptr == <<"[", "sp", "]">>
             rest == <<"sp">>
  <2>1. str \in Seq(T) /\ ptr \in Seq(T) /\ rest \in Seq(T) /\ ptr # <<>>
    BY <1>1, <1>5
  <2>2. BlanksAround(str, 1, ptr)
    BY <1>5 DEF BlanksAround
  <2>3. \A i \in 1..Len(rest) : rest[i] \in {"sp"}
    OBVIOUS
  <2>4. ptr[1] = "["
    OBVIOUS
  <2>5. UpTo(ptr, 2, {"]"}, rest)
    BY DEF UpTo
  <2> HIDE DEF ptr, rest
  <2>6. tf_strtrim(str) = ptr
    BY <2>1, <2>2, TrimIs
  <2>7. SubSeq(ptr, 2, FirstIn(ptr, {"]"}, 2) - 1) = rest
    BY <2>1, <2>5, CutIs
  <2>8. HeaderOf(rest, {"sp"}) = NoLine
    BY <2>1, <2>3, HeaderWithout
  <2> QED
    BY <2>1, <2>4, <2>6, <2>7, <2>8, Branches
<1>6. CASE str = <<"group", "=">>
  <2> DEFINE ptr == <<"group", "=">>
             rest == <<"=">>
  <2>1. str \in Seq(T) /\ ptr \in Seq(T) /\ rest \in Seq(T) /\ ptr # <<>>
    BY <1>1, <1>6
  <2>2. BlanksAround(str, 1, ptr)
    BY <1>6 DEF BlanksAround
  <2>3. \A i \in 1..Len(rest) : rest[i] \in {"sp", "="}
    OBVIOUS
  <2>4. ptr[1] = "group" /\ Tail(ptr) = rest
    OBVIOUS
  <2> HIDE DEF ptr, rest
  <2>5. tf_strtrim(str) = ptr
    BY <2>1, <2>2, TrimIs
  <2>6. HeaderOf(rest, {"sp", "="}) = NoLine
    BY <2>1, <2>3, HeaderWithout
  <2> QED
    BY <2>1, <2>4, <2>5, <2>6, Branches
<1> QED
  BY <1>2, <1>3, <1>4, <1>5, <1>6, KeyWritten
-----------------------------------------------------------------------------
(* Configuration files: what a lookup finds.                               *)

\* A set of positions that is not empty has a greatest element.
LEMMA MaxInSet ==
    ASSUME NEW n \in Nat, NEW S \in SUBSET (1..n), S # {}
    PROVE  Max(S) \in S
<1> DEFINE D == {d \in Nat : n - d \in S}
<1>1. D \subseteq Nat /\ D # {}
  <2>1. PICK y \in S : TRUE
    OBVIOUS
  <2>2. y \in 1..n
    BY <2>1
  <2>3. n - y \in Nat /\ n - (n - y) = y
    BY <2>2
  <2> QED
    BY <2>1, <2>3
<1>2. PICK d \in D : \A y \in D : ~(<<y, d>> \in OpToRel(<, Nat))
  BY <1>1, NatLessThanWellFounded, WFMin
<1>3. \A y \in D : ~(y < d)
  BY <1>2 DEF OpToRel
<1>4. n - d \in S
  BY <1>2
<1>5. S \in SUBSET Int
  OBVIOUS
<1>6. \A y \in S : y <= n - d
  <2> TAKE y \in S
  <2>1. n - y \in Nat /\ n - (n - y) = y
    OBVIOUS
  <2>2. n - y \in D
    BY <2>1
  <2>3. ~(n - y < d)
    BY <2>2, <1>3
  <2>4. d \in Nat /\ y \in Int
    BY <1>1, <1>5
  <2> QED
    BY ONLY <2>3, <2>4, n \in Nat
<1>7. Max(S) = n - d
  BY <1>4, <1>6, <1>5, GreatestIsMax
<1> QED
  BY <1>4, <1>7

\* The headers above the line i of the file m, and that the line gives a
\* value to the key in the group of that name.
HeadersAbove(m, i) == {j \in 1..(i - 1) : m[j].kind = "header"}

Gives(m, name, key, i) ==
    /\ m[i].kind = "pair" /\ m[i].name = key
    /\ HeadersAbove(m, i) # {}
    /\ tf_stricmp(NameRead(m[Max(HeadersAbove(m, i))]), name)

LinesGiving(m, name, key) == {i \in DOMAIN m : Gives(m, name, key, i)}
EntriesOf(l, key) == {e \in DOMAIN l : l[e].key = <<key>>}
Headers(m) == HeadersAbove(m, Len(m) + 1)

\* The first entry of the key in a list of pairs is from the first line that
\* gives it.
FirstsMatch(l, m, name, key) ==
    \/ EntriesOf(l, key) = {} /\ LinesGiving(m, name, key) = {}
    \/ \E e \in EntriesOf(l, key), i \in LinesGiving(m, name, key) :
          /\ \A x \in EntriesOf(l, key) : e <= x
          /\ \A x \in LinesGiving(m, name, key) : i <= x
          /\ l[e].value = ValueRead(m[i])

\* m2 is m with one line more.
OneMore(m, x, m2) ==
    /\ m2 = Append(m, x) /\ Len(m2) = Len(m) + 1 /\ Len(m) \in Nat
    /\ DOMAIN m = 1..Len(m) /\ DOMAIN m2 = 1..(Len(m) + 1)
    /\ m2[Len(m) + 1] = x /\ \A i \in 1..Len(m) : m2[i] = m[i]

\* The headers above a line are the same in a longer file.
LEMMA SameAbove ==
    ASSUME NEW m, NEW x, NEW m2, OneMore(m, x, m2), NEW i \in 1..(Len(m) + 1)
    PROVE  HeadersAbove(m2, i) = HeadersAbove(m, i)
<1>1. Len(m) \in Nat /\ \A j \in 1..Len(m) : m2[j] = m[j]
  BY DEF OneMore
<1>2. \A j \in 1..(i - 1) : m2[j] = m[j]
  <2> TAKE j \in 1..(i - 1)
  <2>1. i \in Nat /\ i <= Len(m) + 1
    BY <1>1
  <2>2. j \in 1..Len(m)
    BY <1>1, <2>1
  <2> QED
    BY <1>1, <2>2
<1> QED
  BY <1>2 DEF HeadersAbove

\* So is what a line gives.
LEMMA SameGives ==
    ASSUME NEW m, NEW x, NEW m2, OneMore(m, x, m2), NEW i \in 1..Len(m), NEW name, NEW key
    PROVE  Gives(m2, name, key, i) <=> Gives(m, name, key, i)
<1>0. i \in 1..(Len(m) + 1)
  BY DEF OneMore
<1>1. HeadersAbove(m2, i) = HeadersAbove(m, i)
  BY <1>0, SameAbove
<1>2. m2[i] = m[i]
  BY DEF OneMore
<1>3. CASE HeadersAbove(m, i) = {}
  BY <1>1, <1>3 DEF Gives
<1>4. CASE HeadersAbove(m, i) # {}
  <2>1. i - 1 \in Nat /\ HeadersAbove(m, i) \in SUBSET (1..(i - 1))
    BY DEF HeadersAbove, OneMore
  <2>2. Max(HeadersAbove(m, i)) \in 1..(i - 1)
    BY <2>1, <1>4, MaxInSet
  <2>3. m2[Max(HeadersAbove(m, i))] = m[Max(HeadersAbove(m, i))]
    BY <2>2 DEF OneMore
  <2> QED
    BY <1>1, <1>2, <2>3 DEF Gives
<1> QED
  BY <1>3, <1>4

\* The lines that give a key: those of the shorter file, and the last if it does.
LEMMA OneMoreGiving ==
    ASSUME NEW m, NEW x, NEW m2, OneMore(m, x, m2), NEW name, NEW key
    PROVE  LinesGiving(m2, name, key) =
             LinesGiving(m, name, key) \cup {i \in {Len(m) + 1} : Gives(m2, name, key, i)}
<1>1. \A i \in 1..Len(m) : Gives(m2, name, key, i) <=> Gives(m, name, key, i)
  BY SameGives
<1>2. DOMAIN m = 1..Len(m) /\ DOMAIN m2 = 1..(Len(m) + 1) /\ Len(m) \in Nat
  BY DEF OneMore
<1>3. 1..(Len(m) + 1) = (1..Len(m)) \cup {Len(m) + 1}
  BY <1>2
<1> QED
  BY <1>1, <1>2, <1>3 DEF LinesGiving

\* A line that does not give the key changes nothing.
LEMMA StillMatches ==
    ASSUME NEW m, NEW x, NEW m2, OneMore(m, x, m2), NEW name, NEW key, NEW l,
           ~Gives(m2, name, key, Len(m) + 1), FirstsMatch(l, m, name, key)
    PROVE  FirstsMatch(l, m2, name, key)
<1>1. LinesGiving(m2, name, key) = LinesGiving(m, name, key)
  BY OneMoreGiving
<1>2. \A i \in LinesGiving(m, name, key) : m2[i] = m[i]
  BY DEF LinesGiving, OneMore
<1> QED
  BY <1>1, <1>2 DEF FirstsMatch

\* Only pairs give.
LEMMA OnlyPairsGive ==
    ASSUME NEW m, NEW x, NEW m2, OneMore(m, x, m2), x.kind # "pair", NEW name, NEW key
    PROVE  ~Gives(m2, name, key, Len(m) + 1)
BY DEF OneMore, Gives

\* The last header stays the last under a line that is none.
LEMMA SameHeaders ==
    ASSUME NEW m, NEW x, NEW m2, OneMore(m, x, m2), x.kind # "header"
    PROVE  /\ Headers(m2) = Headers(m)
           /\ \A j \in Headers(m) : m2[j] = m[j]
           /\ Headers(m) # {} => Max(Headers(m)) \in Headers(m)
<1>1. Len(m) \in Nat /\ Len(m2) = Len(m) + 1
  BY DEF OneMore
<1>2. (Len(m) + 1) + 1 - 1 = Len(m) + 1 /\ Len(m) + 1 - 1 = Len(m)
  BY <1>1
<1>3. Headers(m2) = {j \in 1..(Len(m) + 1) : m2[j].kind = "header"}
  BY <1>1, <1>2 DEF Headers, HeadersAbove
<1>4. Headers(m) = {j \in 1..Len(m) : m[j].kind = "header"}
  BY <1>1, <1>2 DEF Headers, HeadersAbove
<1>5. Headers(m2) = Headers(m)
  BY <1>1, <1>3, <1>4 DEF OneMore
<1>6. \A j \in Headers(m) : m2[j] = m[j]
  BY <1>4 DEF OneMore
<1>7. Headers(m) \in SUBSET (1..Len(m))
  BY <1>4
<1>8. Headers(m) # {} => Max(Headers(m)) \in Headers(m)
  BY <1>1, <1>7, MaxInSet
<1> QED
  BY <1>5, <1>6, <1>8

\* A new header is the last.
LEMMA NewHeader ==
    ASSUME NEW m, NEW x, NEW m2, OneMore(m, x, m2), x.kind = "header"
    PROVE  /\ Headers(m2) = Headers(m) \cup {Len(m) + 1}
           /\ \A j \in Headers(m) : m2[j] = m[j]
           /\ Max(Headers(m2)) = Len(m) + 1
<1>1. Len(m) \in Nat /\ Len(m2) = Len(m) + 1
  BY DEF OneMore
<1>2. (Len(m) + 1) + 1 - 1 = Len(m) + 1 /\ Len(m) + 1 - 1 = Len(m)
  BY <1>1
<1>3. Headers(m2) = {j \in 1..(Len(m) + 1) : m2[j].kind = "header"}
  BY <1>1, <1>2 DEF Headers, HeadersAbove
<1>4. Headers(m) = {j \in 1..Len(m) : m[j].kind = "header"}
  BY <1>1, <1>2 DEF Headers, HeadersAbove
<1>5. Headers(m2) = Headers(m) \cup {Len(m) + 1}
  BY <1>1, <1>3, <1>4 DEF OneMore
<1>6. \A j \in Headers(m) : m2[j] = m[j]
  BY <1>4 DEF OneMore
<1>7. /\ Headers(m2) \in SUBSET Int /\ Len(m) + 1 \in Headers(m2)
      /\ \A y \in Headers(m2) : y <= Len(m) + 1
  BY <1>1, <1>3, <1>5
<1>8. Max(Headers(m2)) = Len(m) + 1
  BY <1>7, GreatestIsMax
<1> QED
  BY <1>5, <1>6, <1>8

\* What the entries of lists are, and the inductive invariant: groups keep
\* their own lists and their names differ in more than case; the group that
\* takes pairs is that of the last header; every header has its group; the
\* first entry of each key is from the first line that gives it.
ValuesRead == {<<v>> : v \in Values} \cup {<<v, "sp">> : v \in Values}
Entries == {[key |-> <<k>>, value |-> s] : k \in Keys, s \in ValuesRead}
Named == [name : {<<n>> : n \in GroupNames} \cup {<<"sp">>, <<"sp", "#">>}, pairs : Nat]

CfgTypes ==
    /\ meant \in Seq(Meanings)
    /\ groups \in Seq(Named)
    /\ lists \in Seq(Seq(Entries))
    /\ Len(groups) = Len(lists)

GroupsDiffer ==
    /\ \A k \in DOMAIN groups : groups[k].pairs = k
    /\ \A j, k \in DOMAIN groups : tf_stricmp(groups[j].name, groups[k].name) => j = k

GroupOf(k, name) == k \in DOMAIN groups /\ tf_stricmp(groups[k].name, name)

PairsGoToLast ==
    IF Headers(meant) = {} THEN group = NoGroup
    ELSE \E k \in DOMAIN groups : group = groups[k] /\ GroupOf(k, NameRead(meant[Max(Headers(meant))]))

HeadersKnown ==
    \A j \in Headers(meant) : \E k \in DOMAIN groups : GroupOf(k, NameRead(meant[j]))

ListsMatch ==
    \A k \in DOMAIN groups, key \in Keys : FirstsMatch(lists[k], meant, groups[k].name, key)

CfgInv == CfgTypes /\ GroupsDiffer /\ PairsGoToLast /\ HeadersKnown /\ ListsMatch

\* Initially there are no groups and no headers.
LEMMA CfgInvInit == groups = <<>> /\ group = NoGroup /\ lists = <<>> /\ meant = <<>> => CfgInv
<1> SUFFICES ASSUME groups = <<>>, group = NoGroup, lists = <<>>, meant = <<>>
             PROVE  CfgInv
  OBVIOUS
<1>1. CfgTypes
  <2>1. <<>> \in Seq(Meanings)
    OBVIOUS
  <2>2. <<>> \in Seq(Named)
    OBVIOUS
  <2>3. <<>> \in Seq(Seq(Entries))
    OBVIOUS
  <2> QED
    BY <2>1, <2>2, <2>3 DEF CfgTypes
<1>2. DOMAIN groups = {}
  OBVIOUS
<1>3. Headers(meant) = {}
  BY DEF Headers, HeadersAbove
<1> QED
  BY <1>1, <1>2, <1>3 DEF CfgInv, GroupsDiffer, PairsGoToLast, HeadersKnown, ListsMatch

\* There is at most one group of a name, and cfg_find_group finds it.
LEMMA FindsGroup ==
    ASSUME CfgTypes, GroupsDiffer, NEW k, NEW name, GroupOf(k, name)
    PROVE  cfg_find_group(name) = groups[k]
<1> DEFINE found == {i \in DOMAIN groups : tf_stricmp(groups[i].name, name)}
<1>1. found = {k}
  BY DEF GroupsDiffer, GroupOf, tf_stricmp
<1>2. k \in Int
  BY DEF CfgTypes, GroupOf
<1>3. Min(found) = k
  BY <1>1, <1>2, LeastIsMin
<1> QED
  BY <1>1, <1>3 DEF cfg_find_group

\* There is none of a name that no group has.
LEMMA FindsNoGroup ==
    ASSUME NEW name, \A k \in DOMAIN groups : ~GroupOf(k, name)
    PROVE  cfg_find_group(name) = NoGroup
BY DEF cfg_find_group, GroupOf

\* A group is not NoGroup.
LEMMA GroupIsSome ==
    ASSUME CfgTypes, GroupsDiffer, NEW k \in DOMAIN groups
    PROVE  groups[k] # NoGroup
<1>1. k # 0
  BY DEF CfgTypes
<1>2. groups[k].pairs = k
  BY DEF GroupsDiffer
<1> QED
  BY <1>1, <1>2 DEF NoGroup

\* No line gives a key to a name that no group has: its header would have a group.
LEMMA NoneGiven ==
    ASSUME CfgInv, NEW name, \A k \in DOMAIN groups : ~GroupOf(k, name), NEW key
    PROVE  LinesGiving(meant, name, key) = {}
<1> SUFFICES ASSUME NEW i \in DOMAIN meant, Gives(meant, name, key, i)
             PROVE  FALSE
  BY DEF LinesGiving
<1>1. DOMAIN meant = 1..Len(meant) /\ Len(meant) \in Nat
  BY DEF CfgInv, CfgTypes
<1>2. i - 1 \in Nat /\ HeadersAbove(meant, i) \in SUBSET (1..(i - 1))
  BY <1>1 DEF HeadersAbove
<1>3. Max(HeadersAbove(meant, i)) \in HeadersAbove(meant, i)
  BY <1>2, MaxInSet DEF Gives
<1>4. Len(meant) + 1 - 1 = Len(meant)
  BY <1>1
<1>5. HeadersAbove(meant, i) \subseteq Headers(meant)
  BY <1>1, <1>4 DEF Headers, HeadersAbove
<1>6. PICK j \in Headers(meant) : Lower(NameRead(meant[j])) = Lower(name)
  BY <1>3, <1>5 DEF Gives, tf_stricmp
<1>7. PICK k \in DOMAIN groups : Lower(groups[k].name) = Lower(NameRead(meant[j]))
  BY DEF CfgInv, HeadersKnown, GroupOf, tf_stricmp
<1> QED
  BY <1>6, <1>7 DEF GroupOf, tf_stricmp

\* A line that is no header and gives nothing to any group, and that changes nothing.
LEMMA NoChange ==
    ASSUME CfgInv, UNCHANGED <<groups, group, lists>>, NEW x \in Meanings, meant' = Append(meant, x),
           x.kind # "header",
           \A k \in DOMAIN groups, key \in Keys : ~Gives(meant', groups[k].name, key, Len(meant) + 1)
    PROVE  CfgInv'
<1>1. OneMore(meant, x, meant')
  BY DEF CfgInv, CfgTypes, OneMore
<1>2. CfgTypes'
  BY DEF CfgInv, CfgTypes
<1>3. GroupsDiffer'
  BY DEF CfgInv, GroupsDiffer
<1>4. /\ Headers(meant') = Headers(meant)
      /\ \A j \in Headers(meant) : meant'[j] = meant[j]
      /\ Headers(meant) # {} => Max(Headers(meant)) \in Headers(meant)
  BY <1>1, SameHeaders
<1>5. PairsGoToLast'
  BY <1>4 DEF CfgInv, PairsGoToLast, GroupOf
<1>6. HeadersKnown'
  BY <1>4 DEF CfgInv, HeadersKnown, GroupOf
<1>7. ListsMatch'
  <2> SUFFICES ASSUME NEW k \in DOMAIN groups, NEW key \in Keys
               PROVE  FirstsMatch(lists[k], meant', groups[k].name, key)
    BY DEF ListsMatch
  <2>1. FirstsMatch(lists[k], meant, groups[k].name, key)
    BY DEF CfgInv, ListsMatch
  <2> QED
    BY <1>1, <2>1, StillMatches
<1> QED
  BY <1>2, <1>3, <1>5, <1>6, <1>7 DEF CfgInv

\* A header of a known group.
LEMMA KnownHeader ==
    ASSUME CfgInv, NEW x \in Meanings, x.kind = "header", meant' = Append(meant, x),
           NEW k \in DOMAIN groups, GroupOf(k, NameRead(x)),
           group' = groups[k], UNCHANGED <<groups, lists>>
    PROVE  CfgInv'
<1>0. x \in Meanings /\ x.kind = "header"
  OBVIOUS
<1>1. OneMore(meant, x, meant')
  BY <1>0 DEF CfgInv, CfgTypes, OneMore
<1>2. CfgTypes'
  BY <1>0 DEF CfgInv, CfgTypes
<1>3. GroupsDiffer'
  BY DEF CfgInv, GroupsDiffer
<1>4. /\ Headers(meant') = Headers(meant) \cup {Len(meant) + 1}
      /\ \A j \in Headers(meant) : meant'[j] = meant[j]
      /\ Max(Headers(meant')) = Len(meant) + 1
  BY ONLY <1>0, <1>1, NewHeader
<1>5. meant'[Len(meant) + 1] = x
  BY <1>0, <1>1 DEF OneMore
<1>6. PairsGoToLast'
  BY <1>4, <1>5 DEF PairsGoToLast, GroupOf
<1>7. HeadersKnown'
  <2> SUFFICES ASSUME NEW j \in Headers(meant')
               PROVE  \E i \in DOMAIN groups : GroupOf(i, NameRead(meant'[j]))
    BY DEF HeadersKnown, GroupOf
  <2>1. CASE j = Len(meant) + 1
    BY <2>1, <1>5
  <2>2. CASE j \in Headers(meant)
    BY <2>2, <1>4 DEF CfgInv, HeadersKnown
  <2> QED
    BY <1>4, <2>1, <2>2
<1>8. ListsMatch'
  <2> SUFFICES ASSUME NEW i \in DOMAIN groups, NEW key \in Keys
               PROVE  FirstsMatch(lists[i], meant', groups[i].name, key)
    BY DEF ListsMatch
  <2>1. FirstsMatch(lists[i], meant, groups[i].name, key)
    BY DEF CfgInv, ListsMatch
  <2>2. ~Gives(meant', groups[i].name, key, Len(meant) + 1)
    BY <1>0, <1>1, OnlyPairsGive
  <2> QED
    BY <1>1, <2>1, <2>2, StillMatches
<1> QED
  BY <1>2, <1>3, <1>6, <1>7, <1>8 DEF CfgInv

\* A header of a new group, whose list is empty: no header above named it,
\* and so no line gives it a key.
LEMMA FirstHeader ==
    ASSUME CfgInv, NEW x \in Meanings, x.kind = "header", meant' = Append(meant, x),
           \A k \in DOMAIN groups : ~GroupOf(k, NameRead(x)),
           group' = [name |-> NameRead(x), pairs |-> Len(lists) + 1],
           groups' = Append(groups, group'), lists' = Append(lists, <<>>)
    PROVE  CfgInv'
<1>0. x \in Meanings /\ x.kind = "header"
  OBVIOUS
<1>1. OneMore(meant, x, meant')
  BY <1>0 DEF CfgInv, CfgTypes, OneMore
<1>2. PICK s \in Nat : s = Len(groups) /\ s = Len(lists) /\ DOMAIN groups = 1..s /\ DOMAIN lists = 1..s
  BY DEF CfgInv, CfgTypes
<1>3. group' \in Named /\ group'.name = NameRead(x) /\ group'.pairs = s + 1
  <2>1. NameRead(x) \in {<<m>> : m \in GroupNames} \cup {<<"sp">>, <<"sp", "#">>}
    <3>1. PICK m \in GroupNames, f \in HeaderFlaws : x = HeaderLine(m, f)
      BY DEF Meanings, PairLine, Nothing
    <3> QED
      BY <3>1 DEF NameRead, HeaderLine
  <2> QED
    BY <1>2, <2>1 DEF Named
<1>4. /\ Len(groups') = s + 1 /\ DOMAIN groups' = 1..(s + 1)
      /\ groups'[s + 1] = group' /\ \A i \in 1..s : groups'[i] = groups[i]
  BY <1>2 DEF CfgInv, CfgTypes
<1>5. Len(lists') = s + 1 /\ lists'[s + 1] = <<>> /\ \A i \in 1..s : lists'[i] = lists[i]
  BY <1>2 DEF CfgInv, CfgTypes
<1>6. CfgTypes'
  <2>1. meant' \in Seq(Meanings)
    BY <1>0 DEF CfgInv, CfgTypes
  <2>2. groups' \in Seq(Named)
    BY <1>3 DEF CfgInv, CfgTypes
  <2>3. <<>> \in Seq(Entries)
    OBVIOUS
  <2>4. lists' \in Seq(Seq(Entries))
    BY <2>3 DEF CfgInv, CfgTypes
  <2> QED
    BY <2>1, <2>2, <2>4, <1>4, <1>5 DEF CfgTypes
<1>7. GroupsDiffer'
  <2>1. \A i \in 1..(s + 1) : groups'[i].pairs = i
    BY <1>2, <1>3, <1>4 DEF CfgInv, GroupsDiffer
  <2>2. \A i \in 1..s : Lower(groups'[i].name) # Lower(groups'[s + 1].name)
    BY <1>2, <1>3, <1>4 DEF GroupOf, tf_stricmp
  <2>3. \A i, j \in 1..s : Lower(groups'[i].name) = Lower(groups'[j].name) => i = j
    BY <1>2, <1>4 DEF CfgInv, GroupsDiffer, tf_stricmp
  <2>4. \A i, j \in 1..(s + 1) : Lower(groups'[i].name) = Lower(groups'[j].name) => i = j
    <3>1. \A i \in 1..(s + 1) : i \in 1..s \/ i = s + 1
      OBVIOUS
    <3> QED
      BY ONLY <2>2, <2>3, <3>1
  <2> QED
    BY <1>4, <2>1, <2>4 DEF GroupsDiffer, tf_stricmp
<1>8. /\ Headers(meant') = Headers(meant) \cup {Len(meant) + 1}
      /\ \A j \in Headers(meant) : meant'[j] = meant[j]
      /\ Max(Headers(meant')) = Len(meant) + 1
  BY ONLY <1>0, <1>1, NewHeader
<1>9. meant'[Len(meant) + 1] = x
  BY <1>0, <1>1 DEF OneMore
<1>10. (GroupOf(s + 1, NameRead(x)))'
  BY <1>2, <1>3, <1>4 DEF GroupOf, tf_stricmp
<1>11. PairsGoToLast'
  BY <1>2, <1>4, <1>8, <1>9, <1>10 DEF PairsGoToLast
<1>12. HeadersKnown'
  <2> SUFFICES ASSUME NEW j \in Headers(meant')
               PROVE  \E i \in DOMAIN groups' : tf_stricmp(groups'[i].name, NameRead(meant'[j]))
    BY DEF HeadersKnown, GroupOf
  <2>1. CASE j = Len(meant) + 1
    BY <2>1, <1>2, <1>4, <1>9, <1>10 DEF GroupOf
  <2>2. CASE j \in Headers(meant)
    <3>1. PICK i \in DOMAIN groups : tf_stricmp(groups[i].name, NameRead(meant[j]))
      BY <2>2 DEF CfgInv, HeadersKnown, GroupOf
    <3>2. i \in DOMAIN groups' /\ groups'[i] = groups[i] /\ meant'[j] = meant[j]
      <4>1. i \in 1..s /\ i \in 1..(s + 1)
        BY <1>2
      <4> QED
        BY <1>4, <1>8, <2>2, <4>1
    <3> QED
      BY <3>1, <3>2
  <2> QED
    BY <1>8, <2>1, <2>2
<1>13. \A key \in Keys : LinesGiving(meant, NameRead(x), key) = {}
  BY NoneGiven
<1>14. ListsMatch'
  <2> SUFFICES ASSUME NEW i \in 1..(s + 1), NEW key \in Keys
               PROVE  FirstsMatch(lists'[i], meant', groups'[i].name, key)
    BY <1>4 DEF ListsMatch
  <2>1. \A name : ~Gives(meant', name, key, Len(meant) + 1)
    BY <1>0, <1>1, OnlyPairsGive
  <2>2. CASE i \in 1..s
    <3>1. FirstsMatch(lists[i], meant, groups[i].name, key)
      BY <1>2, <2>2 DEF CfgInv, ListsMatch
    <3>2. FirstsMatch(lists[i], meant', groups[i].name, key)
      BY <1>1, <2>1, <3>1, StillMatches
    <3> QED
      BY <1>4, <1>5, <2>2, <3>2
  <2>3. CASE i = s + 1
    <3>1. EntriesOf(lists'[i], key) = {}
      BY <1>5, <2>3 DEF EntriesOf
    <3>2. FirstsMatch(lists'[i], meant, NameRead(x), key)
      BY <3>1, <1>13 DEF FirstsMatch
    <3>3. FirstsMatch(lists'[i], meant', NameRead(x), key)
      BY <1>1, <2>1, <3>2, StillMatches
    <3> QED
      BY <1>3, <1>4, <2>3, <3>3
  <2> QED
    BY <1>2, <2>2, <2>3
<1> QED
  BY <1>6, <1>7, <1>11, <1>12, <1>14 DEF CfgInv

\* l2 is l with one pair more.
Longer(l, kv, l2) == l \in Seq(Entries) /\ kv \in Entries /\ l2 = Append(l, kv)

\* The entries of a key are those of the shorter list, and the last if it has the key.
LEMMA OneMoreEntry ==
    ASSUME NEW l, NEW kv, NEW l2, Longer(l, kv, l2), NEW key
    PROVE  /\ EntriesOf(l2, key) =
                EntriesOf(l, key) \cup {e \in {Len(l) + 1} : kv.key = <<key>>}
           /\ \A e \in EntriesOf(l, key) : l2[e] = l[e] /\ e \in 1..Len(l)
           /\ l2[Len(l) + 1] = kv /\ Len(l) \in Nat
<1>1. /\ Len(l) \in Nat /\ DOMAIN l = 1..Len(l) /\ DOMAIN l2 = 1..(Len(l) + 1)
      /\ l2[Len(l) + 1] = kv /\ \A e \in 1..Len(l) : l2[e] = l[e]
  BY DEF Longer
<1>2. 1..(Len(l) + 1) = (1..Len(l)) \cup {Len(l) + 1}
  BY <1>1
<1> QED
  BY <1>1, <1>2 DEF EntriesOf

\* A pair under a header goes to the group of that header, and to no other.
LEMMA PairAdded ==
    ASSUME CfgInv, NEW kw \in Keys, NEW v \in Values, NEW f \in PairFlaws,
           meant' = Append(meant, PairLine(kw, v, f)),
           NEW k0 \in DOMAIN groups, group = groups[k0], UNCHANGED <<groups, group>>,
           lists' = [lists EXCEPT ![k0] = Append(@, [key |-> <<kw>>, value |-> ValueRead(PairLine(kw, v, f))])]
    PROVE  CfgInv'
<1> DEFINE x == PairLine(kw, v, f)
           kv == [key |-> <<kw>>, value |-> ValueRead(x)]
<1>0. /\ x \in Meanings /\ x.kind = "pair" /\ x.kind # "header" /\ x.name = kw
      /\ kv \in Entries /\ kv.key = <<kw>> /\ kv.value = ValueRead(x)
  <2>1. ValueRead(x) \in ValuesRead
    BY DEF ValueRead, ValuesRead, PairLine, PairFlaws
  <2>2. x \in Meanings /\ x.kind = "pair" /\ x.kind # "header" /\ x.name = kw
    BY DEF Meanings, PairLine
  <2> HIDE DEF x
  <2> QED
    BY <2>1, <2>2 DEF Entries
<1>a. meant' = Append(meant, x) /\ lists' = [lists EXCEPT ![k0] = Append(@, kv)]
  OBVIOUS
<1> HIDE DEF x, kv
<1>1. OneMore(meant, x, meant')
  BY <1>0, <1>a DEF CfgInv, CfgTypes, OneMore
<1>2. PICK s \in Nat : s = Len(groups) /\ s = Len(lists) /\ DOMAIN groups = 1..s /\ DOMAIN lists = 1..s
  BY DEF CfgInv, CfgTypes
<1>3. /\ lists[k0] \in Seq(Entries) /\ lists'[k0] = Append(lists[k0], kv)
      /\ DOMAIN lists' = 1..s /\ \A i \in 1..s : i # k0 => lists'[i] = lists[i]
  BY <1>2, <1>a DEF CfgInv, CfgTypes
<1>4. CfgTypes'
  <2>1. meant' \in Seq(Meanings)
    BY <1>0, <1>a DEF CfgInv, CfgTypes
  <2>2. Append(lists[k0], kv) \in Seq(Entries)
    BY <1>0, <1>3
  <2>3. lists' \in Seq(Seq(Entries)) /\ Len(lists') = Len(lists)
    BY <1>2, <1>a, <2>2 DEF CfgInv, CfgTypes
  <2> QED
    BY <2>1, <2>3 DEF CfgInv, CfgTypes
<1>5. GroupsDiffer'
  BY DEF CfgInv, GroupsDiffer
<1>6. /\ Headers(meant') = Headers(meant)
      /\ \A j \in Headers(meant) : meant'[j] = meant[j]
      /\ Headers(meant) # {} => Max(Headers(meant)) \in Headers(meant)
  BY ONLY <1>0, <1>1, SameHeaders
<1>7. PairsGoToLast'
  BY <1>6 DEF CfgInv, PairsGoToLast, GroupOf
<1>8. HeadersKnown'
  BY <1>6 DEF CfgInv, HeadersKnown, GroupOf
<1>9. groups[k0] # NoGroup
  BY GroupIsSome DEF CfgInv
<1>10. Headers(meant) # {}
  BY <1>9 DEF CfgInv, PairsGoToLast
<1> DEFINE lastName == NameRead(meant[Max(Headers(meant))])
<1>11. Lower(groups[k0].name) = Lower(lastName)
  <2>1. PICK k1 \in DOMAIN groups : group = groups[k1] /\ GroupOf(k1, lastName)
    BY <1>10 DEF CfgInv, PairsGoToLast
  <2> QED
    BY <2>1 DEF GroupOf, tf_stricmp
<1>12. HeadersAbove(meant', Len(meant) + 1) = Headers(meant) /\ NameRead(meant'[Max(Headers(meant))]) = lastName
  <2>1. Len(meant) + 1 \in 1..(Len(meant) + 1)
    BY <1>1 DEF OneMore
  <2>2. HeadersAbove(meant', Len(meant) + 1) = HeadersAbove(meant, Len(meant) + 1)
    BY ONLY <1>1, <2>1, SameAbove
  <2> QED
    BY <2>2, <1>6, <1>10 DEF Headers
<1> HIDE DEF lastName
<1>13. \A name, key : Gives(meant', name, key, Len(meant) + 1)
                       <=> key = kw /\ Lower(groups[k0].name) = Lower(name)
  <2>1. meant'[Len(meant) + 1] = x
    BY <1>1 DEF OneMore
  <2> QED
    BY <2>1, <1>0, <1>10, <1>11, <1>12 DEF Gives, tf_stricmp
<1>14. ListsMatch'
  <2> SUFFICES ASSUME NEW i \in DOMAIN groups, NEW key \in Keys
               PROVE  FirstsMatch(lists'[i], meant', groups[i].name, key)
    BY DEF ListsMatch
  <2> DEFINE name == groups[i].name
  <2>1. FirstsMatch(lists[i], meant, name, key)
    BY DEF CfgInv, ListsMatch
  <2> HIDE DEF name
  <2>2. CASE i # k0
    <3>1. ~Gives(meant', name, key, Len(meant) + 1)
      BY <1>13, <2>2 DEF CfgInv, GroupsDiffer, tf_stricmp, name
    <3>2. FirstsMatch(lists[i], meant', name, key)
      BY ONLY <1>1, <2>1, <3>1, StillMatches
    <3> QED
      BY <1>2, <1>3, <2>2, <3>2 DEF name
  <2>3. CASE i = k0
    <3> DEFINE l == lists[k0]
               l2 == lists'[k0]
    <3>0. Longer(l, kv, l2) /\ FirstsMatch(l, meant, name, key)
      BY <1>0, <1>3, <2>1, <2>3 DEF Longer
    <3> HIDE DEF l, l2
    <3>1. /\ EntriesOf(l2, key) =
               EntriesOf(l, key) \cup {e \in {Len(l) + 1} : kv.key = <<key>>}
          /\ \A e \in EntriesOf(l, key) : l2[e] = l[e] /\ e \in 1..Len(l)
          /\ l2[Len(l) + 1] = kv /\ Len(l) \in Nat
      BY ONLY <3>0, OneMoreEntry
    <3>2. LinesGiving(meant', name, key) = LinesGiving(meant, name, key)
              \cup {j \in {Len(meant) + 1} : Gives(meant', name, key, j)}
      BY ONLY <1>1, OneMoreGiving
    <3>3. \A j \in LinesGiving(meant, name, key) : meant'[j] = meant[j] /\ j \in 1..Len(meant)
      BY ONLY <1>1 DEF LinesGiving, OneMore
    <3>4. Len(meant) \in Nat /\ meant'[Len(meant) + 1] = x
      BY ONLY <1>0, <1>1 DEF OneMore
    <3>5. FirstsMatch(l2, meant', name, key)
      <4>1. CASE key # kw
        <5>1. kv.key # <<key>>
          BY <1>0, <4>1
        <5>2. EntriesOf(l2, key) = EntriesOf(l, key)
          BY <3>1, <5>1
        <5>3. LinesGiving(meant', name, key) = LinesGiving(meant, name, key)
          BY <3>2, <1>13, <4>1
        <5> QED
          BY <3>0, <3>1, <3>3, <5>2, <5>3 DEF FirstsMatch
      <4>2. CASE key = kw
        <5>1. EntriesOf(l2, key) = EntriesOf(l, key) \cup {Len(l) + 1}
          BY <1>0, <3>1, <4>2
        <5>2. LinesGiving(meant', name, key) = LinesGiving(meant, name, key) \cup {Len(meant) + 1}
          BY <3>2, <1>13, <4>2, <2>3 DEF name
        <5>3. CASE EntriesOf(l, key) = {} /\ LinesGiving(meant, name, key) = {}
          BY <5>1, <5>2, <5>3, <3>1, <3>4, <1>0 DEF FirstsMatch
        <5>4. CASE ~(EntriesOf(l, key) = {} /\ LinesGiving(meant, name, key) = {})
          <6>1. PICK e \in EntriesOf(l, key), j \in LinesGiving(meant, name, key) :
                    /\ \A y \in EntriesOf(l, key) : e <= y
                    /\ \A y \in LinesGiving(meant, name, key) : j <= y
                    /\ l[e].value = ValueRead(meant[j])
            BY <3>0, <5>4 DEF FirstsMatch
          <6>2. e <= Len(l) + 1 /\ j <= Len(meant) + 1
            BY <6>1, <3>1, <3>3, <3>4
          <6>3. l2[e].value = ValueRead(meant'[j])
            BY <6>1, <3>1, <3>3
          <6> QED
            BY <6>1, <6>2, <6>3, <5>1, <5>2 DEF FirstsMatch
        <5> QED
          BY <5>3, <5>4
      <4> QED
        BY <4>1, <4>2
    <3> QED
      BY <2>3, <3>5 DEF l2, name
  <2> QED
    BY <2>2, <2>3
<1> QED
  BY <1>4, <1>5, <1>7, <1>8, <1>14 DEF CfgInv

\* Each line keeps the invariant: it is parsed as what it means, and the
\* group it opens or adds to is that of the last header.
LEMMA CfgInvStep == CfgInv /\ [CfgNext]_cfgVars => CfgInv'
<1> SUFFICES ASSUME CfgInv, [CfgNext]_cfgVars
             PROVE  CfgInv'
  OBVIOUS
<1>1. ASSUME NEW m \in Meanings, NEW str \in Writings(m), meant' = Append(meant, m), ReadLine(str)
      PROVE  CfgInv'
  <2>1. CASE \E n \in GroupNames, f \in HeaderFlaws : m = HeaderLine(n, f)
    <3>0. PICK n \in GroupNames, f \in HeaderFlaws : m = HeaderLine(n, f)
      BY <2>1
    <3>1. m.kind = "header"
      BY <3>0 DEF HeaderLine
    <3>2. parse_line(str) = [key |-> NameRead(m), value |-> <<>>]
      BY <1>1, <3>0, HeaderWritten
    <3>3. parse_line(str) # NoLine /\ parse_line(str).key = NameRead(m) /\ parse_line(str).value = <<>>
      <4>1. NameRead(m) # <<>>
        BY <3>0 DEF NameRead, HeaderLine
      <4> QED
        BY <3>2, <4>1 DEF NoLine
    <3>4. CASE \E k \in DOMAIN groups : GroupOf(k, NameRead(m))
      <4>1. PICK k \in DOMAIN groups : GroupOf(k, NameRead(m))
        BY <3>4
      <4>2. cfg_find_group(NameRead(m)) = groups[k] /\ groups[k] # NoGroup
        BY <4>1, FindsGroup, GroupIsSome DEF CfgInv
      <4>3. group' = groups[k] /\ UNCHANGED <<groups, lists>>
        BY <1>1, <3>3, <4>2 DEF ReadLine
      <4> QED
        BY <1>1, <3>1, <4>1, <4>3, KnownHeader
    <3>5. CASE \A k \in DOMAIN groups : ~GroupOf(k, NameRead(m))
      <4>1. cfg_find_group(NameRead(m)) = NoGroup
        BY <3>5, FindsNoGroup
      <4>2. /\ group' = [name |-> NameRead(m), pairs |-> Len(lists) + 1]
            /\ groups' = Append(groups, group') /\ lists' = Append(lists, <<>>)
        BY <1>1, <3>3, <4>1 DEF ReadLine
      <4> QED
        BY <1>1, <3>1, <3>5, <4>2, FirstHeader
    <3> QED
      BY <3>4, <3>5
  <2>2. CASE \E k \in Keys, v \in Values, f \in PairFlaws : m = PairLine(k, v, f)
    <3>1. PICK k \in Keys, v \in Values, f \in PairFlaws : m = PairLine(k, v, f)
      BY <2>2
    <3>2. parse_line(str) = [key |-> <<k>>, value |-> ValueRead(PairLine(k, v, f))]
      BY <1>1, <3>1, PairWritten
    <3>3. parse_line(str) # NoLine /\ parse_line(str).value # <<>>
      BY <3>2 DEF NoLine, ValueRead, PairLine
    <3>4. /\ lists' = IF group = NoGroup THEN lists
                      ELSE [lists EXCEPT ![group.pairs] = Append(@, parse_line(str))]
          /\ UNCHANGED <<groups, group>>
      BY <1>1, <3>3 DEF ReadLine
    <3>5. CASE Headers(meant) = {}
      <4>1. group = NoGroup
        BY <3>5 DEF CfgInv, PairsGoToLast
      <4>2. UNCHANGED <<groups, group, lists>>
        BY <3>4, <4>1
      <4>3. OneMore(meant, m, meant')
        BY <1>1 DEF CfgInv, CfgTypes, OneMore
      <4>4. Len(meant) + 1 \in 1..(Len(meant) + 1)
        BY <4>3 DEF OneMore
      <4>5. HeadersAbove(meant', Len(meant) + 1) = {}
        BY ONLY <3>5, <4>3, <4>4, SameAbove DEF Headers
      <4>6. \A name, key : ~Gives(meant', name, key, Len(meant) + 1)
        BY <4>5 DEF Gives
      <4>7. m.kind # "header"
        BY <3>1 DEF PairLine
      <4> QED
        BY <1>1, <4>2, <4>6, <4>7, NoChange
    <3>6. CASE Headers(meant) # {}
      <4>1. PICK k0 \in DOMAIN groups : group = groups[k0]
        BY <3>6 DEF CfgInv, PairsGoToLast
      <4>2. group # NoGroup /\ group.pairs = k0
        BY <4>1, GroupIsSome DEF CfgInv, GroupsDiffer
      <4>3. lists' = [lists EXCEPT ![k0] = Append(@, [key |-> <<k>>, value |-> ValueRead(PairLine(k, v, f))])]
        BY <3>2, <3>4, <4>2
      <4>4. meant' = Append(meant, PairLine(k, v, f)) /\ UNCHANGED <<groups, group>>
        BY <1>1, <3>1, <3>4
      <4> QED
        BY ONLY CfgInv, k \in Keys, v \in Values, f \in PairFlaws, k0 \in DOMAIN groups,
                <4>1, <4>3, <4>4, PairAdded
    <3> QED
      BY <3>5, <3>6
  <2>3. CASE m = Nothing
    <3>1. parse_line(str) = NoLine
      BY <1>1, <2>3, NothingWritten
    <3>2. UNCHANGED <<groups, group, lists>>
      BY <1>1, <3>1 DEF ReadLine, NoLine
    <3>3. m.kind # "header" /\ m.kind # "pair"
      BY <2>3 DEF Nothing
    <3>4. OneMore(meant, m, meant')
      BY <1>1 DEF CfgInv, CfgTypes, OneMore
    <3>5. \A name, key : ~Gives(meant', name, key, Len(meant) + 1)
      BY ONLY <3>3, <3>4, OnlyPairsGive
    <3> QED
      BY <1>1, <3>2, <3>3, <3>5, NoChange
  <2> QED
    BY <1>1, <2>1, <2>2, <2>3 DEF Meanings
<1>2. CASE cfg_destroy
  <2>1. groups' = <<>> /\ group' = NoGroup /\ lists' = <<>> /\ meant' = <<>>
    BY <1>2 DEF cfg_destroy
  <2>2. CfgTypes'
    <3>1. <<>> \in Seq(Meanings)
      OBVIOUS
    <3>2. <<>> \in Seq(Named)
      OBVIOUS
    <3>3. <<>> \in Seq(Seq(Entries))
      OBVIOUS
    <3> QED
      BY <2>1, <3>1, <3>2, <3>3 DEF CfgTypes
  <2>3. DOMAIN groups' = {}
    BY <2>1
  <2>4. Headers(meant') = {}
    BY <2>1 DEF Headers, HeadersAbove
  <2> QED
    BY <2>1, <2>2, <2>3, <2>4 DEF CfgInv, GroupsDiffer, PairsGoToLast, HeadersKnown, ListsMatch
<1>3. CASE UNCHANGED cfgVars
  BY <1>3 DEF cfgVars, CfgInv, CfgTypes, GroupsDiffer, PairsGoToLast, HeadersKnown, ListsMatch, GroupOf
<1> QED
  BY <1>1, <1>2, <1>3 DEF CfgNext, cfg_create

\* A header has the name n, in some case, exactly if it has no flaw and is
\* meant to: what is left of one with a flaw is no word.
LEMMA NameReadIs ==
    ASSUME NEW n \in GroupNames, NEW m \in Meanings, m.kind = "header"
    PROVE  tf_stricmp(NameRead(m), <<n>>) <=> m.flaw = "none" /\ tf_stricmp(<<m.name>>, <<n>>)
<1>1. PICK x \in GroupNames, f \in HeaderFlaws : m = HeaderLine(x, f)
  BY DEF Meanings, PairLine, Nothing
<1>2. m.flaw = f /\ f \in {"none", "blank", "comment"}
  BY <1>1 DEF HeaderLine, HeaderFlaws
<1>3. CASE f = "none"
  BY <1>2, <1>3 DEF NameRead
<1>4. CASE f = "blank"
  <2>1. NameRead(m) = <<"sp">>
    BY <1>2, <1>4 DEF NameRead
  <2>2. Lower(<<"sp">>)[1] = "sp"
    <3>1. "sp" \notin DOMAIN LowerOf
      BY WordsAssumption DEF Marks
    <3> QED
      BY <3>1 DEF Lower
  <2>3. Lower(<<n>>)[1] # "sp"
    <3>1. Lower(<<n>>)[1] = IF n \in DOMAIN LowerOf THEN LowerOf[n] ELSE n
      BY DEF Lower
    <3>2. n # "sp" /\ (n \in DOMAIN LowerOf => LowerOf[n] # "sp")
      BY WordsAssumption DEF Marks
    <3> QED
      BY <3>1, <3>2
  <2> QED
    BY <1>2, <1>4, <2>1, <2>2, <2>3 DEF tf_stricmp
<1>5. CASE f = "comment"
  <2>1. NameRead(m) = <<"sp", "#">>
    BY <1>2, <1>5 DEF NameRead
  <2>2. DOMAIN Lower(<<"sp", "#">>) = {1, 2} /\ DOMAIN Lower(<<n>>) = {1}
    BY DEF Lower
  <2>3. Lower(<<"sp", "#">>) # Lower(<<n>>)
    BY <2>2
  <2> QED
    BY <1>2, <1>5, <2>1, <2>3 DEF tf_stricmp
<1> QED
  BY <1>2, <1>3, <1>4, <1>5

\* The line that gives a key is the least of LinesGiving, or 0.
LEMMA GivenAtIs ==
    ASSUME CfgTypes, NEW n \in GroupNames, NEW key
    PROVE  /\ LinesGiving(meant, <<n>>, key) = {} => GivenAt(n, key) = 0
           /\ \A i \in LinesGiving(meant, <<n>>, key) :
                 (\A y \in LinesGiving(meant, <<n>>, key) : i <= y) => GivenAt(n, key) = i /\ i # 0
<1> DEFINE L == LinesGiving(meant, <<n>>, key)
           F == L \cup {Len(meant) + 1}
<1>1. DOMAIN meant = 1..Len(meant) /\ Len(meant) \in Nat
  BY DEF CfgTypes
<1>2. L \subseteq 1..Len(meant)
  BY <1>1 DEF LinesGiving
<1>3. GivenAt(n, key) = Min(F) % (Len(meant) + 1)
  <2> DEFINE h(i) == Max(HeadersAbove(meant, i))
             gives(i) == /\ meant[i].kind = "pair" /\ meant[i].name = key
                         /\ HeadersAbove(meant, i) # {}
                         /\ meant[h(i)].flaw = "none"
                         /\ tf_stricmp(<<meant[h(i)].name>>, <<n>>)
  <2>1. \A i \in DOMAIN meant : gives(i) <=> Gives(meant, <<n>>, key, i)
    <3> SUFFICES ASSUME NEW i \in DOMAIN meant, HeadersAbove(meant, i) # {}
                 PROVE  tf_stricmp(NameRead(meant[h(i)]), <<n>>)
                           <=> meant[h(i)].flaw = "none" /\ tf_stricmp(<<meant[h(i)].name>>, <<n>>)
      BY DEF Gives
    <3>1. i - 1 \in Nat /\ HeadersAbove(meant, i) \in SUBSET (1..(i - 1))
      BY <1>1 DEF HeadersAbove
    <3>2. h(i) \in HeadersAbove(meant, i)
      BY <3>1, MaxInSet
    <3>3. h(i) \in DOMAIN meant /\ meant[h(i)].kind = "header"
      BY <1>1, <3>2 DEF HeadersAbove
    <3>4. meant[h(i)] \in Meanings
      BY <3>3 DEF CfgTypes
    <3> QED
      BY <3>3, <3>4, NameReadIs
  <2>2. {i \in DOMAIN meant : gives(i)} = L
    BY <2>1 DEF LinesGiving
  <2>3. GivenAt(n, key) = Min({i \in DOMAIN meant : gives(i)} \cup {Len(meant) + 1}) % (Len(meant) + 1)
    BY DEF GivenAt, HeadersAbove
  <2> QED
    BY <2>2, <2>3
<1> HIDE DEF L
<1>4. ASSUME L = {} PROVE GivenAt(n, key) = 0
  <2>1. F = {Len(meant) + 1}
    BY <1>4
  <2>2. F \in SUBSET Int /\ Len(meant) + 1 \in F /\ \A y \in F : Len(meant) + 1 <= y
    BY <1>1, <2>1
  <2>4. Min(F) = Len(meant) + 1
    BY ONLY <2>2, LeastIsMin
  <2>3. (Len(meant) + 1) % (Len(meant) + 1) = 0
    BY <1>1
  <2> QED
    BY <1>3, <2>4, <2>3
<1>5. ASSUME NEW i \in L, \A y \in L : i <= y PROVE GivenAt(n, key) = i /\ i # 0
  <2>1. i \in 1..Len(meant)
    BY <1>2
  <2>d. L \subseteq Int /\ Len(meant) + 1 \in Int
    BY <1>1, <1>2
  <2>a. F \in SUBSET Int /\ i \in F
    BY <2>d
  <2>b. \A y \in F : y \in L \/ y = Len(meant) + 1
    OBVIOUS
  <2>c. i <= Len(meant) + 1
    BY <1>1, <2>1
  <2>2. F \in SUBSET Int /\ i \in F /\ \A y \in F : i <= y
    BY <1>5, <2>a, <2>b, <2>c
  <2> HIDE DEF F
  <2>3. Min(F) = i
    BY <2>2, LeastIsMin
  <2>4. i % (Len(meant) + 1) = i /\ i # 0
    BY <1>1, <2>1
  <2> QED
    BY <1>3, <2>3, <2>4
<1> QED
  BY <1>4, <1>5 DEF L

\* The lines that read as true.
LEMMA TrueWords ==
    ASSUME NEW k, NEW v \in Values, NEW f \in PairFlaws, NEW m, m = PairLine(k, v, f)
    PROVE  (\E word \in {"true", "yes"} : tf_stricmp(ValueRead(m), <<word>>)) <=> ReadsTrue(m)
<1>1. m.flaw = f /\ m.value = v /\ f \in {"none", "comment"}
  BY DEF PairLine, PairFlaws
<1>2. CASE f = "none"
  <2>1. ValueRead(m) = <<v>> /\ (ReadsTrue(m) <=> v \in {"true", "yes", "TRUE", "YES"})
    BY <1>1, <1>2 DEF ValueRead, ReadsTrue
  <2> QED
    BY <2>1, WordsAssumption
<1>3. CASE f = "comment"
  <2>1. ValueRead(m) = <<v, "sp">> /\ ~ReadsTrue(m)
    BY <1>1, <1>3 DEF ValueRead, ReadsTrue
  <2>2. ASSUME NEW word PROVE ~tf_stricmp(<<v, "sp">>, <<word>>)
    <3>1. DOMAIN Lower(<<v, "sp">>) = {1, 2} /\ DOMAIN Lower(<<word>>) = {1}
      BY DEF Lower
    <3>2. Lower(<<v, "sp">>) # Lower(<<word>>)
      BY <3>1
    <3> QED
      BY <3>2 DEF tf_stricmp
  <2> QED
    BY <2>1, <2>2
<1> QED
  BY <1>1, <1>2, <1>3

\* What the property says of one lookup.
LookupAgrees(i, g, key) ==
    /\ cfg_get_string(g, <<key>>, <<>>) = IF i = 0 THEN <<>> ELSE ValueRead(meant[i])
    /\ cfg_get_bool(g, <<key>>, TRUE) = (i = 0 \/ ReadsTrue(meant[i]))

\* The invariant gives the property.
LEMMA CfgInvLookups == CfgInv => LookupsAgree
<1> SUFFICES ASSUME CfgInv, NEW n \in GroupNames, NEW key \in Keys
             PROVE  LookupAgrees(GivenAt(n, key), cfg_find_group(<<n>>), key)
  BY DEF LookupsAgree, LookupAgrees
<1> DEFINE i == GivenAt(n, key)
           g == cfg_find_group(<<n>>)
           L == LinesGiving(meant, <<n>>, key)
           kv == cfg_get_kv(g, <<key>>)
<1>1. /\ L = {} => i = 0
      /\ \A j \in L : (\A y \in L : j <= y) => i = j /\ i # 0
  BY GivenAtIs DEF CfgInv
<1>2. ASSUME i = 0, kv = NoLine
      PROVE  LookupAgrees(i, g, key)
  <2>1. cfg_get_string(g, <<key>>, <<>>) = <<>> /\ cfg_get_bool(g, <<key>>, TRUE) = TRUE
    BY <1>2 DEF cfg_get_string, cfg_get_bool
  <2> QED
    BY <1>2, <2>1 DEF LookupAgrees
<1>3. CASE \A k \in DOMAIN groups : ~GroupOf(k, <<n>>)
  <2>1. g = NoGroup
    BY <1>3, FindsNoGroup
  <2>2. kv = NoLine
    BY <2>1 DEF cfg_get_kv
  <2>3. L = {}
    BY <1>3, NoneGiven
  <2> QED
    BY <1>1, <1>2, <2>2, <2>3
<1>4. ASSUME NEW k \in DOMAIN groups, GroupOf(k, <<n>>)
      PROVE  \/ i = 0 /\ kv = NoLine
             \/ /\ i \in DOMAIN meant /\ i # 0 /\ meant[i].kind = "pair"
                /\ kv # NoLine /\ kv.value = ValueRead(meant[i])
  <2> DEFINE l == lists[k]
             E == EntriesOf(l, key)
  <2>1. g = groups[k] /\ g # NoGroup /\ g.pairs = k
    BY <1>4, FindsGroup, GroupIsSome DEF CfgInv, GroupsDiffer
  <2>2. l \in Seq(Entries)
    BY DEF CfgInv, CfgTypes
  <2>3. L = LinesGiving(meant, groups[k].name, key)
    BY <1>4 DEF LinesGiving, Gives, GroupOf, tf_stricmp
  <2>4. FirstsMatch(l, meant, groups[k].name, key)
    BY DEF CfgInv, ListsMatch
  <2>5. kv = IF E = {} THEN NoLine ELSE l[Min(E)]
    BY <2>1 DEF cfg_get_kv, EntriesOf
  <2>6. CASE E = {} /\ L = {}
    BY <1>1, <2>5, <2>6
  <2>7. CASE ~(E = {} /\ L = {})
    <3>1. PICK e \in E, j \in L : /\ \A y \in E : e <= y
                                  /\ \A y \in L : j <= y
                                  /\ l[e].value = ValueRead(meant[j])
      BY <2>3, <2>4, <2>7 DEF FirstsMatch
    <3>2. E \in SUBSET Int /\ e \in DOMAIN l
      BY <2>2 DEF EntriesOf
    <3> HIDE DEF E, L, l
    <3>3. Min(E) = e
      BY <3>1, <3>2, LeastIsMin
    <3>4. kv = l[e]
      BY <2>5, <3>1, <3>3
    <3>5. l[e] \in Entries
      BY <2>2, <3>2
    <3>6. l[e] # NoLine
      <4>1. PICK kw \in Keys : l[e].key = <<kw>>
        BY <3>5 DEF Entries
      <4>2. <<kw>> # <<>> /\ NoLine.key = <<>>
        BY DEF NoLine
      <4> QED
        BY <4>1, <4>2
    <3>7. i = j /\ i # 0
      BY <1>1, <3>1
    <3>8. j \in DOMAIN meant /\ meant[j].kind = "pair"
      BY <3>1 DEF L, LinesGiving, Gives
    <3> QED
      BY <3>1, <3>4, <3>6, <3>7, <3>8
  <2> QED
    BY <2>6, <2>7
<1>5. ASSUME i \in DOMAIN meant, i # 0, meant[i].kind = "pair", kv # NoLine, kv.value = ValueRead(meant[i])
      PROVE  LookupAgrees(i, g, key)
  <2> DEFINE m == meant[i]
             trueWord == \E word \in {"true", "yes"} : tf_stricmp(ValueRead(m), <<word>>)
  <2>1. PICK kw \in Keys, v \in Values, f \in PairFlaws : m = PairLine(kw, v, f)
    <3>1. m \in Meanings
      BY <1>5 DEF CfgInv, CfgTypes
    <3> QED
      BY <1>5, <3>1 DEF Meanings, HeaderLine, Nothing
  <2>2. cfg_get_string(g, <<key>>, <<>>) = ValueRead(m)
    BY <1>5 DEF cfg_get_string
  <2>3. cfg_get_bool(g, <<key>>, TRUE) = trueWord
    BY <1>5 DEF cfg_get_bool
  <2>4. trueWord <=> ReadsTrue(m)
    BY <2>1, TrueWords
  <2>5. cfg_get_bool(g, <<key>>, TRUE) = (i = 0 \/ ReadsTrue(m))
    <3>1. trueWord \in BOOLEAN /\ (i = 0 \/ ReadsTrue(m)) \in BOOLEAN
      OBVIOUS
    <3>2. trueWord <=> (i = 0 \/ ReadsTrue(m))
      BY <1>5, <2>4
    <3> HIDE DEF trueWord
    <3> QED
      BY ONLY <2>3, <3>1, <3>2
  <2> QED
    BY <1>5, <2>2, <2>5 DEF LookupAgrees
<1> QED
  <2>1. CASE \E k \in DOMAIN groups : GroupOf(k, <<n>>)
    <3> HIDE DEF i, g, kv, L
    <3>1. LookupAgrees(i, g, key)
      BY <1>2, <1>4, <1>5, <2>1
    <3> QED
      BY <3>1 DEF i, g
  <2> QED
    BY <1>3, <2>1

\* A lookup finds what the file means but for the two flaws the parser
\* misreads, and of those what LookupsAgree says, for files of any length, any
\* groups, keys and values (tf_conf_file.c:15-44, 52-80, 87-145, 184-213).
THEOREM ConfLookupsAgree == CfgSpec => []LookupsAgree
<1>1. CfgInit => CfgInv
  BY CfgInvInit DEF CfgInit
<1> QED
  BY <1>1, CfgInvStep, CfgInvLookups, PTL DEF CfgSpec
=============================================================================
