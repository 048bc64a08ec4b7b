------------------------------ MODULE TfThread ------------------------------
(***************************************************************************)
(* Threads, mutexes and condition variables of tflib (tflib/tf_thread.c).  *)
(* Some threads use one mutex and one condition variable: every thread     *)
(* calls unlock and wait only inside the section, and the mutex is         *)
(* destroyed only while no thread uses it.  Until tf_init_threads has      *)
(* succeeded, locking and unlocking do nothing, but waiting does.          *)
(***************************************************************************)
EXTENDS Integers

CONSTANTS
    Tids, MainThread,           \* the threads; the one that is there at the start
    TF_MAX_THREADS, Limits,     \* the default limit and those given to tf_init_threads
    MaxCreated                  \* bound on the threads that are created

ASSUME ThreadAssumption ==
    /\ MainThread \in Tids
    /\ TF_MAX_THREADS \in Nat /\ Limits \subseteq Nat /\ MaxCreated \in Nat

VARIABLES
    thread_inited, max_threads, nthreads,
    mutex,      \* "none" before tf_mutex_init, "free" or "locked"
    at,         \* where each thread is
    seen,       \* the value of nthreads that the increment of each thread has read
    early,      \* history: tf_init_threads first succeeded while the section was in use
    created     \* history: how many threads tf_create_thread has created

thrVars == <<thread_inited, max_threads, nthreads, mutex, at, seen, early, created>>

Idle(t) == at[t] = "idle"
Goto(t, place) == at' = [at EXCEPT ![t] = place]

\* The threads between lock and unlock, those that wait for the condition or
\* for the mutex included.
Users == {t \in Tids : at[t] \in {"locking", "inside", "waiting", "woken"}}
Inside == {t \in Tids : at[t] = "inside"}

ThreadInit ==
    /\ thread_inited = FALSE /\ max_threads = TF_MAX_THREADS /\ nthreads = 0
    /\ mutex = "none"
    /\ at = [t \in Tids |-> IF t = MainThread THEN "idle" ELSE "absent"]
    /\ seen = [t \in Tids |-> 0]
    /\ early = FALSE /\ created = 0
-----------------------------------------------------------------------------
\* The limit changes even if the attributes cannot be set.
tf_init_threads(t, n, ok) ==
    /\ Idle(t)
    /\ max_threads' = n
    /\ thread_inited' = (thread_inited \/ ok)
    /\ early' = IF ok /\ ~thread_inited THEN Users # {} \/ mutex = "locked" ELSE early
    /\ UNCHANGED <<nthreads, mutex, at, seen, created>>

\* tf_create_thread: the test, pthread_create, and the increment, which
\* reads and writes; other threads may create threads meanwhile.
CreateCheck(t) ==
    /\ Idle(t)
    /\ nthreads < max_threads
    /\ Goto(t, "create")
    /\ UNCHANGED <<thread_inited, max_threads, nthreads, mutex, seen, early, created>>

\* Mutant of PthreadCreate: a thread that could not be created is counted.
CreateCountsFailure(t) ==
    /\ at[t] = "create"
    /\ \/ Goto(t, "count") /\ UNCHANGED created
       \/ \E new \in Tids :
             /\ at[new] = "absent" /\ created < MaxCreated
             /\ at' = [at EXCEPT ![t] = "count", ![new] = "idle"]
             /\ created' = created + 1
    /\ seen' = [seen EXCEPT ![t] = nthreads]
    /\ UNCHANGED <<thread_inited, max_threads, nthreads, mutex, early>>

PthreadCreate(t) ==
    /\ at[t] = "create"
    /\ \/ Goto(t, "idle") /\ UNCHANGED <<seen, created>>
       \/ \E new \in Tids :
             /\ at[new] = "absent" /\ created < MaxCreated
             /\ at' = [at EXCEPT ![t] = "count", ![new] = "idle"]
             /\ seen' = [seen EXCEPT ![t] = nthreads]
             /\ created' = created + 1
    /\ UNCHANGED <<thread_inited, max_threads, nthreads, mutex, early>>

CreateCount(t) ==
    /\ at[t] = "count"
    /\ nthreads' = seen[t] + 1
    /\ Goto(t, "idle")
    /\ seen' = [seen EXCEPT ![t] = 0]
    /\ UNCHANGED <<thread_inited, max_threads, mutex, early, created>>

\* External: the function of a created thread returns.  Nothing takes the
\* thread off the count, and its identity may be given to another.
ThreadEnd(t) ==
    /\ Idle(t) /\ t # MainThread
    /\ Goto(t, "absent")
    /\ UNCHANGED <<thread_inited, max_threads, nthreads, mutex, seen, early, created>>

tf_mutex_init(t) ==
    /\ Idle(t) /\ mutex = "none"
    /\ mutex' = "free"
    /\ UNCHANGED <<thread_inited, max_threads, nthreads, at, seen, early, created>>

tf_mutex_destroy(t) ==
    /\ Idle(t) /\ Users = {} /\ mutex # "none"
    /\ mutex' = "none"
    /\ UNCHANGED <<thread_inited, max_threads, nthreads, at, seen, early, created>>

\* pthread_mutex_lock has two steps, as it may have to wait.
tf_mutex_lock(t) ==
    /\ Idle(t) /\ mutex # "none"
    /\ Goto(t, IF thread_inited THEN "locking" ELSE "inside")
    /\ UNCHANGED <<thread_inited, max_threads, nthreads, mutex, seen, early, created>>

\* External: the mutex is given to a thread in pthread_mutex_lock, or at the
\* end of pthread_cond_wait.
Acquire(t) ==
    /\ at[t] \in {"locking", "woken"} /\ mutex = "free"
    /\ mutex' = "locked"
    /\ Goto(t, "inside")
    /\ UNCHANGED <<thread_inited, max_threads, nthreads, seen, early, created>>

\* Mutant of tf_mutex_trylock: EBUSY is not told from success.
TrylockTakesBusy(t) ==
    /\ Idle(t) /\ mutex # "none"
    /\ mutex' = IF thread_inited THEN "locked" ELSE mutex
    /\ Goto(t, "inside")
    /\ UNCHANGED <<thread_inited, max_threads, nthreads, seen, early, created>>

\* A thread enters the section if the answer is TF_OK.
tf_mutex_trylock(t) ==
    /\ Idle(t) /\ mutex # "none"
    /\ thread_inited => mutex = "free"
    /\ mutex' = IF thread_inited THEN "locked" ELSE mutex
    /\ Goto(t, "inside")
    /\ UNCHANGED <<thread_inited, max_threads, nthreads, seen, early, created>>

tf_mutex_unlock(t) ==
    /\ at[t] = "inside"
    /\ mutex' = IF thread_inited THEN "free" ELSE mutex
    /\ Goto(t, "idle")
    /\ UNCHANGED <<thread_inited, max_threads, nthreads, seen, early, created>>

\* Waiting releases the mutex and takes it again whether or not the threads
\* are initialized.
tf_cond_wait(t) ==
    /\ at[t] = "inside"
    /\ mutex' = "free"
    /\ Goto(t, "waiting")
    /\ UNCHANGED <<thread_inited, max_threads, nthreads, seen, early, created>>

\* A signal wakes one thread, if one waits; a thread may also wake by itself.
tf_cond_signal(t) ==
    /\ at[t] = "waiting"
    /\ Goto(t, "woken")
    /\ UNCHANGED <<thread_inited, max_threads, nthreads, mutex, seen, early, created>>

\* External: a program that waits for the condition before it has initialized
\* the threads, or that initialized them too late, may be stuck, as no unlock
\* ends what the wait or the lock began; it is started again.
Restarted ==
    /\ early \/ ~thread_inited
    /\ thread_inited' = FALSE /\ max_threads' = TF_MAX_THREADS /\ nthreads' = 0
    /\ mutex' = "none" /\ early' = FALSE
    /\ at' = [t \in Tids |-> IF t = MainThread THEN "idle" ELSE "absent"]
    /\ seen' = [t \in Tids |-> 0] /\ created' = 0

ThreadNext ==
    \/ \E t \in Tids :
          \/ \E n \in Limits, ok \in BOOLEAN : tf_init_threads(t, n, ok)
          \/ CreateCheck(t) \/ PthreadCreate(t) \/ CreateCount(t) \/ ThreadEnd(t)
          \/ tf_mutex_init(t) \/ tf_mutex_destroy(t)
          \/ tf_mutex_lock(t) \/ Acquire(t) \/ tf_mutex_trylock(t) \/ tf_mutex_unlock(t)
          \/ tf_cond_wait(t) \/ tf_cond_signal(t)
    \/ Restarted

ThreadSpec == ThreadInit /\ [][ThreadNext]_thrVars
-----------------------------------------------------------------------------
(* Correctness.                                                            *)

\* If tf_init_threads first succeeds while no thread is in the section, then
\* from there on at most one thread is inside at a time, and the mutex is
\* locked exactly while one is: nobody waits for a mutex that no thread will
\* unlock (tf_thread.c:89-203).
MutexesProtect ==
    thread_inited /\ ~early =>
        /\ \A s, t \in Inside : s = t
        /\ mutex = "locked" <=> Inside # {}

\* The unsynchronized count may miss threads but never counts one that was
\* not created: tf_create_thread refuses only once as many threads as the
\* limit have been created in all.  It counts the threads that have ended
\* too, so that a program of short threads is refused for good from then on
\* (tf_thread.c:15, 32).
NeverRefusedEarly == nthreads <= created
=============================================================================
