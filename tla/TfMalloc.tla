------------------------------ MODULE TfMalloc ------------------------------
(***************************************************************************)
(* The memory accounting of tflib (tflib/tf_malloc.c), with the size of a  *)
(* region kept in front of it (no HAVE_MALLOC_SIZE), called by several     *)
(* threads.  used_memory is updated atomically once thread safeness is     *)
(* enabled, and before that by reading and writing it.  Running out of     *)
(* memory aborts the process and is left out.                              *)
(***************************************************************************)
EXTENDS Integers, Sequences, FiniteSets, Functions

CONSTANTS
    Threads,
    LONG,           \* sizeof(long)
    PREFIX_SIZE,    \* sizeof(size_t)
    SIZE_MAX,       \* size_t is 0..SIZE_MAX
    ReqSizes,       \* sizes requested
    Ptrs            \* bound: addresses malloc may return

ASSUME MallocAssumption ==
    /\ LONG \in Nat \ {0} /\ PREFIX_SIZE \in Nat /\ PREFIX_SIZE % LONG = 0
    /\ SIZE_MAX \in Nat /\ ReqSizes \subseteq 0..SIZE_MAX
    /\ IsFiniteSet(Threads) /\ IsFiniteSet(Ptrs)

VARIABLES
    used_memory,
    tf_malloc_thread_safe,
    prefix,         \* ptr -> the size in front of it, NotAllocated if free
    todo,           \* thread -> the updates its call has still to make
    reading,        \* thread -> <<>>, or what it has read of used_memory
    region,         \* thread -> the ptr its call is about, as a set
    freeing,        \* thread -> its call is tf_free
    disciplined     \* history: threads overlapped only when it was safe

memVars == <<used_memory, tf_malloc_thread_safe, prefix, todo, reading,
             region, freeing, disciplined>>

NotAllocated == -1
Allocated == {p \in Ptrs : prefix[p] # NotAllocated}
InCall(t) == todo[t] # <<>>
\* A call has not returned the region yet, or was given it to free.
Busy(p) == \E t \in Threads : p \in region[t]

MemInit ==
    /\ used_memory = 0
    /\ tf_malloc_thread_safe = FALSE
    /\ prefix = [p \in Ptrs |-> NotAllocated]
    /\ todo = [t \in Threads |-> <<>>]
    /\ reading = [t \in Threads |-> <<>>]
    /\ region = [t \in Threads |-> {}]
    /\ freeing = [t \in Threads |-> FALSE]
    /\ disciplined = TRUE
-----------------------------------------------------------------------------
\* Up to the next multiple of sizeof(long).
Rounded(n) == IF n % LONG = 0 THEN n ELSE n + LONG - (n % LONG)

\* The address space has room for the regions, even if all are of the
\* largest size.
ASSUME RoomAssumption ==
    \E most \in 0..SIZE_MAX :
        /\ Cardinality(Ptrs) * most <= SIZE_MAX
        /\ \A n \in ReqSizes : Rounded(n + PREFIX_SIZE) <= most

\* Thread t begins a call about p whose updates are us.
Begin(t, p, us) ==
    /\ ~InCall(t)
    /\ todo' = [todo EXCEPT ![t] = us]
    /\ region' = [region EXCEPT ![t] = {p}]
    /\ disciplined' = (disciplined /\ (tf_malloc_thread_safe \/ \A o \in Threads : ~InCall(o)))
    /\ UNCHANGED <<used_memory, tf_malloc_thread_safe, reading>>

\* tf_alloc, tf_calloc and tf_memdup
tf_alloc(t, size) ==
    /\ \E p \in Ptrs \ Allocated :
          /\ Begin(t, p, <<Rounded(size + PREFIX_SIZE)>>)
          /\ prefix' = [prefix EXCEPT ![p] = size]
    /\ freeing' = freeing

\* Mutant of tf_realloc: the old size is taken off with its prefix.
ReallocUncountsPrefix(t, p, size) ==
    /\ p \in Allocated /\ ~Busy(p)
    /\ Begin(t, p, <<-Rounded(prefix[p] + PREFIX_SIZE), Rounded(size)>>)
    /\ prefix' = [prefix EXCEPT ![p] = size]
    /\ freeing' = freeing

\* The prefix is counted in neither update.
tf_realloc(t, p, size) ==
    /\ p \in Allocated /\ ~Busy(p)
    /\ Begin(t, p, <<-Rounded(prefix[p]), Rounded(size)>>)
    /\ prefix' = [prefix EXCEPT ![p] = size]
    /\ freeing' = freeing

tf_free(t, p) ==
    /\ p \in Allocated /\ ~Busy(p)
    /\ Begin(t, p, <<-Rounded(prefix[p] + PREFIX_SIZE)>>)
    /\ freeing' = [freeing EXCEPT ![t] = TRUE]
    /\ prefix' = prefix

\* After its last update a call returns, tf_free having freed the region.
Done(t) ==
    /\ todo' = [todo EXCEPT ![t] = Tail(@)]
    /\ IF Len(todo[t]) = 1
       THEN /\ region' = [region EXCEPT ![t] = {}]
            /\ freeing' = [freeing EXCEPT ![t] = FALSE]
            /\ prefix' = [p \in Ptrs |-> IF freeing[t] /\ p \in region[t]
                                         THEN NotAllocated ELSE prefix[p]]
       ELSE UNCHANGED <<region, freeing, prefix>>
    /\ UNCHANGED <<tf_malloc_thread_safe, disciplined>>

Plus(n, d) == (n + d) % (SIZE_MAX + 1)

\* tf_malloc_stat_alloc and tf_malloc_stat_free when it is safe ...
StatAtomic(t) ==
    /\ InCall(t) /\ reading[t] = <<>>
    /\ tf_malloc_thread_safe
    /\ used_memory' = Plus(used_memory, Head(todo[t]))
    /\ reading' = reading
    /\ Done(t)

\* ... and when it is not.
StatRead(t) ==
    /\ InCall(t) /\ reading[t] = <<>>
    /\ ~tf_malloc_thread_safe
    /\ reading' = [reading EXCEPT ![t] = <<used_memory>>]
    /\ UNCHANGED <<used_memory, tf_malloc_thread_safe, prefix, todo, region, freeing,
                   disciplined>>

StatWrite(t) ==
    /\ reading[t] # <<>>
    /\ used_memory' = Plus(reading[t][1], Head(todo[t]))
    /\ reading' = [reading EXCEPT ![t] = <<>>]
    /\ Done(t)

tf_malloc_enable_thread_safeness ==
    /\ tf_malloc_thread_safe' = TRUE
    /\ disciplined' = (disciplined /\ (tf_malloc_thread_safe \/ \A o \in Threads : ~InCall(o)))
    /\ UNCHANGED <<used_memory, prefix, todo, reading, region, freeing>>

MemNext ==
    \/ \E t \in Threads :
          \/ StatAtomic(t) \/ StatRead(t) \/ StatWrite(t)
          \/ \E size \in ReqSizes : tf_alloc(t, size)
          \/ \E p \in Ptrs : tf_free(t, p) \/ \E size \in ReqSizes : tf_realloc(t, p, size)
    \/ tf_malloc_enable_thread_safeness

MemSpec == MemInit /\ [][MemNext]_memVars
-----------------------------------------------------------------------------
(* Correctness.                                                            *)

\* tf_malloc_size
Charged(p) == Rounded(prefix[p]) + PREFIX_SIZE

Leaving(p) == \E t \in Threads : freeing[t] /\ p \in region[t]

\* What used_memory has for p when the calls in progress are over, and what
\* the call of t has still to add to it.
Due(p) == IF p \in Allocated /\ ~Leaving(p) THEN Charged(p) ELSE 0

Outstanding(t) == SumFunction(todo[t])

\* used_memory is what tf_malloc_size says of the regions that will be left
\* when the calls in progress are over, less what these have still to add;
\* in particular it never falls below zero and wraps around, although
\* tf_realloc takes off the old size before it adds the new one.  The
\* program's part is to enable thread safeness before calls overlap.
AccountingExact ==
    disciplined =>
        used_memory + SumFunction([t \in Threads |-> Outstanding(t)])
            = SumFunction([p \in Ptrs |-> Due(p)])
=============================================================================
