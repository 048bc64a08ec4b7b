------------------------------- MODULE TfList -------------------------------
(***************************************************************************)
(* The list of strings of tflib (tflib/tf_list.c): an array of nodes that  *)
(* point to regions of the heap.  The array grows by reallocation, nodes   *)
(* are moved with memmove, regions are allocated per element, overwritten  *)
(* in place when the new string is not longer, and handed over to the      *)
(* caller by pop and remove.                                               *)
(***************************************************************************)
EXTENDS Integers, Sequences, FiniteSets

CONSTANTS
    Handles,        \* lists
    Strings,        \* what is stored: sequences of bytes
    TF_LIST_UNIT,
    Regions,        \* bound: addresses of regions of the heap
    MaxNum          \* bound: elements of a list

ASSUME ListAssumption ==
    /\ Strings \subseteq Seq(Nat)
    /\ Regions \subseteq Nat \ {0} /\ IsFiniteSet(Regions)
    /\ TF_LIST_UNIT \in Nat \ {0} /\ MaxNum \in Nat

VARIABLES
    list,       \* handle -> TF_LIST_ST
    heap,       \* region -> its size in bytes and the string written to it
    callers,    \* regions that were handed over to the caller
    ret         \* what the last call returned: <<>> (NULL or void) or <<string>>

vars == <<list, heap, callers, ret>>

Garbage == [ptr |-> 0, size |-> 0]     \* a node outside the list
Unused  == [cap |-> 0, str |-> <<>>]   \* a region that is not allocated

NoList == [array |-> <<>>, anum |-> 0, start |-> 0, num |-> 0]

EmptyList(anum) ==
    [array |-> [i \in 0..(anum - 1) |-> Garbage], anum |-> anum, start |-> 0, num |-> 0]

Live(h) == list[h].anum > 0

Used(l) == l.start..(l.start + l.num - 1)

\* The string that node n of a list shows its user.
String(n) == SubSeq(heap[n.ptr].str, 1, n.size)

At(l, index) == String(l.array[l.start + index])

Free == {r \in Regions : heap[r].cap = 0}

\* tf_alloc: the k-th of several regions allocated in one call.
Fresh(k) == CHOOSE r \in Free : Cardinality({q \in Free : q < r}) = k - 1

Region(s) == [cap |-> Len(s) + 1, str |-> s]
NodeFor(r, s) == [ptr |-> r, size |-> Len(s)]

Init ==
    /\ list = [h \in Handles |-> NoList]
    /\ heap = [r \in Regions |-> Unused]
    /\ callers = {}
    /\ ret = <<>>
-----------------------------------------------------------------------------
tf_list_new(h) ==
    /\ ~Live(h)
    /\ list' = [list EXCEPT ![h] = EmptyList(TF_LIST_UNIT)]
    /\ ret' = <<>>
    /\ UNCHANGED <<heap, callers>>

tf_list_new2(h, anum) ==
    /\ ~Live(h)
    /\ list' = [list EXCEPT ![h] = EmptyList(IF anum < 1 THEN 1 ELSE anum)]
    /\ ret' = <<>>
    /\ UNCHANGED <<heap, callers>>

\* Mutant of tf_list_dup: the nodes are copied, not what they point to.
DupShallow(h, d) ==
    LET l == list[h]
    IN  /\ Live(h) /\ ~Live(d)
        /\ list' = [list EXCEPT ![d] =
                       IF l.num < 1 THEN EmptyList(TF_LIST_UNIT)
                       ELSE [array |-> [i \in 0..(l.num - 1) |-> l.array[l.start + i]],
                             anum |-> l.num, start |-> 0, num |-> l.num]]
        /\ ret' = <<>>
        /\ UNCHANGED <<heap, callers>>

\* The copy has no room to spare.
tf_list_dup(h, d) ==
    LET l == list[h]
        copyOf(r) == {i \in 0..(l.num - 1) : Fresh(i + 1) = r}
    IN  /\ Live(h) /\ ~Live(d)
        /\ Cardinality(Free) >= l.num
        /\ list' = [list EXCEPT ![d] =
                       IF l.num < 1 THEN EmptyList(TF_LIST_UNIT)
                       ELSE [array |-> [i \in 0..(l.num - 1) |-> NodeFor(Fresh(i + 1), At(l, i))],
                             anum |-> l.num, start |-> 0, num |-> l.num]]
        /\ heap' = [r \in Regions |-> IF r \in Free /\ copyOf(r) # {}
                                      THEN Region(At(l, CHOOSE i \in copyOf(r) : TRUE))
                                      ELSE heap[r]]
        /\ ret' = <<>>
        /\ UNCHANGED callers

\* Every region the list points to is freed.
FreeElements(l) ==
    LET owned == {l.array[i].ptr : i \in Used(l)}
    IN  heap' = [r \in Regions |-> IF r \in owned THEN Unused ELSE heap[r]]

tf_list_del(h) ==
    /\ Live(h)
    /\ FreeElements(list[h])
    /\ list' = [list EXCEPT ![h] = NoList]
    /\ ret' = <<>>
    /\ UNCHANGED callers

\* The array keeps its size.
tf_list_clear(h) ==
    /\ Live(h)
    /\ FreeElements(list[h])
    /\ list' = [list EXCEPT ![h] = EmptyList(@.anum)]
    /\ ret' = <<>>
    /\ UNCHANGED callers

\* tf_list_val and tf_list_val2: the region still belongs to the list.
tf_list_val(h, index) ==
    /\ Live(h)
    /\ ret' = IF index >= list[h].num THEN <<>> ELSE <<At(list[h], index)>>
    /\ UNCHANGED <<list, heap, callers>>
-----------------------------------------------------------------------------
\* The array after making room for one more node.
Grown(l) ==
    IF l.start + l.num >= l.anum
    THEN [l EXCEPT !.anum = @ + l.num + 1,
                   !.array = [i \in 0..(l.anum + l.num) |->
                                 IF i < l.anum THEN l.array[i] ELSE Garbage]]
    ELSE l

\* Mutant of Moved: memcpy, which copies in ascending order.
Copied(array, to, from, n) ==
    [i \in DOMAIN array |-> IF i \in to..(to + n - 1)
                            THEN IF to > from THEN array[from] ELSE array[i - to + from]
                            ELSE array[i]]

\* memmove(array + to, array + from, n nodes)
Moved(array, to, from, n) ==
    [i \in DOMAIN array |-> IF i \in to..(to + n - 1) THEN array[i - to + from] ELSE array[i]]

\* tf_list_push and tf_list_push2
tf_list_push(h, s) ==
    LET l == Grown(list[h])
        r == Fresh(1)
    IN  /\ Live(h)
        /\ l.num < MaxNum /\ Free # {}
        /\ list' = [list EXCEPT ![h] = [l EXCEPT !.array[l.start + l.num] = NodeFor(r, s),
                                                 !.num = @ + 1]]
        /\ heap' = [heap EXCEPT ![r] = Region(s)]
        /\ ret' = <<>>
        /\ UNCHANGED callers

\* tf_list_insert and tf_list_insert2
tf_list_insert(h, index, s) ==
    LET l == Grown(list[h])
        k == index + l.start
        r == Fresh(1)
    IN  /\ Live(h)
        /\ index <= l.num
        /\ l.num < MaxNum /\ Free # {}
        /\ list' = [list EXCEPT ![h] =
                       [l EXCEPT !.array = [Moved(@, k + 1, k, l.start + l.num - k)
                                               EXCEPT ![k] = NodeFor(r, s)],
                                 !.num = @ + 1]]
        /\ heap' = [heap EXCEPT ![r] = Region(s)]
        /\ ret' = <<>>
        /\ UNCHANGED callers

\* remove, over (index = num is out of range) and insert (index > num is)
\* return at once, and so does pop of an empty list.
OutOfRange(h, index) ==
    /\ Live(h)
    /\ index >= list[h].num
    /\ ret' = <<>>
    /\ UNCHANGED <<list, heap, callers>>

\* tf_list_pop and tf_list_pop2
tf_list_pop(h) ==
    LET l == list[h]
        k == l.start + l.num - 1
    IN  /\ Live(h)
        /\ l.num >= 1
        /\ list' = [list EXCEPT ![h].num = @ - 1, ![h].array[k] = Garbage]
        /\ ret' = <<String(l.array[k])>>
        /\ callers' = callers \cup {l.array[k].ptr}
        /\ heap' = heap

\* tf_list_remove and tf_list_remove2
tf_list_remove(h, index) ==
    LET l == list[h]
        k == index + l.start
        last == l.start + l.num - 1
    IN  /\ Live(h)
        /\ index < l.num
        /\ list' = [list EXCEPT ![h].num = @ - 1,
                                ![h].array = [Moved(@, k, k + 1, last - k)
                                                 EXCEPT ![last] = Garbage]]
        /\ ret' = <<String(l.array[k])>>
        /\ callers' = callers \cup {l.array[k].ptr}
        /\ heap' = heap

\* Mutant of tf_list_over: the region is never reallocated.
OverInPlace(h, index, s) ==
    LET k == index + list[h].start
        n == list[h].array[k]
    IN  /\ Live(h)
        /\ index < list[h].num
        /\ heap' = [heap EXCEPT ![n.ptr].str = s]
        /\ list' = [list EXCEPT ![h].array[k].size = Len(s)]
        /\ ret' = <<>>
        /\ UNCHANGED callers

\* tf_list_over and tf_list_over2.  tf_realloc may move the region; the
\* address stands for the region wherever it is.
tf_list_over(h, index, s) ==
    LET k == index + list[h].start
        n == list[h].array[k]
    IN  /\ Live(h)
        /\ index < list[h].num
        /\ heap' = [heap EXCEPT ![n.ptr] =
                       [cap |-> IF Len(s) > n.size THEN Len(s) + 1 ELSE @.cap, str |-> s]]
        /\ list' = [list EXCEPT ![h].array[k].size = Len(s)]
        /\ ret' = <<>>
        /\ UNCHANGED callers
-----------------------------------------------------------------------------
\* Mutant of tf_list_elemcmp: the sizes do not count.
CompareCommonPart(a, b) ==
    LET size == IF Len(a) < Len(b) THEN Len(a) ELSE Len(b)
        diff == {i \in 1..size : a[i] # b[i]}
        i == CHOOSE i \in diff : \A j \in diff : i <= j
    IN  IF diff = {} THEN 0 ELSE IF a[i] > b[i] THEN 1 ELSE -1

tf_list_elemcmp(a, b) ==
    LET size == IF Len(a) < Len(b) THEN Len(a) ELSE Len(b)
        diff == {i \in 1..size : a[i] # b[i]}
        i == CHOOSE i \in diff : \A j \in diff : i <= j
    IN  IF diff = {} THEN Len(a) - Len(b) ELSE IF a[i] > b[i] THEN 1 ELSE -1

Sorted(l) ==
    \A i, j \in 0..(l.num - 1) : i < j => tf_list_elemcmp(At(l, i), At(l, j)) <= 0

\* qsort permutes the nodes so that they ascend.
tf_list_sort(h) ==
    LET l == list[h]
    IN  /\ Live(h)
        /\ \E p \in [Used(l) -> Used(l)] :
              LET sorted == [l EXCEPT !.array = [i \in DOMAIN @ |->
                                                    IF i \in Used(l) THEN @[p[i]] ELSE @[i]]]
              IN  /\ \A i, j \in Used(l) : i # j => p[i] # p[j]
                  /\ Sorted(sorted)
                  /\ list' = [list EXCEPT ![h] = sorted]
        /\ ret' = <<>>
        /\ UNCHANGED <<heap, callers>>

\* -1 if the string is not there.
tf_listl_search(l, s) ==
    LET found == {i \in 0..(l.num - 1) : Len(At(l, i)) = Len(s) /\ At(l, i) = s}
    IN  IF found = {} THEN -1 ELSE CHOOSE i \in found : \A j \in found : i <= j

\* bsearch halves the range r, from r[1] to before r[2], until it meets an
\* equal element.
tf_list_bsearch(l, s) ==
    LET mid(r) == (r[1] + r[2]) \div 2
        cmp(r) == tf_list_elemcmp(s, At(l, mid(r)))
        search[r \in (0..l.num) \X (0..l.num)] ==
            IF r[1] >= r[2] THEN -1
            ELSE IF cmp(r) < 0 THEN search[<<r[1], mid(r)>>]
            ELSE IF cmp(r) > 0 THEN search[<<mid(r) + 1, r[2]>>]
            ELSE mid(r)
    IN  search[<<0, l.num>>]
-----------------------------------------------------------------------------
\* External: the caller releases what pop or remove gave it.
CallerFrees(r) ==
    /\ r \in callers
    /\ callers' = callers \ {r}
    /\ heap' = [heap EXCEPT ![r] = Unused]
    /\ UNCHANGED <<list, ret>>

Next ==
    \/ \E h \in Handles :
          \/ tf_list_new(h) \/ tf_list_new2(h, 0)
          \/ tf_list_del(h) \/ tf_list_clear(h) \/ tf_list_sort(h)
          \/ tf_list_pop(h)
          \/ \E d \in Handles : tf_list_dup(h, d)
          \/ \E s \in Strings : tf_list_push(h, s)
          \/ \E index \in 0..MaxNum :
                \/ tf_list_val(h, index) \/ tf_list_remove(h, index) \/ OutOfRange(h, index)
                \/ \E s \in Strings : tf_list_insert(h, index, s) \/ tf_list_over(h, index, s)
    \/ \E r \in callers : CallerFrees(r)

Spec == Init /\ [][Next]_vars
-----------------------------------------------------------------------------
(* Correctness.                                                            *)

\* The places from which a region is reached.
Owners(r) ==
    {o \in Handles \X (0..(2 * MaxNum + TF_LIST_UNIT)) :
        Live(o[1]) /\ o[2] \in Used(list[o[1]]) /\ list[o[1]].array[o[2]].ptr = r}

\* Growing, moving, copying and removing nodes neither leaks a region nor
\* lets two nodes, two lists or a list and the caller share one.
EachRegionOwnedOnce ==
    \A r \in Regions :
        Cardinality(Owners(r)) + (IF r \in callers THEN 1 ELSE 0)
            = (IF heap[r].cap > 0 THEN 1 ELSE 0)

\* "an additional zero code is appended at the end of the region" (tf_list.h:71):
\* whatever was stored there before, a region has room for its string and
\* the zero, and the size in the node is the size of the string; and the
\* nodes lie within the array.
StringsFit ==
    \A h \in Handles :
        /\ list[h].start + list[h].num <= list[h].anum
        /\ \A i \in Used(list[h]) :
              LET n == list[h].array[i]
              IN  n.size = Len(heap[n.ptr].str) /\ n.size < heap[n.ptr].cap

\* On a sorted list the binary search finds what the linear search finds.
SearchesAgree ==
    \A h \in Handles : Sorted(list[h]) =>
        \A s \in Strings :
            LET i == tf_list_bsearch(list[h], s)
            IN  IF tf_listl_search(list[h], s) = -1 THEN i = -1
                ELSE i \in 0..(list[h].num - 1) /\ At(list[h], i) = s

LiveLists == {h \in Handles : Live(h)}
Contents  == [h \in Handles |-> [i \in 1..list[h].num |-> At(list[h], i - 1)]]

Lists == INSTANCE StringLists WITH
            live <- LiveLists, elems <- Contents,
            Before <- LAMBDA a, b : tf_list_elemcmp(a, b) < 0

\* The lists behave as sequences of strings, to which an insertion at the end
\* appends, as the code has it (tf_list.c:160, 180) and tf_list.h:122, 130 do not.
ImplementsLists == Lists!Spec
=============================================================================
