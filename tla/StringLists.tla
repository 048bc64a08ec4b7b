---------------------------- MODULE StringLists -----------------------------
(***************************************************************************)
(* What the lists of tf_list.c are to a program that only sees what calls  *)
(* return: each is a sequence of strings, operations on one leave the      *)
(* others alone, and what an operation returns is an element of that       *)
(* sequence.  Each operation does what tf_list.h says of it, with one      *)
(* exception: Insert.  Positions count from 0; ret is <<s>> when string s  *)
(* is returned and <<>> when nothing (NULL) is.                            *)
(***************************************************************************)
EXTENDS Integers, Sequences

CONSTANTS Handles, Strings, Before(_, _)

VARIABLES live, elems, ret

vars == <<live, elems, ret>>

Init ==
    /\ live = {}
    /\ elems = [h \in Handles |-> <<>>]
    /\ ret = <<>>

Create(h) ==
    /\ h \notin live
    /\ live' = live \cup {h}
    /\ ret' = <<>>
    /\ elems' = elems

Delete(h) ==
    /\ h \in live
    /\ live' = live \ {h}
    /\ elems' = [elems EXCEPT ![h] = <<>>]
    /\ ret' = <<>>

\* The sequence of h becomes s, and the call returns r.
Becomes(h, s, r) ==
    /\ h \in live
    /\ elems' = [elems EXCEPT ![h] = s]
    /\ ret' = r
    /\ live' = live

Dup(h, d) ==
    /\ h \in live /\ d \notin live
    /\ live' = live \cup {d}
    /\ elems' = [elems EXCEPT ![d] = elems[h]]
    /\ ret' = <<>>

InsertedAt(s, i, x) == SubSeq(s, 1, i) \o <<x>> \o SubSeq(s, i + 1, Len(s))
RemovedAt(s, i)     == SubSeq(s, 1, i) \o SubSeq(s, i + 2, Len(s))

Push(h, x) == Becomes(h, Append(elems[h], x), <<>>)

\* An insertion at the end appends.  tf_list.h:122 and 130 say that it has no
\* effect, which is not what tf_list.c:160 and 180 do.
Insert(h, i, x) ==
    Becomes(h, IF i <= Len(elems[h]) THEN InsertedAt(elems[h], i, x) ELSE elems[h], <<>>)

Remove(h, i) ==
    IF i < Len(elems[h]) THEN Becomes(h, RemovedAt(elems[h], i), <<elems[h][i + 1]>>)
                         ELSE Becomes(h, elems[h], <<>>)

Pop(h) ==
    IF elems[h] # <<>> THEN Remove(h, Len(elems[h]) - 1) ELSE Becomes(h, <<>>, <<>>)

Over(h, i, x) ==
    Becomes(h, IF i < Len(elems[h]) THEN [elems[h] EXCEPT ![i + 1] = x] ELSE elems[h], <<>>)

Val(h, i) ==
    Becomes(h, elems[h], IF i < Len(elems[h]) THEN <<elems[h][i + 1]>> ELSE <<>>)

\* A permutation in which no element comes before its predecessor.
Sort(h) ==
    \E p \in [1..Len(elems[h]) -> 1..Len(elems[h])] :
        /\ \A i, j \in 1..Len(elems[h]) : i # j => p[i] # p[j]
        /\ \A i, j \in 1..Len(elems[h]) : i < j => ~Before(elems[h][p[j]], elems[h][p[i]])
        /\ Becomes(h, [i \in 1..Len(elems[h]) |-> elems[h][p[i]]], <<>>)

Clear(h) == Becomes(h, <<>>, <<>>)

Next ==
    \E h \in Handles :
        \/ Create(h) \/ Delete(h) \/ Pop(h) \/ Sort(h) \/ Clear(h)
        \/ \E x \in Strings : Push(h, x)
        \/ \E i \in 0..(Len(elems[h]) + 1) :
              \/ Remove(h, i) \/ Val(h, i)
              \/ \E x \in Strings : Insert(h, i, x) \/ Over(h, i, x)
        \/ \E d \in Handles : Dup(h, d)

Spec == Init /\ [][Next]_vars
=============================================================================
