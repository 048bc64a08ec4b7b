---------------------------- MODULE TfLibProofs -----------------------------
(***************************************************************************)
(* The data structures of tflib: lists of strings, for any number of       *)
(* lists, strings and regions of the heap.                                 *)
(***************************************************************************)
EXTENDS TfList, FiniteSetTheorems, SequenceTheorems, WellFoundedInduction, TLAPS

-----------------------------------------------------------------------------
(* The inductive invariant of the lists.                                   *)

ListNodes   == [ptr : Nat, size : Nat]
HeapRegions == [cap : Nat, str : Seq(Nat)]

\* The array of a list has anum nodes, of which the first num are used.
IsList(l) ==
    /\ l = [array |-> l.array, anum |-> l.anum, start |-> 0, num |-> l.num]
    /\ l.anum \in Nat /\ l.num \in 0..l.anum /\ l.num <= MaxNum
    /\ l.array \in [0..(l.anum - 1) -> ListNodes]

\* The regions a list owns.
Owned(l) == {l.array[i].ptr : i \in 0..(l.num - 1)}

\* A list that shares no region with itself, and whose strings fit in hp.
Fits(l, hp) ==
    /\ \A i \in 0..(l.num - 1) :
          LET n == l.array[i]
          IN  n.ptr \in Regions /\ n.size = Len(hp[n.ptr].str) /\ n.size < hp[n.ptr].cap
    /\ \A i, j \in 0..(l.num - 1) : l.array[i].ptr = l.array[j].ptr => i = j

ListInv ==
    /\ DOMAIN list = Handles /\ \A h \in Handles : IsList(list[h]) /\ Fits(list[h], heap)
    /\ list = [h \in Handles |-> list[h]]
    /\ heap \in [Regions -> HeapRegions]
    /\ callers \subseteq Regions
    /\ \A h \in Handles : Owned(list[h]) \cap callers = {}
    /\ \A h, g \in Handles : h # g => Owned(list[h]) \cap Owned(list[g]) = {}
    /\ \A r \in Regions : heap[r].cap > 0 <=> r \in callers \/ \E h \in Handles : r \in Owned(list[h])

\* What a list holds: when the strings fit, the sizes in the nodes say nothing.
StringsOf(l, hp) == [i \in 1..l.num |-> hp[l.array[i - 1].ptr].str]

LEMMA NodeFacts ==
    ASSUME NEW l, NEW hp, IsList(l), Fits(l, hp), hp \in [Regions -> HeapRegions],
           NEW i \in 0..(l.num - 1)
    PROVE  /\ l.array[i] \in ListNodes /\ l.array[i].ptr \in Regions
           /\ l.array[i].ptr \in Owned(l)
           /\ hp[l.array[i].ptr].str \in Seq(Nat)
           /\ l.array[i].size = Len(hp[l.array[i].ptr].str)
           /\ hp[l.array[i].ptr].cap > 0
  <1>1. i \in 0..(l.anum - 1)
    BY DEF IsList
  <1>2. l.array[i] \in ListNodes
    BY <1>1 DEF IsList
  <1>3. /\ l.array[i].ptr \in Regions
        /\ l.array[i].size = Len(hp[l.array[i].ptr].str)
        /\ l.array[i].size < hp[l.array[i].ptr].cap
    BY DEF Fits
  <1>4. hp[l.array[i].ptr] \in HeapRegions
    BY <1>3
  <1>5. hp[l.array[i].ptr].str \in Seq(Nat) /\ hp[l.array[i].ptr].cap \in Nat /\ l.array[i].size \in Nat
    BY <1>2, <1>4 DEF HeapRegions, ListNodes
  <1>6. hp[l.array[i].ptr].cap > 0
    BY <1>3, <1>5
  <1>7. l.array[i].ptr \in Owned(l)
    BY DEF Owned
  <1> QED
    BY <1>2, <1>3, <1>5, <1>6, <1>7

LEMMA OwnedFacts ==
    ASSUME NEW l, NEW hp, IsList(l), Fits(l, hp), hp \in [Regions -> HeapRegions], NEW r \in Owned(l)
    PROVE  r \in Regions /\ hp[r].cap > 0
  <1>1. PICK i \in 0..(l.num - 1) : r = l.array[i].ptr
    BY DEF Owned
  <1> QED
    BY <1>1, NodeFacts

LEMMA WholeString ==
    ASSUME NEW s \in Seq(Nat), NEW n, n = Len(s)
    PROVE  SubSeq(s, 1, n) = s
  BY SubSeqFull

LEMMA ContentsAre ==
    ASSUME NEW l, NEW hp, IsList(l), Fits(l, hp), hp \in [Regions -> HeapRegions]
    PROVE  [i \in 1..l.num |-> SubSeq(hp[l.array[l.start + (i - 1)].ptr].str, 1, l.array[l.start + (i - 1)].size)]
               = StringsOf(l, hp)
  <1>1. l.start = 0 /\ l.num \in Nat
    BY DEF IsList
  <1>2. ASSUME NEW i \in 1..l.num
        PROVE  SubSeq(hp[l.array[l.start + (i - 1)].ptr].str, 1, l.array[l.start + (i - 1)].size)
                   = hp[l.array[i - 1].ptr].str
    <2>1. PICK k \in 0..(l.num - 1) : k = i - 1 /\ k = l.start + (i - 1)
      BY <1>1
    <2>2. SubSeq(hp[l.array[k].ptr].str, 1, l.array[k].size) = hp[l.array[k].ptr].str
      BY NodeFacts, WholeString
    <2> QED
      BY <2>1, <2>2
  <1> QED
    BY <1>2 DEF StringsOf

LEMMA ContentsNow == ASSUME ListInv PROVE Contents = [h \in Handles |-> StringsOf(list[h], heap)]
  BY ContentsAre DEF ListInv, Contents, At, String

LEMMA ContentsThen == ASSUME ListInv' PROVE Contents' = [h \in Handles |-> StringsOf(list'[h], heap')]
  BY ContentsAre DEF ListInv, Contents, At, String
-----------------------------------------------------------------------------
(* The operations on one list.                                             *)

\* An operation makes new of list h: it may reorder what the list owns, add
\* regions that were free, free some, and exchange some with the caller.
Changes(h, new) ==
    /\ list' = [list EXCEPT ![h] = new]
    /\ IsList(new) /\ Fits(new, heap') /\ heap' \in [Regions -> HeapRegions]
    /\ callers' \subseteq callers \cup Owned(list[h]) /\ callers' \cap Owned(new) = {}
    /\ \A r \in Owned(new) : r \in Owned(list[h]) \/ heap[r].cap = 0
    /\ \A r \in Regions : r \in Owned(new) \cup Owned(list[h]) \cup callers \/ heap'[r] = heap[r]
    /\ \A r \in callers' : heap'[r].cap > 0
    /\ \A r \in Owned(list[h]) \cup callers : r \in Owned(new) \cup callers' \/ heap'[r].cap = 0

\* Then no list shares with another, and no other list holds anything else.
LEMMA OneListChanges ==
    ASSUME ListInv, NEW h \in Handles, NEW new, Changes(h, new)
    PROVE  ListInv' /\ Contents' = [Contents EXCEPT ![h] = StringsOf(new, heap')]
  <1> USE DEF Changes
  <1>1. /\ list' = [g \in Handles |-> list'[g]] /\ DOMAIN list' = Handles
        /\ list'[h] = new /\ \A g \in Handles : g # h => list'[g] = list[g]
    <2>1. DOMAIN list = Handles
      BY DEF ListInv
    <2>2. list' = [g \in Handles |-> IF g = h THEN new ELSE list[g]]
      BY <2>1
    <2>3. \A g \in Handles : list'[g] = IF g = h THEN new ELSE list[g]
      BY <2>2
    <2>4. [g \in Handles |-> list'[g]] = [g \in Handles |-> IF g = h THEN new ELSE list[g]]
      BY <2>3
    <2>5. list' = [g \in Handles |-> list'[g]]
      BY <2>2, <2>4
    <2>6. DOMAIN list' = Handles
      BY <2>2
    <2>7. list'[h] = new /\ \A g \in Handles : g # h => list'[g] = list[g]
      BY <2>3
    <2> QED
      BY <2>5, <2>6, <2>7
  <1>2. \A r \in Owned(new) : r \in Regions /\ heap'[r].cap > 0
    BY OwnedFacts
  <1>3. \A g \in Handles : \A r \in Owned(list[g]) : r \in Regions /\ heap[r].cap > 0
    BY OwnedFacts DEF ListInv
  <1>4. ASSUME NEW g \in Handles, g # h, NEW r \in Owned(list[g])
        PROVE  r \notin Owned(list[h]) /\ r \notin callers /\ r \notin Owned(new) /\ r \notin callers'
               /\ heap'[r] = heap[r]
    <2>1. r \notin Owned(list[h]) /\ r \notin callers /\ r \in Regions /\ heap[r].cap > 0
      BY <1>3, <1>4 DEF ListInv
    <2>2. r \notin Owned(new)
      BY <2>1
    <2> QED
      BY <2>1, <2>2
  <1>5. ASSUME NEW g \in Handles, g # h
        PROVE  /\ IsList(list[g]) /\ Fits(list[g], heap')
               /\ StringsOf(list[g], heap') = StringsOf(list[g], heap)
    <2>1. IsList(list[g]) /\ Fits(list[g], heap) /\ list[g].num \in Nat
      BY DEF ListInv, IsList
    <2>2. \A i \in 0..(list[g].num - 1) : heap'[list[g].array[i].ptr] = heap[list[g].array[i].ptr]
      BY <1>4, <1>5 DEF Owned
    <2>3. Fits(list[g], heap')
      BY <2>1, <2>2 DEF Fits
    <2>4. \A i \in 1..list[g].num : i - 1 \in 0..(list[g].num - 1)
      BY <2>1
    <2>5. StringsOf(list[g], heap') = StringsOf(list[g], heap)
      BY <2>2, <2>4 DEF StringsOf
    <2> QED
      BY <2>1, <2>3, <2>5
  <1>6. \A g \in Handles : IsList(list'[g]) /\ Fits(list'[g], heap')
    BY <1>1, <1>5
  <1>7. \A g \in Handles : Owned(list'[g]) = IF g = h THEN Owned(new) ELSE Owned(list[g])
    BY <1>1
  <1>8. callers' \subseteq Regions
    BY <1>3 DEF ListInv
  <1>9. \A g \in Handles : Owned(list'[g]) \cap callers' = {}
    BY <1>4, <1>7
  <1>10. ASSUME NEW f \in Handles, NEW g \in Handles, f # g
         PROVE  Owned(list'[f]) \cap Owned(list'[g]) = {}
    <2>1. CASE f = h
      BY <1>4, <1>7, <1>10, <2>1
    <2>2. CASE g = h
      BY <1>4, <1>7, <1>10, <2>2
    <2>3. CASE f # h /\ g # h
      BY <1>7, <1>10, <2>3 DEF ListInv
    <2> QED
      BY <2>1, <2>2, <2>3
  <1>11. ASSUME NEW r \in Regions
         PROVE  heap'[r].cap > 0 <=> r \in callers' \/ \E g \in Handles : r \in Owned(list'[g])
    <2>1. CASE r \in Owned(new) \cup callers'
      BY <1>2, <1>7, <2>1
    <2>2. CASE \E g \in Handles \ {h} : r \in Owned(list[g])
      BY <1>3, <1>4, <1>7, <2>2
    <2>3. CASE r \notin Owned(new) \cup callers' /\ ~\E g \in Handles \ {h} : r \in Owned(list[g])
      <3>1. ~\E g \in Handles : r \in Owned(list'[g])
        BY <1>7, <2>3
      <3>2. CASE r \in Owned(list[h]) \cup callers
        BY <2>3, <3>1, <3>2
      <3>3. CASE r \notin Owned(list[h]) \cup callers
        <4>1. heap'[r] = heap[r]
          BY <2>3, <3>3
        <4>2. ~(heap[r].cap > 0)
          BY <2>3, <3>3 DEF ListInv
        <4> QED
          BY <2>3, <3>1, <4>1, <4>2
      <3> QED
        BY <3>2, <3>3
    <2> QED
      BY <2>1, <2>2, <2>3
  <1>12. ListInv'
    BY <1>1, <1>6, <1>8, <1>9, <1>10, <1>11 DEF ListInv
  <1>13. Contents = [g \in Handles |-> StringsOf(list[g], heap)]
    BY ContentsNow
  <1>14. Contents' = [g \in Handles |-> StringsOf(list'[g], heap')]
    BY <1>12, ContentsThen
  <1>15. Contents' = [Contents EXCEPT ![h] = StringsOf(new, heap')]
    BY <1>1, <1>5, <1>13, <1>14
  <1> QED
    BY <1>12, <1>15
-----------------------------------------------------------------------------
\* A list taken apart.
LEMMA ListParts ==
    ASSUME NEW l, IsList(l)
    PROVE  /\ l.start = 0 /\ l.anum \in Nat /\ l.num \in Nat /\ l.num <= l.anum /\ l.num <= MaxNum
           /\ l.array \in [0..(l.anum - 1) -> ListNodes]
           /\ l.num \in 0..l.anum
  BY DEF IsList

\* A list put together.
LEMMA MadeList ==
    ASSUME NEW N \in Nat, NEW m \in Nat, m <= N, m <= MaxNum, NEW A \in [0..(N - 1) -> ListNodes], NEW l,
           l = [array |-> A, anum |-> N, start |-> 0, num |-> m]
    PROVE  IsList(l) /\ l.array = A /\ l.anum = N /\ l.start = 0 /\ l.num = m
  BY DEF IsList

LEMMA EmptyFits ==
    ASSUME NEW l, NEW hp, l.num = 0
    PROVE  Fits(l, hp) /\ Owned(l) = {} /\ StringsOf(l, hp) = <<>>
  <1>1. 0..(l.num - 1) = {} /\ 1..l.num = {}
    OBVIOUS
  <1> QED
    BY <1>1 DEF Fits, Owned, StringsOf

LEMMA EmptyListFacts ==
    ASSUME NEW n \in Nat \ {0}
    PROVE  /\ IsList(EmptyList(n)) /\ EmptyList(n).num = 0 /\ EmptyList(n).anum = n
           /\ IsList(NoList) /\ NoList.num = 0 /\ NoList.anum = 0
  <1>1. PICK z \in Nat : z = 0 /\ z <= n /\ z <= MaxNum
    BY ListAssumption
  <1>2. Garbage \in ListNodes
    BY DEF Garbage, ListNodes
  <1>3. [i \in 0..(n - 1) |-> Garbage] \in [0..(n - 1) -> ListNodes]
    BY <1>2
  <1>4. PICK A \in [0..(z - 1) -> ListNodes] : A = <<>>
    <2>1. <<>> \in [0..(0 - 1) -> ListNodes]
      OBVIOUS
    <2> QED
      BY <1>1, <2>1
  <1>5. IsList(EmptyList(n)) /\ EmptyList(n).num = 0 /\ EmptyList(n).anum = n
    BY <1>1, <1>3, MadeList DEF EmptyList
  <1>6. IsList(NoList) /\ NoList.num = 0 /\ NoList.anum = 0
    <2>1. NoList = [array |-> A, anum |-> z, start |-> 0, num |-> z]
      BY <1>1, <1>4 DEF NoList
    <2>2. z <= z /\ z <= MaxNum
      BY <1>1
    <2>3. IsList(NoList) /\ NoList.anum = z /\ NoList.num = z
      BY <2>1, <2>2, MadeList
    <2> QED
      BY <1>1, <2>3
  <1> QED
    BY <1>5, <1>6

\* A list that is not alive holds nothing.
LEMMA DeadList ==
    ASSUME ListInv, NEW h \in Handles, ~Live(h)
    PROVE  list[h].num = 0 /\ Owned(list[h]) = {}
  <1>1. list[h].num = 0
    BY DEF ListInv, IsList, Live
  <1> QED
    BY <1>1, EmptyFits

LEMMA CreateStep ==
    ASSUME ListInv, NEW h \in Handles, ~Live(h), NEW n \in Nat \ {0},
           list' = [list EXCEPT ![h] = EmptyList(n)], heap' = heap, callers' = callers
    PROVE  ListInv' /\ Contents' = Contents /\ LiveLists' = LiveLists \cup {h}
  <1>1. PICK new : new = EmptyList(n) /\ IsList(new) /\ new.num = 0 /\ new.anum = n
    BY EmptyListFacts
  <1>2. Fits(new, heap') /\ Owned(new) = {} /\ StringsOf(new, heap') = <<>>
    BY <1>1, EmptyFits
  <1>3. Owned(list[h]) = {} /\ StringsOf(list[h], heap) = <<>>
    BY DeadList, EmptyFits
  <1>4. \A r \in callers' : heap'[r].cap > 0
    BY DEF ListInv
  <1>5. heap' \in [Regions -> HeapRegions]
    BY DEF ListInv
  <1>6. ListInv' /\ Contents' = [Contents EXCEPT ![h] = StringsOf(new, heap')]
    <2>1. Changes(h, new)
      BY <1>1, <1>2, <1>3, <1>4, <1>5 DEF Changes
    <2> QED
      BY <2>1, OneListChanges
  <1>7. Contents = [g \in Handles |-> StringsOf(list[g], heap)]
    BY ContentsNow
  <1>8. Contents' = Contents
    <2>1. Contents[h] = <<>> /\ DOMAIN Contents = Handles
      BY <1>3, <1>7
    <2>2. Contents' = [Contents EXCEPT ![h] = <<>>]
      BY <1>2, <1>6
    <2>3. [Contents EXCEPT ![h] = <<>>] = [g \in Handles |-> StringsOf(list[g], heap)]
      BY <1>3, <1>7
    <2> QED
      BY <1>7, <2>2, <2>3
  <1>9. DOMAIN list = Handles
    BY DEF ListInv
  <1>10. LiveLists' = LiveLists \cup {h}
    BY <1>1, <1>9 DEF LiveLists, Live
  <1> QED
    BY <1>6, <1>8, <1>10
-----------------------------------------------------------------------------
(* What the operations on sequences are, element by element.               *)

LEMMA StringsOfSeq ==
    ASSUME NEW l, NEW hp, IsList(l), Fits(l, hp), hp \in [Regions -> HeapRegions]
    PROVE  /\ StringsOf(l, hp) \in Seq(Seq(Nat)) /\ Len(StringsOf(l, hp)) = l.num
           /\ \A i \in 0..(l.num - 1) : StringsOf(l, hp)[i + 1] = hp[l.array[i].ptr].str
  <1>1. l.num \in Nat
    BY ListParts
  <1>2. \A i \in 1..l.num : hp[l.array[i - 1].ptr].str \in Seq(Nat)
    <2> SUFFICES ASSUME NEW i \in 1..l.num PROVE hp[l.array[i - 1].ptr].str \in Seq(Nat)
      OBVIOUS
    <2>1. PICK k \in 0..(l.num - 1) : k = i - 1
      BY <1>1
    <2> QED
      BY <2>1, NodeFacts
  <1>3. StringsOf(l, hp) \in [1..l.num -> Seq(Nat)]
    BY <1>2 DEF StringsOf
  <1>4. StringsOf(l, hp) \in Seq(Seq(Nat)) /\ Len(StringsOf(l, hp)) = l.num
    BY <1>1, <1>3
  <1>5. ASSUME NEW i \in 0..(l.num - 1)
        PROVE  StringsOf(l, hp)[i + 1] = hp[l.array[i].ptr].str
    <2>1. i + 1 \in 1..l.num /\ (i + 1) - 1 = i
      BY <1>1
    <2> QED
      BY <2>1 DEF StringsOf
  <1> QED
    BY <1>4, <1>5

LEMMA PrefixOf ==
    ASSUME NEW S, NEW s \in Seq(S), NEW k \in Nat, k <= Len(s), NEW u, u = SubSeq(s, 1, k)
    PROVE  u \in Seq(S) /\ Len(u) = k /\ \A i \in 1..k : u[i] = s[i]
  <1>1. \A i \in 1..k : s[i] \in S
    OBVIOUS
  <1>2. PICK one \in Int : one = 1
    OBVIOUS
  <1>3. u = SubSeq(s, one, k)
    BY <1>2
  <1>4. /\ SubSeq(s, one, k) \in Seq(S) /\ Len(SubSeq(s, one, k)) = IF one <= k THEN k - one + 1 ELSE 0
        /\ \A i \in 1..(k - one + 1) : SubSeq(s, one, k)[i] = s[one + i - 1]
    BY <1>1, <1>2, SubSeqProperties
  <1>5. /\ u \in Seq(S) /\ Len(u) = IF one <= k THEN k - one + 1 ELSE 0
        /\ \A i \in 1..(k - one + 1) : u[i] = s[one + i - 1]
    BY <1>3, <1>4, Zenon
  <1> QED
    BY <1>2, <1>5

LEMMA SuffixOf ==
    ASSUME NEW S, NEW s \in Seq(S), NEW k \in Nat, NEW n \in Nat, n = Len(s), k <= n,
           NEW u, u = SubSeq(s, k + 1, n)
    PROVE  u \in Seq(S) /\ Len(u) = n - k /\ \A i \in 1..(n - k) : u[i] = s[k + i]
  <1>1. PICK m \in Int : m = k + 1 /\ m - 1 = k
    OBVIOUS
  <1>2. \A i \in m..n : s[i] \in S
    BY <1>1
  <1>3. u = SubSeq(s, m, n)
    BY <1>1
  <1>4. /\ SubSeq(s, m, n) \in Seq(S) /\ Len(SubSeq(s, m, n)) = IF m <= n THEN n - m + 1 ELSE 0
        /\ \A i \in 1..(n - m + 1) : SubSeq(s, m, n)[i] = s[m + i - 1]
    BY <1>2, SubSeqProperties
  <1>5. /\ u \in Seq(S) /\ Len(u) = IF m <= n THEN n - m + 1 ELSE 0
        /\ \A i \in 1..(n - m + 1) : u[i] = s[m + i - 1]
    BY <1>3, <1>4, Zenon
  <1>6. Len(u) = n - k /\ n - m + 1 = n - k
    BY <1>1, <1>5
  <1>7. ASSUME NEW i \in 1..(n - k)
        PROVE  u[i] = s[k + i]
    <2>1. m + i - 1 = k + i
      BY <1>1
    <2> QED
      BY <1>5, <1>6, <2>1
  <1> QED
    BY <1>5, <1>6, <1>7

LEMMA JoinedWith ==
    ASSUME NEW S, NEW s \in Seq(S), NEW u \in Seq(S), NEW v, v = s \o u
    PROVE  /\ v \in Seq(S) /\ Len(v) = Len(s) + Len(u)
           /\ \A i \in 1..(Len(s) + Len(u)) : v[i] = IF i <= Len(s) THEN s[i] ELSE u[i - Len(s)]
  <1>1. /\ s \o u \in Seq(S) /\ Len(s \o u) = Len(s) + Len(u)
        /\ \A i \in 1..(Len(s) + Len(u)) : (s \o u)[i] = IF i <= Len(s) THEN s[i] ELSE u[i - Len(s)]
    BY ConcatProperties
  <1> QED
    BY <1>1, Zenon

LEMMA SeqIsFunction ==
    ASSUME NEW S, NEW s \in Seq(S), NEW n, Len(s) = n
    PROVE  s = [i \in 1..n |-> s[i]]
  OBVIOUS

LEMMA RemovedAtIs ==
    ASSUME NEW S, NEW s \in Seq(S), NEW k \in 0..(Len(s) - 1)
    PROVE  Lists!RemovedAt(s, k) = [i \in 1..(Len(s) - 1) |-> IF i <= k THEN s[i] ELSE s[i + 1]]
  <1>1. PICK n \in Nat : n = Len(s) /\ k \in 0..(n - 1) /\ k \in Nat /\ k <= n
    OBVIOUS
  <1> DEFINE u == SubSeq(s, 1, k)
             v == SubSeq(s, k + 2, n)
             w == u \o v
  <1>2. u \in Seq(S) /\ Len(u) = k /\ \A i \in 1..k : u[i] = s[i]
    <2> HIDE DEF u
    <2>1. u = SubSeq(s, 1, k)
      BY DEF u
    <2> QED
      BY <1>1, <2>1, PrefixOf
  <1>3. v \in Seq(S) /\ Len(v) = n - k - 1 /\ \A i \in 1..(n - k - 1) : v[i] = s[k + 1 + i]
    <2>1. PICK j \in Nat : j = k + 1 /\ j <= n /\ j + 1 = k + 2 /\ n - j = n - k - 1
      BY <1>1
    <2> HIDE DEF v
    <2>2. v = SubSeq(s, j + 1, n)
      BY <2>1 DEF v
    <2>3. v \in Seq(S) /\ Len(v) = n - j /\ \A i \in 1..(n - j) : v[i] = s[j + i]
      BY <1>1, <2>1, <2>2, SuffixOf
    <2> QED
      BY <2>1, <2>3
  <1> HIDE DEF u, v
  <1>4. /\ w \in Seq(S) /\ Len(w) = n - 1
        /\ \A i \in 1..(n - 1) : w[i] = IF i <= k THEN u[i] ELSE v[i - k]
    <2>1. Len(u) + Len(v) = n - 1
      BY <1>1, <1>2, <1>3
    <2>2. w = u \o v
      OBVIOUS
    <2> HIDE DEF w
    <2> QED
      BY <1>2, <1>3, <2>1, <2>2, JoinedWith
  <1>5. Lists!RemovedAt(s, k) = w
    BY <1>1 DEF Lists!RemovedAt, u, v
  <1> HIDE DEF w
  <1>6. ASSUME NEW i \in 1..(n - 1)
        PROVE  w[i] = IF i <= k THEN s[i] ELSE s[i + 1]
    <2>1. CASE i <= k
      BY <1>1, <1>2, <1>4, <2>1
    <2>2. CASE ~(i <= k)
      <3>1. i - k \in 1..(n - k - 1) /\ k + 1 + (i - k) = i + 1
        BY <1>1, <2>2
      <3>2. v[i - k] = s[i + 1]
        BY <1>3, <3>1
      <3> QED
        BY <1>4, <2>2, <3>2
    <2> QED
      BY <2>1, <2>2
  <1>7. w = [i \in 1..(n - 1) |-> w[i]]
    BY <1>4, SeqIsFunction
  <1>8. w = [i \in 1..(n - 1) |-> IF i <= k THEN s[i] ELSE s[i + 1]]
    BY <1>6, <1>7
  <1> QED
    BY <1>1, <1>5, <1>8

LEMMA InsertedAtIs ==
    ASSUME NEW S, NEW s \in Seq(S), NEW k \in 0..Len(s), NEW x \in S
    PROVE  Lists!InsertedAt(s, k, x)
               = [i \in 1..(Len(s) + 1) |-> IF i <= k THEN s[i] ELSE IF i = k + 1 THEN x ELSE s[i - 1]]
  <1>1. PICK n \in Nat : n = Len(s) /\ k \in 0..n /\ k \in Nat /\ k <= n
    OBVIOUS
  <1> DEFINE u == SubSeq(s, 1, k)
             v == SubSeq(s, k + 1, n)
             y == <<x>>
             p == u \o y
             w == p \o v
  <1>2. u \in Seq(S) /\ Len(u) = k /\ \A i \in 1..k : u[i] = s[i]
    <2> HIDE DEF u
    <2>1. u = SubSeq(s, 1, k)
      BY DEF u
    <2> QED
      BY <1>1, <2>1, PrefixOf
  <1>3. v \in Seq(S) /\ Len(v) = n - k /\ \A i \in 1..(n - k) : v[i] = s[k + i]
    <2> HIDE DEF v
    <2>1. v = SubSeq(s, k + 1, n)
      BY DEF v
    <2> QED
      BY <1>1, <2>1, SuffixOf
  <1>4. y \in Seq(S) /\ Len(y) = 1 /\ y[1] = x
    OBVIOUS
  <1> HIDE DEF u, v, y
  <1>5. /\ p \in Seq(S) /\ Len(p) = k + 1
        /\ \A i \in 1..(k + 1) : p[i] = IF i <= k THEN u[i] ELSE y[i - k]
    <2>1. Len(u) + Len(y) = k + 1
      BY <1>2, <1>4
    <2>2. p = u \o y
      OBVIOUS
    <2> HIDE DEF p
    <2>3. /\ p \in Seq(S) /\ Len(p) = Len(u) + Len(y)
          /\ \A i \in 1..(Len(u) + Len(y)) : p[i] = IF i <= Len(u) THEN u[i] ELSE y[i - Len(u)]
      <3>1. u \in Seq(S) /\ y \in Seq(S)
        BY <1>2, <1>4
      <3> QED
        BY <2>2, <3>1, JoinedWith
    <2> QED
      BY <1>2, <2>1, <2>3
  <1>6. Lists!InsertedAt(s, k, x) = w
    BY <1>1 DEF Lists!InsertedAt, u, v, y
  <1> HIDE DEF p
  <1>7. /\ w \in Seq(S) /\ Len(w) = n + 1
        /\ \A i \in 1..(n + 1) : w[i] = IF i <= k + 1 THEN p[i] ELSE v[i - (k + 1)]
    <2>1. Len(p) + Len(v) = n + 1
      BY <1>1, <1>3, <1>5
    <2>2. w = p \o v
      OBVIOUS
    <2> HIDE DEF w
    <2> QED
      BY <1>3, <1>5, <2>1, <2>2, JoinedWith
  <1> HIDE DEF w
  <1>8. ASSUME NEW i \in 1..(n + 1)
        PROVE  w[i] = IF i <= k THEN s[i] ELSE IF i = k + 1 THEN x ELSE s[i - 1]
    <2>1. CASE i <= k
      <3>1. i \in 1..k /\ i \in 1..(k + 1) /\ i <= k + 1
        BY <1>1, <2>1
      <3> QED
        BY <1>2, <1>5, <1>7, <2>1, <3>1
    <2>2. CASE i = k + 1
      <3>1. i \in 1..(k + 1) /\ i <= k + 1 /\ ~(i <= k) /\ i - k = 1
        BY <1>1, <2>2
      <3>2. p[i] = y[1]
        BY <1>5, <3>1
      <3> QED
        BY <1>4, <1>7, <2>2, <3>1, <3>2
    <2>3. CASE ~(i <= k) /\ i # k + 1
      <3>1. i - (k + 1) \in 1..(n - k) /\ k + (i - (k + 1)) = i - 1 /\ ~(i <= k + 1)
        BY <1>1, <2>3
      <3>2. v[i - (k + 1)] = s[i - 1]
        BY <1>3, <3>1
      <3> QED
        BY <1>7, <2>3, <3>1, <3>2
    <2> QED
      BY <2>1, <2>2, <2>3
  <1>9. w = [i \in 1..(n + 1) |-> w[i]]
    BY <1>7, SeqIsFunction
  <1>10. w = [i \in 1..(n + 1) |-> IF i <= k THEN s[i] ELSE IF i = k + 1 THEN x ELSE s[i - 1]]
    BY <1>8, <1>9
  <1> QED
    BY <1>1, <1>6, <1>10
-----------------------------------------------------------------------------
(* The ways in which an operation changes one list.                        *)

LEMMA InvFacts ==
    ASSUME ListInv, NEW h \in Handles
    PROVE  /\ IsList(list[h]) /\ Fits(list[h], heap) /\ heap \in [Regions -> HeapRegions]
           /\ DOMAIN list = Handles
           /\ \A r \in callers : r \in Regions /\ heap[r].cap > 0 /\ r \notin Owned(list[h])
           /\ \A r \in Owned(list[h]) : r \in Regions /\ heap[r].cap > 0
  <1>1. /\ IsList(list[h]) /\ Fits(list[h], heap) /\ heap \in [Regions -> HeapRegions]
        /\ DOMAIN list = Handles
    BY DEF ListInv
  <1>2. \A r \in callers : r \in Regions /\ heap[r].cap > 0 /\ r \notin Owned(list[h])
    BY DEF ListInv
  <1>3. \A r \in Owned(list[h]) : r \in Regions /\ heap[r].cap > 0
    BY <1>1, OwnedFacts
  <1> QED
    BY <1>1, <1>2, <1>3

\* tf_list_del and tf_list_clear: the regions are freed.
LEMMA EmptiedStep ==
    ASSUME ListInv, NEW h \in Handles, FreeElements(list[h]), callers' = callers,
           NEW new, IsList(new), new.num = 0, list' = [list EXCEPT ![h] = new]
    PROVE  ListInv' /\ Contents' = [Contents EXCEPT ![h] = <<>>]
  <1>1. Used(list[h]) = 0..(list[h].num - 1)
    BY InvFacts, ListParts DEF Used
  <1>2. heap' = [r \in Regions |-> IF r \in Owned(list[h]) THEN Unused ELSE heap[r]]
    BY <1>1 DEF FreeElements, Owned
  <1>3. Unused \in HeapRegions /\ Unused.cap = 0
    BY DEF Unused, HeapRegions
  <1>4. heap' \in [Regions -> HeapRegions]
    BY <1>2, <1>3, InvFacts
  <1>5. Fits(new, heap') /\ Owned(new) = {} /\ StringsOf(new, heap') = <<>>
    BY EmptyFits
  <1>6. \A r \in Regions : r \in Owned(new) \cup Owned(list[h]) \cup callers \/ heap'[r] = heap[r]
    BY <1>2
  <1>7. \A r \in callers' : heap'[r].cap > 0
    BY <1>2, InvFacts
  <1>8. \A r \in Owned(list[h]) \cup callers : r \in Owned(new) \cup callers' \/ heap'[r].cap = 0
    BY <1>2, <1>3, InvFacts
  <1>9. Changes(h, new)
    BY <1>4, <1>5, <1>6, <1>7, <1>8 DEF Changes
  <1> QED
    BY <1>5, <1>9, OneListChanges

\* The first nodes of array b, taken from n nodes of array a: without node k,
\* with x inserted as node k, with node k replaced by x, in the order of p.
Removes(b, a, n, k)     == \A i \in 0..(n - 2) : b[i] = a[IF i < k THEN i ELSE i + 1]
Inserts(b, a, n, k, x)  == \A i \in 0..n : b[i] = IF i < k THEN a[i] ELSE IF i = k THEN x ELSE a[i - 1]
Replaces(b, a, n, k, x) == \A i \in 0..(n - 1) : b[i] = IF i = k THEN x ELSE a[i]
Permutes(b, a, n, p)    == \A i \in 0..(n - 1) : b[i] = a[p[i]]

\* The strings when node k is replaced, and when the nodes change places.
Overwritten(s, k, x) == [s EXCEPT ![k + 1] = x]
Reordered(s, n, p)   == [i \in 1..n |-> s[p[i - 1] + 1]]

\* tf_list_pop and tf_list_remove: node k is handed over.
LEMMA RemovedStep ==
    ASSUME ListInv, NEW h \in Handles, NEW k \in 0..(list[h].num - 1), heap' = heap,
           callers' = callers \cup {list[h].array[k].ptr},
           NEW new, IsList(new), new.num = list[h].num - 1, list' = [list EXCEPT ![h] = new],
           Removes(new.array, list[h].array, list[h].num, k)
    PROVE  /\ ListInv'
           /\ Contents' = [Contents EXCEPT ![h] = Lists!RemovedAt(StringsOf(list[h], heap), k)]
  <1>0. \A i \in 0..(new.num - 1) : new.array[i] = list[h].array[IF i < k THEN i ELSE i + 1]
    <2>1. new.num - 1 = list[h].num - 2
      BY InvFacts, ListParts
    <2> QED
      BY <2>1, Zenon DEF Removes
  <1> USE <1>0
  <1>1. PICK l : l = list[h] /\ IsList(l) /\ Fits(l, heap)
    BY InvFacts
  <1>2. PICK m \in Nat : m = l.num /\ new.num = m - 1 /\ k \in 0..(m - 1) /\ k \in Nat
    BY <1>1, ListParts
  <1>3. heap \in [Regions -> HeapRegions]
    BY InvFacts
  <1> DEFINE old(i) == IF i < k THEN i ELSE i + 1
  <1>4. \A i \in 0..(m - 2) : old(i) \in 0..(m - 1) /\ old(i) # k
    BY <1>2
  <1>5. \A i, j \in 0..(m - 2) : old(i) = old(j) => i = j
    BY <1>2
  <1>6. 0..(new.num - 1) = 0..(m - 2) /\ 0..(l.num - 1) = 0..(m - 1)
    BY <1>2
  <1>7. \A i \in 0..(m - 2) : new.array[i] = l.array[old(i)]
    BY <1>1, <1>6
  <1> HIDE DEF old
  <1>8. \A i \in 0..(m - 1) :
          /\ l.array[i].ptr \in Regions /\ l.array[i].size = Len(heap[l.array[i].ptr].str)
          /\ l.array[i].size < heap[l.array[i].ptr].cap
    BY <1>1, <1>6 DEF Fits
  <1>9. \A i, j \in 0..(m - 1) : l.array[i].ptr = l.array[j].ptr => i = j
    BY <1>1, <1>6 DEF Fits
  <1>10. Fits(new, heap)
    <2>1. \A i \in 0..(m - 2) :
            LET n == new.array[i]
            IN  n.ptr \in Regions /\ n.size = Len(heap[n.ptr].str) /\ n.size < heap[n.ptr].cap
      BY <1>4, <1>7, <1>8
    <2>2. ASSUME NEW i \in 0..(m - 2), NEW j \in 0..(m - 2), new.array[i].ptr = new.array[j].ptr
          PROVE  i = j
      <3>1. old(i) = old(j)
        BY <1>4, <1>7, <1>9, <2>2
      <3> QED
        BY <1>5, <3>1
    <2> QED
      BY <1>6, <2>1, <2>2 DEF Fits
  <1>11. Owned(new) \subseteq Owned(l) /\ l.array[k].ptr \notin Owned(new)
    <2> SUFFICES ASSUME NEW r \in Owned(new)
                 PROVE  r \in Owned(l) /\ r # l.array[k].ptr
      OBVIOUS
    <2>1. PICK i \in 0..(m - 2) : r = new.array[i].ptr
      BY <1>6 DEF Owned
    <2>2. PICK j \in 0..(m - 1) : r = l.array[j].ptr /\ j # k
      BY <1>4, <1>7, <2>1
    <2> QED
      BY <1>2, <1>6, <1>9, <2>2 DEF Owned
  <1>12. l.array[k].ptr \in Owned(l)
    BY <1>2, <1>6 DEF Owned
  <1>13. ASSUME NEW r \in Owned(l) PROVE r \in Owned(new) \/ r = l.array[k].ptr
    <2>1. PICK j \in 0..(m - 1) : r = l.array[j].ptr
      BY <1>6 DEF Owned
    <2>2. CASE j = k
      BY <2>1, <2>2
    <2>3. CASE j < k
      <3>1. j \in 0..(m - 2) /\ old(j) = j
        BY <1>2, <2>3 DEF old
      <3> QED
        BY <1>6, <1>7, <2>1, <3>1 DEF Owned
    <2>4. CASE j > k
      <3>1. j - 1 \in 0..(m - 2) /\ old(j - 1) = j
        BY <1>2, <2>4 DEF old
      <3> QED
        BY <1>6, <1>7, <2>1, <3>1 DEF Owned
    <2> QED
      BY <1>2, <2>2, <2>3, <2>4
  <1>14. Changes(h, new)
    BY <1>1, <1>3, <1>10, <1>11, <1>12, <1>13, InvFacts DEF Changes
  <1>15. StringsOf(l, heap) \in Seq(Seq(Nat)) /\ Len(StringsOf(l, heap)) = m
    BY <1>1, <1>2, <1>3, StringsOfSeq
  <1>16. Lists!RemovedAt(StringsOf(l, heap), k)
           = [i \in 1..(m - 1) |-> IF i <= k THEN StringsOf(l, heap)[i] ELSE StringsOf(l, heap)[i + 1]]
    BY <1>2, <1>15, RemovedAtIs
  <1>17. ASSUME NEW i \in 1..(m - 1)
         PROVE  heap[new.array[i - 1].ptr].str
                    = IF i <= k THEN StringsOf(l, heap)[i] ELSE StringsOf(l, heap)[i + 1]
    <2>1. i - 1 \in 0..(m - 2) /\ i \in 1..m /\ i + 1 \in 1..m /\ (i + 1) - 1 = i
      BY <1>2
    <2>2. old(i - 1) = IF i <= k THEN i - 1 ELSE i
      BY <1>2 DEF old
    <2>3. \A j \in 1..m : StringsOf(l, heap)[j] = heap[l.array[j - 1].ptr].str
      BY <1>2 DEF StringsOf
    <2>4. new.array[i - 1] = l.array[IF i <= k THEN i - 1 ELSE i]
      BY <1>7, <2>1, <2>2
    <2> QED
      BY <2>1, <2>3, <2>4
  <1>18. StringsOf(new, heap') = Lists!RemovedAt(StringsOf(l, heap), k)
    <2>1. StringsOf(new, heap') = [i \in 1..(m - 1) |-> heap[new.array[i - 1].ptr].str]
      BY <1>2 DEF StringsOf
    <2> QED
      BY <1>16, <1>17, <2>1
  <1> QED
    BY <1>1, <1>14, <1>18, OneListChanges

\* tf_list_push and tf_list_insert: a node for s in a region that was free
\* becomes node k.
LEMMA InsertedStep ==
    ASSUME ListInv, NEW h \in Handles, NEW k \in 0..list[h].num, NEW s \in Seq(Nat), NEW r \in Free,
           callers' = callers, heap' = [heap EXCEPT ![r] = Region(s)],
           NEW new, IsList(new), new.num = list[h].num + 1, list' = [list EXCEPT ![h] = new],
           Inserts(new.array, list[h].array, list[h].num, k, NodeFor(r, s))
    PROVE  /\ ListInv'
           /\ Contents' = [Contents EXCEPT ![h] = Lists!InsertedAt(StringsOf(list[h], heap), k, s)]
  <1>0. \A i \in 0..list[h].num :
           new.array[i] = IF i < k THEN list[h].array[i]
                          ELSE IF i = k THEN NodeFor(r, s) ELSE list[h].array[i - 1]
    BY Zenon DEF Inserts
  <1> USE <1>0
  <1>1. PICK l : l = list[h] /\ IsList(l) /\ Fits(l, heap)
    BY InvFacts
  <1>2. PICK m \in Nat : m = l.num /\ new.num = m + 1 /\ k \in 0..m /\ k \in Nat
    BY <1>1, ListParts
  <1>3. heap \in [Regions -> HeapRegions]
    BY InvFacts
  <1>4. r \in Regions /\ heap[r].cap = 0 /\ r \notin Owned(l) /\ r \notin callers
    BY <1>1, InvFacts DEF Free
  <1>5. /\ Region(s) \in HeapRegions /\ Region(s).str = s /\ Region(s).cap = Len(s) + 1
        /\ NodeFor(r, s).ptr = r /\ NodeFor(r, s).size = Len(s) /\ Len(s) \in Nat
    BY DEF Region, NodeFor, HeapRegions
  <1>6. /\ heap' \in [Regions -> HeapRegions] /\ heap'[r] = Region(s)
        /\ \A q \in Regions : q # r => heap'[q] = heap[q]
    BY <1>3, <1>4, <1>5
  <1> DEFINE old(i) == IF i < k THEN i ELSE i - 1
  <1>7. \A i \in 0..m : i # k => old(i) \in 0..(m - 1)
    BY <1>2
  <1>8. \A i, j \in 0..m : i # k /\ j # k /\ old(i) = old(j) => i = j
    BY <1>2
  <1>9. 0..(new.num - 1) = 0..m /\ 0..(l.num - 1) = 0..(m - 1)
    BY <1>2
  <1>10. \A i \in 0..m : new.array[i] = IF i = k THEN NodeFor(r, s) ELSE l.array[old(i)]
    BY <1>1, <1>2
  <1> HIDE DEF old
  <1>11. \A i \in 0..(m - 1) :
           /\ l.array[i].ptr \in Regions /\ l.array[i].ptr # r
           /\ l.array[i].size = Len(heap[l.array[i].ptr].str)
           /\ l.array[i].size < heap[l.array[i].ptr].cap
    BY <1>1, <1>4, <1>9 DEF Fits, Owned
  <1>12. \A i, j \in 0..(m - 1) : l.array[i].ptr = l.array[j].ptr => i = j
    BY <1>1, <1>9 DEF Fits
  <1>13. Fits(new, heap')
    <2>1. ASSUME NEW i \in 0..m
          PROVE  LET n == new.array[i]
                 IN  n.ptr \in Regions /\ n.size = Len(heap'[n.ptr].str) /\ n.size < heap'[n.ptr].cap
      <3>1. CASE i = k
        BY <1>4, <1>5, <1>6, <1>10, <3>1
      <3>2. CASE i # k
        <4>1. PICK j \in 0..(m - 1) : new.array[i] = l.array[j]
          BY <1>7, <1>10, <3>2
        <4>2. heap'[l.array[j].ptr] = heap[l.array[j].ptr]
          BY <1>6, <1>11
        <4> QED
          BY <1>11, <4>1, <4>2
      <3> QED
        BY <3>1, <3>2
    <2>2. ASSUME NEW i \in 0..m, NEW j \in 0..m, new.array[i].ptr = new.array[j].ptr
          PROVE  i = j
      <3>1. CASE i = k \/ j = k
        BY <1>5, <1>7, <1>10, <1>11, <2>2, <3>1
      <3>2. CASE i # k /\ j # k
        <4>1. old(i) = old(j)
          <5>1. new.array[i] = l.array[old(i)] /\ new.array[j] = l.array[old(j)]
            BY <1>10, <3>2
          <5>2. old(i) \in 0..(m - 1) /\ old(j) \in 0..(m - 1)
            BY <1>7, <3>2
          <5> QED
            BY <1>12, <2>2, <5>1, <5>2
        <4> QED
          BY <1>8, <3>2, <4>1
      <3> QED
        BY <3>1, <3>2
    <2> QED
      BY <1>9, <2>1, <2>2 DEF Fits
  <1>14. ASSUME NEW q \in Owned(new) PROVE q \in Owned(l) \/ q = r
    <2>1. PICK i \in 0..m : q = new.array[i].ptr
      BY <1>9 DEF Owned
    <2>2. CASE i = k
      BY <1>5, <1>10, <2>1, <2>2
    <2>3. CASE i # k
      BY <1>7, <1>9, <1>10, <2>1, <2>3 DEF Owned
    <2> QED
      BY <2>2, <2>3
  <1>15. ASSUME NEW q \in Owned(l) PROVE q \in Owned(new)
    <2>1. PICK j \in 0..(m - 1) : q = l.array[j].ptr
      BY <1>9 DEF Owned
    <2>2. PICK i \in 0..m : i # k /\ old(i) = j
      <3>1. CASE j < k
        <4>1. j \in 0..m /\ j # k /\ old(j) = j
          BY <1>2, <3>1 DEF old
        <4> QED
          BY <4>1
      <3>2. CASE ~(j < k)
        <4>1. j + 1 \in 0..m /\ j + 1 # k /\ old(j + 1) = j
          BY <1>2, <3>2 DEF old
        <4> QED
          BY <4>1
      <3> QED
        BY <3>1, <3>2
    <2> QED
      BY <1>9, <1>10, <2>1, <2>2 DEF Owned
  <1>16. r \in Owned(new)
    BY <1>2, <1>5, <1>9, <1>10 DEF Owned
  <1>17. Changes(h, new)
    <2>1. \A q \in Owned(new) : q \in Owned(list[h]) \/ heap[q].cap = 0
      BY <1>1, <1>4, <1>14
    <2>2. \A q \in Regions : q \in Owned(new) \cup Owned(list[h]) \cup callers \/ heap'[q] = heap[q]
      BY <1>6, <1>16
    <2>3. \A q \in callers' : heap'[q].cap > 0 /\ q \notin Owned(new)
      BY <1>1, <1>4, <1>6, <1>14, InvFacts
    <2>4. \A q \in Owned(list[h]) \cup callers : q \in Owned(new) \cup callers' \/ heap'[q].cap = 0
      BY <1>1, <1>15
    <2> QED
      BY <1>6, <1>13, <2>1, <2>2, <2>3, <2>4 DEF Changes
  <1>18. StringsOf(l, heap) \in Seq(Seq(Nat)) /\ Len(StringsOf(l, heap)) = m
    BY <1>1, <1>2, <1>3, StringsOfSeq
  <1>19. Lists!InsertedAt(StringsOf(l, heap), k, s)
           = [i \in 1..(m + 1) |-> IF i <= k THEN StringsOf(l, heap)[i]
                                   ELSE IF i = k + 1 THEN s ELSE StringsOf(l, heap)[i - 1]]
    BY <1>2, <1>18, InsertedAtIs
  <1>20. ASSUME NEW i \in 1..(m + 1)
         PROVE  heap'[new.array[i - 1].ptr].str
                    = IF i <= k THEN StringsOf(l, heap)[i]
                      ELSE IF i = k + 1 THEN s ELSE StringsOf(l, heap)[i - 1]
    <2>1. \A j \in 1..m : StringsOf(l, heap)[j] = heap[l.array[j - 1].ptr].str
      BY <1>2 DEF StringsOf
    <2>2. i - 1 \in 0..m
      BY <1>2
    <2>3. CASE i = k + 1
      <3>1. i - 1 = k /\ ~(i <= k)
        BY <1>2, <2>3
      <3> QED
        BY <1>5, <1>6, <1>10, <2>2, <2>3, <3>1
    <2>4. CASE i <= k
      <3>1. i - 1 # k /\ old(i - 1) = i - 1 /\ i \in 1..m
        BY <1>2, <2>4 DEF old
      <3>2. heap'[new.array[i - 1].ptr] = heap[l.array[i - 1].ptr]
        BY <1>6, <1>7, <1>10, <1>11, <2>2, <3>1
      <3> QED
        BY <2>1, <2>4, <3>1, <3>2
    <2>5. CASE i > k + 1
      <3>1. i - 1 # k /\ old(i - 1) = (i - 1) - 1 /\ i - 1 \in 1..m /\ ~(i <= k) /\ i # k + 1
        BY <1>2, <2>5 DEF old
      <3>2. heap'[new.array[i - 1].ptr] = heap[l.array[(i - 1) - 1].ptr]
        BY <1>6, <1>7, <1>10, <1>11, <2>2, <3>1
      <3> QED
        BY <2>1, <3>1, <3>2
    <2> QED
      BY <1>2, <2>3, <2>4, <2>5
  <1>21. StringsOf(new, heap') = Lists!InsertedAt(StringsOf(l, heap), k, s)
    <2>1. StringsOf(new, heap') = [i \in 1..(m + 1) |-> heap'[new.array[i - 1].ptr].str]
      BY <1>2 DEF StringsOf
    <2> QED
      <3> DEFINE it(i) == IF i <= k THEN StringsOf(l, heap)[i]
                          ELSE IF i = k + 1 THEN s ELSE StringsOf(l, heap)[i - 1]
      <3>1. \A i \in 1..(m + 1) : heap'[new.array[i - 1].ptr].str = it(i)
        BY <1>20
      <3>2. Lists!InsertedAt(StringsOf(l, heap), k, s) = [i \in 1..(m + 1) |-> it(i)]
        BY <1>19
      <3> HIDE DEF it
      <3>3. [i \in 1..(m + 1) |-> heap'[new.array[i - 1].ptr].str] = [i \in 1..(m + 1) |-> it(i)]
        BY <3>1, Zenon
      <3> QED
        BY <2>1, <3>2, <3>3, Zenon
  <1> QED
    BY <1>1, <1>17, <1>21, OneListChanges

\* tf_list_over: the region of node k is written again.
LEMMA ReplacedStep ==
    ASSUME ListInv, NEW h \in Handles, NEW k \in 0..(list[h].num - 1), NEW s \in Seq(Nat),
           callers' = callers, NEW r, r = list[h].array[k].ptr, NEW c \in Nat, Len(s) < c,
           heap' = [heap EXCEPT ![r] = [cap |-> c, str |-> s]],
           NEW new, IsList(new), new.num = list[h].num, list' = [list EXCEPT ![h] = new],
           Replaces(new.array, list[h].array, list[h].num, k, NodeFor(r, s))
    PROVE  /\ ListInv'
           /\ Contents' = [Contents EXCEPT ![h] = Overwritten(StringsOf(list[h], heap), k, s)]
  <1>0. \A i \in 0..(list[h].num - 1) : new.array[i] = IF i = k THEN NodeFor(r, s) ELSE list[h].array[i]
    BY Zenon DEF Replaces
  <1> USE <1>0
  <1>1. PICK l : l = list[h] /\ IsList(l) /\ Fits(l, heap)
    BY InvFacts
  <1>2. PICK m \in Nat : m = l.num /\ new.num = m /\ k \in 0..(m - 1) /\ k \in Nat
    BY <1>1, ListParts
  <1>3. heap \in [Regions -> HeapRegions]
    BY InvFacts
  <1>4. r \in Regions /\ r \in Owned(l)
    BY <1>1, <1>2 DEF Fits, Owned
  <1>5. PICK reg \in HeapRegions : reg = [cap |-> c, str |-> s] /\ reg.cap = c /\ reg.str = s
    BY DEF HeapRegions
  <1>6. /\ heap' \in [Regions -> HeapRegions] /\ heap'[r] = reg
        /\ \A q \in Regions : q # r => heap'[q] = heap[q]
    BY <1>3, <1>4, <1>5
  <1>7. NodeFor(r, s).ptr = r /\ NodeFor(r, s).size = Len(s) /\ Len(s) \in Nat
    BY DEF NodeFor
  <1>8. 0..(new.num - 1) = 0..(m - 1) /\ 0..(l.num - 1) = 0..(m - 1)
    BY <1>2
  <1>9. \A i \in 0..(m - 1) : new.array[i].ptr = l.array[i].ptr
    BY <1>1, <1>7, <1>8
  <1>10. \A i \in 0..(m - 1) :
           /\ l.array[i].ptr \in Regions
           /\ l.array[i].size = Len(heap[l.array[i].ptr].str)
           /\ l.array[i].size < heap[l.array[i].ptr].cap
    BY <1>1, <1>8 DEF Fits
  <1>11. \A i, j \in 0..(m - 1) : l.array[i].ptr = l.array[j].ptr => i = j
    BY <1>1, <1>8 DEF Fits
  <1>12. Fits(new, heap')
    <2>1. ASSUME NEW i \in 0..(m - 1)
          PROVE  LET n == new.array[i]
                 IN  n.ptr \in Regions /\ n.size = Len(heap'[n.ptr].str) /\ n.size < heap'[n.ptr].cap
      <3>1. CASE i = k
        BY <1>1, <1>4, <1>5, <1>6, <1>7, <1>8, <3>1
      <3>2. CASE i # k
        <4>1. new.array[i] = l.array[i]
          BY <1>1, <1>8, <3>2
        <4>2. l.array[i].ptr # r
          BY <1>1, <1>2, <1>11, <3>2
        <4>3. heap'[l.array[i].ptr] = heap[l.array[i].ptr]
          BY <1>6, <1>10, <4>2
        <4> QED
          BY <1>10, <4>1, <4>3
      <3> QED
        BY <3>1, <3>2
    <2>2. \A i, j \in 0..(m - 1) : new.array[i].ptr = new.array[j].ptr => i = j
      BY <1>9, <1>11
    <2> QED
      BY <1>8, <2>1, <2>2 DEF Fits
  <1>13. Owned(new) = Owned(l)
    BY <1>8, <1>9 DEF Owned
  <1>14. Changes(h, new)
    <2>1. \A q \in Regions : q \in Owned(new) \cup Owned(list[h]) \cup callers \/ heap'[q] = heap[q]
      BY <1>1, <1>4, <1>6
    <2>2. \A q \in callers' : heap'[q].cap > 0 /\ q \notin Owned(new)
      BY <1>1, <1>4, <1>6, <1>13, InvFacts
    <2>3. \A q \in Owned(list[h]) \cup callers : q \in Owned(new) \cup callers' \/ heap'[q].cap = 0
      BY <1>1, <1>13
    <2> QED
      BY <1>1, <1>6, <1>12, <1>13, <2>1, <2>2, <2>3 DEF Changes
  <1>15. ASSUME NEW i \in 1..m
         PROVE  heap'[new.array[i - 1].ptr].str = [StringsOf(l, heap) EXCEPT ![k + 1] = s][i]
    <2>1. StringsOf(l, heap) = [j \in 1..m |-> heap[l.array[j - 1].ptr].str]
      BY <1>2 DEF StringsOf
    <2>2. i - 1 \in 0..(m - 1) /\ (i = k + 1 <=> i - 1 = k)
      BY <1>2
    <2>3. CASE i = k + 1
      <3>1. heap'[new.array[i - 1].ptr].str = s
        BY <1>1, <1>5, <1>6, <1>9, <2>2, <2>3
      <3> QED
        BY <2>1, <2>3, <3>1
    <2>4. CASE i # k + 1
      <3>1. l.array[i - 1].ptr # r
        BY <1>1, <1>2, <1>11, <2>2, <2>4
      <3>2. heap'[new.array[i - 1].ptr].str = heap[l.array[i - 1].ptr].str
        BY <1>6, <1>9, <1>10, <2>2, <3>1
      <3> QED
        BY <2>1, <2>4, <3>2
    <2> QED
      BY <2>3, <2>4
  <1>16. StringsOf(new, heap') = [StringsOf(l, heap) EXCEPT ![k + 1] = s]
    <2>1. StringsOf(new, heap') = [i \in 1..m |-> heap'[new.array[i - 1].ptr].str]
      BY <1>2 DEF StringsOf
    <2>2. DOMAIN StringsOf(l, heap) = 1..m
      BY <1>2 DEF StringsOf
    <2> DEFINE e == [StringsOf(l, heap) EXCEPT ![k + 1] = s]
    <2>3. e = [i \in 1..m |-> e[i]]
      BY <2>2
    <2>4. \A i \in 1..m : heap'[new.array[i - 1].ptr].str = e[i]
      BY <1>15
    <2> HIDE DEF e
    <2>5. StringsOf(new, heap') = e
      BY <2>1, <2>3, <2>4
    <2> QED
      BY <2>5 DEF e
  <1> QED
    <2>1. ListInv' /\ Contents' = [Contents EXCEPT ![h] = StringsOf(new, heap')]
      BY <1>14, OneListChanges
    <2> QED
      BY <1>1, <1>16, <2>1, Zenon DEF Overwritten

\* tf_list_sort: the nodes change places.
LEMMA PermutedStep ==
    ASSUME ListInv, NEW h \in Handles, callers' = callers, heap' = heap,
           NEW p \in [0..(list[h].num - 1) -> 0..(list[h].num - 1)],
           \A i, j \in 0..(list[h].num - 1) : i # j => p[i] # p[j],
           NEW new, IsList(new), new.num = list[h].num, list' = [list EXCEPT ![h] = new],
           Permutes(new.array, list[h].array, list[h].num, p)
    PROVE  /\ ListInv'
           /\ Contents' = [Contents EXCEPT ![h] = Reordered(StringsOf(list[h], heap), list[h].num, p)]
  <1>0. \A i \in 0..(list[h].num - 1) : new.array[i] = list[h].array[p[i]]
    BY Zenon DEF Permutes
  <1> USE <1>0
  <1>1. PICK l : l = list[h] /\ IsList(l) /\ Fits(l, heap)
    BY InvFacts
  <1>2. PICK m \in Nat : m = l.num /\ new.num = m
    BY <1>1, ListParts
  <1>3. heap \in [Regions -> HeapRegions]
    BY InvFacts
  <1>4. 0..(new.num - 1) = 0..(m - 1) /\ 0..(l.num - 1) = 0..(m - 1)
    BY <1>2
  <1>5. p \in [0..(m - 1) -> 0..(m - 1)] /\ \A i \in 0..(m - 1) : new.array[i] = l.array[p[i]]
    BY <1>1, <1>4
  <1>6. \A j \in 0..(m - 1) : \E i \in 0..(m - 1) : p[i] = j
    <2>1. p \in Injection(0..(m - 1), 0..(m - 1))
      BY <1>1, <1>4, <1>5 DEF Injection, IsInjective
    <2>2. IsFiniteSet(0..(m - 1))
      BY FS_Interval
    <2>3. p \in Surjection(0..(m - 1), 0..(m - 1))
      BY <2>1, <2>2, FS_Injection
    <2> QED
      BY <2>3 DEF Surjection
  <1>7. \A i \in 0..(m - 1) :
          /\ l.array[i].ptr \in Regions
          /\ l.array[i].size = Len(heap[l.array[i].ptr].str)
          /\ l.array[i].size < heap[l.array[i].ptr].cap
    BY <1>1, <1>4 DEF Fits
  <1>8. \A i, j \in 0..(m - 1) : l.array[i].ptr = l.array[j].ptr => i = j
    BY <1>1, <1>4 DEF Fits
  <1>9. Fits(new, heap)
    <2>1. \A i \in 0..(m - 1) :
            LET n == new.array[i]
            IN  n.ptr \in Regions /\ n.size = Len(heap[n.ptr].str) /\ n.size < heap[n.ptr].cap
      <3> SUFFICES ASSUME NEW i \in 0..(m - 1)
                   PROVE  LET n == new.array[i]
                          IN  /\ n.ptr \in Regions /\ n.size = Len(heap[n.ptr].str)
                              /\ n.size < heap[n.ptr].cap
        OBVIOUS
      <3>1. PICK j \in 0..(m - 1) : new.array[i] = l.array[j]
        BY <1>5
      <3> QED
        BY <1>7, <3>1
    <2>2. ASSUME NEW i \in 0..(m - 1), NEW j \in 0..(m - 1), new.array[i].ptr = new.array[j].ptr
          PROVE  i = j
      <3>1. p[i] = p[j]
        <4>1. PICK a \in 0..(m - 1), b \in 0..(m - 1) : a = p[i] /\ b = p[j]
          BY <1>5
        <4>2. new.array[i] = l.array[a] /\ new.array[j] = l.array[b]
          BY <1>5, <4>1
        <4> QED
          BY <1>8, <2>2, <4>1, <4>2
      <3> QED
        BY <1>1, <1>4, <3>1
    <2> QED
      BY <1>4, <2>1, <2>2 DEF Fits
  <1>10. Owned(new) = Owned(l)
    <2>1. ASSUME NEW r \in Owned(new) PROVE r \in Owned(l)
      <3>1. PICK i \in 0..(m - 1) : r = new.array[i].ptr
        BY <1>4 DEF Owned
      <3>2. PICK j \in 0..(m - 1) : new.array[i] = l.array[j]
        BY <1>5
      <3> QED
        BY <1>4, <3>1, <3>2 DEF Owned
    <2>2. ASSUME NEW r \in Owned(l) PROVE r \in Owned(new)
      <3>1. PICK j \in 0..(m - 1) : r = l.array[j].ptr
        BY <1>4 DEF Owned
      <3>2. PICK i \in 0..(m - 1) : p[i] = j
        BY <1>6
      <3>3. new.array[i] = l.array[j]
        BY <1>5, <3>2
      <3> QED
        BY <1>4, <3>1, <3>3 DEF Owned
    <2> QED
      BY <2>1, <2>2
  <1>11. Changes(h, new)
    BY <1>1, <1>3, <1>9, <1>10, InvFacts DEF Changes
  <1>12. ASSUME NEW i \in 1..m
         PROVE  heap[new.array[i - 1].ptr].str = StringsOf(l, heap)[p[i - 1] + 1]
    <2>1. i - 1 \in 0..(m - 1)
      BY <1>2
    <2>2. PICK j \in 0..(m - 1) : j = p[i - 1]
      BY <1>5, <2>1
    <2>3. j + 1 \in 1..m /\ (j + 1) - 1 = j
      BY <1>2
    <2>4. StringsOf(l, heap)[j + 1] = heap[l.array[j].ptr].str
      BY <1>2, <2>3 DEF StringsOf
    <2> QED
      BY <1>5, <2>1, <2>2, <2>4
  <1>13. StringsOf(new, heap') = [i \in 1..m |-> StringsOf(l, heap)[p[i - 1] + 1]]
    <2>1. StringsOf(new, heap') = [i \in 1..m |-> heap[new.array[i - 1].ptr].str]
      BY <1>2 DEF StringsOf
    <2> QED
      BY <1>12, <2>1
  <1> QED
    <2>1. ListInv' /\ Contents' = [Contents EXCEPT ![h] = StringsOf(new, heap')]
      BY <1>11, OneListChanges
    <2> QED
      BY <1>1, <1>2, <1>13, <2>1, Zenon DEF Reordered
-----------------------------------------------------------------------------
(* The operations.                                                         *)

LEMMA SetArrayAndNum ==
    ASSUME NEW a, NEW n, NEW s, NEW m, NEW b, NEW k,
           NEW l, l = [array |-> a, anum |-> n, start |-> s, num |-> m]
    PROVE  [l EXCEPT !.array = b, !.num = k] = [array |-> b, anum |-> n, start |-> s, num |-> k]
  <1>1. [[array |-> a, anum |-> n, start |-> s, num |-> m] EXCEPT !.array = b]
           = [array |-> b, anum |-> n, start |-> s, num |-> m]
    OBVIOUS
  <1>2. [[array |-> b, anum |-> n, start |-> s, num |-> m] EXCEPT !.num = k]
           = [array |-> b, anum |-> n, start |-> s, num |-> k]
    OBVIOUS
  <1>3. [l EXCEPT !.array = b] = [array |-> b, anum |-> n, start |-> s, num |-> m]
    BY <1>1, Zenon
  <1>4. [[l EXCEPT !.array = b] EXCEPT !.num = k] = [array |-> b, anum |-> n, start |-> s, num |-> k]
    BY <1>2, <1>3, Zenon
  <1>5. [[l EXCEPT !.array = b] EXCEPT !.num = k] = [l EXCEPT !.array = b, !.num = k]
    OBVIOUS
  <1> QED
    BY <1>4, <1>5, Zenon

LEMMA SetAnumAndArray ==
    ASSUME NEW a, NEW n, NEW s, NEW m, NEW b, NEW c,
           NEW l, l = [array |-> a, anum |-> n, start |-> s, num |-> m]
    PROVE  [l EXCEPT !.anum = c, !.array = b] = [array |-> b, anum |-> c, start |-> s, num |-> m]
  <1>1. [[array |-> a, anum |-> n, start |-> s, num |-> m] EXCEPT !.anum = c]
           = [array |-> a, anum |-> c, start |-> s, num |-> m]
    OBVIOUS
  <1>2. [[array |-> a, anum |-> c, start |-> s, num |-> m] EXCEPT !.array = b]
           = [array |-> b, anum |-> c, start |-> s, num |-> m]
    OBVIOUS
  <1>3. [l EXCEPT !.anum = c] = [array |-> a, anum |-> c, start |-> s, num |-> m]
    BY <1>1, Zenon
  <1>4. [[l EXCEPT !.anum = c] EXCEPT !.array = b] = [array |-> b, anum |-> c, start |-> s, num |-> m]
    BY <1>2, <1>3, Zenon
  <1>5. [[l EXCEPT !.anum = c] EXCEPT !.array = b] = [l EXCEPT !.anum = c, !.array = b]
    OBVIOUS
  <1> QED
    BY <1>4, <1>5, Zenon

\* l with m nodes, those of A.
WithNodes(l, A, m) == [l EXCEPT !.array = A, !.num = m]

LEMMA Reshaped ==
    ASSUME NEW g, IsList(g), NEW A \in [0..(g.anum - 1) -> ListNodes],
           NEW m \in Nat, m <= g.anum, m <= MaxNum, NEW new, new = WithNodes(g, A, m)
    PROVE  IsList(new) /\ new.array = A /\ new.num = m /\ new.anum = g.anum
  <1>1. PICK N \in Nat : N = g.anum
    BY ListParts
  <1>2. PICK a, n : g = [array |-> a, anum |-> N, start |-> 0, num |-> n]
    BY <1>1 DEF IsList
  <1>3. new = [array |-> A, anum |-> N, start |-> 0, num |-> m]
    <2>1. PICK l : l = [g EXCEPT !.array = A, !.num = m]
      OBVIOUS
    <2>2. l = [array |-> A, anum |-> N, start |-> 0, num |-> m]
      BY <1>2, <2>1, SetArrayAndNum, Zenon
    <2> QED
      BY <2>1, <2>2, Zenon DEF WithNodes
  <1>4. m \in 0..N /\ A \in [0..(N - 1) -> ListNodes]
    BY <1>1
  <1>5. new.array = A /\ new.num = m /\ new.anum = N
    BY <1>3
  <1>6. new = [array |-> new.array, anum |-> new.anum, start |-> 0, num |-> new.num]
    BY <1>3, <1>5, Zenon
  <1>7. IsList(new)
    BY <1>4, <1>5, <1>6, Zenon DEF IsList
  <1> QED
    BY <1>1, <1>5, <1>7

LEMMA GrownFacts ==
    ASSUME NEW l, IsList(l), NEW g, g = Grown(l)
    PROVE  /\ IsList(g) /\ g.num = l.num /\ g.num < g.anum /\ g.anum >= l.anum
           /\ \A i \in 0..(l.num - 1) : g.array[i] = l.array[i]
  <1>1. PICK N \in Nat, m \in Nat : N = l.anum /\ m = l.num /\ m <= N /\ m <= MaxNum
    BY ListParts
  <1>2. l.array \in [0..(N - 1) -> ListNodes] /\ l.start = 0
    BY <1>1, ListParts
  <1>3. CASE l.start + l.num >= l.anum
    <2> DEFINE A == [i \in 0..(l.anum + l.num) |-> IF i < l.anum THEN l.array[i] ELSE Garbage]
    <2>1. Garbage \in ListNodes
      BY DEF Garbage, ListNodes
    <2>2. PICK n \in Nat : n = N + m + 1 /\ n - 1 = N + m /\ m <= n /\ m < n
      BY <1>1
    <2>3. A \in [0..(n - 1) -> ListNodes] /\ \A i \in 0..(m - 1) : A[i] = l.array[i]
      BY <1>1, <1>2, <2>1, <2>2
    <2>4. PICK a : l = [array |-> a, anum |-> N, start |-> 0, num |-> m]
      BY <1>1 DEF IsList
    <2>5. g = [l EXCEPT !.anum = n, !.array = A]
      BY <1>1, <1>3, <2>2 DEF Grown
    <2> HIDE DEF A
    <2>6. g = [array |-> A, anum |-> n, start |-> 0, num |-> m]
      BY <2>4, <2>5, SetAnumAndArray, Zenon
    <2>7. IsList(g) /\ g.array = A /\ g.anum = n /\ g.num = m
      <3>1. g.array = A /\ g.num = m /\ g.anum = n
        BY <2>6
      <3>2. g = [array |-> g.array, anum |-> g.anum, start |-> 0, num |-> g.num]
        BY <2>6, <3>1, Zenon
      <3>3. m \in 0..n
        BY <2>2
      <3> QED
        BY <1>1, <2>3, <3>1, <3>2, <3>3, Zenon DEF IsList
    <2> QED
      BY <1>1, <2>2, <2>3, <2>7
  <1>4. CASE ~(l.start + l.num >= l.anum)
    BY <1>1, <1>2, <1>4 DEF Grown
  <1> QED
    BY <1>3, <1>4

\* Updating fields of a list in place is replacing the list.
LEMMA InPlace ==
    ASSUME ListInv, NEW h \in Handles, NEW A, NEW m
    PROVE  [list EXCEPT ![h].num = m, ![h].array = A] = [list EXCEPT ![h] = [list[h] EXCEPT !.array = A, !.num = m]]
  <1>1. DOMAIN list = Handles
    BY DEF ListInv
  <1>2. list[h] = [array |-> list[h].array, anum |-> list[h].anum, start |-> 0, num |-> list[h].num]
    BY DEF ListInv, IsList
  <1> QED
    BY <1>1, <1>2

\* A list that changes stays alive.
LEMMA LiveSame ==
    ASSUME ListInv, NEW h \in Handles, Live(h), NEW new, new.anum \in Nat, new.anum >= list[h].anum,
           list' = [list EXCEPT ![h] = new]
    PROVE  LiveLists' = LiveLists
  <1>1. DOMAIN list = Handles /\ list[h].anum \in Nat
    BY ListParts DEF ListInv
  <1> QED
    BY <1>1 DEF LiveLists, Live
-----------------------------------------------------------------------------
(* Several allocations in one call return different free regions.          *)

LEMMA LeastOf ==
    ASSUME NEW S, S \subseteq Nat, S # {}
    PROVE  \E x \in S : \A y \in S : x <= y
  <1>1. PICK x \in S : \A y \in S : ~(<<y, x>> \in OpToRel(<, Nat))
    BY NatLessThanWellFounded, WFMin
  <1>2. \A y \in S : ~(y < x)
    BY <1>1 DEF OpToRel
  <1> QED
    BY <1>2

\* A finite set of n numbers has a smallest, a next one, ... and an n-th one.
LEMMA EveryRank ==
    ASSUME NEW S, S \subseteq Nat, IsFiniteSet(S), NEW k \in Nat, k < Cardinality(S)
    PROVE  \E r \in S : Cardinality({q \in S : q < r}) = k
  <1> DEFINE below(r) == {q \in S : q < r}
             has(n) == \E r \in S : Cardinality(below(r)) = n
             lacks == {n \in Nat : n < Cardinality(S) /\ ~has(n)}
  <1>1. SUFFICES ASSUME ~has(k) PROVE FALSE
    OBVIOUS
  <1> HIDE DEF has
  <1>0. lacks # {}
    BY <1>1
  <1>2. PICK b \in lacks : \A n \in lacks : b <= n
    BY <1>0, LeastOf
  <1>3. b \in Nat /\ b < Cardinality(S) /\ ~has(b) /\ Cardinality(S) \in Nat
    BY <1>2, FS_CardinalityType
  <1>4. CASE b = 0
    <2>1. S # {}
      BY <1>3, <1>4, FS_EmptySet
    <2>2. PICK x \in S : \A y \in S : x <= y
      BY <2>1, LeastOf
    <2>3. below(x) = {}
      <3>1. \A q \in S : ~(q < x)
        BY <2>2
      <3> QED
        BY <3>1
    <2>4. Cardinality(below(x)) = b
      BY <1>4, <2>3, FS_EmptySet
    <2> QED
      BY <1>3, <2>2, <2>4, Zenon DEF has
  <1>5. CASE b # 0
    <2>1. PICK j \in Nat : b = j + 1
      BY <1>3, <1>5
    <2>2. j < Cardinality(S) /\ j \notin lacks
      BY <1>2, <1>3, <2>1
    <2>3. PICK r \in S : Cardinality(below(r)) = j
      <3>1. has(j)
        BY <2>2
      <3> QED
        BY <3>1, Zenon DEF has
    <2> DEFINE upto == below(r) \cup {r}
               above == {q \in S : q > r}
    <2>4. IsFiniteSet(below(r)) /\ r \notin below(r)
      BY FS_Subset
    <2>5. IsFiniteSet(upto) /\ Cardinality(upto) = b
      BY <2>1, <2>3, <2>4, FS_AddElement
    <2>6. above # {}
      <3>1. SUFFICES ASSUME above = {} PROVE FALSE
        OBVIOUS
      <3>2. \A q \in S : ~(q > r)
        BY <3>1
      <3>3. \A q \in S : q \in upto
        BY <3>2
      <3>4. S = upto
        BY <3>3
      <3> QED
        BY <1>3, <2>5, <3>4
    <2>7. PICK t \in above : \A y \in above : t <= y
      BY <2>6, LeastOf
    <2>8. below(t) = upto
      <3>1. \A q \in S : q < t <=> q < r \/ q = r
        BY <2>7
      <3> QED
        BY <3>1, Zenon
    <2>9. t \in S /\ Cardinality(below(t)) = b
      BY <2>5, <2>7, <2>8
    <2> QED
      BY <1>3, <2>9, Zenon DEF has
  <1> QED
    BY <1>4, <1>5

LEMMA FreeFinite == ASSUME ListInv PROVE IsFiniteSet(Free) /\ Cardinality(Free) \in Nat /\ Free \subseteq Nat \ {0}
  <1>1. Free \subseteq Regions /\ IsFiniteSet(Regions) /\ Regions \subseteq Nat \ {0}
    BY ListAssumption DEF Free
  <1>2. IsFiniteSet(Free)
    BY <1>1, FS_Subset
  <1> QED
    BY <1>1, <1>2, FS_CardinalityType

LEMMA FreshFacts ==
    ASSUME ListInv, NEW k \in Nat, k < Cardinality(Free)
    PROVE  Fresh(k + 1) \in Free /\ Cardinality({q \in Free : q < Fresh(k + 1)}) = k
  <1>1. \E r \in Free : Cardinality({q \in Free : q < r}) = k
    BY FreeFinite, EveryRank
  <1>2. k = (k + 1) - 1
    OBVIOUS
  <1>3. Fresh(k + 1) = CHOOSE r \in Free : Cardinality({q \in Free : q < r}) = k
    BY <1>2 DEF Fresh
  <1> QED
    BY <1>1, <1>3, Zenon

LEMMA FirstFresh ==
    ASSUME ListInv, Free # {}
    PROVE  Fresh(1) \in Free
  <1>1. Cardinality(Free) \in Nat /\ Cardinality(Free) # 0
    BY FreeFinite, FS_EmptySet
  <1>2. PICK k \in Nat : k = 0 /\ k < Cardinality(Free) /\ k + 1 = 1
    BY <1>1
  <1>3. Fresh(k + 1) \in Free
    BY <1>2, FreshFacts
  <1> QED
    BY <1>2, <1>3
-----------------------------------------------------------------------------
(* Each operation keeps the invariant and does what StringLists says.      *)

LEMMA Held ==
    ASSUME ListInv, NEW h \in Handles
    PROVE  /\ Contents[h] = StringsOf(list[h], heap) /\ Contents[h] \in Seq(Seq(Nat))
           /\ Len(Contents[h]) = list[h].num
           /\ \A i \in 0..(list[h].num - 1) : At(list[h], i) = Contents[h][i + 1]
           /\ DOMAIN Contents = Handles /\ Contents = [Contents EXCEPT ![h] = Contents[h]]
  <1>1. IsList(list[h]) /\ Fits(list[h], heap) /\ heap \in [Regions -> HeapRegions]
    BY InvFacts
  <1>2. Contents[h] = StringsOf(list[h], heap)
    BY ContentsNow
  <1>3. Contents[h] \in Seq(Seq(Nat)) /\ Len(Contents[h]) = list[h].num
    BY <1>1, <1>2, StringsOfSeq
  <1>4. ASSUME NEW i \in 0..(list[h].num - 1)
        PROVE  At(list[h], i) = Contents[h][i + 1]
    <2>1. list[h].num \in Nat
      BY <1>1, ListParts
    <2>2. i + 1 \in 1..list[h].num /\ (i + 1) - 1 = i
      BY <2>1
    <2> QED
      BY <2>2 DEF Contents
  <1>5. DOMAIN Contents = Handles /\ Contents = [Contents EXCEPT ![h] = Contents[h]]
    BY DEF Contents
  <1> QED
    BY <1>2, <1>3, <1>4, <1>5

LEMMA NewStep ==
    ASSUME ListInv, NEW h \in Handles, tf_list_new(h) \/ tf_list_new2(h, 0)
    PROVE  ListInv' /\ Lists!Create(h)
  <1>1. PICK n \in Nat \ {0} :
           /\ ~Live(h) /\ list' = [list EXCEPT ![h] = EmptyList(n)]
           /\ heap' = heap /\ callers' = callers /\ ret' = <<>>
    <2>1. CASE tf_list_new(h)
      BY <2>1, ListAssumption DEF tf_list_new
    <2>2. CASE tf_list_new2(h, 0)
      <3>1. PICK n \in Nat \ {0} : n = IF 0 < 1 THEN 1 ELSE 0
        OBVIOUS
      <3>2. list' = [list EXCEPT ![h] = EmptyList(n)]
        BY <2>2, <3>1, Zenon DEF tf_list_new2
      <3> QED
        BY <2>2, <3>2 DEF tf_list_new2
    <2> QED
      BY <2>1, <2>2
  <1>2. ListInv' /\ Contents' = Contents /\ LiveLists' = LiveLists \cup {h}
    BY <1>1, CreateStep
  <1>3. h \notin LiveLists
    BY <1>1 DEF LiveLists
  <1> QED
    BY <1>1, <1>2, <1>3, Zenon DEF Lists!Create

LEMMA DelStep ==
    ASSUME ListInv, NEW h \in Handles, tf_list_del(h)
    PROVE  ListInv' /\ Lists!Delete(h)
  <1>1. /\ Live(h) /\ FreeElements(list[h]) /\ callers' = callers /\ ret' = <<>>
        /\ list' = [list EXCEPT ![h] = NoList]
    BY DEF tf_list_del
  <1>2. IsList(NoList) /\ NoList.num = 0 /\ NoList.anum = 0
    BY EmptyListFacts, ListAssumption
  <1>3. ListInv' /\ Contents' = [Contents EXCEPT ![h] = <<>>]
    BY <1>1, <1>2, EmptiedStep
  <1>4. h \in LiveLists
    BY <1>1 DEF LiveLists
  <1>5. LiveLists' = LiveLists \ {h}
    <2>1. DOMAIN list = Handles
      BY InvFacts
    <2> QED
      BY <1>1, <1>2, <2>1 DEF LiveLists, Live
  <1> QED
    BY <1>1, <1>3, <1>4, <1>5, Zenon DEF Lists!Delete

\* The step of an operation on list h that leaves it alive.
LEMMA BecomesStep ==
    ASSUME ListInv, NEW h \in Handles, Live(h), NEW s, NEW x, ret' = x, Contents' = [Contents EXCEPT ![h] = s],
           NEW new, list' = [list EXCEPT ![h] = new], new.anum \in Nat, new.anum >= list[h].anum
    PROVE  Lists!Becomes(h, s, x)
  <1>1. h \in LiveLists
    BY DEF LiveLists
  <1>2. LiveLists' = LiveLists
    BY LiveSame
  <1> QED
    BY <1>1, <1>2, Zenon DEF Lists!Becomes

LEMMA ClearStep ==
    ASSUME ListInv, NEW h \in Handles, tf_list_clear(h)
    PROVE  ListInv' /\ Lists!Clear(h)
  <1>1. PICK N \in Nat : N = list[h].anum
    BY InvFacts, ListParts
  <1>2. PICK new : new = EmptyList(N)
    OBVIOUS
  <1>3. /\ Live(h) /\ FreeElements(list[h]) /\ callers' = callers /\ ret' = <<>>
        /\ list' = [list EXCEPT ![h] = new]
    BY <1>1, <1>2, Zenon DEF tf_list_clear
  <1>4. N # 0 /\ N >= list[h].anum
    BY <1>1, <1>3 DEF Live
  <1>5. IsList(new) /\ new.num = 0 /\ new.anum = N
    BY <1>2, <1>4, EmptyListFacts
  <1>6. ListInv' /\ Contents' = [Contents EXCEPT ![h] = <<>>]
    BY <1>3, <1>5, EmptiedStep
  <1>7. Lists!Becomes(h, <<>>, <<>>)
    BY <1>3, <1>4, <1>5, <1>6, BecomesStep
  <1> QED
    BY <1>6, <1>7 DEF Lists!Clear

LEMMA SameLists ==
    ASSUME ListInv, list' = list, heap' = heap, callers' = callers
    PROVE  ListInv' /\ Contents' = Contents /\ LiveLists' = LiveLists
  <1>1. ListInv'
    BY DEF ListInv
  <1>2. Contents' = Contents
    <2>1. \A h \in Handles : StringsOf(list'[h], heap') = StringsOf(list[h], heap)
      BY Zenon
    <2> QED
      BY <1>1, <2>1, ContentsNow, ContentsThen
  <1>3. LiveLists' = LiveLists
    BY Zenon DEF LiveLists, Live
  <1> QED
    BY <1>1, <1>2, <1>3

\* tf_list_val, and the calls that return at once.
LEMMA ValStep ==
    ASSUME ListInv, NEW h \in Handles, NEW index \in 0..MaxNum, tf_list_val(h, index) \/ OutOfRange(h, index)
    PROVE  ListInv' /\ \E i \in 0..(Len(Contents[h]) + 1) : Lists!Val(h, i)
  <1>1. /\ Live(h) /\ list' = list /\ heap' = heap /\ callers' = callers
        /\ ret' = IF index >= list[h].num THEN <<>> ELSE <<At(list[h], index)>>
    BY DEF tf_list_val, OutOfRange
  <1>2. ListInv' /\ Contents' = Contents /\ LiveLists' = LiveLists
    BY <1>1, SameLists
  <1>3. PICK n \in Nat : n = list[h].num /\ n = Len(Contents[h])
    BY Held, InvFacts, ListParts
  <1>4. h \in LiveLists /\ Contents' = [Contents EXCEPT ![h] = Contents[h]]
    BY <1>1, <1>2, Held DEF LiveLists
  <1>5. PICK i \in 0..(n + 1) : ret' = IF i < n THEN <<Contents[h][i + 1]>> ELSE <<>>
    <2>0. index \in Nat
      BY ListAssumption
    <2>1. CASE index >= n
      <3>1. ret' = <<>>
        BY <1>1, <1>3, <2>1
      <3>2. n \in 0..(n + 1) /\ ~(n < n)
        OBVIOUS
      <3> QED
        BY <3>1, <3>2, Zenon
    <2>2. CASE index < n
      <3>1. index \in 0..(n - 1) /\ index \in 0..(n + 1) /\ ~(index >= n)
        BY <2>0, <2>2
      <3>2. At(list[h], index) = Contents[h][index + 1]
        BY <1>3, <3>1, Held
      <3>3. ret' = <<Contents[h][index + 1]>>
        BY <1>1, <1>3, <3>1, <3>2, Zenon
      <3> QED
        BY <2>2, <3>1, <3>3, Zenon
    <2> QED
      BY <2>0, <2>1, <2>2
  <1>6. Lists!Becomes(h, Contents[h], IF i < n THEN <<Contents[h][i + 1]>> ELSE <<>>)
    BY <1>2, <1>4, <1>5, Zenon DEF Lists!Becomes
  <1>7. Lists!Val(h, i)
    BY <1>3, <1>6, Zenon DEF Lists!Val
  <1> QED
    BY <1>2, <1>3, <1>5, <1>7

\* Appending is inserting at the end.
LEMMA AppendIs ==
    ASSUME NEW S, NEW s \in Seq(S), NEW x \in S
    PROVE  Append(s, x) = Lists!InsertedAt(s, Len(s), x)
  <1>1. PICK n \in Nat : n = Len(s)
    OBVIOUS
  <1>2. Lists!InsertedAt(s, n, x)
           = [i \in 1..(n + 1) |-> IF i <= n THEN s[i] ELSE IF i = n + 1 THEN x ELSE s[i - 1]]
    BY <1>1, InsertedAtIs
  <1>3. PICK v : v = Append(s, x)
    OBVIOUS
  <1>4. /\ v \in Seq(S) /\ Len(v) = n + 1
        /\ \A i \in 1..(n + 1) : v[i] = IF i <= n THEN s[i] ELSE x
    BY <1>1, <1>3
  <1>5. v = [i \in 1..(n + 1) |-> v[i]]
    BY <1>4, SeqIsFunction
  <1>6. \A i \in 1..(n + 1) : v[i] = IF i <= n THEN s[i] ELSE IF i = n + 1 THEN x ELSE s[i - 1]
    BY <1>4
  <1> QED
    BY <1>1, <1>2, <1>3, <1>5, <1>6

\* What push and insert have in common: array is that of the grown list with
\* a node for s at place k.
LEMMA StoredStep ==
    ASSUME ListInv, NEW h \in Handles, Live(h), NEW k \in 0..list[h].num, NEW s \in Strings,
           NEW g, g = Grown(list[h]), g.num < MaxNum, Free # {}, callers' = callers, ret' = <<>>,
           heap' = [heap EXCEPT ![Fresh(1)] = Region(s)],
           NEW new, IsList(new), new.num = g.num + 1, new.anum = g.anum, list' = [list EXCEPT ![h] = new],
           Inserts(new.array, g.array, g.num, k, NodeFor(Fresh(1), s))
    PROVE  ListInv' /\ Lists!Becomes(h, Lists!InsertedAt(Contents[h], k, s), <<>>)
  <1>1. /\ IsList(g) /\ g.num = list[h].num /\ g.num < g.anum
        /\ \A i \in 0..(list[h].num - 1) : g.array[i] = list[h].array[i]
    <2>1. IsList(list[h])
      BY InvFacts
    <2> QED
      BY <2>1, GrownFacts
  <1>2. PICK m \in Nat, n \in Nat : m = list[h].num /\ g.num = m /\ n = g.anum /\ m < n
    BY <1>1, ListParts
  <1>5. PICK r \in Free : r = Fresh(1)
    BY FirstFresh
  <1>6. s \in Seq(Nat)
    BY ListAssumption
  <1>7. \A i \in 0..m : new.array[i] = IF i < k THEN list[h].array[i]
                                       ELSE IF i = k THEN NodeFor(r, s) ELSE list[h].array[i - 1]
    <2> SUFFICES ASSUME NEW i \in 0..m
                 PROVE  new.array[i] = IF i < k THEN list[h].array[i]
                                       ELSE IF i = k THEN NodeFor(r, s) ELSE list[h].array[i - 1]
      OBVIOUS
    <2>1. new.array[i] = IF i < k THEN g.array[i] ELSE IF i = k THEN NodeFor(r, s) ELSE g.array[i - 1]
      BY <1>2, <1>5, Zenon DEF Inserts
    <2>2. (i < k => i \in 0..(m - 1)) /\ (~(i < k) /\ i # k => i - 1 \in 0..(m - 1))
      BY <1>2
    <2> QED
      BY <1>1, <1>2, <2>1, <2>2, Zenon
  <1>8. ListInv' /\ Contents' = [Contents EXCEPT ![h] = Lists!InsertedAt(StringsOf(list[h], heap), k, s)]
    <2>1. heap' = [heap EXCEPT ![r] = Region(s)] /\ new.num = list[h].num + 1
      BY <1>2, <1>5, Zenon
    <2>2. Inserts(new.array, list[h].array, list[h].num, k, NodeFor(r, s))
      BY <1>2, <1>7, Zenon DEF Inserts
    <2>4. ListInv'
      BY <1>6, <2>1, <2>2, InsertedStep
    <2>5. Contents' = [Contents EXCEPT ![h] = Lists!InsertedAt(StringsOf(list[h], heap), k, s)]
      BY <1>6, <2>1, <2>2, InsertedStep
    <2> QED
      BY <2>4, <2>5
  <1>9. Contents[h] = StringsOf(list[h], heap)
    BY Held
  <1>10. new.anum \in Nat /\ new.anum >= list[h].anum
    BY <1>2, GrownFacts, InvFacts
  <1>11. Contents' = [Contents EXCEPT ![h] = Lists!InsertedAt(Contents[h], k, s)]
    BY <1>8, <1>9, Zenon
  <1> QED
    BY <1>8, <1>10, <1>11, BecomesStep, Zenon

LEMMA NodeType ==
    ASSUME ListInv, Free # {}, NEW s \in Strings
    PROVE  NodeFor(Fresh(1), s) \in ListNodes
  <1>1. Fresh(1) \in Nat
    BY FirstFresh, FreeFinite
  <1>2. s \in Seq(Nat)
    BY ListAssumption
  <1>3. Len(s) \in Nat
    BY <1>2
  <1> QED
    BY <1>1, <1>3 DEF NodeFor, ListNodes

\* The grown list with one node more.
LEMMA OneMore ==
    ASSUME ListInv, NEW h \in Handles, NEW g, g = Grown(list[h]), g.num < MaxNum,
           NEW A \in [0..(g.anum - 1) -> ListNodes], NEW new, new = WithNodes(g, A, g.num + 1)
    PROVE  IsList(new) /\ new.array = A /\ new.num = g.num + 1 /\ new.anum = g.anum
  <1>1. IsList(list[h])
    BY InvFacts
  <1>2. IsList(g) /\ g.num < g.anum
    BY <1>1, GrownFacts
  <1>3. PICK m \in Nat : m = g.num + 1 /\ m <= g.anum /\ m <= MaxNum
    BY <1>2, ListParts, ListAssumption
  <1>4. IsList(new) /\ new.array = A /\ new.num = m /\ new.anum = g.anum
    BY <1>2, <1>3, Reshaped
  <1> QED
    BY <1>3, <1>4

LEMMA PushStep ==
    ASSUME ListInv, NEW h \in Handles, NEW s \in Strings, tf_list_push(h, s)
    PROVE  ListInv' /\ Lists!Push(h, s)
  <1>1. PICK g : g = Grown(list[h])
    OBVIOUS
  <1>2. PICK new : new = [g EXCEPT !.array[g.start + g.num] = NodeFor(Fresh(1), s), !.num = @ + 1]
    OBVIOUS
  <1>3. /\ Live(h) /\ g.num < MaxNum /\ Free # {} /\ callers' = callers /\ ret' = <<>>
        /\ heap' = [heap EXCEPT ![Fresh(1)] = Region(s)] /\ list' = [list EXCEPT ![h] = new]
    BY <1>1, <1>2, Zenon DEF tf_list_push
  <1>4. IsList(g) /\ g.num < g.anum /\ g.num = list[h].num
    BY <1>1, GrownFacts, InvFacts
  <1>5. PICK k \in 0..list[h].num : k = g.num /\ k = g.start + g.num /\ k \in 0..(g.anum - 1)
    BY <1>4, ListParts
  <1>6. PICK A : A = [g.array EXCEPT ![k] = NodeFor(Fresh(1), s)]
    OBVIOUS
  <1>7. A \in [0..(g.anum - 1) -> ListNodes]
    <2>1. g.array \in [0..(g.anum - 1) -> ListNodes]
      BY <1>4, ListParts
    <2>2. NodeFor(Fresh(1), s) \in ListNodes
      BY <1>3, NodeType
    <2> QED
      BY <1>5, <1>6, <2>1, <2>2
  <1>8. Inserts(A, g.array, g.num, k, NodeFor(Fresh(1), s))
    <2>1. DOMAIN g.array = 0..(g.anum - 1)
      BY <1>4, ListParts
    <2> QED
      BY <1>4, <1>5, <1>6, <2>1, ListParts DEF Inserts
  <1>9. new = WithNodes(g, A, g.num + 1)
    <2>1. new = [g EXCEPT !.array[k] = NodeFor(Fresh(1), s), !.num = @ + 1]
      BY <1>2, <1>5, Zenon
    <2>2. [g EXCEPT !.array[k] = NodeFor(Fresh(1), s), !.num = @ + 1]
             = [g EXCEPT !.array = [g.array EXCEPT ![k] = NodeFor(Fresh(1), s)], !.num = g.num + 1]
      OBVIOUS
    <2> QED
      BY <1>6, <2>1, <2>2, Zenon DEF WithNodes
  <1>10. /\ IsList(new) /\ new.num = g.num + 1 /\ new.anum = g.anum
         /\ Inserts(new.array, g.array, g.num, k, NodeFor(Fresh(1), s))
    <2>1. IsList(new) /\ new.array = A /\ new.num = g.num + 1 /\ new.anum = g.anum
      BY <1>1, <1>3, <1>7, <1>9, OneMore
    <2> QED
      BY <1>8, <2>1, Zenon
  <1>11. ListInv'
    BY <1>1, <1>3, <1>5, <1>10, StoredStep
  <1>12. Lists!Becomes(h, Lists!InsertedAt(Contents[h], k, s), <<>>)
    BY <1>1, <1>3, <1>5, <1>10, StoredStep
  <1>13. Append(Contents[h], s) = Lists!InsertedAt(Contents[h], k, s)
    <2>1. s \in Seq(Nat) /\ Contents[h] \in Seq(Seq(Nat)) /\ k = Len(Contents[h])
      BY <1>4, <1>5, Held, ListAssumption
    <2> QED
      BY <2>1, AppendIs
  <1> QED
    BY <1>11, <1>12, <1>13, Zenon DEF Lists!Push

\* memmove makes room at place k, and the node is stored there.
LEMMA MovedUp ==
    ASSUME NEW a, NEW n \in Nat, NEW N \in Nat, n < N, a \in [0..(N - 1) -> ListNodes],
           NEW k \in 0..n, NEW x \in ListNodes, NEW A, A = [Moved(a, k + 1, k, n - k) EXCEPT ![k] = x]
    PROVE  A \in [0..(N - 1) -> ListNodes] /\ Inserts(A, a, n, k, x)
  <1>1. PICK b : b = Moved(a, k + 1, k, n - k)
    OBVIOUS
  <1>2. /\ b \in [0..(N - 1) -> ListNodes]
        /\ \A i \in 0..(N - 1) : b[i] = IF i \in (k + 1)..n THEN a[i - 1] ELSE a[i]
    <2>1. (k + 1) + (n - k) - 1 = n /\ k \in Nat
      OBVIOUS
    <2>2. \A i \in 0..(N - 1) : (i - (k + 1) + k = i - 1) /\ (i \in (k + 1)..n => i - 1 \in 0..(N - 1))
      OBVIOUS
    <2>3. b = [i \in 0..(N - 1) |-> IF i \in (k + 1)..n THEN a[i - (k + 1) + k] ELSE a[i]]
      BY <1>1, <2>1 DEF Moved
    <2>4. \A i \in 0..(N - 1) : b[i] = IF i \in (k + 1)..n THEN a[i - 1] ELSE a[i]
      BY <2>2, <2>3
    <2>5. \A i \in 0..(N - 1) : b[i] \in ListNodes
      BY <2>2, <2>4
    <2> QED
      BY <2>3, <2>4, <2>5
  <1>3. k \in 0..(N - 1) /\ k \in Nat
    OBVIOUS
  <1>4. A = [b EXCEPT ![k] = x]
    BY <1>1, Zenon
  <1>5. A \in [0..(N - 1) -> ListNodes]
    BY <1>2, <1>4
  <1>6. \A i \in 0..(N - 1) : A[i] = IF i = k THEN x ELSE b[i]
    BY <1>2, <1>4
  <1>7. \A i \in 0..n : A[i] = IF i < k THEN a[i] ELSE IF i = k THEN x ELSE a[i - 1]
    BY <1>2, <1>3, <1>6
  <1> QED
    BY <1>5, <1>7 DEF Inserts

\* memmove closes the gap at place k, and the place that falls free is cleared.
LEMMA MovedDown ==
    ASSUME NEW a, NEW n \in Nat, NEW N \in Nat, n <= N, a \in [0..(N - 1) -> ListNodes],
           NEW k \in 0..(n - 1), NEW A, A = [Moved(a, k, k + 1, n - 1 - k) EXCEPT ![n - 1] = Garbage]
    PROVE  A \in [0..(N - 1) -> ListNodes] /\ Removes(A, a, n, k)
  <1>1. PICK b : b = Moved(a, k, k + 1, n - 1 - k)
    OBVIOUS
  <1>2. /\ b \in [0..(N - 1) -> ListNodes]
        /\ \A i \in 0..(N - 1) : b[i] = IF i \in k..(n - 2) THEN a[i + 1] ELSE a[i]
    <2>1. k + (n - 1 - k) - 1 = n - 2 /\ k \in Nat
      OBVIOUS
    <2>2. \A i \in 0..(N - 1) : (i - k + (k + 1) = i + 1) /\ (i \in k..(n - 2) => i + 1 \in 0..(N - 1))
      OBVIOUS
    <2>3. b = [i \in 0..(N - 1) |-> IF i \in k..(n - 2) THEN a[i - k + (k + 1)] ELSE a[i]]
      BY <1>1, <2>1 DEF Moved
    <2>4. \A i \in 0..(N - 1) : b[i] = IF i \in k..(n - 2) THEN a[i + 1] ELSE a[i]
      BY <2>2, <2>3
    <2>5. \A i \in 0..(N - 1) : b[i] \in ListNodes
      BY <2>2, <2>4
    <2> QED
      BY <2>3, <2>4, <2>5
  <1>3. n - 1 \in 0..(N - 1) /\ k \in Nat
    OBVIOUS
  <1>4. A = [b EXCEPT ![n - 1] = Garbage]
    BY <1>1, Zenon
  <1>5. A \in [0..(N - 1) -> ListNodes]
    <2>1. Garbage \in ListNodes
      BY DEF Garbage, ListNodes
    <2> QED
      BY <1>2, <1>4, <2>1
  <1>6. \A i \in 0..(N - 1) : A[i] = IF i = n - 1 THEN Garbage ELSE b[i]
    BY <1>2, <1>4
  <1>7. \A i \in 0..(n - 2) : A[i] = a[IF i < k THEN i ELSE i + 1]
    BY <1>2, <1>3, <1>6
  <1> QED
    BY <1>5, <1>7 DEF Removes

LEMMA InsertStep ==
    ASSUME ListInv, NEW h \in Handles, NEW index \in 0..MaxNum, NEW s \in Strings, tf_list_insert(h, index, s)
    PROVE  ListInv' /\ index \in 0..(Len(Contents[h]) + 1) /\ Lists!Insert(h, index, s)
  <1>1. PICK g : g = Grown(list[h])
    OBVIOUS
  <1>2. PICK x : x = NodeFor(Fresh(1), s)
    OBVIOUS
  <1>3. IsList(g) /\ g.num < g.anum /\ g.num = list[h].num /\ g.start = 0
    BY <1>1, GrownFacts, InvFacts, ListParts
  <1>4. PICK n \in Nat, N \in Nat : n = g.num /\ N = g.anum /\ n < N /\ g.array \in [0..(N - 1) -> ListNodes]
    BY <1>3, ListParts
  <1>5. PICK k \in Nat : k = index /\ k = index + g.start /\ g.start + g.num - k = n - k
    BY <1>3, <1>4, ListAssumption
  <1>6. PICK A : A = [Moved(g.array, k + 1, k, n - k) EXCEPT ![k] = x]
    OBVIOUS
  <1>7. PICK new : new = WithNodes(g, A, g.num + 1)
    OBVIOUS
  <1>8. /\ Live(h) /\ index <= g.num /\ g.num < MaxNum /\ Free # {} /\ callers' = callers /\ ret' = <<>>
        /\ heap' = [heap EXCEPT ![Fresh(1)] = Region(s)]
    BY <1>1 DEF tf_list_insert
  <1>9. list' = [list EXCEPT ![h] = new]
    <2>1. list' = [list EXCEPT ![h] =
                      [g EXCEPT !.array = [Moved(@, k + 1, k, n - k) EXCEPT ![k] = x], !.num = @ + 1]]
      BY <1>1, <1>2, <1>5, Zenon DEF tf_list_insert
    <2>2. [g EXCEPT !.array = [Moved(@, k + 1, k, n - k) EXCEPT ![k] = x], !.num = @ + 1]
             = [g EXCEPT !.array = [Moved(g.array, k + 1, k, n - k) EXCEPT ![k] = x], !.num = g.num + 1]
      OBVIOUS
    <2> QED
      BY <1>6, <1>7, <2>1, <2>2, Zenon DEF WithNodes
  <1>10. A \in [0..(g.anum - 1) -> ListNodes] /\ Inserts(A, g.array, g.num, k, x)
    <2>1. x \in ListNodes
      BY <1>2, <1>8, NodeType
    <2>2. k \in 0..n
      BY <1>4, <1>5, <1>8
    <2> QED
      BY <1>4, <1>6, <2>1, <2>2, MovedUp
  <1>11. IsList(new) /\ new.array = A /\ new.num = g.num + 1 /\ new.anum = g.anum
    BY <1>1, <1>7, <1>8, <1>10, OneMore
  <1>12. Inserts(new.array, g.array, g.num, k, NodeFor(Fresh(1), s)) /\ k \in 0..list[h].num
    BY <1>2, <1>3, <1>4, <1>5, <1>8, <1>10, <1>11
  <1>13. ListInv'
    BY <1>1, <1>8, <1>9, <1>11, <1>12, StoredStep
  <1>14. Lists!Becomes(h, Lists!InsertedAt(Contents[h], k, s), <<>>)
    BY <1>1, <1>8, <1>9, <1>11, <1>12, StoredStep
  <1>15. k <= Len(Contents[h]) /\ k \in 0..(Len(Contents[h]) + 1)
    BY <1>3, <1>4, <1>12, Held
  <1> QED
    BY <1>5, <1>13, <1>14, <1>15, Zenon DEF Lists!Insert

\* What pop and remove have in common: node k goes to the caller.
LEMMA TakenStep ==
    ASSUME ListInv, NEW h \in Handles, Live(h), NEW k \in 0..(list[h].num - 1), heap' = heap,
           callers' = callers \cup {list[h].array[k].ptr}, ret' = <<String(list[h].array[k])>>,
           NEW A \in [0..(list[h].anum - 1) -> ListNodes], Removes(A, list[h].array, list[h].num, k),
           list' = [list EXCEPT ![h] = WithNodes(list[h], A, list[h].num - 1)]
    PROVE  ListInv' /\ k \in 0..(Len(Contents[h]) + 1) /\ k < Len(Contents[h]) /\ Lists!Remove(h, k)
  <1>1. IsList(list[h])
    BY InvFacts
  <1>2. PICK n \in Nat : n = list[h].num /\ n <= list[h].anum /\ n <= MaxNum /\ n = Len(Contents[h])
    BY <1>1, ListParts, Held
  <1>3. PICK m \in Nat : m = n - 1 /\ m <= list[h].anum /\ m <= MaxNum
    BY <1>1, <1>2, ListParts, ListAssumption
  <1>4. PICK new : new = WithNodes(list[h], A, m) /\ list' = [list EXCEPT ![h] = new]
    BY <1>2, <1>3, Zenon
  <1>5. IsList(new) /\ new.array = A /\ new.num = m /\ new.anum = list[h].anum
    BY <1>1, <1>3, <1>4, Reshaped
  <1>6. new.num = list[h].num - 1 /\ Removes(new.array, list[h].array, list[h].num, k)
    BY <1>2, <1>3, <1>5, Zenon
  <1>7. ListInv'
    BY <1>4, <1>5, <1>6, RemovedStep
  <1>8. Contents' = [Contents EXCEPT ![h] = Lists!RemovedAt(Contents[h], k)]
    <2>1. Contents' = [Contents EXCEPT ![h] = Lists!RemovedAt(StringsOf(list[h], heap), k)]
      BY <1>4, <1>5, <1>6, RemovedStep
    <2> QED
      BY <2>1, Held, Zenon
  <1>9. new.anum \in Nat /\ new.anum >= list[h].anum
    BY <1>1, <1>5, ListParts
  <1>10. ret' = <<Contents[h][k + 1]>>
    <2>1. At(list[h], k) = Contents[h][k + 1]
      BY Held
    <2>2. list[h].start + k = k
      BY <1>1, ListParts
    <2> QED
      BY <2>1, <2>2, Zenon DEF At
  <1>11. Lists!Becomes(h, Lists!RemovedAt(Contents[h], k), <<Contents[h][k + 1]>>)
    BY <1>4, <1>8, <1>9, <1>10, BecomesStep
  <1>12. k < Len(Contents[h]) /\ k \in 0..(Len(Contents[h]) + 1)
    BY <1>2
  <1> QED
    BY <1>7, <1>11, <1>12, Zenon DEF Lists!Remove

LEMMA RemoveStep ==
    ASSUME ListInv, NEW h \in Handles, NEW index \in 0..MaxNum, tf_list_remove(h, index)
    PROVE  ListInv' /\ index \in 0..(Len(Contents[h]) + 1) /\ Lists!Remove(h, index)
  <1>1. IsList(list[h]) /\ list[h].start = 0
    BY InvFacts, ListParts
  <1>2. PICK n \in Nat, N \in Nat : /\ n = list[h].num /\ N = list[h].anum /\ n <= N
                                    /\ list[h].array \in [0..(N - 1) -> ListNodes]
    BY <1>1, ListParts
  <1>3. index < list[h].num
    BY DEF tf_list_remove
  <1>4. PICK k \in 0..(n - 1) : /\ k = index /\ k = index + list[h].start
                                /\ list[h].start + list[h].num - 1 = n - 1
    BY <1>1, <1>2, <1>3, ListAssumption
  <1>5. /\ Live(h) /\ heap' = heap /\ callers' = callers \cup {list[h].array[k].ptr}
        /\ ret' = <<String(list[h].array[k])>>
        /\ list' = [list EXCEPT ![h].num = @ - 1,
                                ![h].array = [Moved(@, k, k + 1, n - 1 - k) EXCEPT ![n - 1] = Garbage]]
    BY <1>4, Zenon DEF tf_list_remove
  <1>6. PICK A : A = [Moved(list[h].array, k, k + 1, n - 1 - k) EXCEPT ![n - 1] = Garbage]
    OBVIOUS
  <1>7. A \in [0..(list[h].anum - 1) -> ListNodes] /\ Removes(A, list[h].array, list[h].num, k)
    BY <1>2, <1>6, MovedDown
  <1>8. list' = [list EXCEPT ![h] = WithNodes(list[h], A, list[h].num - 1)]
    <2>1. [list EXCEPT ![h].num = @ - 1,
                       ![h].array = [Moved(@, k, k + 1, n - 1 - k) EXCEPT ![n - 1] = Garbage]]
             = [list EXCEPT ![h].num = list[h].num - 1,
                            ![h].array = [Moved(list[h].array, k, k + 1, n - 1 - k) EXCEPT ![n - 1] = Garbage]]
      BY <1>1 DEF IsList
    <2>2. list' = [list EXCEPT ![h].num = list[h].num - 1, ![h].array = A]
      BY <1>5, <1>6, <2>1, Zenon
    <2> QED
      BY <2>2, InPlace, Zenon DEF WithNodes
  <1>9. ListInv'
    BY <1>2, <1>5, <1>7, <1>8, TakenStep
  <1>10. k \in 0..(Len(Contents[h]) + 1)
    BY <1>2, <1>5, <1>7, <1>8, TakenStep
  <1>11. Lists!Remove(h, k)
    BY <1>2, <1>5, <1>7, <1>8, TakenStep
  <1> QED
    BY <1>4, <1>9, <1>10, <1>11, Zenon

LEMMA PopStep ==
    ASSUME ListInv, NEW h \in Handles, tf_list_pop(h)
    PROVE  ListInv' /\ Lists!Pop(h)
  <1>1. IsList(list[h]) /\ list[h].start = 0
    BY InvFacts, ListParts
  <1>2. PICK n \in Nat, N \in Nat : /\ n = list[h].num /\ N = list[h].anum /\ n <= N
                                    /\ list[h].array \in [0..(N - 1) -> ListNodes]
    BY <1>1, ListParts
  <1>3. list[h].num >= 1
    BY DEF tf_list_pop
  <1>4. PICK k \in 0..(n - 1) : k = n - 1 /\ k = list[h].start + list[h].num - 1
    <2>1. n >= 1 /\ list[h].start + list[h].num - 1 = 0 + n - 1
      BY <1>1, <1>2, <1>3, Zenon
    <2>2. n - 1 \in 0..(n - 1) /\ 0 + n - 1 = n - 1
      BY <2>1
    <2> QED
      BY <2>1, <2>2, Zenon
  <1>5. /\ Live(h) /\ heap' = heap /\ callers' = callers \cup {list[h].array[k].ptr}
        /\ ret' = <<String(list[h].array[k])>>
        /\ list' = [list EXCEPT ![h].num = @ - 1, ![h].array[k] = Garbage]
    BY <1>4, Zenon DEF tf_list_pop
  <1>6. PICK A : A = [list[h].array EXCEPT ![k] = Garbage]
    OBVIOUS
  <1>7. A \in [0..(list[h].anum - 1) -> ListNodes] /\ Removes(A, list[h].array, list[h].num, k)
    <2>1. Garbage \in ListNodes
      BY DEF Garbage, ListNodes
    <2>2. A \in [0..(N - 1) -> ListNodes]
      BY <1>2, <1>4, <1>6, <2>1
    <2>3. \A i \in 0..(n - 2) : i \in 0..(N - 1) /\ i # k /\ i < k
      BY <1>2, <1>4
    <2>4. \A i \in 0..(n - 2) : A[i] = list[h].array[IF i < k THEN i ELSE i + 1]
      BY <1>2, <1>6, <2>3
    <2> QED
      BY <1>2, <2>2, <2>4, Zenon DEF Removes
  <1>8. list' = [list EXCEPT ![h] = WithNodes(list[h], A, list[h].num - 1)]
    <2>1. [list EXCEPT ![h].num = @ - 1, ![h].array[k] = Garbage]
             = [list EXCEPT ![h].num = list[h].num - 1, ![h].array = [list[h].array EXCEPT ![k] = Garbage]]
      BY <1>1 DEF IsList
    <2>2. list' = [list EXCEPT ![h].num = list[h].num - 1, ![h].array = A]
      BY <1>5, <1>6, <2>1, Zenon
    <2> QED
      BY <2>2, InPlace, Zenon DEF WithNodes
  <1>9. ListInv'
    BY <1>2, <1>5, <1>7, <1>8, TakenStep
  <1>10. k < Len(Contents[h])
    BY <1>2, <1>5, <1>7, <1>8, TakenStep
  <1>11. Lists!Remove(h, k)
    BY <1>2, <1>5, <1>7, <1>8, TakenStep
  <1>12. Len(Contents[h]) - 1 = k /\ Contents[h] # <<>>
    <2>1. Len(Contents[h]) = n /\ n # 0
      BY <1>2, <1>3, Held
    <2> QED
      BY <1>4, <2>1
  <1> QED
    BY <1>9, <1>11, <1>12, Zenon DEF Lists!Pop

LEMMA OverStep ==
    ASSUME ListInv, NEW h \in Handles, NEW index \in 0..MaxNum, NEW s \in Strings, tf_list_over(h, index, s)
    PROVE  ListInv' /\ index \in 0..(Len(Contents[h]) + 1) /\ Lists!Over(h, index, s)
  <1>1. /\ IsList(list[h]) /\ list[h].start = 0 /\ Fits(list[h], heap)
        /\ heap \in [Regions -> HeapRegions] /\ DOMAIN list = Handles
    BY InvFacts, ListParts
  <1>2. PICK n \in Nat, N \in Nat : /\ n = list[h].num /\ N = list[h].anum /\ n <= N /\ n <= MaxNum
                                    /\ list[h].array \in [0..(N - 1) -> ListNodes]
    BY <1>1, ListParts
  <1>3. index < list[h].num
    BY DEF tf_list_over
  <1>4. PICK k \in 0..(n - 1) : k = index /\ k = index + list[h].start /\ k \in 0..(N - 1)
    BY <1>1, <1>2, <1>3, ListAssumption
  <1>5. PICK x : x = list[h].array[k]
    OBVIOUS
  <1>6. /\ x \in ListNodes /\ x.ptr \in Regions /\ heap[x.ptr].str \in Seq(Nat)
        /\ x.size = Len(heap[x.ptr].str) /\ x.size \in Nat /\ x.size < heap[x.ptr].cap /\ heap[x.ptr].cap \in Nat
    <2>1. /\ x \in ListNodes /\ x.ptr \in Regions /\ heap[x.ptr].str \in Seq(Nat)
          /\ x.size = Len(heap[x.ptr].str)
      BY <1>1, <1>2, <1>5, NodeFacts
    <2>2. x.size < heap[x.ptr].cap
      BY <1>1, <1>2, <1>5 DEF Fits
    <2>3. x.size \in Nat /\ heap[x.ptr].cap \in Nat
      BY <1>1, <2>1 DEF ListNodes, HeapRegions
    <2> QED
      BY <2>1, <2>2, <2>3
  <1>7. PICK r : r = list[h].array[k].ptr /\ r = x.ptr
    BY <1>5
  <1>8. s \in Seq(Nat) /\ Len(s) \in Nat
    BY ListAssumption
  <1>9. PICK c \in Nat : c = (IF Len(s) > x.size THEN Len(s) + 1 ELSE heap[r].cap) /\ Len(s) < c
    <2>1. CASE Len(s) > x.size
      BY <1>8, <2>1
    <2>2. CASE ~(Len(s) > x.size)
      <3>1. heap[r].cap \in Nat /\ Len(s) < heap[r].cap
        BY <1>6, <1>7, <1>8, <2>2
      <3> QED
        BY <2>2, <3>1
    <2> QED
      BY <2>1, <2>2
  <1>10. /\ Live(h) /\ callers' = callers /\ ret' = <<>>
         /\ heap' = [heap EXCEPT ![r] = [cap |-> IF Len(s) > x.size THEN Len(s) + 1 ELSE @.cap, str |-> s]]
         /\ list' = [list EXCEPT ![h].array[k].size = Len(s)]
    BY <1>4, <1>5, <1>7, Zenon DEF tf_list_over
  <1>11. heap' = [heap EXCEPT ![r] = [cap |-> c, str |-> s]]
    <2>1. [heap EXCEPT ![r] = [cap |-> IF Len(s) > x.size THEN Len(s) + 1 ELSE @.cap, str |-> s]]
             = [heap EXCEPT ![r] = [cap |-> IF Len(s) > x.size THEN Len(s) + 1 ELSE heap[r].cap, str |-> s]]
      BY <1>1, <1>6, <1>7
    <2> QED
      BY <1>9, <1>10, <2>1, Zenon
  <1>12. PICK y : y = NodeFor(r, s)
    OBVIOUS
  <1>13. PICK A : A = [list[h].array EXCEPT ![k] = y]
    OBVIOUS
  <1>14. y \in ListNodes /\ r \in Regions
    BY <1>6, <1>7, <1>8, <1>12, ListAssumption DEF NodeFor, ListNodes
  <1>15. A \in [0..(N - 1) -> ListNodes] /\ Replaces(A, list[h].array, list[h].num, k, y)
    <2>1. A \in [0..(N - 1) -> ListNodes]
      BY <1>2, <1>13, <1>14
    <2>2. \A i \in 0..(n - 1) : A[i] = IF i = k THEN y ELSE list[h].array[i]
      BY <1>2, <1>13
    <2> QED
      BY <1>2, <2>1, <2>2, Zenon DEF Replaces
  <1>16. list' = [list EXCEPT ![h] = WithNodes(list[h], A, n)]
    <2>1. x = [ptr |-> r, size |-> x.size]
      BY <1>6, <1>7 DEF ListNodes
    <2>2. [x EXCEPT !.size = Len(s)] = y
      BY <1>12, <2>1 DEF NodeFor
    <2>3. [list EXCEPT ![h].array[k].size = Len(s)]
             = [list EXCEPT ![h].num = list[h].num,
                            ![h].array = [list[h].array EXCEPT ![k] = [list[h].array[k] EXCEPT !.size = Len(s)]]]
      BY <1>1 DEF IsList
    <2>4. list' = [list EXCEPT ![h].num = n, ![h].array = A]
      BY <1>2, <1>5, <1>10, <1>13, <2>2, <2>3, Zenon
    <2> QED
      BY <2>4, InPlace, Zenon DEF WithNodes
  <1>17. PICK new : new = WithNodes(list[h], A, n) /\ list' = [list EXCEPT ![h] = new]
    BY <1>16
  <1>18. IsList(new) /\ new.array = A /\ new.num = n /\ new.anum = N
    BY <1>1, <1>2, <1>15, <1>17, Reshaped
  <1>19. Replaces(new.array, list[h].array, list[h].num, k, NodeFor(r, s)) /\ new.num = list[h].num
    BY <1>2, <1>12, <1>15, <1>18, Zenon
  <1>20. ListInv'
    BY <1>2, <1>7, <1>8, <1>9, <1>10, <1>11, <1>17, <1>18, <1>19, ReplacedStep
  <1>21. Contents' = [Contents EXCEPT ![h] = Overwritten(StringsOf(list[h], heap), k, s)]
    <2>1. k \in 0..(list[h].num - 1) /\ callers' = callers /\ Len(s) < c
      BY <1>2, <1>9, <1>10
    <2>2. r = list[h].array[k].ptr /\ s \in Seq(Nat)
      BY <1>7, <1>8
    <2>3. list' = [list EXCEPT ![h] = new] /\ IsList(new)
      BY <1>17, <1>18
    <2> QED
      BY <1>11, <1>19, <2>1, <2>2, <2>3, ReplacedStep
  <1>22. Contents' = [Contents EXCEPT ![h] = [Contents[h] EXCEPT ![k + 1] = s]]
    BY <1>21, Held, Zenon DEF Overwritten
  <1>23. new.anum \in Nat /\ new.anum >= list[h].anum
    BY <1>2, <1>18
  <1>24. Lists!Becomes(h, [Contents[h] EXCEPT ![k + 1] = s], <<>>)
    BY <1>10, <1>17, <1>22, <1>23, BecomesStep
  <1>25. k < Len(Contents[h]) /\ k \in 0..(Len(Contents[h]) + 1)
    BY <1>2, Held
  <1> QED
    BY <1>4, <1>20, <1>24, <1>25, Zenon DEF Lists!Over

\* Comparing the other way round turns the result round.
LEMMA CompareTurned ==
    ASSUME NEW a \in Seq(Nat), NEW b \in Seq(Nat), tf_list_elemcmp(a, b) <= 0
    PROVE  ~(tf_list_elemcmp(b, a) < 0)
  <1> DEFINE size == IF Len(a) < Len(b) THEN Len(a) ELSE Len(b)
             diff == {i \in 1..size : a[i] # b[i]}
             at == CHOOSE i \in diff : \A j \in diff : i <= j
  <1>1. Len(a) \in Nat /\ Len(b) \in Nat /\ size \in Nat /\ size <= Len(a) /\ size <= Len(b)
    OBVIOUS
  <1>2. tf_list_elemcmp(a, b) = IF diff = {} THEN Len(a) - Len(b) ELSE IF a[at] > b[at] THEN 1 ELSE -1
    BY Zenon DEF tf_list_elemcmp
  <1>3. tf_list_elemcmp(b, a) = IF diff = {} THEN Len(b) - Len(a) ELSE IF b[at] > a[at] THEN 1 ELSE -1
    <2> DEFINE size2 == IF Len(b) < Len(a) THEN Len(b) ELSE Len(a)
               diff2 == {i \in 1..size2 : b[i] # a[i]}
               at2 == CHOOSE i \in diff2 : \A j \in diff2 : i <= j
    <2>1. tf_list_elemcmp(b, a)
             = IF diff2 = {} THEN Len(b) - Len(a) ELSE IF b[at2] > a[at2] THEN 1 ELSE -1
      BY Zenon DEF tf_list_elemcmp
    <2>2. size2 = size
      BY <1>1
    <2>3. diff2 = diff
      BY <2>2, Zenon
    <2>4. at2 = at
      BY <2>3, Zenon
    <2> HIDE DEF size, diff, at, size2, diff2, at2
    <2> QED
      BY <2>1, <2>3, <2>4, Zenon
  <1>4. CASE diff = {}
    <2> HIDE DEF size, diff, at
    <2>1. Len(a) - Len(b) <= 0
      BY <1>2, <1>4
    <2>2. tf_list_elemcmp(b, a) = Len(b) - Len(a)
      BY <1>3, <1>4
    <2> QED
      BY <1>1, <2>1, <2>2
  <1>5. CASE diff # {}
    <2>1. \E i \in diff : \A j \in diff : i <= j
      <3>1. diff \subseteq Nat
        BY <1>1
      <3> HIDE DEF diff
      <3> QED
        BY <1>5, <3>1, LeastOf
    <2>2. at \in diff
      <3> HIDE DEF diff
      <3> QED
        BY <2>1, Zenon
    <2> HIDE DEF at
    <2>3. a[at] \in Nat /\ b[at] \in Nat /\ a[at] # b[at]
      BY <1>1, <2>2
    <2> HIDE DEF size, diff
    <2>4. ~(a[at] > b[at])
      BY <1>2, <1>5
    <2> QED
      BY <1>3, <1>5, <2>3, <2>4
  <1> QED
    BY <1>4, <1>5

LEMMA SortStep ==
    ASSUME ListInv, NEW h \in Handles, tf_list_sort(h)
    PROVE  ListInv' /\ Lists!Sort(h)
  <1> DEFINE l == list[h]
  <1>1. l = list[h]
    OBVIOUS
  <1>2. IsList(l) /\ l.start = 0 /\ DOMAIN list = Handles
    BY <1>1, InvFacts, ListParts
  <1>3. PICK n \in Nat, N \in Nat : /\ n = l.num /\ N = l.anum /\ n <= N /\ n <= MaxNum
                                    /\ l.array \in [0..(N - 1) -> ListNodes]
    BY <1>2, ListParts
  <1>4. Used(l) = 0..(n - 1) /\ 0..(l.num - 1) = 0..(n - 1)
    BY <1>2, <1>3 DEF Used
  <1>5. Live(h) /\ ret' = <<>> /\ heap' = heap /\ callers' = callers
    BY DEF tf_list_sort
  <1> DEFINE sorted(q) == [l EXCEPT !.array = [i \in DOMAIN @ |->
                                                  IF i \in Used(l) THEN @[q[i]] ELSE @[i]]]
  <1>6. PICK p \in [Used(l) -> Used(l)] :
            /\ \A i, j \in Used(l) : i # j => p[i] # p[j]
            /\ Sorted(sorted(p)) /\ list' = [list EXCEPT ![h] = sorted(p)]
    BY DEF tf_list_sort
  <1>7. PICK A : A = [i \in DOMAIN l.array |-> IF i \in Used(l) THEN l.array[p[i]] ELSE l.array[i]]
    OBVIOUS
  <1>8. PICK new : new = WithNodes(l, A, n)
    OBVIOUS
  <1>9. sorted(p) = new
    <2>1. sorted(p) = [l EXCEPT !.array = [i \in DOMAIN l.array |->
                                              IF i \in Used(l) THEN l.array[p[i]] ELSE l.array[i]]]
      OBVIOUS
    <2>2. [l EXCEPT !.array = A] = [l EXCEPT !.array = A, !.num = l.num]
      BY <1>2 DEF IsList
    <2> HIDE DEF sorted
    <2> QED
      BY <1>3, <1>7, <1>8, <2>1, <2>2, Zenon DEF WithNodes
  <1> HIDE DEF sorted
  <1>10. Sorted(new) /\ list' = [list EXCEPT ![h] = new]
    BY <1>6, <1>9, Zenon
  <1>11. p \in [0..(n - 1) -> 0..(n - 1)] /\ \A i, j \in 0..(n - 1) : i # j => p[i] # p[j]
    BY <1>4, <1>6, Zenon
  <1>12. /\ A \in [0..(N - 1) -> ListNodes]
         /\ \A i \in 0..(n - 1) : A[i] = l.array[p[i]]
    <2>1. \A i \in 0..(n - 1) : p[i] \in 0..(N - 1) /\ i \in 0..(N - 1)
      BY <1>3, <1>11
    <2>2. A = [i \in 0..(N - 1) |-> IF i \in 0..(n - 1) THEN l.array[p[i]] ELSE l.array[i]]
      BY <1>3, <1>4, <1>7
    <2> QED
      BY <1>3, <2>1, <2>2
  <1>13. IsList(new) /\ new.array = A /\ new.num = n /\ new.anum = N
    BY <1>2, <1>3, <1>8, <1>12, Reshaped
  <1>14. Permutes(new.array, l.array, n, p)
    BY <1>12, <1>13, Zenon DEF Permutes
  <1>15. ListInv'
    BY <1>1, <1>3, <1>5, <1>10, <1>11, <1>13, <1>14, PermutedStep
  <1>16. Contents' = [Contents EXCEPT ![h] = Reordered(StringsOf(l, heap), n, p)]
    <2>1. n = list[h].num /\ IsList(new) /\ new.num = list[h].num /\ callers' = callers /\ heap' = heap
      BY <1>1, <1>3, <1>5, <1>13
    <2>2. Permutes(new.array, list[h].array, list[h].num, p) /\ list' = [list EXCEPT ![h] = new]
      BY <1>1, <1>3, <1>10, <1>14
    <2>3. Contents' = [Contents EXCEPT ![h] = Reordered(StringsOf(list[h], heap), list[h].num, p)]
      BY <1>11, <2>1, <2>2, PermutedStep
    <2> QED
      BY <1>1, <2>1, <2>3, Zenon
  <1>17. PICK s : s = Contents[h] /\ s = StringsOf(l, heap) /\ s \in Seq(Seq(Nat)) /\ Len(s) = n
    BY <1>1, <1>3, Held
  <1>18. PICK q : q = [i \in 1..n |-> p[i - 1] + 1]
    OBVIOUS
  <1>19. \A i \in 1..n : i - 1 \in 0..(n - 1) /\ p[i - 1] \in 0..(n - 1) /\ p[i - 1] \in Nat
                         /\ q[i] = p[i - 1] + 1 /\ q[i] \in 1..n
    <2>1. \A i \in 1..n : i - 1 \in 0..(n - 1)
      OBVIOUS
    <2>2. \A i \in 1..n : p[i - 1] \in 0..(n - 1)
      BY <1>11, <2>1
    <2> QED
      BY <1>18, <2>1, <2>2
  <1>20. q \in [1..n -> 1..n]
    BY <1>18, <1>19
  <1>21. \A i, j \in 1..n : i # j => q[i] # q[j]
    <2> SUFFICES ASSUME NEW i \in 1..n, NEW j \in 1..n, i # j PROVE q[i] # q[j]
      OBVIOUS
    <2>1. PICK u \in 0..(n - 1), v \in 0..(n - 1) : u = i - 1 /\ v = j - 1 /\ u # v
      BY <1>19
    <2>2. p[u] # p[v]
      BY <1>11, <2>1
    <2> QED
      BY <1>19, <2>1, <2>2
  <1>22. \A i, j \in 1..n : i < j => ~(tf_list_elemcmp(s[q[j]], s[q[i]]) < 0)
    <2> SUFFICES ASSUME NEW i \in 1..n, NEW j \in 1..n, i < j
                 PROVE  ~(tf_list_elemcmp(s[q[j]], s[q[i]]) < 0)
      OBVIOUS
    <2>1. PICK u \in 0..(n - 1), v \in 0..(n - 1) : u = i - 1 /\ v = j - 1 /\ u < v
      BY <1>19
    <2>2. ASSUME NEW w \in 0..(n - 1), NEW k \in 1..n, w = k - 1
          PROVE  At(new, w) = s[q[k]] /\ s[q[k]] \in Seq(Nat)
      <3>1. new.start + w = w /\ l.start + p[w] = p[w]
        BY <1>2, <1>11, <1>13, ListParts
      <3>2. new.array[w] = l.array[p[w]]
        BY <1>12, <1>13
      <3>3. At(new, w) = At(l, p[w])
        BY <3>1, <3>2, Zenon DEF At
      <3>4. p[w] \in 0..(list[h].num - 1) /\ q[k] = p[w] + 1 /\ q[k] \in 1..n
        BY <1>1, <1>3, <1>11, <1>19, <2>2
      <3>5. At(l, p[w]) = s[q[k]]
        BY <1>1, <1>17, <3>4, Held
      <3> QED
        BY <1>17, <3>3, <3>4, <3>5
    <2>3. tf_list_elemcmp(At(new, u), At(new, v)) <= 0
      BY <1>10, <1>13, <2>1 DEF Sorted
    <2> QED
      BY <2>1, <2>2, <2>3, CompareTurned
  <1>23. Reordered(s, n, p) = [i \in 1..n |-> s[q[i]]]
    BY <1>19 DEF Reordered
  <1>24. Lists!Becomes(h, [i \in 1..n |-> s[q[i]]], <<>>)
    <2>1. Contents' = [Contents EXCEPT ![h] = [i \in 1..n |-> s[q[i]]]]
      BY <1>16, <1>17, <1>23, Zenon
    <2>2. new.anum \in Nat /\ new.anum >= list[h].anum
      BY <1>1, <1>3, <1>13
    <2> QED
      BY <1>5, <1>10, <2>1, <2>2, BecomesStep
  <1>25. /\ q \in [1..Len(Contents[h]) -> 1..Len(Contents[h])]
         /\ \A i, j \in 1..Len(Contents[h]) : i # j => q[i] # q[j]
         /\ \A i, j \in 1..Len(Contents[h]) :
               i < j => ~(tf_list_elemcmp(Contents[h][q[j]], Contents[h][q[i]]) < 0)
         /\ Lists!Becomes(h, [i \in 1..Len(Contents[h]) |-> Contents[h][q[i]]], <<>>)
    BY <1>17, <1>20, <1>21, <1>22, <1>24, Zenon
  <1> QED
    BY <1>15, <1>25, Zenon DEF Lists!Sort

\* The n strings of list h, T, are copied to n different regions that were
\* free, F; nothing else changes.
Copies(h, n, F, T) ==
    /\ \A i \in 0..(n - 1) : F[i] \in Free /\ T[i] \in Seq(Nat) /\ T[i] = Contents[h][i + 1]
    /\ \A i, j \in 0..(n - 1) : F[i] = F[j] => i = j
    /\ \A i \in 0..(n - 1) : heap'[F[i]] = Region(T[i])
    /\ \A r \in Regions : (\A i \in 0..(n - 1) : F[i] # r) => heap'[r] = heap[r]
    /\ heap' = [r \in Regions |-> heap'[r]]

LEMMA DupCopies ==
    ASSUME ListInv, NEW h \in Handles, NEW d \in Handles, tf_list_dup(h, d),
           NEW n \in Nat, n = list[h].num,
           NEW F, F = [i \in 0..(n - 1) |-> Fresh(i + 1)],
           NEW T, T = [i \in 0..(n - 1) |-> At(list[h], i)]
    PROVE  Copies(h, n, F, T)
  <1>1. Cardinality(Free) \in Nat /\ n <= Cardinality(Free)
    BY FreeFinite DEF tf_list_dup
  <1>2. ASSUME NEW i \in 0..(n - 1)
        PROVE  F[i] \in Free /\ Cardinality({q \in Free : q < F[i]}) = i
    <2>1. i \in Nat /\ i < Cardinality(Free)
      BY <1>1
    <2>2. F[i] = Fresh(i + 1)
      OBVIOUS
    <2> QED
      BY <2>1, <2>2, FreshFacts
  <1>3. \A i, j \in 0..(n - 1) : F[i] = F[j] => i = j
    BY <1>2, Zenon
  <1>4. \A i \in 0..(n - 1) : T[i] \in Seq(Nat) /\ T[i] = Contents[h][i + 1]
    <2> SUFFICES ASSUME NEW i \in 0..(n - 1) PROVE T[i] \in Seq(Nat) /\ T[i] = Contents[h][i + 1]
      OBVIOUS
    <2>1. T[i] = Contents[h][i + 1]
      BY Held
    <2>2. Contents[h] \in Seq(Seq(Nat)) /\ Len(Contents[h]) = n
      BY Held
    <2>3. i + 1 \in 1..n
      OBVIOUS
    <2> QED
      BY <2>1, <2>2, <2>3
  <1> DEFINE copyOf(r) == {i \in 0..(n - 1) : F[i] = r}
  <1>5. heap' = [r \in Regions |-> IF r \in Free /\ copyOf(r) # {}
                                  THEN Region(At(list[h], CHOOSE i \in copyOf(r) : TRUE)) ELSE heap[r]]
    <2> DEFINE freshAt(r) == {i \in 0..(list[h].num - 1) : Fresh(i + 1) = r}
    <2>1. heap' = [r \in Regions |-> IF r \in Free /\ freshAt(r) # {}
                                    THEN Region(At(list[h], CHOOSE i \in freshAt(r) : TRUE)) ELSE heap[r]]
      BY DEF tf_list_dup
    <2>2. \A r : freshAt(r) = copyOf(r)
      OBVIOUS
    <2> HIDE DEF freshAt, copyOf
    <2> QED
      BY <2>1, <2>2
  <1>6. ASSUME NEW i \in 0..(n - 1)
        PROVE  heap'[F[i]] = Region(T[i])
    <2>1. F[i] \in Free /\ F[i] \in Regions
      BY <1>2 DEF Free
    <2>2. i \in copyOf(F[i]) /\ \A j \in copyOf(F[i]) : j = i
      BY <1>3
    <2> HIDE DEF copyOf
    <2>3. (CHOOSE j \in copyOf(F[i]) : TRUE) = i
      BY <2>2, Zenon
    <2>4. heap'[F[i]] = Region(At(list[h], i))
      BY <1>5, <2>1, <2>2, <2>3
    <2> QED
      BY <2>4
  <1>7. ASSUME NEW r \in Regions, \A i \in 0..(n - 1) : F[i] # r
        PROVE  heap'[r] = heap[r]
    <2>1. copyOf(r) = {}
      BY <1>7
    <2> HIDE DEF copyOf
    <2> QED
      BY <1>5, <2>1
  <1>8. heap' = [r \in Regions |-> heap'[r]]
    <2> HIDE DEF copyOf
    <2> QED
      BY <1>5
  <1> QED
    BY <1>2, <1>3, <1>4, <1>6, <1>7, <1>8 DEF Copies

\* The copy of a list that holds something.
LEMMA DupFull ==
    ASSUME ListInv, NEW h \in Handles, NEW d \in Handles, tf_list_dup(h, d), list[h].num >= 1
    PROVE  ListInv' /\ Contents' = [Contents EXCEPT ![d] = Contents[h]] /\ LiveLists' = LiveLists \cup {d}
  <1>1. PICK n \in Nat : n = list[h].num /\ n <= MaxNum
    BY InvFacts, ListParts
  <1>2. PICK F, T : /\ F = [i \in 0..(n - 1) |-> Fresh(i + 1)]
                    /\ T = [i \in 0..(n - 1) |-> At(list[h], i)]
    OBVIOUS
  <1>3. /\ \A i \in 0..(n - 1) : F[i] \in Free /\ T[i] \in Seq(Nat) /\ T[i] = Contents[h][i + 1]
        /\ \A i, j \in 0..(n - 1) : F[i] = F[j] => i = j
        /\ \A i \in 0..(n - 1) : heap'[F[i]] = Region(T[i])
        /\ \A r \in Regions : (\A i \in 0..(n - 1) : F[i] # r) => heap'[r] = heap[r]
        /\ heap' = [r \in Regions |-> heap'[r]]
    <2>1. Copies(h, n, F, T)
      BY <1>1, <1>2, DupCopies
    <2> QED
      BY <2>1, Zenon DEF Copies
  <1>4. PICK A : A = [i \in 0..(n - 1) |-> NodeFor(F[i], T[i])]
    OBVIOUS
  <1>5. PICK new : new = [array |-> A, anum |-> n, start |-> 0, num |-> n]
    OBVIOUS
  <1>6. Live(h) /\ ~Live(d) /\ list' = [list EXCEPT ![d] = new] /\ callers' = callers
    <2>1. \A i \in 0..(n - 1) : NodeFor(Fresh(i + 1), At(list[h], i)) = NodeFor(F[i], T[i])
      BY <1>2
    <2>2. [i \in 0..(n - 1) |-> NodeFor(Fresh(i + 1), At(list[h], i))] = A
      BY <1>4, <2>1
    <2>3. ~(n < 1)
      BY <1>1
    <2>4. /\ Live(h) /\ ~Live(d) /\ callers' = callers
          /\ list' = [list EXCEPT ![d] =
                         IF n < 1 THEN EmptyList(TF_LIST_UNIT)
                         ELSE [array |-> [i \in 0..(n - 1) |-> NodeFor(Fresh(i + 1), At(list[h], i))],
                               anum |-> n, start |-> 0, num |-> n]]
      BY <1>1, Zenon DEF tf_list_dup
    <2> QED
      BY <1>5, <2>2, <2>3, <2>4, Zenon
  <1>7. Free \subseteq Regions /\ Free \subseteq Nat /\ \A r \in Free : heap[r].cap = 0
    BY FreeFinite DEF Free
  <1>8. A \in [0..(n - 1) -> ListNodes] /\ \A i \in 0..(n - 1) : A[i].ptr = F[i] /\ A[i].size = Len(T[i])
    <2> SUFFICES ASSUME NEW i \in 0..(n - 1)
                 PROVE  NodeFor(F[i], T[i]) \in ListNodes /\ A[i].ptr = F[i] /\ A[i].size = Len(T[i])
      BY <1>4
    <2>1. F[i] \in Nat /\ T[i] \in Seq(Nat)
      BY <1>3, <1>7
    <2>2. Len(T[i]) \in Nat
      BY <2>1
    <2>3. A[i] = NodeFor(F[i], T[i])
      BY <1>4
    <2> QED
      BY <2>1, <2>2, <2>3 DEF NodeFor, ListNodes
  <1>9. IsList(new) /\ new.array = A /\ new.anum = n /\ new.num = n
    BY <1>1, <1>5, <1>8, MadeList
  <1>10. \A i \in 0..(n - 1) : heap'[F[i]].str = T[i] /\ heap'[F[i]].cap = Len(T[i]) + 1
    <2> SUFFICES ASSUME NEW i \in 0..(n - 1) PROVE heap'[F[i]].str = T[i] /\ heap'[F[i]].cap = Len(T[i]) + 1
      OBVIOUS
    <2>1. heap'[F[i]] = [cap |-> Len(T[i]) + 1, str |-> T[i]]
      BY <1>3, Zenon DEF Region
    <2> QED
      BY <2>1
  <1>11. Fits(new, heap')
    <2>1. ASSUME NEW i \in 0..(n - 1)
          PROVE  /\ A[i].ptr \in Regions /\ A[i].size = Len(heap'[A[i].ptr].str)
                 /\ A[i].size < heap'[A[i].ptr].cap
      <3>1. A[i].ptr = F[i] /\ A[i].size = Len(T[i]) /\ Len(T[i]) \in Nat /\ F[i] \in Regions
        BY <1>3, <1>7, <1>8
      <3>2. heap'[F[i]].str = T[i] /\ heap'[F[i]].cap = Len(T[i]) + 1
        BY <1>10
      <3> QED
        BY <3>1, <3>2
    <2>2. \A i, j \in 0..(n - 1) : A[i].ptr = A[j].ptr => i = j
      BY <1>3, <1>8
    <2> QED
      BY <1>9, <2>1, <2>2, Zenon DEF Fits
  <1>12. heap' \in [Regions -> HeapRegions]
    <2>1. heap \in [Regions -> HeapRegions]
      BY InvFacts
    <2>2. ASSUME NEW r \in Regions PROVE heap'[r] \in HeapRegions
      <3>1. CASE \A i \in 0..(n - 1) : F[i] # r
        BY <1>3, <2>1, <3>1
      <3>2. CASE \E i \in 0..(n - 1) : F[i] = r
        <4>1. PICK i \in 0..(n - 1) : F[i] = r
          BY <3>2
        <4>2. T[i] \in Seq(Nat) /\ Len(T[i]) + 1 \in Nat
          BY <1>3
        <4>3. heap'[r] = [cap |-> Len(T[i]) + 1, str |-> T[i]]
          BY <1>3, <4>1, Zenon DEF Region
        <4> QED
          BY <4>2, <4>3 DEF HeapRegions
      <3> QED
        BY <3>1, <3>2
    <2> QED
      BY <1>3, <2>2
  <1>13. Owned(new) = {F[i] : i \in 0..(n - 1)} /\ Owned(list[d]) = {}
    <2>1. Owned(new) = {A[i].ptr : i \in 0..(n - 1)}
      BY <1>9, Zenon DEF Owned
    <2>2. Owned(list[d]) = {}
      BY <1>6, DeadList
    <2>3. \A r : r \in {A[i].ptr : i \in 0..(n - 1)} <=> r \in {F[i] : i \in 0..(n - 1)}
      BY <1>8, Zenon
    <2> QED
      BY <2>1, <2>2, <2>3, Zenon
  <1>14. \A r \in callers : r \in Regions /\ heap[r].cap > 0
    BY InvFacts
  <1>15. \A r \in Owned(new) : heap[r].cap = 0
    BY <1>3, <1>7, <1>13
  <1>16. \A r \in Regions : r \in Owned(new) \/ heap'[r] = heap[r]
    BY <1>3, <1>13
  <1>17. \A r \in callers : r \notin Owned(new) /\ heap'[r].cap > 0
    BY <1>14, <1>15, <1>16
  <1>18. Changes(d, new)
    BY <1>6, <1>9, <1>11, <1>12, <1>13, <1>15, <1>16, <1>17 DEF Changes
  <1>19. ListInv' /\ Contents' = [Contents EXCEPT ![d] = StringsOf(new, heap')]
    BY <1>18, OneListChanges
  <1>20. StringsOf(new, heap') = Contents[h]
    <2>1. Contents[h] \in Seq(Seq(Nat)) /\ Len(Contents[h]) = n
      BY <1>1, Held
    <2>2. Contents[h] = [i \in 1..n |-> Contents[h][i]]
      BY <2>1, SeqIsFunction
    <2>3. StringsOf(new, heap') = [i \in 1..n |-> heap'[A[i - 1].ptr].str]
      BY <1>9 DEF StringsOf
    <2>4. ASSUME NEW i \in 1..n PROVE heap'[A[i - 1].ptr].str = Contents[h][i]
      <3>1. PICK j \in 0..(n - 1) : j = i - 1 /\ i = j + 1
        OBVIOUS
      <3> QED
        BY <1>3, <1>8, <1>10, <3>1
    <2> QED
      BY <2>2, <2>3, <2>4
  <1>21. LiveLists' = LiveLists \cup {d}
    <2>1. DOMAIN list = Handles /\ n > 0
      BY <1>1, InvFacts
    <2> QED
      BY <1>6, <1>9, <2>1 DEF LiveLists, Live
  <1> QED
    BY <1>19, <1>20, <1>21, Zenon

LEMMA DupStep ==
    ASSUME ListInv, NEW h \in Handles, NEW d \in Handles, tf_list_dup(h, d)
    PROVE  ListInv' /\ Lists!Dup(h, d)
  <1>1. Live(h) /\ ~Live(d) /\ ret' = <<>> /\ callers' = callers
    BY DEF tf_list_dup
  <1>2. h \in LiveLists /\ d \notin LiveLists
    BY <1>1 DEF LiveLists
  <1>3. PICK n \in Nat : n = list[h].num
    BY InvFacts, ListParts
  <1>4. CASE n >= 1
    <2>1. ListInv' /\ Contents' = [Contents EXCEPT ![d] = Contents[h]] /\ LiveLists' = LiveLists \cup {d}
      BY <1>3, <1>4, DupFull
    <2> QED
      BY <1>1, <1>2, <2>1, Zenon DEF Lists!Dup
  <1>5. CASE n = 0
    <2>1. heap' = heap
      <3>1. heap \in [Regions -> HeapRegions]
        BY InvFacts
      <3>2. PICK F, T : /\ F = [i \in 0..(n - 1) |-> Fresh(i + 1)]
                        /\ T = [i \in 0..(n - 1) |-> At(list[h], i)]
        OBVIOUS
      <3>3. Copies(h, n, F, T)
        BY <1>3, <3>2, DupCopies
      <3>4. /\ \A r \in Regions : (\A i \in 0..(n - 1) : F[i] # r) => heap'[r] = heap[r]
            /\ heap' = [r \in Regions |-> heap'[r]]
        BY <3>3, Zenon DEF Copies
      <3>5. \A i \in 0..(n - 1) : FALSE
        BY <1>5
      <3>6. \A r \in Regions : heap'[r] = heap[r]
        BY <3>4, <3>5
      <3> QED
        BY <3>1, <3>4, <3>6
    <2>2. list' = [list EXCEPT ![d] = EmptyList(TF_LIST_UNIT)]
      <3>1. list[h].num < 1
        BY <1>3, <1>5
      <3> QED
        BY <3>1 DEF tf_list_dup
    <2>3. ListInv' /\ Contents' = Contents /\ LiveLists' = LiveLists \cup {d}
      BY <1>1, <2>1, <2>2, CreateStep, ListAssumption
    <2>4. Contents[h] = <<>> /\ Contents[d] = <<>>
      <3>1. list[d].num = 0
        BY <1>1, DeadList
      <3>2. Contents[h] \in Seq(Seq(Nat)) /\ Len(Contents[h]) = 0
        BY <1>3, <1>5, Held
      <3>3. Contents[d] \in Seq(Seq(Nat)) /\ Len(Contents[d]) = 0
        BY <3>1, Held
      <3> QED
        BY <3>2, <3>3, EmptySeq
    <2>5. Contents' = [Contents EXCEPT ![d] = Contents[h]]
      BY <2>3, <2>4, Held, Zenon
    <2> QED
      BY <1>1, <1>2, <2>3, <2>5, Zenon DEF Lists!Dup
  <1> QED
    BY <1>3, <1>4, <1>5

\* What the caller frees, no list sees.
LEMMA CallerStep ==
    ASSUME ListInv, NEW r \in callers, CallerFrees(r)
    PROVE  ListInv' /\ Contents' = Contents /\ LiveLists' = LiveLists /\ ret' = ret
  <1>1. /\ list' = list /\ ret' = ret /\ callers' = callers \ {r}
        /\ heap' = [heap EXCEPT ![r] = Unused]
    BY DEF CallerFrees
  <1>2. /\ heap \in [Regions -> HeapRegions] /\ callers \subseteq Regions /\ DOMAIN list = Handles
        /\ list = [h \in Handles |-> list[h]]
        /\ \A h \in Handles : Owned(list[h]) \cap callers = {}
        /\ \A h, g \in Handles : h # g => Owned(list[h]) \cap Owned(list[g]) = {}
        /\ \A q \in Regions : heap[q].cap > 0 <=> q \in callers \/ \E h \in Handles : q \in Owned(list[h])
    BY DEF ListInv
  <1>3. Unused \in HeapRegions /\ Unused.cap = 0
    BY DEF Unused, HeapRegions
  <1>4. heap' \in [Regions -> HeapRegions]
    BY <1>1, <1>2, <1>3
  <1>5. heap'[r].cap = 0 /\ \A q \in Regions : q # r => heap'[q] = heap[q]
    BY <1>1, <1>2, <1>3
  <1>6. ASSUME NEW h \in Handles
        PROVE  /\ IsList(list[h]) /\ Fits(list[h], heap')
               /\ StringsOf(list[h], heap') = StringsOf(list[h], heap)
    <2>1. IsList(list[h]) /\ Fits(list[h], heap)
      BY InvFacts
    <2>2. PICK l : l = list[h]
      OBVIOUS
    <2>3. \A i \in 0..(l.num - 1) : l.array[i].ptr \in Owned(l)
      BY DEF Owned
    <2>4. \A i \in 0..(l.num - 1) : l.array[i].ptr \in Regions
      BY <2>1, <2>2 DEF Fits
    <2>5. \A i \in 0..(l.num - 1) : heap'[l.array[i].ptr] = heap[l.array[i].ptr]
      BY <1>2, <1>5, <2>2, <2>3, <2>4
    <2>6. Fits(l, heap')
      BY <2>1, <2>2, <2>5, Zenon DEF Fits
    <2>7. l.num \in Nat
      BY <2>1, <2>2, ListParts
    <2>8. \A i \in 1..l.num : heap'[l.array[i - 1].ptr].str = heap[l.array[i - 1].ptr].str
      <3>1. \A i \in 1..l.num : i - 1 \in 0..(l.num - 1)
        BY <2>7
      <3> QED
        BY <2>5, <3>1, Zenon
    <2>9. StringsOf(l, heap') = StringsOf(l, heap)
      BY <2>8 DEF StringsOf
    <2> QED
      BY <2>1, <2>2, <2>6, <2>9, Zenon
  <1>7. \A q \in Regions : heap'[q].cap > 0 <=> q \in callers' \/ \E h \in Handles : q \in Owned(list[h])
    <2> SUFFICES ASSUME NEW q \in Regions
                 PROVE  heap'[q].cap > 0 <=> q \in callers' \/ \E h \in Handles : q \in Owned(list[h])
      OBVIOUS
    <2>1. CASE q = r
      <3>1. \A h \in Handles : r \notin Owned(list[h])
        BY <1>2, Zenon
      <3>2. ~(heap'[q].cap > 0)
        BY <1>5, <2>1
      <3>3. q \notin callers'
        BY <1>1, <2>1
      <3> QED
        BY <2>1, <3>1, <3>2, <3>3, Zenon
    <2>2. CASE q # r
      <3>1. heap'[q] = heap[q] /\ (q \in callers' <=> q \in callers)
        BY <1>1, <1>5, <2>2
      <3> QED
        BY <1>2, <3>1, Zenon
    <2> QED
      BY <2>1, <2>2
  <1>8. /\ \A h \in Handles : IsList(list'[h]) /\ Fits(list'[h], heap')
        /\ DOMAIN list' = Handles /\ list' = [h \in Handles |-> list'[h]]
    <2>1. \A h \in Handles : IsList(list'[h]) /\ Fits(list'[h], heap')
      BY <1>1, <1>6, Zenon
    <2>2. DOMAIN list' = Handles
      BY <1>1, <1>2
    <2>3. list' = [h \in Handles |-> list'[h]]
      BY <1>1, <1>2
    <2> QED
      BY <2>1, <2>2, <2>3
  <1>9. /\ callers' \subseteq Regions
        /\ \A h \in Handles : Owned(list'[h]) \cap callers' = {}
        /\ \A h, g \in Handles : h # g => Owned(list'[h]) \cap Owned(list'[g]) = {}
    <2>1. callers' \subseteq callers /\ callers' \subseteq Regions
      BY <1>1, <1>2
    <2>2. \A h \in Handles : Owned(list'[h]) \cap callers' = {}
      BY <1>1, <1>2, <2>1, Zenon
    <2>3. \A h, g \in Handles : h # g => Owned(list'[h]) \cap Owned(list'[g]) = {}
      BY <1>1, <1>2, Zenon
    <2> QED
      BY <2>1, <2>2, <2>3
  <1>10. ListInv'
    BY <1>1, <1>4, <1>7, <1>8, <1>9, Zenon DEF ListInv
  <1>11. Contents' = Contents
    <2>1. \A h \in Handles : StringsOf(list'[h], heap') = StringsOf(list[h], heap)
      BY <1>1, <1>6, Zenon
    <2> QED
      BY <1>10, <2>1, ContentsNow, ContentsThen
  <1>12. LiveLists' = LiveLists
    BY <1>1, Zenon DEF LiveLists, Live
  <1> QED
    BY <1>1, <1>10, <1>11, <1>12

\* Every step is one of StringLists, or the caller's.
LEMMA ListStep ==
    ASSUME ListInv, [Next]_vars
    PROVE  ListInv' /\ [Lists!Next]_(Lists!vars)
  <1>1. CASE UNCHANGED vars
    <2>1. list' = list /\ heap' = heap /\ callers' = callers /\ ret' = ret
      BY <1>1 DEF vars
    <2>2. ListInv' /\ Contents' = Contents /\ LiveLists' = LiveLists
      BY <2>1, SameLists
    <2> QED
      BY <2>1, <2>2, Zenon DEF Lists!vars
  <1>2. CASE \E r \in callers : CallerFrees(r)
    <2>1. PICK r \in callers : CallerFrees(r)
      BY <1>2
    <2>2. ListInv' /\ Contents' = Contents /\ LiveLists' = LiveLists /\ ret' = ret
      BY <2>1, CallerStep
    <2> QED
      BY <2>2, Zenon DEF Lists!vars
  <1>3. ASSUME NEW h \in Handles,
               \/ tf_list_new(h) \/ tf_list_new2(h, 0)
               \/ tf_list_del(h) \/ tf_list_clear(h) \/ tf_list_sort(h)
               \/ tf_list_pop(h)
               \/ \E d \in Handles : tf_list_dup(h, d)
               \/ \E s \in Strings : tf_list_push(h, s)
               \/ \E index \in 0..MaxNum :
                     \/ tf_list_val(h, index) \/ tf_list_remove(h, index) \/ OutOfRange(h, index)
                     \/ \E s \in Strings : tf_list_insert(h, index, s) \/ tf_list_over(h, index, s)
        PROVE  ListInv' /\ Lists!Next
    <2>1. CASE tf_list_new(h) \/ tf_list_new2(h, 0)
      BY <2>1, NewStep, Zenon DEF Lists!Next
    <2>2. CASE tf_list_del(h)
      BY <2>2, DelStep, Zenon DEF Lists!Next
    <2>3. CASE tf_list_clear(h)
      BY <2>3, ClearStep, Zenon DEF Lists!Next
    <2>4. CASE tf_list_sort(h)
      BY <2>4, SortStep, Zenon DEF Lists!Next
    <2>5. CASE tf_list_pop(h)
      BY <2>5, PopStep, Zenon DEF Lists!Next
    <2>6. ASSUME NEW d \in Handles, tf_list_dup(h, d) PROVE ListInv' /\ Lists!Next
      BY <2>6, DupStep, Zenon DEF Lists!Next
    <2>7. ASSUME NEW s \in Strings, tf_list_push(h, s) PROVE ListInv' /\ Lists!Next
      BY <2>7, PushStep, Zenon DEF Lists!Next
    <2>8. ASSUME NEW index \in 0..MaxNum, tf_list_val(h, index) \/ OutOfRange(h, index)
          PROVE  ListInv' /\ Lists!Next
      BY <2>8, ValStep, Zenon DEF Lists!Next
    <2>9. ASSUME NEW index \in 0..MaxNum, tf_list_remove(h, index) PROVE ListInv' /\ Lists!Next
      BY <2>9, RemoveStep, Zenon DEF Lists!Next
    <2>10. ASSUME NEW index \in 0..MaxNum, NEW s \in Strings, tf_list_insert(h, index, s)
           PROVE  ListInv' /\ Lists!Next
      BY <2>10, InsertStep, Zenon DEF Lists!Next
    <2>11. ASSUME NEW index \in 0..MaxNum, NEW s \in Strings, tf_list_over(h, index, s)
           PROVE  ListInv' /\ Lists!Next
      BY <2>11, OverStep, Zenon DEF Lists!Next
    <2> QED
      BY <1>3, <2>1, <2>2, <2>3, <2>4, <2>5, <2>6, <2>7, <2>8, <2>9, <2>10, <2>11, Zenon
  <1> QED
    BY <1>1, <1>2, <1>3, Zenon DEF Next
-----------------------------------------------------------------------------
(* The theorems.                                                           *)

LEMMA ListStart == ASSUME Init PROVE ListInv /\ Lists!Init
  <1>1. /\ list = [h \in Handles |-> NoList] /\ heap = [r \in Regions |-> Unused]
        /\ callers = {} /\ ret = <<>>
    BY DEF Init
  <1>2. IsList(NoList) /\ NoList.num = 0 /\ NoList.anum = 0
    BY EmptyListFacts, ListAssumption
  <1>3. Fits(NoList, heap) /\ Owned(NoList) = {} /\ StringsOf(NoList, heap) = <<>>
    BY <1>2, EmptyFits
  <1>4. Unused \in HeapRegions /\ Unused.cap = 0
    BY DEF Unused, HeapRegions
  <1>5. \A h \in Handles : list[h] = NoList
    BY <1>1
  <1>6. heap \in [Regions -> HeapRegions] /\ \A r \in Regions : heap[r].cap = 0
    BY <1>1, <1>4
  <1>7. DOMAIN list = Handles /\ list = [h \in Handles |-> list[h]]
    BY <1>1
  <1>8. /\ \A h \in Handles : IsList(list[h]) /\ Fits(list[h], heap) /\ Owned(list[h]) = {}
        /\ \A h \in Handles : StringsOf(list[h], heap) = <<>> /\ ~Live(h)
    BY <1>2, <1>3, <1>5 DEF Live
  <1>9. ListInv
    BY <1>1, <1>6, <1>7, <1>8 DEF ListInv
  <1>10. LiveLists = {}
    BY <1>8 DEF LiveLists
  <1>11. Contents = [h \in Handles |-> <<>>]
    BY <1>8, <1>9, ContentsNow
  <1> QED
    BY <1>1, <1>9, <1>10, <1>11 DEF Lists!Init

\* The invariant of the lists: the arrays and the heap agree, no region has
\* two owners, and none is lost.
THEOREM ListInvariant == Spec => []ListInv
  <1>1. Init => ListInv
    BY ListStart
  <1>2. ListInv /\ [Next]_vars => ListInv'
    BY ListStep
  <1> QED
    BY <1>1, <1>2, PTL DEF Spec

\* Whatever was pushed, inserted, overwritten, sorted or copied, for any
\* strings: each node's region has room for its string and the zero, its size
\* is the string's, and the nodes lie within the array (tf_list.c).
THEOREM ListStringsFit == Spec => []StringsFit
  <1>1. ListInv => StringsFit
    <2> SUFFICES ASSUME ListInv, NEW h \in Handles
                 PROVE  /\ list[h].start + list[h].num <= list[h].anum
                        /\ \A i \in Used(list[h]) :
                              LET n == list[h].array[i]
                              IN  n.size = Len(heap[n.ptr].str) /\ n.size < heap[n.ptr].cap
      BY DEF StringsFit
    <2>1. IsList(list[h]) /\ Fits(list[h], heap)
      BY InvFacts
    <2>2. list[h].start = 0 /\ list[h].num \in Nat /\ list[h].num <= list[h].anum
      BY <2>1, ListParts
    <2>3. Used(list[h]) = 0..(list[h].num - 1)
      BY <2>2 DEF Used
    <2> QED
      BY <2>1, <2>2, <2>3 DEF Fits
  <1> QED
    BY <1>1, ListInvariant, PTL

\* However the lists grow, shrink and are copied: no region is leaked, and no
\* two nodes, no two lists and no list and the caller share one (tf_list.c).
THEOREM ListRegionsOwnedOnce == Spec => []EachRegionOwnedOnce
  <1>1. ListInv => EachRegionOwnedOnce
    <2> SUFFICES ASSUME ListInv, NEW r \in Regions
                 PROVE  Cardinality(Owners(r)) + (IF r \in callers THEN 1 ELSE 0)
                            = (IF heap[r].cap > 0 THEN 1 ELSE 0)
      BY DEF EachRegionOwnedOnce
    <2>1. heap[r].cap > 0 <=> r \in callers \/ \E h \in Handles : r \in Owned(list[h])
      BY DEF ListInv
    <2>2. ASSUME NEW h \in Handles
          PROVE  /\ list[h].num \in Nat /\ list[h].anum \in Nat /\ list[h].num <= list[h].anum
                 /\ list[h].num <= MaxNum /\ Used(list[h]) = 0..(list[h].num - 1)
      <3>1. list[h].start = 0 /\ list[h].num \in Nat /\ list[h].anum \in Nat
            /\ list[h].num <= list[h].anum /\ list[h].num <= MaxNum
        BY InvFacts, ListParts
      <3> QED
        BY <3>1 DEF Used
    <2>3. CASE \E h \in Handles : r \in Owned(list[h])
      <3>1. PICK h \in Handles : r \in Owned(list[h])
        BY <2>3
      <3>2. PICK i \in 0..(list[h].num - 1) : r = list[h].array[i].ptr
        BY <3>1 DEF Owned
      <3>3. <<h, i>> \in Owners(r)
        <4>1. Live(h) /\ i \in Used(list[h]) /\ i \in 0..(2 * MaxNum + TF_LIST_UNIT)
          BY <2>2, ListAssumption DEF Live
        <4> QED
          BY <3>2, <4>1 DEF Owners
      <3>4. ASSUME NEW o \in Owners(r) PROVE o = <<h, i>>
        <4>1. PICK g \in Handles, j \in 0..(2 * MaxNum + TF_LIST_UNIT) : o = <<g, j>> /\ j \in Used(list[g]) /\ list[g].array[j].ptr = r
          BY DEF Owners
        <4>2. j \in 0..(list[g].num - 1) /\ r \in Owned(list[g])
          BY <2>2, <4>1 DEF Owned
        <4>3. g = h
          BY <3>1, <4>2, Zenon DEF ListInv
        <4>4. j = i
          BY <3>2, <4>1, <4>2, <4>3, InvFacts DEF Fits
        <4> QED
          BY <4>1, <4>3, <4>4
      <3>5. Owners(r) = {<<h, i>>}
        BY <3>3, <3>4, Zenon
      <3>6. Cardinality(Owners(r)) = 1
        BY <3>5, FS_Singleton
      <3>7. r \notin callers
        BY <3>1, InvFacts
      <3> QED
        BY <2>1, <2>3, <3>6, <3>7
    <2>4. CASE ~ \E h \in Handles : r \in Owned(list[h])
      <3>1. Owners(r) = {}
        <4>1. SUFFICES ASSUME NEW o \in Owners(r) PROVE FALSE
          OBVIOUS
        <4>2. PICK g \in Handles, j \in 0..(2 * MaxNum + TF_LIST_UNIT) : j \in Used(list[g]) /\ list[g].array[j].ptr = r
          BY DEF Owners
        <4>3. r \in Owned(list[g])
          BY <2>2, <4>2 DEF Owned
        <4> QED
          BY <2>4, <4>3
      <3>2. Cardinality(Owners(r)) = 0
        BY <3>1, FS_EmptySet
      <3> QED
        BY <2>1, <2>4, <3>2
    <2> QED
      BY <2>3, <2>4
  <1> QED
    BY <1>1, ListInvariant, PTL

\* For any strings and any number of lists: arrays that grow, nodes that are
\* moved and regions that are allocated, overwritten and handed over behave as
\* sequences of strings; what an operation returns and what every other list
\* holds is what the sequences say (tf_list.h).
THEOREM ListsImplementSequences == Spec => ImplementsLists
  <1>1. Init => ListInv /\ Lists!Init
    BY ListStart
  <1>2. ListInv /\ [Next]_vars => ListInv' /\ [Lists!Next]_(Lists!vars)
    BY ListStep
  <1> QED
    BY <1>1, <1>2, PTL DEF Spec, ImplementsLists, Lists!Spec
-----------------------------------------------------------------------------
(* The two searches.                                                       *)

\* Induction over the naturals, for a set.
LEMMA SetInduction ==
    ASSUME NEW S, 0 \in S, \A n \in Nat : n \in S => n + 1 \in S
    PROVE  \A n \in Nat : n \in S
  <1> SUFFICES ASSUME NEW n \in Nat, n \notin S PROVE FALSE
    OBVIOUS
  <1>1. PICK T : T = {k \in Nat : k \notin S}
    OBVIOUS
  <1>2. T \subseteq Nat /\ T # {}
    BY <1>1
  <1>3. PICK b \in T : \A k \in T : b <= k
    BY <1>2, LeastOf
  <1>4. b \in Nat /\ b # 0 /\ b \notin S
    BY <1>1, <1>3
  <1>5. b - 1 \in Nat /\ b - 1 \notin T
    BY <1>3, <1>4
  <1>6. b - 1 \in S
    BY <1>1, <1>5
  <1>7. (b - 1) + 1 \in S
    BY <1>5, <1>6
  <1> QED
    BY <1>4, <1>7

\* The ranges of a list of n elements, the middle of one, its halves and its size.
Ranges(n) == (0..n) \X (0..n)
Mid(r) == (r[1] + r[2]) \div 2
LowerHalf(r) == <<r[1], Mid(r)>>
UpperHalf(r) == <<Mid(r) + 1, r[2]>>
Size(r) == r[2] - r[1]

\* One step of bsearch, and the function of all ranges it defines.
SearchBody(f, l, s, r) ==
    IF r[1] >= r[2] THEN -1
    ELSE IF tf_list_elemcmp(s, At(l, Mid(r))) < 0 THEN f[LowerHalf(r)]
    ELSE IF tf_list_elemcmp(s, At(l, Mid(r))) > 0 THEN f[UpperHalf(r)]
    ELSE Mid(r)

SearchFun(f, l, s) == [r \in Ranges(l.num) |-> SearchBody(f, l, s, r)]

\* What the recursive definition of the model stands for.
LEMMA SearchUnfolds ==
    ASSUME NEW l, NEW s
    PROVE  tf_list_bsearch(l, s) = (CHOOSE f : f = SearchFun(f, l, s))[<<0, l.num>>]
  BY DEF tf_list_bsearch, SearchFun, SearchBody, Mid, Ranges, LowerHalf, UpperHalf

\* The step, range by range.
LEMMA SearchFunAt ==
    ASSUME NEW l, NEW s, NEW f, NEW g, g = SearchFun(f, l, s), NEW r \in Ranges(l.num)
    PROVE  g[r] = SearchBody(f, l, s, r)
  BY DEF SearchFun

\* A range that is not empty, its middle and the two halves.
LEMMA RangeFacts ==
    ASSUME NEW n \in Nat, NEW r \in Ranges(n)
    PROVE  /\ r[1] \in 0..n /\ r[2] \in 0..n /\ Size(r) \in Int /\ Size(r) <= n
           /\ r[1] >= r[2] <=> Size(r) <= 0
           /\ r[1] < r[2] =>
                /\ Mid(r) \in r[1]..(r[2] - 1) /\ Mid(r) \in 0..(n - 1)
                /\ LowerHalf(r) \in Ranges(n) /\ UpperHalf(r) \in Ranges(n)
                /\ Size(LowerHalf(r)) < Size(r) /\ Size(UpperHalf(r)) < Size(r)
  <1>1. r[1] \in 0..n /\ r[2] \in 0..n
    BY DEF Ranges
  <1>2. PICK lo \in 0..n, hi \in 0..n, m \in Int : lo = r[1] /\ hi = r[2] /\ m = (lo + hi) \div 2
    BY <1>1
  <1>3. ASSUME lo < hi PROVE lo <= m /\ m < hi
    BY <1>2, <1>3
  <1>4. Mid(r) = m /\ Size(r) = hi - lo
    BY <1>2 DEF Mid, Size
  <1>5. LowerHalf(r) = <<lo, m>> /\ UpperHalf(r) = <<m + 1, hi>>
    BY <1>2, <1>4 DEF LowerHalf, UpperHalf
  <1>6. Size(LowerHalf(r)) = m - lo /\ Size(UpperHalf(r)) = hi - (m + 1)
    BY <1>5 DEF Size
  <1>7. ASSUME lo < hi PROVE LowerHalf(r) \in Ranges(n) /\ UpperHalf(r) \in Ranges(n)
    BY <1>3, <1>5, <1>7 DEF Ranges
  <1>8. ASSUME lo < hi PROVE m \in lo..(hi - 1) /\ m \in 0..(n - 1) /\ m - lo < hi - lo /\ hi - (m + 1) < hi - lo
    BY <1>3, <1>8
  <1> QED
    BY <1>1, <1>2, <1>4, <1>6, <1>7, <1>8

\* f is what bsearch computes for ranges of at most d elements.
SearchedUpTo(f, l, s, d) == \A r \in Ranges(l.num) : Size(r) <= d => f[r] = SearchBody(f, l, s, r)

\* If f and g agree on smaller ranges the body takes them for each other.
LEMMA BodyAgrees ==
    ASSUME NEW l, l.num \in Nat, NEW s, NEW f, NEW g, NEW r \in Ranges(l.num),
           \A q \in Ranges(l.num) : Size(q) < Size(r) => f[q] = g[q]
    PROVE  SearchBody(f, l, s, r) = SearchBody(g, l, s, r)
  <1>1. CASE r[1] >= r[2]
    BY <1>1 DEF SearchBody
  <1>2. CASE r[1] < r[2]
    <2>1. /\ LowerHalf(r) \in Ranges(l.num) /\ UpperHalf(r) \in Ranges(l.num)
          /\ Size(LowerHalf(r)) < Size(r) /\ Size(UpperHalf(r)) < Size(r)
      BY <1>2, RangeFacts
    <2>2. f[LowerHalf(r)] = g[LowerHalf(r)] /\ f[UpperHalf(r)] = g[UpperHalf(r)]
      BY <2>1
    <2> QED
      BY <2>2 DEF SearchBody
  <1>3. r[1] >= r[2] \/ r[1] < r[2]
    BY RangeFacts
  <1> QED
    BY <1>1, <1>2, <1>3

\* There is a function that bsearch computes: start anywhere, repeat the step.
LEMMA SearchExists ==
    ASSUME NEW l, l.num \in Nat, NEW s
    PROVE  \E f : f = SearchFun(f, l, s)
  <1>1. PICK S : S = {d \in Nat : \E f : SearchedUpTo(f, l, s, d)}
    OBVIOUS
  <1>2. ASSUME NEW f, NEW g, g = SearchFun(f, l, s), NEW d \in Int, SearchedUpTo(f, l, s, d)
        PROVE  SearchedUpTo(g, l, s, d + 1)
    <2> SUFFICES ASSUME NEW r \in Ranges(l.num), Size(r) <= d + 1
                 PROVE  g[r] = SearchBody(g, l, s, r)
      BY DEF SearchedUpTo
    <2>1. g[r] = SearchBody(f, l, s, r)
      BY <1>2, SearchFunAt
    <2>2. ASSUME NEW q \in Ranges(l.num), Size(q) < Size(r) PROVE f[q] = g[q]
      <3>1. g[q] = SearchBody(f, l, s, q)
        BY <1>2, SearchFunAt
      <3>2. Size(q) \in Int /\ Size(r) \in Int
        BY RangeFacts
      <3>3. Size(q) <= d
        BY <2>2, <3>2
      <3>4. f[q] = SearchBody(f, l, s, q)
        BY <1>2, <3>3 DEF SearchedUpTo
      <3> QED
        BY <3>1, <3>4
    <2>3. SearchBody(f, l, s, r) = SearchBody(g, l, s, r)
      BY <2>2, BodyAgrees
    <2> QED
      BY <2>1, <2>3
  <1>3. 0 \in S
    <2>1. PICK g : g = SearchFun(0, l, s)
      OBVIOUS
    <2>2. SearchedUpTo(g, l, s, 0)
      <3> SUFFICES ASSUME NEW r \in Ranges(l.num), Size(r) <= 0
                   PROVE  g[r] = SearchBody(g, l, s, r)
        BY DEF SearchedUpTo
      <3>1. g[r] = SearchBody(0, l, s, r)
        BY <2>1, SearchFunAt
      <3>2. r[1] >= r[2]
        BY RangeFacts
      <3> QED
        BY <3>1, <3>2 DEF SearchBody
    <2> QED
      BY <1>1, <2>2
  <1>4. ASSUME NEW d \in Nat, d \in S PROVE d + 1 \in S
    <2>1. PICK f : SearchedUpTo(f, l, s, d)
      BY <1>1, <1>4
    <2>2. PICK g : g = SearchFun(f, l, s)
      OBVIOUS
    <2>3. SearchedUpTo(g, l, s, d + 1)
      BY <1>2, <2>1, <2>2
    <2> QED
      BY <1>1, <2>3
  <1>5. l.num \in S
    BY <1>3, <1>4, SetInduction
  <1>6. PICK f : SearchedUpTo(f, l, s, l.num)
    BY <1>1, <1>5
  <1>7. PICK g : g = SearchFun(f, l, s)
    OBVIOUS
  <1>8. ASSUME NEW r \in Ranges(l.num) PROVE f[r] = g[r]
    <2>1. Size(r) <= l.num
      BY RangeFacts
    <2>2. f[r] = SearchBody(f, l, s, r)
      BY <1>6, <2>1 DEF SearchedUpTo
    <2> QED
      BY <1>7, <2>2, SearchFunAt
  <1>9. ASSUME NEW r \in Ranges(l.num)
        PROVE  SearchBody(f, l, s, r) = SearchBody(g, l, s, r)
    BY <1>8, BodyAgrees
  <1>10. SearchFun(f, l, s) = SearchFun(g, l, s)
    BY <1>9 DEF SearchFun
  <1> QED
    BY <1>7, <1>10

\* Strings compare as equal exactly when they are, and the result is a number.
LEMMA CompareEqual ==
    ASSUME NEW a \in Seq(Nat), NEW b \in Seq(Nat)
    PROVE  tf_list_elemcmp(a, b) \in Int /\ (tf_list_elemcmp(a, b) = 0 <=> a = b)
  <1>1. PICK size \in Nat : size = IF Len(a) < Len(b) THEN Len(a) ELSE Len(b)
    OBVIOUS
  <1>2. PICK diff : diff = {i \in 1..size : a[i] # b[i]}
    OBVIOUS
  <1>3. PICK at : at = CHOOSE i \in diff : \A j \in diff : i <= j
    OBVIOUS
  <1>4. tf_list_elemcmp(a, b) = IF diff = {} THEN Len(a) - Len(b) ELSE IF a[at] > b[at] THEN 1 ELSE -1
    BY <1>1, <1>2, <1>3, Zenon DEF tf_list_elemcmp
  <1>5. ASSUME a = b PROVE diff = {} /\ Len(a) - Len(b) = 0
    BY <1>2, <1>5
  <1>6. ASSUME diff = {}, Len(a) - Len(b) = 0 PROVE a = b
    <2>1. Len(a) = Len(b) /\ size = Len(a)
      BY <1>1, <1>6
    <2>2. \A i \in 1..Len(a) : a[i] = b[i]
      BY <1>2, <1>6, <2>1
    <2> QED
      BY <2>1, <2>2, SeqEqual
  <1>7. Len(a) - Len(b) \in Int
    OBVIOUS
  <1> QED
    BY <1>4, <1>5, <1>6, <1>7

\* What a search in the range r of l finds.
FoundIn(l, s, r, i) ==
    IF \E k \in r[1]..(r[2] - 1) : At(l, k) = s THEN i \in r[1]..(r[2] - 1) /\ At(l, i) = s ELSE i = -1

\* The half that is left has the string if the range has it.
LEMMA HalfHasIt ==
    ASSUME NEW l, l.num \in Nat, \A i \in 0..(l.num - 1) : At(l, i) \in Seq(Nat), Sorted(l),
           NEW s \in Seq(Nat), NEW r \in Ranges(l.num), r[1] < r[2],
           NEW k \in r[1]..(r[2] - 1), At(l, k) = s
    PROVE  /\ tf_list_elemcmp(s, At(l, Mid(r))) < 0 => k < Mid(r)
           /\ tf_list_elemcmp(s, At(l, Mid(r))) > 0 => k > Mid(r)
  <1>1. PICK m \in 0..(l.num - 1) : m = Mid(r)
    BY RangeFacts
  <1>2. k \in 0..(l.num - 1)
    BY RangeFacts
  <1>3. PICK a \in Seq(Nat) : a = At(l, m)
    BY <1>1
  <1>4. k = m => tf_list_elemcmp(s, a) = 0
    BY <1>3, CompareEqual
  <1>5. m < k => tf_list_elemcmp(a, s) <= 0
    BY <1>1, <1>2, <1>3 DEF Sorted
  <1>6. k < m => tf_list_elemcmp(s, a) <= 0
    BY <1>1, <1>2, <1>3 DEF Sorted
  <1>7. m < k => ~(tf_list_elemcmp(s, a) < 0)
    BY <1>5, CompareTurned
  <1>8. tf_list_elemcmp(s, a) \in Int
    BY CompareEqual
  <1> QED
    BY <1>1, <1>2, <1>3, <1>4, <1>6, <1>7, <1>8

\* bsearch finds the string in every range of a sorted list that has it.
LEMMA SearchFinds ==
    ASSUME NEW l, l.num \in Nat, \A i \in 0..(l.num - 1) : At(l, i) \in Seq(Nat), Sorted(l),
           NEW s \in Seq(Nat), NEW f, f = SearchFun(f, l, s)
    PROVE  \A r \in Ranges(l.num) : FoundIn(l, s, r, f[r])
  <1>1. PICK S : S = {d \in Nat : \A r \in Ranges(l.num) : Size(r) <= d => FoundIn(l, s, r, f[r])}
    OBVIOUS
  <1>2. ASSUME NEW r \in Ranges(l.num), r[1] >= r[2] PROVE FoundIn(l, s, r, f[r])
    <2>1. f[r] = -1
      BY <1>2, SearchFunAt DEF SearchBody
    <2>2. ~\E k \in r[1]..(r[2] - 1) : At(l, k) = s
      BY <1>2, RangeFacts
    <2> QED
      BY <2>1, <2>2 DEF FoundIn
  <1>3. ASSUME NEW r \in Ranges(l.num), r[1] < r[2],
               \A q \in Ranges(l.num) : Size(q) < Size(r) => FoundIn(l, s, q, f[q])
        PROVE  FoundIn(l, s, r, f[r])
    <2>1. /\ Mid(r) \in r[1]..(r[2] - 1) /\ Mid(r) \in 0..(l.num - 1)
          /\ LowerHalf(r) \in Ranges(l.num) /\ UpperHalf(r) \in Ranges(l.num)
          /\ Size(LowerHalf(r)) < Size(r) /\ Size(UpperHalf(r)) < Size(r)
      BY <1>3, RangeFacts
    <2>2. PICK lo \in Nat, hi \in Nat, m \in Nat : lo = r[1] /\ hi = r[2] /\ m = Mid(r) /\ lo <= m /\ m < hi
      BY <2>1, <1>3, RangeFacts
    <2>3. LowerHalf(r)[1] = lo /\ LowerHalf(r)[2] = m /\ UpperHalf(r)[1] = m + 1 /\ UpperHalf(r)[2] = hi
      BY <2>2 DEF LowerHalf, UpperHalf
    <2>4. PICK a \in Seq(Nat) : a = At(l, m)
      BY <2>1, <2>2
    <2>5. PICK c \in Int : c = tf_list_elemcmp(s, a) /\ (c = 0 <=> s = a)
      BY CompareEqual
    <2>6. f[r] = IF c < 0 THEN f[LowerHalf(r)] ELSE IF c > 0 THEN f[UpperHalf(r)] ELSE m
      BY <1>3, <2>2, <2>4, <2>5, SearchFunAt DEF SearchBody
    <2>7. ASSUME NEW k \in lo..(hi - 1), At(l, k) = s PROVE (c < 0 => k < m) /\ (c > 0 => k > m)
      BY <1>3, <2>2, <2>4, <2>5, <2>7, HalfHasIt
    <2>8. CASE c < 0
      <3>1. FoundIn(l, s, LowerHalf(r), f[LowerHalf(r)])
        BY <1>3, <2>1
      <3>2. IF \E k \in lo..(m - 1) : At(l, k) = s THEN f[r] \in lo..(m - 1) /\ At(l, f[r]) = s ELSE f[r] = -1
        BY <2>3, <2>6, <2>8, <3>1 DEF FoundIn
      <3>3. (\E k \in lo..(m - 1) : At(l, k) = s) <=> (\E k \in lo..(hi - 1) : At(l, k) = s)
        BY <2>2, <2>7, <2>8
      <3>4. \A i : i \in lo..(m - 1) => i \in lo..(hi - 1)
        BY <2>2
      <3> QED
        BY <2>2, <3>2, <3>3, <3>4 DEF FoundIn
    <2>9. CASE c > 0
      <3>1. FoundIn(l, s, UpperHalf(r), f[UpperHalf(r)])
        BY <1>3, <2>1
      <3>2. IF \E k \in (m + 1)..(hi - 1) : At(l, k) = s
            THEN f[r] \in (m + 1)..(hi - 1) /\ At(l, f[r]) = s ELSE f[r] = -1
        BY <2>3, <2>6, <2>9, <3>1 DEF FoundIn
      <3>3. (\E k \in (m + 1)..(hi - 1) : At(l, k) = s) <=> (\E k \in lo..(hi - 1) : At(l, k) = s)
        BY <2>2, <2>7, <2>9
      <3>4. \A i : i \in (m + 1)..(hi - 1) => i \in lo..(hi - 1)
        BY <2>2
      <3> QED
        BY <2>2, <3>2, <3>3, <3>4 DEF FoundIn
    <2>10. CASE c = 0
      BY <2>2, <2>4, <2>5, <2>6, <2>10 DEF FoundIn
    <2> QED
      BY <2>5, <2>8, <2>9, <2>10
  <1>4. 0 \in S
    BY <1>1, <1>2, RangeFacts
  <1>5. ASSUME NEW d \in Nat, d \in S PROVE d + 1 \in S
    <2>1. \A r \in Ranges(l.num) : Size(r) <= d => FoundIn(l, s, r, f[r])
      BY <1>1, <1>5
    <2>2. ASSUME NEW r \in Ranges(l.num), Size(r) <= d + 1 PROVE FoundIn(l, s, r, f[r])
      <3>1. CASE r[1] >= r[2]
        BY <1>2, <3>1
      <3>2. CASE r[1] < r[2]
        <4>1. ASSUME NEW q \in Ranges(l.num), Size(q) < Size(r) PROVE FoundIn(l, s, q, f[q])
          <5>1. Size(q) \in Int /\ Size(r) \in Int
            BY RangeFacts
          <5>2. Size(q) <= d
            BY <2>2, <4>1, <5>1
          <5> QED
            BY <2>1, <5>2
        <4> QED
          BY <1>3, <3>2, <4>1
      <3>3. r[1] >= r[2] \/ r[1] < r[2]
        BY RangeFacts
      <3> QED
        BY <3>1, <3>2, <3>3
    <2> QED
      BY <1>1, <2>2
  <1>6. l.num \in S
    BY <1>4, <1>5, SetInduction
  <1> QED
    BY <1>1, <1>6, RangeFacts

\* On a list in order bsearch finds a string exactly when the linear search
\* does, for any strings and any number of them (tf_list.c, tf_list_bsearch
\* and tf_listl_search).
THEOREM ListSearchesAgree == Spec => []SearchesAgree
  <1>1. ASSUME ListInv PROVE SearchesAgree
    <2> SUFFICES ASSUME NEW h \in Handles, Sorted(list[h]), NEW s \in Strings
                 PROVE  LET i == tf_list_bsearch(list[h], s)
                        IN  IF tf_listl_search(list[h], s) = -1 THEN i = -1
                            ELSE i \in 0..(list[h].num - 1) /\ At(list[h], i) = s
      BY DEF SearchesAgree
    <2>1. PICK l : l = list[h] /\ IsList(l) /\ Fits(l, heap) /\ heap \in [Regions -> HeapRegions]
      BY <1>1, InvFacts DEF ListInv
    <2>2. l.num \in Nat /\ l.start = 0
      BY <2>1, ListParts
    <2>3. ASSUME NEW i \in 0..(l.num - 1) PROVE At(l, i) \in Seq(Nat)
      <3>1. /\ heap[l.array[i].ptr].str \in Seq(Nat)
            /\ l.array[i].size = Len(heap[l.array[i].ptr].str)
        BY <2>1, NodeFacts
      <3>2. SubSeq(heap[l.array[i].ptr].str, 1, l.array[i].size) = heap[l.array[i].ptr].str
        BY <3>1, WholeString
      <3>3. l.start + i = i
        BY <2>2
      <3> QED
        BY <3>1, <3>2, <3>3 DEF At, String
    <2>4. s \in Seq(Nat)
      BY ListAssumption
    <2>5. PICK f : f = SearchFun(f, l, s) /\ tf_list_bsearch(l, s) = f[<<0, l.num>>]
      <3>1. \E f : f = SearchFun(f, l, s)
        BY <2>2, SearchExists
      <3>2. PICK g : g = CHOOSE f : f = SearchFun(f, l, s)
        OBVIOUS
      <3>3. g = SearchFun(g, l, s)
        BY <3>1, <3>2
      <3> QED
        BY <3>2, <3>3, SearchUnfolds
    <2>6. <<0, l.num>> \in Ranges(l.num)
      BY <2>2 DEF Ranges
    <2>7. PICK i : i = f[<<0, l.num>>] /\ FoundIn(l, s, <<0, l.num>>, i)
      BY <2>1, <2>2, <2>3, <2>4, <2>5, <2>6, SearchFinds
    <2>8. IF \E k \in 0..(l.num - 1) : At(l, k) = s THEN i \in 0..(l.num - 1) /\ At(l, i) = s ELSE i = -1
      BY <2>7 DEF FoundIn
    <2>9. tf_listl_search(l, s) = -1 <=> ~\E k \in 0..(l.num - 1) : At(l, k) = s
      <3>1. PICK found : found = {k \in 0..(l.num - 1) : Len(At(l, k)) = Len(s) /\ At(l, k) = s}
        OBVIOUS
      <3>2. tf_listl_search(l, s) = IF found = {} THEN -1 ELSE CHOOSE k \in found : \A j \in found : k <= j
        BY <3>1 DEF tf_listl_search
      <3>3. found # {} => \E k \in found : \A j \in found : k <= j
        <4>1. found \subseteq Nat
          BY <2>2, <3>1
        <4> QED
          BY <4>1, LeastOf
      <3>4. found # {} => (CHOOSE k \in found : \A j \in found : k <= j) \in found
        BY <3>3, Zenon
      <3>5. -1 \notin found
        BY <2>2, <3>1
      <3>6. found = {} <=> ~\E k \in 0..(l.num - 1) : At(l, k) = s
        BY <3>1
      <3> QED
        BY <3>2, <3>4, <3>5, <3>6, Zenon
    <2> QED
      BY <2>1, <2>5, <2>7, <2>8, <2>9
  <1> QED
    BY <1>1, ListInvariant, PTL
=============================================================================
