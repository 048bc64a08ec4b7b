--------------------------- MODULE AeFilesProofs ----------------------------
(***************************************************************************)
(* The file events of ae.c over epoll, for a set of any size, any number   *)
(* of descriptors and handler functions, and batches as long as the set.   *)
(***************************************************************************)
EXTENDS AeFiles, SequenceTheorems, WellFoundedInduction, TLAPS

EventKinds == {AE_READABLE, AE_WRITABLE}
Functions  == Procs \cup {NoProc}
EventType  == [mask : Masks, rfileProc : Functions, wfileProc : Functions]
FiredType  == [fd : Table, mask : Masks, file : Nat]

FilesTypeOK ==
    /\ events \in [Table -> EventType]
    /\ maxfd \in -1..(SETSIZE - 1)
    /\ interest \in [Fds -> Masks]
    /\ file \in [Fds -> Nat]
    /\ nextFile \in Nat \ {0}
    /\ pc \in {"app", "read", "inread", "write", "inwrite"}
    /\ fired \in Seq(FiredType)
    /\ j \in Nat \ {0}
    /\ rfired \in BOOLEAN
    /\ served \in Functions
    /\ owed \in SUBSET (Table \X EventKinds)

\* The dispatch loop is at an entry of the batch, and has called a reader
\* only for this entry.
AtEntry ==
    /\ pc \in {"inread", "write", "inwrite"} => j <= Len(fired)
    /\ pc = "read" => ~rfired

\* What is owed belongs to an entry the loop has still to go through, the
\* event of that entry is still registered, and nothing is owed in between
\* two batches.
OwedAhead ==
    /\ pc = "app" => owed = {}
    /\ \A f \in Table, e \in EventKinds : <<f, e>> \in owed =>
          /\ e \in events[f].mask
          /\ \E k \in 1..Len(fired) : k >= j /\ fired[k].fd = f /\ e \in fired[k].mask

\* At its present entry the loop owes neither the event it has called a
\* handler for nor one that it has found invalid; and if the reader was
\* called and the writer is owed, the reader that was called is the one still
\* registered.
OwedHere ==
    /\ pc \in {"inread", "write", "inwrite"} => <<fired[j].fd, AE_READABLE>> \notin owed
    /\ pc = "inwrite" => <<fired[j].fd, AE_WRITABLE>> \notin owed
    /\ pc \in {"inread", "write"} /\ rfired /\ <<fired[j].fd, AE_WRITABLE>> \in owed
          => served = events[fired[j].fd].rfileProc

BatchInv == DistinctFds(fired) /\ AtEntry /\ OwedAhead /\ OwedHere

FilesInv == FilesTypeOK /\ MaxfdIsHighest /\ KernelMatchesTable /\ BatchInv
-----------------------------------------------------------------------------
LEMMA TableBounds ==
    /\ SETSIZE \in Nat \ {0} /\ MaxFd \in Nat
    /\ Table \subseteq Fds /\ Table \subseteq Nat /\ Fds \subseteq Nat
    /\ \A f \in Fds : f < SETSIZE <=> f \in Table
  BY FilesAssumption DEF Table, Fds

LEMMA FilesInit == Init => FilesInv
  <1> SUFFICES ASSUME Init
               PROVE  FilesInv
    OBVIOUS
  <1>1. AE_NONE \in Masks /\ NoProc \in Functions
    BY DEF AE_NONE, Masks, Functions
  <1>2. events \in [Table -> EventType] /\ \A f \in Table : events[f].mask = AE_NONE
    BY <1>1 DEF Init, EventType
  <1>3. FilesTypeOK
    <2>1. maxfd \in -1..(SETSIZE - 1)
      BY TableBounds DEF Init
    <2>2. interest \in [Fds -> Masks] /\ file \in [Fds -> Nat]
      BY <1>1 DEF Init, NoFile
    <2>3. nextFile = 1 /\ pc = "app" /\ j = 1 /\ served \in Functions /\ owed = {}
      BY <1>1 DEF Init
    <2>4. fired \in Seq(FiredType)
      BY DEF Init
    <2>5. rfired \in BOOLEAN
      BY DEF Init
    <2> QED
      BY <1>2, <2>1, <2>2, <2>3, <2>4, <2>5 DEF FilesTypeOK
  <1>4. MaxfdIsHighest
    BY <1>2 DEF Init, MaxfdIsHighest, Registered
  <1>5. KernelMatchesTable
    BY <1>2, TableBounds DEF Init, KernelMatchesTable
  <1>6. BatchInv
    BY DEF Init, BatchInv, DistinctFds, AtEntry, OwedAhead, OwedHere
  <1> QED
    BY <1>3, <1>4, <1>5, <1>6 DEF FilesInv

\* The loop of aeDeleteFileEvent that looks for the new maxfd finds it.
LEMMA HighestBelowFound ==
    ASSUME NEW f \in Table
    PROVE  /\ HighestBelow(f) \in -1..(f - 1)
           /\ HighestBelow(f) # -1 => events[HighestBelow(f)].mask # AE_NONE
           /\ \A h \in (HighestBelow(f) + 1)..(f - 1) : events[h].mask = AE_NONE
  <1> DEFINE D == {d \in 0..f : \A h \in d..(f - 1) : events[h].mask = AE_NONE}
  <1>1. f \in Nat /\ D \subseteq Nat
    BY TableBounds
  <1>2. f \in D
    BY <1>1
  <1>3. PICK d \in D : \A y \in D : ~(<<y, d>> \in OpToRel(<, Nat))
    BY <1>1, <1>2, NatLessThanWellFounded, WFMin
  <1>4. d \in 0..f /\ \A h \in d..(f - 1) : events[h].mask = AE_NONE
    OBVIOUS
  <1>5. \A y \in D : ~(y < d)
    BY <1>1, <1>3 DEF OpToRel
  <1>6. PICK g \in -1..(f - 1) : g = d - 1
    BY <1>1, <1>4
  <1>7. g # -1 => events[g].mask # AE_NONE
    <2> SUFFICES ASSUME g # -1, events[g].mask = AE_NONE
                 PROVE  FALSE
      OBVIOUS
    <2>1. g \in 0..f
      BY <1>1, <1>6
    <2>2. \A h \in g..(f - 1) : h = g \/ h \in d..(f - 1)
      BY <1>1, <1>4, <1>6
    <2>3. g \in D
      BY <1>4, <2>1, <2>2
    <2> QED
      BY <1>1, <1>4, <1>5, <1>6, <2>1, <2>3
  <1>8. \A h \in (g + 1)..(f - 1) : events[h].mask = AE_NONE
    BY <1>1, <1>4, <1>6
  <1> HIDE DEF D
  <1> QED
    BY <1>7, <1>8 DEF HighestBelow
-----------------------------------------------------------------------------
(* What the application does.                                              *)

\* The entry that the dispatch loop is at.
LEMMA EntryType ==
    ASSUME FilesTypeOK, BatchInv, pc \in {"inread", "write", "inwrite"} \/ j <= Len(fired)
    PROVE  j \in 1..Len(fired) /\ fired[j].fd \in Table /\ fired[j].mask \in Masks
  <1>1. j <= Len(fired) /\ j \in Nat \ {0} /\ fired \in Seq(FiredType)
    BY DEF BatchInv, AtEntry, FilesTypeOK
  <1>2. j \in 1..Len(fired)
    BY <1>1
  <1>3. fired[j] \in FiredType
    BY <1>1, <1>2
  <1> QED
    BY <1>2, <1>3 DEF FiredType

\* In the application the batch stays as it is.  Its invariant follows if
\* what is owed only shrinks, owed events stay registered, and a descriptor
\* whose reader changes is owed nothing.
LEMMA BatchKept ==
    ASSUME BatchInv, FilesTypeOK, UNCHANGED batch, owed' \subseteq owed,
           \A f \in Table, e \in EventKinds : <<f, e>> \in owed' => e \in events'[f].mask,
           \A f \in Table : \/ events'[f].rfileProc = events[f].rfileProc
                            \/ <<f, AE_WRITABLE>> \notin owed'
    PROVE  BatchInv'
  <1>1. UNCHANGED <<pc, fired, j, rfired, served>>
    BY DEF batch
  <1>2. DistinctFds(fired') /\ AtEntry'
    BY <1>1 DEF BatchInv, AtEntry
  <1>3. OwedAhead'
    BY <1>1 DEF BatchInv, OwedAhead
  <1>4. OwedHere'
    <2>1. pc \in {"inread", "write"} => fired[j].fd \in Table
      BY EntryType
    <2> QED
      BY <1>1, <2>1 DEF BatchInv, OwedHere
  <1> QED
    BY <1>2, <1>3, <1>4 DEF BatchInv

LEMMA OpenStep ==
    ASSUME FilesInv, NEW f \in Fds, Open(f)
    PROVE  FilesInv'
  <1>1. FilesTypeOK /\ KernelMatchesTable /\ BatchInv /\ MaxfdIsHighest
    BY DEF FilesInv
  <1>2. /\ file' = [file EXCEPT ![f] = nextFile] /\ nextFile' = nextFile + 1
        /\ UNCHANGED <<events, maxfd, interest, batch, owed>>
    BY DEF Open, loop
  <1>3. FilesTypeOK'
    BY <1>1, <1>2 DEF FilesTypeOK, batch
  <1>4. MaxfdIsHighest'
    BY <1>1, <1>2 DEF MaxfdIsHighest, Registered
  <1>5. KernelMatchesTable'
    BY <1>1, <1>2 DEF KernelMatchesTable, FilesTypeOK, NoFile
  <1>6. BatchInv'
    BY <1>1, <1>2, BatchKept DEF BatchInv, OwedAhead
  <1> QED
    BY <1>3, <1>4, <1>5, <1>6 DEF FilesInv

LEMMA CloseStep ==
    ASSUME FilesInv, NEW f \in Fds, Close(f)
    PROVE  FilesInv'
  <1>1. FilesTypeOK /\ KernelMatchesTable /\ BatchInv /\ MaxfdIsHighest
    BY DEF FilesInv
  <1>2. /\ f \in Table => events[f].mask = AE_NONE
        /\ file' = [file EXCEPT ![f] = NoFile] /\ interest' = [interest EXCEPT ![f] = AE_NONE]
        /\ UNCHANGED <<events, maxfd, nextFile, batch, owed>>
    BY DEF Close
  <1>3. FilesTypeOK'
    BY <1>1, <1>2 DEF FilesTypeOK, batch, NoFile, Masks, AE_NONE
  <1>4. MaxfdIsHighest'
    BY <1>1, <1>2 DEF MaxfdIsHighest, Registered
  <1>5. KernelMatchesTable'
    BY <1>1, <1>2, TableBounds DEF KernelMatchesTable, FilesTypeOK
  <1>6. BatchInv'
    BY <1>1, <1>2, BatchKept DEF BatchInv, OwedAhead
  <1> QED
    BY <1>3, <1>4, <1>5, <1>6 DEF FilesInv

LEMMA CreateStep ==
    ASSUME FilesInv, NEW f \in Fds, NEW m \in Masks \ {{}}, NEW p \in Procs,
           aeCreateFileEvent(f, m, p)
    PROVE  FilesInv'
  <1>1. FilesTypeOK /\ KernelMatchesTable /\ BatchInv /\ MaxfdIsHighest
    BY DEF FilesInv
  <1>2. f \in Table /\ file[f] # NoFile /\ m # AE_NONE
    BY TableBounds DEF aeCreateFileEvent, aeApiAddEvent, EpollAccepts, AE_NONE
  <1>3. /\ interest' = [interest EXCEPT ![f] = m \cup events[f].mask]
        /\ events' = [events EXCEPT ![f] =
                     [mask |-> @.mask \cup m,
                      rfileProc |-> IF AE_READABLE \in m THEN p ELSE @.rfileProc,
                      wfileProc |-> IF AE_WRITABLE \in m THEN p ELSE @.wfileProc]]
        /\ maxfd' = IF f > maxfd THEN f ELSE maxfd
        /\ owed' = owed \ ({f} \X EventKinds)
        /\ UNCHANGED <<file, nextFile, batch>>
    BY DEF aeCreateFileEvent, aeApiAddEvent, EventKinds
  <1>4. events[f] \in EventType
    BY <1>1, <1>2 DEF FilesTypeOK
  <1>5. /\ events' \in [Table -> EventType]
        /\ events'[f].mask = events[f].mask \cup m
        /\ \A g \in Table : g # f => events'[g] = events[g]
    <2>1. PICK r \in Functions, w \in Functions :
             events' = [events EXCEPT ![f] = [mask |-> @.mask \cup m, rfileProc |-> r, wfileProc |-> w]]
      BY <1>3, <1>4 DEF EventType, Functions
    <2>2. events[f].mask \cup m \in Masks
      BY <1>4 DEF EventType, Masks
    <2> QED
      BY <1>1, <1>2, <2>1, <2>2 DEF FilesTypeOK, EventType
  <1>6. interest' \in [Fds -> Masks] /\ interest'[f] = events'[f].mask
        /\ \A g \in Fds : g # f => interest'[g] = interest[g]
    <2>1. m \cup events[f].mask \in Masks
      BY <1>4 DEF EventType, Masks
    <2> QED
      BY <1>1, <1>3, <1>5, <2>1 DEF FilesTypeOK
  <1>7. FilesTypeOK'
    <2>1. maxfd' \in -1..(SETSIZE - 1)
      BY <1>1, <1>2, <1>3, TableBounds DEF FilesTypeOK, Table
    <2>2. owed' \in SUBSET (Table \X EventKinds)
      BY <1>1, <1>3 DEF FilesTypeOK
    <2> QED
      BY <1>1, <1>3, <1>5, <1>6, <2>1, <2>2 DEF FilesTypeOK, batch
  <1>8. MaxfdIsHighest'
    <2>1. events'[f].mask # AE_NONE
      BY <1>2, <1>5 DEF AE_NONE
    <2>2. Registered' = Registered \cup {f} /\ Registered \subseteq Nat /\ f \in Nat /\ maxfd \in Int
      BY <1>1, <1>2, <1>5, <2>1, TableBounds DEF Registered, FilesTypeOK
    <2> QED
      BY <1>1, <1>3, <2>2 DEF MaxfdIsHighest
  <1>9. KernelMatchesTable'
    BY <1>1, <1>2, <1>3, <1>5, <1>6, TableBounds DEF KernelMatchesTable
  <1>10. BatchInv'
    <2>1. owed' \subseteq owed /\ \A e \in EventKinds : <<f, e>> \notin owed'
      BY <1>3
    <2>2. \A g \in Table, e \in EventKinds : <<g, e>> \in owed' => e \in events'[g].mask
      BY <1>1, <1>5, <2>1 DEF BatchInv, OwedAhead
    <2>3. \A g \in Table : \/ events'[g].rfileProc = events[g].rfileProc
                           \/ <<g, AE_WRITABLE>> \notin owed'
      BY <1>5, <2>1 DEF EventKinds
    <2> QED
      BY <1>1, <1>3, <2>1, <2>2, <2>3, BatchKept
  <1> QED
    BY <1>7, <1>8, <1>9, <1>10 DEF FilesInv

LEMMA MaskReplaced ==
    ASSUME NEW r \in EventType, NEW m \in Masks
    PROVE  /\ [r EXCEPT !.mask = m] \in EventType
           /\ [r EXCEPT !.mask = m].mask = m
           /\ [r EXCEPT !.mask = m].rfileProc = r.rfileProc
  BY DEF EventType

LEMMA DeleteStep ==
    ASSUME FilesInv, NEW f \in Fds, NEW m \in Masks \ {{}}, aeDeleteFileEvent(f, m)
    PROVE  FilesInv'
  <1> DEFINE left == events[f].mask \ m
  <1>1. FilesTypeOK /\ KernelMatchesTable /\ BatchInv /\ MaxfdIsHighest
    BY DEF FilesInv
  <1>2. f \in Table /\ events[f].mask # AE_NONE
    BY TableBounds DEF aeDeleteFileEvent
  <1>3. /\ events' = [events EXCEPT ![f].mask = left]
        /\ maxfd' = IF f = maxfd /\ left = AE_NONE THEN HighestBelow(f) ELSE maxfd
        /\ interest' = [interest EXCEPT ![f] = left]
        /\ owed' = owed \ ({f} \X m)
        /\ UNCHANGED <<file, nextFile, batch>>
    BY DEF aeDeleteFileEvent, aeApiDelEvent
  <1>4. left \in Masks /\ left \subseteq events[f].mask
    BY <1>1, <1>2 DEF FilesTypeOK, EventType, Masks
  <1>5. /\ events' \in [Table -> EventType] /\ events'[f].mask = left
        /\ events'[f].rfileProc = events[f].rfileProc
        /\ \A g \in Table : g # f => events'[g] = events[g]
    <2>1. events[f] \in EventType /\ events' = [events EXCEPT ![f] = [events[f] EXCEPT !.mask = left]]
      BY <1>1, <1>2, <1>3 DEF FilesTypeOK
    <2> HIDE DEF left
    <2>2. PICK v \in EventType : /\ v = [events[f] EXCEPT !.mask = left] /\ v.mask = left
                                 /\ v.rfileProc = events[f].rfileProc
      BY <1>4, <2>1, MaskReplaced
    <2> QED
      BY <1>1, <1>2, <2>1, <2>2 DEF FilesTypeOK
  <1>6. interest' \in [Fds -> Masks] /\ interest'[f] = left
        /\ \A g \in Fds : g # f => interest'[g] = interest[g]
    BY <1>1, <1>3, <1>4 DEF FilesTypeOK
  <1>7. HighestBelow(f) \in -1..(f - 1)
    BY <1>2, HighestBelowFound
  <1>8. FilesTypeOK'
    <2>1. maxfd' \in -1..(SETSIZE - 1)
      BY <1>1, <1>2, <1>3, <1>7, TableBounds DEF FilesTypeOK, Table
    <2>2. owed' \in SUBSET (Table \X EventKinds)
      BY <1>1, <1>3 DEF FilesTypeOK
    <2> QED
      BY <1>1, <1>3, <1>5, <1>6, <2>1, <2>2 DEF FilesTypeOK, batch
  <1> HIDE DEF left
  <1>9. MaxfdIsHighest'
    <2>1. \A g \in Registered' : g \in Registered /\ (g = f => left # AE_NONE)
      BY <1>2, <1>5 DEF Registered
    <2>2. \A g \in Registered : g # f \/ left # AE_NONE => g \in Registered'
      BY <1>5 DEF Registered
    <2>3. CASE f = maxfd /\ left = AE_NONE
      <3>1. PICK g \in -1..(f - 1) :
               /\ maxfd' = g
               /\ g # -1 => events[g].mask # AE_NONE
               /\ \A h \in (g + 1)..(f - 1) : events[h].mask = AE_NONE
        BY <1>2, <1>3, <2>3, HighestBelowFound
      <3>2. f \in Nat /\ \A h \in Registered' : h \in Table /\ h \in Nat /\ h <= f /\ h # f
        BY <1>1, <1>2, <2>1, <2>3, TableBounds DEF MaxfdIsHighest, Registered
      <3>3. \A h \in Registered' : h <= g
        <4> SUFFICES ASSUME NEW h \in Registered', h > g
                     PROVE  FALSE
          BY <3>2
        <4>1. h \in (g + 1)..(f - 1)
          BY <3>2
        <4> QED
          BY <2>1, <3>1, <4>1 DEF Registered
      <3>4. g # -1 => g \in Registered'
        <4> SUFFICES ASSUME g # -1
                     PROVE  g \in Registered'
          OBVIOUS
        <4>1. g \in Table /\ g # f
          BY <1>2, <3>2, TableBounds DEF Table
        <4> QED
          BY <2>2, <3>1, <4>1 DEF Registered
      <3> QED
        BY <3>1, <3>3, <3>4 DEF MaxfdIsHighest
    <2>4. CASE ~(f = maxfd /\ left = AE_NONE)
      <3>1. maxfd' = maxfd
        BY <1>3, <2>4
      <3>2. maxfd # -1 => maxfd \in Registered'
        BY <1>1, <2>2, <2>4 DEF MaxfdIsHighest
      <3> QED
        BY <1>1, <2>1, <3>1, <3>2 DEF MaxfdIsHighest
    <2> QED
      BY <2>3, <2>4
  <1>10. KernelMatchesTable'
    <2>1. interest[f] # AE_NONE
      BY <1>1, <1>2 DEF KernelMatchesTable
    <2> QED
      BY <1>1, <1>2, <1>3, <1>5, <1>6, <2>1, TableBounds DEF KernelMatchesTable
  <1>11. BatchInv'
    <2>1. owed' \subseteq owed /\ \A e \in m : <<f, e>> \notin owed'
      BY <1>3
    <2>2. \A g \in Table, e \in EventKinds : <<g, e>> \in owed' => e \in events'[g].mask
      BY <1>1, <1>5, <2>1 DEF BatchInv, OwedAhead, left
    <2> QED
      BY <1>1, <1>3, <1>5, <2>1, <2>2, BatchKept
  <1> QED
    BY <1>8, <1>9, <1>10, <1>11 DEF FilesInv
-----------------------------------------------------------------------------
(* The poll and the dispatch loop.                                         *)

\* What epoll_wait reports are registered descriptors.
LEMMA BatchesType ==
    ASSUME FilesTypeOK, KernelMatchesTable, NEW s \in Batches
    PROVE  s \in Seq(FiredType) /\ DOMAIN s = 1..Len(s) /\ Len(s) \in Nat
  <1> DEFINE W == {f \in Fds : interest[f] # AE_NONE}
             E == UNION {{Entry(f, m) : m \in Reportable(f)} : f \in W}
  <1>1. E \subseteq FiredType
    <2> SUFFICES ASSUME NEW f \in W, NEW m \in Reportable(f)
                 PROVE  Entry(f, m) \in FiredType
      OBVIOUS
    <2>1. f \in Table /\ m \in Masks /\ file[f] \in Nat
      BY DEF KernelMatchesTable, Reportable, FilesTypeOK
    <2> QED
      BY <2>1 DEF Entry, FiredType
  <1>2. PICK n \in 0..SETSIZE : s \in [1..n -> E]
    BY DEF Batches
  <1>3. n \in Nat
    BY TableBounds
  <1> HIDE DEF E
  <1>4. s \in [1..n -> FiredType]
    BY <1>1, <1>2
  <1>5. s \in Seq(FiredType)
    BY <1>3, <1>4, SeqDef
  <1> QED
    BY <1>5, LenProperties

LEMMA PollStep ==
    ASSUME FilesInv, NEW s \in Batches, aeApiPoll(s)
    PROVE  FilesInv'
  <1>1. FilesTypeOK /\ KernelMatchesTable /\ BatchInv /\ MaxfdIsHighest
    BY DEF FilesInv
  <1>2. /\ DistinctFds(s) /\ pc' = "read" /\ fired' = s /\ j' = 1 /\ rfired' = FALSE /\ served' = NoProc
        /\ owed' = UNION {{s[k].fd} \X (s[k].mask \cap events[s[k].fd].mask) : k \in DOMAIN s}
        /\ UNCHANGED <<events, maxfd, interest, file, nextFile>>
    BY DEF aeApiPoll, loop
  <1>3. s \in Seq(FiredType) /\ DOMAIN s = 1..Len(s) /\ Len(s) \in Nat
    BY <1>1, BatchesType
  <1>4. \A k \in 1..Len(s) : s[k].fd \in Table /\ s[k].mask \in Masks
    <2> SUFFICES ASSUME NEW k \in 1..Len(s)
                 PROVE  s[k].fd \in Table /\ s[k].mask \in Masks
      OBVIOUS
    <2>1. s[k] \in FiredType
      BY <1>3
    <2> QED
      BY <2>1 DEF FiredType
  <1>5. owed' \in SUBSET (Table \X EventKinds)
    BY <1>2, <1>3, <1>4 DEF Masks, EventKinds
  <1>6. FilesTypeOK'
    <2>1. rfired' \in BOOLEAN
      BY <1>2
    <2> QED
      BY <1>1, <1>2, <1>3, <1>5, <2>1 DEF FilesTypeOK, Functions
  <1>7. MaxfdIsHighest' /\ KernelMatchesTable'
    BY <1>1, <1>2 DEF MaxfdIsHighest, Registered, KernelMatchesTable
  <1>8. AtEntry' /\ OwedHere'
    BY <1>2 DEF AtEntry, OwedHere
  <1>9. OwedAhead'
    <2> SUFFICES ASSUME NEW f \in Table, NEW e \in EventKinds, <<f, e>> \in owed'
                 PROVE  /\ e \in events'[f].mask
                        /\ \E k \in 1..Len(s) : k >= 1 /\ s[k].fd = f /\ e \in s[k].mask
      BY <1>2 DEF OwedAhead
    <2>1. PICK k \in 1..Len(s) : <<f, e>> \in {s[k].fd} \X (s[k].mask \cap events[s[k].fd].mask)
      BY <1>2, <1>3
    <2>2. s[k].fd = f /\ e \in s[k].mask /\ e \in events[f].mask
      BY <2>1
    <2> QED
      BY <1>2, <1>3, <2>2
  <1> QED
    BY <1>2, <1>6, <1>7, <1>8, <1>9 DEF FilesInv, BatchInv

\* Fired events of the entry the loop is at: what is owed there is valid.
LEMMA OwedIsValid ==
    ASSUME FilesTypeOK, BatchInv, j \in 1..Len(fired), NEW e \in EventKinds,
           <<fired[j].fd, e>> \in owed
    PROVE  Valid(e)
  <1>1. fired[j].fd \in Table /\ DOMAIN fired = 1..Len(fired)
    BY EntryType DEF FilesTypeOK
  <1>2. PICK k \in 1..Len(fired) : fired[k].fd = fired[j].fd /\ e \in fired[k].mask
    BY <1>1 DEF BatchInv, OwedAhead
  <1>3. k = j
    BY <1>1, <1>2 DEF BatchInv, DistinctFds
  <1> QED
    BY <1>1, <1>2, <1>3 DEF BatchInv, OwedAhead, Valid, fe

\* The loop goes on to the next entry, owing nothing for the present one.
LEMMA NextEntryStep ==
    ASSUME FilesTypeOK, BatchInv, pc \in {"write", "inwrite"}, NextEntry,
           owed' \subseteq owed, \A e \in EventKinds : <<fired[j].fd, e>> \notin owed',
           UNCHANGED <<loop, fired>>
    PROVE  BatchInv'
  <1>1. /\ pc' = "read" /\ j' = j + 1 /\ rfired' = FALSE /\ j \in Nat
        /\ UNCHANGED <<events, fired>>
    BY DEF NextEntry, loop, FilesTypeOK
  <1>2. AtEntry' /\ OwedHere' /\ DistinctFds(fired')
    BY <1>1 DEF AtEntry, OwedHere, BatchInv
  <1>3. OwedAhead'
    <2> SUFFICES ASSUME NEW f \in Table, NEW e \in EventKinds, <<f, e>> \in owed'
                 PROVE  /\ e \in events[f].mask
                        /\ \E k \in 1..Len(fired) : k >= j + 1 /\ fired[k].fd = f /\ e \in fired[k].mask
      BY <1>1 DEF OwedAhead
    <2>1. e \in events[f].mask
      BY DEF BatchInv, OwedAhead
    <2>2. PICK k \in 1..Len(fired) : k >= j /\ fired[k].fd = f /\ e \in fired[k].mask
      BY DEF BatchInv, OwedAhead
    <2>3. k # j
      BY <2>2
    <2>4. k >= j + 1
      BY <1>1, <2>2, <2>3
    <2> QED
      BY <2>1, <2>2, <2>4
  <1> QED
    BY <1>2, <1>3 DEF BatchInv

LEMMA NothingOwed ==
    ASSUME FilesTypeOK, BatchInv, j > Len(fired)
    PROVE  owed = {}
  <1>1. j \in Nat /\ Len(fired) \in Nat /\ owed \subseteq Table \X EventKinds
    BY DEF FilesTypeOK
  <1>2. \A k \in 1..Len(fired) : ~(k >= j)
    BY <1>1
  <1>3. \A f \in Table, e \in EventKinds : <<f, e>> \notin owed
    BY <1>2 DEF BatchInv, OwedAhead
  <1> QED
    BY <1>1, <1>3

LEMMA DispatchStep ==
    ASSUME FilesInv,
           CallReader \/ NoReader \/ ReaderReturns \/ CallWriter \/ NoWriter \/ WriterReturns \/ EndBatch
    PROVE  FilesInv'
  <1>1. FilesTypeOK /\ KernelMatchesTable /\ BatchInv /\ MaxfdIsHighest
    BY DEF FilesInv
  <1>2. UNCHANGED <<loop, file, nextFile>> /\ UNCHANGED <<events, maxfd, interest>>
    BY DEF CallReader, NoReader, ReaderReturns, CallWriter, NoWriter, WriterReturns, EndBatch, loop
  <1>3. MaxfdIsHighest' /\ KernelMatchesTable'
    BY <1>1, <1>2 DEF MaxfdIsHighest, Registered, KernelMatchesTable
  <1>4. owed' \subseteq owed
    BY DEF CallReader, NoReader, ReaderReturns, CallWriter, NoWriter, WriterReturns, EndBatch
  <1>5. SUFFICES ASSUME TRUE
                 PROVE  /\ pc' \in {"app", "read", "inread", "write", "inwrite"}
                        /\ fired' \in Seq(FiredType) /\ j' \in Nat \ {0}
                        /\ rfired' \in BOOLEAN /\ served' \in Functions
                        /\ BatchInv'
    <2>1. owed' \in SUBSET (Table \X EventKinds)
      BY <1>1, <1>4 DEF FilesTypeOK
    <2> QED
      BY <1>1, <1>2, <1>3, <1>5, <2>1 DEF FilesInv, FilesTypeOK
  <1>6. AE_READABLE \in EventKinds /\ AE_WRITABLE \in EventKinds
    BY DEF EventKinds
  <1>7. CASE CallReader
    <2>1. /\ j <= Len(fired) /\ pc' = "inread" /\ rfired' = TRUE /\ served' = fe.rfileProc
          /\ owed' = owed \ {<<fired[j].fd, AE_READABLE>>} /\ UNCHANGED <<fired, j>>
      BY <1>7 DEF CallReader
    <2>2. j \in 1..Len(fired) /\ fired[j].fd \in Table
      BY <1>1, <2>1, EntryType
    <2>3. served' \in Functions
      <3>1. fe \in EventType
        BY <1>1, <2>2 DEF FilesTypeOK, fe
      <3> QED
        BY <2>1, <3>1 DEF EventType
    <2>4. OwedAhead'
      BY <1>1, <1>2, <1>4, <2>1 DEF BatchInv, OwedAhead
    <2>5. OwedHere'
      BY <1>2, <2>1 DEF OwedHere, fe
    <2>6. AtEntry' /\ DistinctFds(fired')
      BY <1>1, <2>1 DEF BatchInv, AtEntry
    <2> QED
      BY <1>1, <2>1, <2>3, <2>4, <2>5, <2>6 DEF FilesTypeOK, BatchInv
  <1>8. CASE NoReader
    <2>1. /\ pc = "read" /\ j <= Len(fired) /\ ~Valid(AE_READABLE) /\ pc' = "write"
          /\ UNCHANGED <<fired, j, rfired, served, owed>>
      BY <1>8 DEF NoReader
    <2>2. j \in 1..Len(fired)
      BY <1>1, <2>1, EntryType
    <2>3. <<fired[j].fd, AE_READABLE>> \notin owed
      BY <1>1, <1>6, <2>1, <2>2, OwedIsValid
    <2>4. OwedAhead'
      BY <1>1, <1>2, <2>1 DEF BatchInv, OwedAhead
    <2>5. OwedHere'
      BY <1>1, <2>1, <2>3 DEF OwedHere, BatchInv, AtEntry
    <2>6. AtEntry' /\ DistinctFds(fired')
      BY <1>1, <2>1 DEF BatchInv, AtEntry
    <2> QED
      BY <1>1, <2>1, <2>4, <2>5, <2>6 DEF FilesTypeOK, BatchInv
  <1>9. CASE ReaderReturns
    <2>1. pc = "inread" /\ pc' = "write" /\ UNCHANGED <<fired, j, rfired, served, owed>>
      BY <1>9 DEF ReaderReturns
    <2>2. OwedAhead'
      BY <1>1, <1>2, <2>1 DEF BatchInv, OwedAhead
    <2>3. OwedHere'
      BY <1>1, <1>2, <2>1 DEF OwedHere, BatchInv
    <2>4. AtEntry' /\ DistinctFds(fired')
      BY <1>1, <2>1 DEF BatchInv, AtEntry
    <2> QED
      BY <1>1, <2>1, <2>2, <2>3, <2>4 DEF FilesTypeOK, BatchInv
  <1>10. CASE CallWriter
    <2>1. /\ pc = "write" /\ pc' = "inwrite" /\ UNCHANGED <<fired, j, rfired, served>>
          /\ owed' = owed \ {<<fired[j].fd, AE_WRITABLE>>}
      BY <1>10 DEF CallWriter
    <2>2. OwedAhead'
      BY <1>1, <1>2, <1>4, <2>1 DEF BatchInv, OwedAhead
    <2>3. OwedHere'
      BY <1>1, <2>1 DEF OwedHere, BatchInv
    <2>4. AtEntry' /\ DistinctFds(fired')
      BY <1>1, <2>1 DEF BatchInv, AtEntry
    <2> QED
      BY <1>1, <2>1, <2>2, <2>3, <2>4 DEF FilesTypeOK, BatchInv
  <1>11. CASE NoWriter
    <2>1. /\ pc = "write" /\ ~WriterDue /\ NextEntry /\ fired' = fired
          /\ owed' = IF Valid(AE_WRITABLE) /\ fe.wfileProc = served
                     THEN owed \ {<<fired[j].fd, AE_WRITABLE>>} ELSE owed
      BY <1>11 DEF NoWriter
    <2>2. j \in 1..Len(fired)
      BY <1>1, <2>1, EntryType
    <2>3. <<fired[j].fd, AE_READABLE>> \notin owed'
      BY <1>1, <1>4, <2>1 DEF BatchInv, OwedHere
    <2>4. <<fired[j].fd, AE_WRITABLE>> \notin owed'
      <3> SUFFICES ASSUME <<fired[j].fd, AE_WRITABLE>> \in owed
                   PROVE  <<fired[j].fd, AE_WRITABLE>> \notin owed'
        BY <1>4
      <3>1. Valid(AE_WRITABLE)
        BY <1>1, <1>6, <2>2, OwedIsValid
      <3>2. rfired /\ fe.wfileProc = fe.rfileProc
        BY <2>1, <3>1 DEF WriterDue
      <3>3. served = fe.rfileProc
        BY <1>1, <2>1, <3>2 DEF BatchInv, OwedHere, fe
      <3> QED
        BY <2>1, <3>1, <3>2, <3>3
    <2>5. BatchInv'
      BY <1>1, <1>2, <1>4, <2>1, <2>3, <2>4, NextEntryStep DEF EventKinds
    <2>6. rfired' \in BOOLEAN
      BY <2>1 DEF NextEntry
    <2> QED
      BY <1>1, <2>1, <2>5, <2>6 DEF FilesTypeOK, NextEntry, Functions
  <1>12. CASE WriterReturns
    <2>1. pc = "inwrite" /\ NextEntry /\ fired' = fired /\ owed' = owed
      BY <1>12 DEF WriterReturns
    <2>2. \A e \in EventKinds : <<fired[j].fd, e>> \notin owed'
      BY <1>1, <2>1 DEF BatchInv, OwedHere, EventKinds
    <2>3. BatchInv'
      BY <1>1, <1>2, <2>1, <2>2, NextEntryStep
    <2>4. rfired' \in BOOLEAN
      BY <2>1 DEF NextEntry
    <2> QED
      BY <1>1, <2>1, <2>3, <2>4 DEF FilesTypeOK, NextEntry, Functions
  <1>13. CASE EndBatch
    <2>1. /\ pc = "read" /\ j > Len(fired) /\ pc' = "app" /\ fired' = <<>> /\ j' = 1
          /\ UNCHANGED <<rfired, served, owed>>
      BY <1>13 DEF EndBatch
    <2>2. owed = {}
      BY <1>1, <2>1, NothingOwed
    <2>3. BatchInv'
      BY <2>1, <2>2 DEF BatchInv, DistinctFds, AtEntry, OwedAhead, OwedHere
    <2> QED
      BY <1>1, <2>1, <2>3 DEF FilesTypeOK
  <1> QED
    BY <1>7, <1>8, <1>9, <1>10, <1>11, <1>12, <1>13

LEMMA FilesStep == FilesInv /\ [Next]_vars => FilesInv'
  <1> SUFFICES ASSUME FilesInv, [Next]_vars
               PROVE  FilesInv'
    OBVIOUS
  <1>1. CASE UNCHANGED vars
    BY <1>1 DEF FilesInv, FilesTypeOK, MaxfdIsHighest, Registered, KernelMatchesTable, BatchInv,
                DistinctFds, AtEntry, OwedAhead, OwedHere, vars
  <1>2. CASE CallReader \/ NoReader \/ ReaderReturns \/ CallWriter \/ NoWriter \/ WriterReturns \/ EndBatch
    BY <1>2, DispatchStep
  <1> QED
    BY <1>1, <1>2, OpenStep, CloseStep, CreateStep, DeleteStep, PollStep DEF Next

\* The invariant of aeProcessEvents and the registrations, at every point of a
\* batch: table, maxfd, kernel, and what the batch still owes.
THEOREM FilesInvariant == Spec => []FilesInv
  BY FilesInit, FilesStep, PTL DEF Spec

\* maxfd stays the highest registered descriptor, or -1, in whatever order
\* aeCreateFileEvent and aeDeleteFileEvent are called.
THEOREM MaxfdHighest == Spec => []MaxfdIsHighest
  BY FilesInvariant, PTL DEF FilesInv

\* epoll's interest list and eventLoop->events never disagree.
THEOREM KernelAgrees == Spec => []KernelMatchesTable
  BY FilesInvariant, PTL DEF FilesInv

\* A batch ends with every fired event served whose registration stood:
\* neither changes made by the handlers nor the rule that one function is
\* not called twice for a descriptor skip another one.
THEOREM NothingMissed == Spec => NoFiredEventMissed
  <1>1. FilesInv => [EndBatch => owed = {}]_vars
    BY NothingOwed DEF FilesInv, EndBatch
  <1> QED
    BY <1>1, FilesInvariant, PTL DEF NoFiredEventMissed
=============================================================================
