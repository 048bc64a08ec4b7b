--------------------------- MODULE NacPeersProofs ---------------------------
(***************************************************************************)
(* The peer table of tfnac, for any number of slots, descriptors, starts   *)
(* and connections, any width of the counters and any timeouts.            *)
(***************************************************************************)
EXTENDS NacPeers, FiniteSetTheorems, SequenceTheorems, WellFoundedInduction, TLAPS

-----------------------------------------------------------------------------
(* Remainders, and least elements of sets of numbers.                      *)

LEMMA TimesAtLeast ==
    ASSUME NEW U \in Nat \ {0}, NEW d \in Int, d >= 1
    PROVE  U * d >= U
  OBVIOUS

LEMMA DivMod ==
    ASSUME NEW U \in Nat \ {0}, NEW x \in Int
    PROVE  /\ x % U \in 0..(U - 1) /\ x \div U \in Int
           /\ x = U * (x \div U) + (x % U)
  OBVIOUS

LEMMA RemaindersEqual ==
    ASSUME NEW U \in Nat \ {0}, NEW p \in Int, NEW q \in Int,
           NEW r \in 0..(U - 1), NEW s \in 0..(U - 1), U * p + r = U * q + s
    PROVE  r = s
  <1>1. U * (p - q) = s - r /\ U * (q - p) = r - s
    OBVIOUS
  <1>2. CASE p > q
    BY <1>1, <1>2, TimesAtLeast
  <1>3. CASE q > p
    BY <1>1, <1>3, TimesAtLeast
  <1> QED
    BY <1>2, <1>3

LEMMA ModUnique ==
    ASSUME NEW U \in Nat \ {0}, NEW b \in Int, NEW q \in Int, NEW s \in 0..(U - 1),
           b = U * q + s
    PROVE  b % U = s
  <1>1. PICK p \in Int : b = U * p + (b % U)
    BY DivMod
  <1>2. b % U \in 0..(U - 1)
    BY DivMod
  <1>3. PICK r \in 0..(U - 1) : r = b % U
    BY <1>2
  <1>4. U * p + r = U * q + s
    BY <1>1, <1>3
  <1>5. r = s
    BY <1>4, RemaindersEqual
  <1> QED
    BY <1>3, <1>5

\* Adding to a remainder is adding to the number.
LEMMA ModAdd ==
    ASSUME NEW U \in Nat \ {0}, NEW x \in Int, NEW n \in Int
    PROVE  ((x % U) + n) % U = (x + n) % U
  <1>1. PICK r \in 0..(U - 1), p \in Int : r = x % U /\ x = U * p + r
    BY DivMod
  <1>2. PICK y \in Int : y = r + n
    OBVIOUS
  <1>3. PICK s \in 0..(U - 1), q \in Int : s = y % U /\ y = U * q + s
    BY DivMod
  <1>4. PICK z \in Int : z = x + n
    OBVIOUS
  <1>5. PICK k \in Int : k = p + q
    OBVIOUS
  <1>6. U * k = U * p + U * q
    BY <1>5
  <1>7. z = U * p + (U * q + s)
    BY <1>1, <1>2, <1>3, <1>4
  <1>8. z = U * k + s
    BY <1>6, <1>7
  <1>9. z % U = s
    BY <1>8, ModUnique
  <1> QED
    BY <1>1, <1>2, <1>3, <1>4, <1>9

LEMMA ModSmall ==
    ASSUME NEW U \in Nat \ {0}, NEW s \in 0..(U - 1)
    PROVE  s % U = s
  <1>1. s \in Int /\ s = U * 0 + s
    OBVIOUS
  <1> QED
    BY <1>1, ModUnique

LEMMA MinInSet ==
    ASSUME NEW T, T \subseteq Nat, T # {}
    PROVE  Min(T) \in T
  <1>1. PICK x \in T : \A y \in T : ~(<<y, x>> \in OpToRel(<, Nat))
    BY NatLessThanWellFounded, WFMin
  <1>2. \A y \in T : ~(y < x)
    BY <1>1 DEF OpToRel
  <1>3. \A y \in T : x <= y
    BY <1>2
  <1> QED
    BY <1>3 DEF Min
-----------------------------------------------------------------------------
(* The inductive invariant.                                                *)

Words    == 0..(U16 - 1)
SlotType == [id : Nat, fd : Nat, active : BOOLEAN, session_timer : Words]
Message  == [id : Nat, conn : Nat \ {0}]

PeersTypeOK ==
    /\ shm \in BOOLEAN
    /\ slots \in [Slots -> SlotType]
    /\ pc \in {"down", "booting", "run"}
    /\ reload \in BOOLEAN /\ unfinished \in BOOLEAN
    /\ socket_timeout \in Words /\ connections \in Words
    /\ registered \in [Fds -> Slots \cup {NoSlot}]
    /\ open \in [Fds -> Nat]
    /\ nextConn \in Nat \ {0}
    /\ conn \in [Slots -> Nat]
    /\ idle \in [Slots -> Nat]
    /\ bootActive \in SUBSET Slots
    /\ leaked \in SUBSET Nat

\* Before the loop runs the process has no connections.
NothingBefore ==
    /\ pc # "down" => shm
    /\ pc # "run" =>
          /\ connections = 0
          /\ \A f \in Fds : registered[f] = NoSlot /\ open[f] = NoConn
          /\ \A i \in Slots : conn[i] = NoConn

\* A connection has a number of its own, on one descriptor and in one slot.
OneConnection ==
    /\ \A f \in Fds : open[f] < nextConn
    /\ \A i \in Slots : conn[i] < nextConn
    /\ \A f, g \in Fds : open[f] = open[g] /\ open[f] # NoConn => f = g
    /\ \A i, k \in Slots : conn[i] = conn[k] /\ conn[i] # NoConn => i = k

\* A registered descriptor is that of the active slot it is registered with,
\* and the slot's connection is behind it, even if stale slots name the same
\* descriptor.
HandlersFindTheirSlot ==
    \A f \in Fds : registered[f] # NoSlot =>
        /\ registered[f] \in Active
        /\ slots[registered[f]].fd = f
        /\ open[f] = conn[registered[f]]
        /\ open[f] # NoConn

\* The ids, once a start has initialised the table.
IdsAssigned ==
    \A i \in Slots : /\ slots[i].id \in {0, i + PEER_ID_OFFSET}
                     /\ shm /\ ~unfinished => slots[i].id = i + PEER_ID_OFFSET

\* A message that was sent for a connection carries the id of its slot as
\* long as the connection is in the slot, and while the connection is open
\* the slot with that id keeps its descriptor.
Traceable ==
    {m \in Message :
        /\ m.conn < nextConn
        /\ \A i \in Slots : conn[i] = m.conn => m.id = slots[i].id
        /\ \A f \in Fds, i \in Slots :
              open[f] = m.conn /\ m.id = i + PEER_ID_OFFSET => slots[i].active /\ slots[i].fd = f}

QueuesInv == outq \in Seq(Traceable) /\ inq \in Seq(Traceable) /\ mqueue \in Seq(Traceable)

TableInv ==
    /\ PeersTypeOK
    /\ NothingBefore
    /\ OneConnection
    /\ HandlersFindTheirSlot
    /\ IdsAssigned
    /\ ConnectionsAccounted
    /\ SlotsOwnTheirFds
    /\ IdleTimeBounded

PeersInv == TableInv /\ QueuesInv
-----------------------------------------------------------------------------
LEMMA ConstantTypes ==
    /\ U16 \in Nat \ {0} /\ 0 \in Words /\ Words \subseteq Nat
    /\ Slots \subseteq Nat /\ IsFiniteSet(Slots) /\ NoSlot \notin Slots
    /\ Fds \subseteq Nat \ {0}
    /\ PEER_ID_OFFSET \in Nat \ {0}
    /\ \A w \in Int : w % U16 \in Words
  <1>1. MAX_PEER_NUMS - 1 \in Int /\ U16 \in Nat \ {0}
    BY PeersAssumption
  <1>2. IsFiniteSet(0..(MAX_PEER_NUMS - 1))
    BY <1>1, FS_Interval
  <1>3. \A w \in Int : w % U16 \in 0..(U16 - 1)
    BY <1>1, DivMod
  <1>4. Fds \subseteq Nat \ {0} /\ PEER_ID_OFFSET \in Nat \ {0}
    BY PeersAssumption
  <1>5. 0 \in Words /\ Words \subseteq Nat /\ Slots \subseteq Nat /\ NoSlot \notin Slots
    BY <1>1 DEF Words, Slots, NoSlot
  <1> QED
    BY <1>1, <1>2, <1>3, <1>4, <1>5 DEF Words, Slots

\* Queues lose their heads and gain messages whose asker is known.
LEMMA QueuesKept ==
    ASSUME QueuesInv, Traceable \subseteq Traceable',
           outq' = outq \/ (outq # <<>> /\ outq' = Tail(outq))
              \/ \E m \in Traceable' : outq' = Append(outq, m),
           inq' = inq \/ (inq # <<>> /\ inq' = Tail(inq))
              \/ (outq # <<>> /\ inq' = Append(inq, Head(outq))),
           mqueue' = mqueue \/ mqueue' = <<>> \/ (mqueue # <<>> /\ mqueue' = Tail(mqueue))
              \/ (inq # <<>> /\ mqueue' = Append(mqueue, Head(inq)))
    PROVE  QueuesInv'
  <1>1. \A q \in Seq(Traceable) : q \in Seq(Traceable')
    OBVIOUS
  <1>2. \A q \in Seq(Traceable') : q # <<>> => Tail(q) \in Seq(Traceable') /\ Head(q) \in Traceable'
    OBVIOUS
  <1>3. \A q \in Seq(Traceable'), m \in Traceable' : Append(q, m) \in Seq(Traceable')
    OBVIOUS
  <1>4. <<>> \in Seq(Traceable')
    OBVIOUS
  <1> QED
    BY <1>1, <1>2, <1>3, <1>4 DEF QueuesInv
-----------------------------------------------------------------------------
(* Closing peers.                                                          *)

Patience == IF socket_timeout = 0 THEN U16 ELSE socket_timeout

\* Slots that are active are closed, while the timers may have changed in a
\* way that suits IdleTimeBounded.
LEMMA Closing ==
    ASSUME TableInv, pc = "run",
           NEW S, S \subseteq Active,
           NEW table \in [Slots -> SlotType], NEW ticks \in [Slots -> Nat],
           \A i \in Slots : /\ table[i].id = slots[i].id
                            /\ table[i].fd = slots[i].fd
                            /\ table[i].active = slots[i].active,
           \A i \in Live \ S : /\ (table[i].session_timer + ticks[i]) % U16 = socket_timeout
                               /\ ticks[i] < Patience,
           ClosePeers(S, table, ticks),
           UNCHANGED <<shm, pc, reload, socket_timeout, nextConn, bootActive, unfinished>>
    PROVE  TableInv' /\ Traceable \subseteq Traceable'
  <1> DEFINE gone(f) == \E i \in S : slots[i].fd = f
  <1>0. S \subseteq Slots /\ Active \subseteq Slots
    BY DEF Active
  <1>1. PeersTypeOK /\ pc' = "run" /\ UNCHANGED <<shm, reload, socket_timeout, nextConn, bootActive, unfinished>>
    BY DEF TableInv
  <1>2. /\ slots' \in [Slots -> SlotType]
        /\ \A i \in Slots : /\ slots'[i].id = slots[i].id
                            /\ slots'[i].fd = slots[i].fd
                            /\ slots'[i].active <=> slots[i].active /\ i \notin S
                            /\ slots'[i].session_timer = table[i].session_timer
    <2>1. slots' = [i \in Slots |-> IF i \in S THEN [table[i] EXCEPT !.active = FALSE]
                                              ELSE table[i]]
      BY DEF ClosePeers
    <2>2. ASSUME NEW i \in Slots
          PROVE  /\ slots'[i] \in SlotType
                 /\ slots'[i].id = slots[i].id
                 /\ slots'[i].fd = slots[i].fd
                 /\ slots'[i].active <=> slots[i].active /\ i \notin S
                 /\ slots'[i].session_timer = table[i].session_timer
      <3>1. table[i] \in SlotType
        OBVIOUS
      <3>2. CASE i \in S
        <4>1. slots'[i] = [table[i] EXCEPT !.active = FALSE]
          BY <2>1, <3>2
        <4> QED
          BY <3>1, <3>2, <4>1 DEF SlotType
      <3>3. CASE i \notin S
        BY <2>1, <3>1, <3>3 DEF SlotType
      <3> QED
        BY <3>2, <3>3
    <2> QED
      BY <2>1, <2>2
  <1>3. /\ registered' \in [Fds -> Slots \cup {NoSlot}] /\ open' \in [Fds -> Nat]
        /\ \A f \in Fds : /\ registered'[f] = IF gone(f) THEN NoSlot ELSE registered[f]
                          /\ open'[f] = IF gone(f) THEN NoConn ELSE open[f]
    <2>1. \A f \in Fds : f \in {table[i].fd : i \in S} <=> gone(f)
      BY <1>0
    <2>2. /\ registered' = [f \in Fds |-> IF f \in {table[i].fd : i \in S} THEN NoSlot ELSE registered[f]]
          /\ open' = [f \in Fds |-> IF f \in {table[i].fd : i \in S} THEN NoConn ELSE open[f]]
      BY DEF ClosePeers
    <2> HIDE DEF gone
    <2> QED
      BY <1>1, <2>1, <2>2 DEF PeersTypeOK, NoConn
  <1>4. /\ conn' \in [Slots -> Nat] /\ idle' \in [Slots -> Nat]
        /\ \A i \in Slots : /\ conn'[i] = IF i \in S THEN NoConn ELSE conn[i]
                            /\ i \notin S => idle'[i] = ticks[i]
    BY <1>1 DEF ClosePeers, PeersTypeOK, NoConn
  <1>5. leaked' \in SUBSET Nat
        /\ \A c \in leaked : (\A f \in Fds : gone(f) => open[f] # c) => c \in leaked'
    <2>1. leaked' = leaked \ {open[f] : f \in {table[i].fd : i \in S} \cap Fds}
      BY DEF ClosePeers
    <2>2. \A f \in Fds : f \in {table[i].fd : i \in S} <=> gone(f)
      BY <1>0
    <2> HIDE DEF gone
    <2> QED
      BY <1>1, <2>1, <2>2 DEF PeersTypeOK
  <1>6. connections' = (connections - Cardinality(S)) % U16
    BY DEF ClosePeers
  <1>7. Active' = Active \ S
    BY <1>0, <1>2 DEF Active
  <1>8. Cardinality(S) \in Nat /\ Cardinality(Active) \in Nat /\ Cardinality(bootActive) \in Nat
        /\ Cardinality(Active \ S) = Cardinality(Active) - Cardinality(S)
    <2>1. IsFiniteSet(Active) /\ IsFiniteSet(S) /\ IsFiniteSet(bootActive)
      BY <1>0, <1>1, ConstantTypes, FS_Subset DEF PeersTypeOK
    <2>2. Active \cap S = S
      OBVIOUS
    <2> QED
      BY <2>1, <2>2, FS_CardinalityType, FS_Difference
  <1> HIDE DEF gone
  <1>9. PeersTypeOK'
    <2>1. connections' \in Words
      <3>1. connections - Cardinality(S) \in Int
        BY <1>1, <1>8, ConstantTypes DEF PeersTypeOK
      <3> QED
        BY <1>6, <3>1, ConstantTypes
    <2> QED
      BY <1>1, <1>2, <1>3, <1>4, <1>5, <2>1 DEF PeersTypeOK
  <1>10. NothingBefore'
    BY <1>1 DEF TableInv, NothingBefore
  <1>11. OneConnection'
    BY <1>1, <1>3, <1>4, ConstantTypes DEF TableInv, OneConnection, PeersTypeOK, NoConn
  <1>12. HandlersFindTheirSlot'
    <2> SUFFICES ASSUME NEW f \in Fds, registered'[f] # NoSlot
                 PROVE  /\ registered'[f] \in Active'
                        /\ slots'[registered'[f]].fd = f
                        /\ open'[f] = conn'[registered'[f]]
                        /\ open'[f] # NoConn
      BY DEF HandlersFindTheirSlot
    <2>1. ~gone(f) /\ registered'[f] = registered[f] /\ open'[f] = open[f]
      BY <1>3
    <2>2. /\ registered[f] \in Active /\ slots[registered[f]].fd = f
          /\ open[f] = conn[registered[f]] /\ open[f] # NoConn
      BY <2>1 DEF TableInv, HandlersFindTheirSlot
    <2>3. registered[f] \notin S
      BY <2>1, <2>2 DEF gone
    <2> QED
      BY <1>0, <1>2, <1>4, <1>7, <2>1, <2>2, <2>3
  <1>13. IdsAssigned'
    BY <1>1, <1>2 DEF TableInv, IdsAssigned
  <1>14. ConnectionsAccounted'
    <2>1. connections = (Cardinality(Active) - Cardinality(bootActive)) % U16
      BY DEF TableInv, ConnectionsAccounted
    <2>2. PICK a \in Int, n \in Int : a = Cardinality(Active) - Cardinality(bootActive) /\ n = -Cardinality(S)
      BY <1>8
    <2>3. ((a % U16) + n) % U16 = (a + n) % U16
      BY ModAdd, ConstantTypes
    <2>4. connections' = ((a % U16) + n) % U16
      BY <1>1, <1>6, <1>8, <2>1, <2>2, ConstantTypes DEF PeersTypeOK
    <2>5. a + n = Cardinality(Active') - Cardinality(bootActive')
      BY <1>1, <1>7, <1>8, <2>2
    <2> QED
      BY <2>3, <2>4, <2>5 DEF ConnectionsAccounted
  <1>15. SlotsOwnTheirFds'
    <2> SUFFICES ASSUME bootActive = {}
                 PROVE  SlotsOwnTheirFds'
      BY <1>1 DEF SlotsOwnTheirFds
    <2>1. /\ \A i \in Active : /\ slots[i].fd \in Fds /\ conn[i] # NoConn
                               /\ open[slots[i].fd] = conn[i] /\ registered[slots[i].fd] = i
          /\ \A f \in Fds : open[f] # NoConn => registered[f] # NoSlot \/ open[f] \in leaked
      BY DEF TableInv, SlotsOwnTheirFds
    <2>2. ASSUME NEW i \in Active'
          PROVE  /\ slots'[i].fd \in Fds /\ conn'[i] # NoConn
                 /\ open'[slots'[i].fd] = conn'[i] /\ registered'[slots'[i].fd] = i
      <3>1. i \in Active /\ i \notin S /\ i \in Slots
        BY <1>0, <1>7
      <3>2. ~gone(slots[i].fd)
        BY <2>1, <3>1 DEF gone
      <3> QED
        BY <1>2, <1>3, <1>4, <2>1, <3>1, <3>2
    <2>3. ASSUME NEW f \in Fds, open'[f] # NoConn
          PROVE  registered'[f] # NoSlot \/ open'[f] \in leaked'
      <3>1. ~gone(f) /\ registered'[f] = registered[f] /\ open'[f] = open[f]
        BY <1>3, <2>3
      <3>2. CASE registered[f] # NoSlot
        BY <3>1, <3>2
      <3>3. CASE open[f] \in leaked
        <4>1. \A g \in Fds : gone(g) => open[g] # open[f]
          BY <2>3, <3>1 DEF TableInv, OneConnection
        <4> QED
          BY <1>5, <3>1, <3>3, <4>1
      <3> QED
        BY <2>1, <2>3, <3>1, <3>2, <3>3
    <2> QED
      BY <1>12, <2>2, <2>3 DEF SlotsOwnTheirFds, HandlersFindTheirSlot
  <1>16. IdleTimeBounded'
    BY <1>0, <1>1, <1>2, <1>4, <1>7 DEF IdleTimeBounded, Live, Patience
  <1>17. Traceable \subseteq Traceable'
    <2> SUFFICES ASSUME NEW m \in Traceable
                 PROVE  m \in Traceable'
      OBVIOUS
    <2>1. /\ m \in Message /\ m.conn < nextConn /\ m.conn # NoConn
          /\ \A i \in Slots : conn[i] = m.conn => m.id = slots[i].id
          /\ \A f \in Fds, i \in Slots :
                open[f] = m.conn /\ m.id = i + PEER_ID_OFFSET => slots[i].active /\ slots[i].fd = f
      BY DEF Traceable, Message, NoConn
    <2>2. \A i \in Slots : conn'[i] = m.conn => m.id = slots'[i].id
      BY <1>2, <1>4, <2>1
    <2>3. ASSUME NEW f \in Fds, NEW i \in Slots, open'[f] = m.conn, m.id = i + PEER_ID_OFFSET
          PROVE  slots'[i].active /\ slots'[i].fd = f
      <3>1. ~gone(f) /\ open[f] = m.conn
        BY <1>3, <2>1, <2>3
      <3>2. slots[i].active /\ slots[i].fd = f /\ i \notin S
        BY <2>1, <2>3, <3>1 DEF gone
      <3> QED
        BY <1>2, <3>2
    <2> QED
      BY <1>1, <2>1, <2>2, <2>3 DEF Traceable
  <1> QED
    BY <1>9, <1>10, <1>11, <1>12, <1>13, <1>14, <1>15, <1>16, <1>17 DEF TableInv
-----------------------------------------------------------------------------
(* Starting and ending.                                                    *)

\* A process without connections, whatever its predecessor left in the table.
LEMMA Offline ==
    ASSUME PeersTypeOK', pc' # "run", pc' # "down" => shm',
           connections' = 0,
           \A f \in Fds : registered'[f] = NoSlot /\ open'[f] = NoConn,
           \A i \in Slots : conn'[i] = NoConn,
           IdsAssigned', nextConn \in Nat, nextConn' >= nextConn
    PROVE  TableInv' /\ Traceable \subseteq Traceable'
  <1>1. NothingBefore' /\ HandlersFindTheirSlot' /\ ConnectionsAccounted' /\ SlotsOwnTheirFds'
    BY DEF NothingBefore, HandlersFindTheirSlot, ConnectionsAccounted, SlotsOwnTheirFds
  <1>2. OneConnection'
    BY DEF OneConnection, PeersTypeOK, NoConn
  <1>3. IdleTimeBounded'
    BY DEF IdleTimeBounded, Live, Active
  <1>4. Traceable \subseteq Traceable'
    <2> SUFFICES ASSUME NEW m \in Traceable
                 PROVE  m \in Traceable'
      OBVIOUS
    <2>1. m \in Message /\ m.conn \in Nat /\ m.conn # NoConn /\ m.conn < nextConn
      BY DEF Traceable, Message, NoConn
    <2>2. m.conn < nextConn'
      BY <2>1 DEF PeersTypeOK
    <2> QED
      BY <2>1, <2>2 DEF Traceable
  <1> QED
    BY <1>1, <1>2, <1>3, <1>4 DEF TableInv

LEMMA ZeroedType ==
    Zeroed \in [Slots -> SlotType] /\ \A i \in Slots : Zeroed[i].id = 0 /\ ~Zeroed[i].active
  BY ConstantTypes DEF Zeroed, SlotType

LEMMA InitialPeers == Init => PeersInv
  <1> SUFFICES ASSUME Init
               PROVE  PeersInv
    OBVIOUS
  <1>1. PeersTypeOK
    <2>1. slots \in [Slots -> SlotType]
      BY ZeroedType DEF Init
    <2>2. /\ registered \in [Fds -> Slots \cup {NoSlot}] /\ open \in [Fds -> Nat]
          /\ conn \in [Slots -> Nat] /\ idle \in [Slots -> Nat]
      BY DEF Init, NoConn
    <2>3. 0 \in Words
      BY ConstantTypes
    <2>4. shm \in BOOLEAN /\ reload \in BOOLEAN /\ unfinished \in BOOLEAN
      BY DEF Init
    <2>5. bootActive \in SUBSET Slots /\ leaked \in SUBSET Nat
      BY DEF Init
    <2>6. socket_timeout = 0 /\ connections = 0 /\ nextConn = 1 /\ pc = "down"
      BY DEF Init
    <2> QED
      BY <2>1, <2>2, <2>3, <2>4, <2>5, <2>6 DEF PeersTypeOK
  <1>2. NothingBefore /\ HandlersFindTheirSlot /\ ConnectionsAccounted /\ SlotsOwnTheirFds
    BY DEF Init, NothingBefore, HandlersFindTheirSlot, ConnectionsAccounted, SlotsOwnTheirFds, NoConn
  <1>3. OneConnection
    BY DEF Init, OneConnection, NoConn
  <1>4. IdsAssigned
    BY ZeroedType DEF Init, IdsAssigned
  <1>5. IdleTimeBounded
    BY DEF Init, IdleTimeBounded, Live, Active
  <1>6. QueuesInv
    BY DEF Init, QueuesInv
  <1> QED
    BY <1>1, <1>2, <1>3, <1>4, <1>5, <1>6 DEF PeersInv, TableInv

LEMMA Attaching ==
    ASSUME TableInv, AttachSegment
    PROVE  /\ slots' \in [Slots -> SlotType] /\ shm' /\ unfinished' \in BOOLEAN
           /\ IdsAssigned'
  <1>1. CASE shm
    BY <1>1 DEF TableInv, PeersTypeOK, IdsAssigned, AttachSegment, ipc_shm_open
  <1>2. CASE ~shm
    <2>1. slots' = Zeroed /\ unfinished' = TRUE /\ shm' = TRUE
      BY <1>2 DEF AttachSegment, ipc_shm_open, ipc_shm_create
    <2> QED
      BY <2>1, ZeroedType DEF IdsAssigned
  <1> QED
    BY <1>1, <1>2

LEMMA ConsoleStep ==
    ASSUME TableInv, InitializeConsole
    PROVE  TableInv' /\ Traceable \subseteq Traceable'
  <1>1. /\ slots' \in [Slots -> SlotType] /\ shm' /\ unfinished' \in BOOLEAN
        /\ IdsAssigned'
    BY Attaching DEF InitializeConsole
  <1>2. pc = "down" /\ UNCHANGED <<process, nextConn, conn, idle, bootActive, leaked>>
    BY DEF InitializeConsole
  <1>3. PeersTypeOK'
    BY <1>1, <1>2 DEF TableInv, PeersTypeOK, process
  <1>4. /\ connections' = 0
        /\ \A f \in Fds : registered'[f] = NoSlot /\ open'[f] = NoConn
        /\ \A i \in Slots : conn'[i] = NoConn
    BY <1>2 DEF TableInv, NothingBefore, process
  <1>5. nextConn \in Nat /\ nextConn' >= nextConn
    BY <1>2 DEF TableInv, PeersTypeOK
  <1> QED
    BY <1>1, <1>2, <1>3, <1>4, <1>5, Offline DEF process

LEMMA InitializeStep ==
    ASSUME TableInv, NEW cfg \in BOOLEAN, NEW t \in Timeouts, initialize(cfg, t)
    PROVE  TableInv' /\ Traceable \subseteq Traceable'
  <1>1. /\ slots' \in [Slots -> SlotType] /\ shm' /\ unfinished' \in BOOLEAN
        /\ IdsAssigned'
    BY Attaching DEF initialize, load_sharememory
  <1>2. /\ pc = "down" /\ pc' = "booting" /\ connections' = 0 /\ socket_timeout' = t
        /\ reload' \in BOOLEAN
        /\ UNCHANGED <<registered, open, nextConn, conn, idle, bootActive, leaked>>
    BY DEF initialize, load_sharememory
  <1>3. PeersTypeOK'
    <2>1. t \in Words /\ 0 \in Words
      BY PeersAssumption, ConstantTypes DEF Words
    <2> QED
      BY <1>1, <1>2, <2>1 DEF TableInv, PeersTypeOK
  <1>4. /\ \A f \in Fds : registered'[f] = NoSlot /\ open'[f] = NoConn
        /\ \A i \in Slots : conn'[i] = NoConn
    BY <1>2 DEF TableInv, NothingBefore
  <1>5. nextConn \in Nat /\ nextConn' >= nextConn
    BY <1>2 DEF TableInv, PeersTypeOK
  <1> QED
    BY <1>1, <1>2, <1>3, <1>4, <1>5, Offline

LEMMA GoneStep ==
    ASSUME TableInv, Gone, slots' \in [Slots -> SlotType],
           \A i \in Slots : slots'[i].id = slots[i].id,
           nextConn' \in Nat, nextConn' >= nextConn,
           UNCHANGED <<shm, unfinished>>
    PROVE  TableInv' /\ Traceable \subseteq Traceable'
  <1>1. nextConn \in Nat /\ nextConn' \in Nat \ {0}
    BY DEF TableInv, PeersTypeOK
  <1>2. PeersTypeOK'
    BY <1>1, ConstantTypes DEF Gone, TableInv, PeersTypeOK, NoConn
  <1>3. IdsAssigned'
    BY DEF TableInv, IdsAssigned
  <1> QED
    BY <1>1, <1>2, <1>3, Offline DEF Gone, NoConn

\* init_peers begins with no connection and counts from there.
LEMMA InitPeersStep ==
    ASSUME TableInv, init_peers
    PROVE  TableInv' /\ Traceable \subseteq Traceable'
  <1>1. /\ pc = "booting" /\ pc' = "run" /\ shm
        /\ UNCHANGED <<shm, reload, socket_timeout, connections, registered, open,
                       nextConn, conn, idle, leaked>>
    BY DEF init_peers, TableInv, NothingBefore
  <1>2. /\ connections = 0
        /\ \A f \in Fds : registered[f] = NoSlot /\ open[f] = NoConn
        /\ \A i \in Slots : conn[i] = NoConn
    BY <1>1 DEF TableInv, NothingBefore
  <1>3. /\ slots' \in [Slots -> SlotType] /\ unfinished' \in BOOLEAN
        /\ IdsAssigned' /\ bootActive' = Active'
    <2>1. CASE reload
      <3>1. /\ slots' = [i \in Slots |-> [id |-> i + PEER_ID_OFFSET, fd |-> 0,
                                          active |-> FALSE, session_timer |-> 0]]
            /\ bootActive' = {} /\ unfinished' = FALSE
        BY <2>1 DEF init_peers
      <3>2. \A i \in Slots : i + PEER_ID_OFFSET \in Nat
        BY ConstantTypes
      <3>3. slots' \in [Slots -> SlotType]
        BY <3>1, <3>2, ConstantTypes DEF SlotType
      <3>4. \A i \in Slots : ~slots'[i].active /\ slots'[i].id = i + PEER_ID_OFFSET
        BY <3>1
      <3> QED
        BY <3>1, <3>3, <3>4 DEF IdsAssigned, Active
    <2>2. CASE ~reload
      BY <1>1, <2>2 DEF init_peers, TableInv, PeersTypeOK, IdsAssigned, Active
    <2> QED
      BY <2>1, <2>2
  <1>4. PeersTypeOK'
    BY <1>1, <1>3 DEF TableInv, PeersTypeOK, Active
  <1>5. NothingBefore' /\ OneConnection' /\ HandlersFindTheirSlot'
    BY <1>1, <1>2 DEF TableInv, NothingBefore, OneConnection, HandlersFindTheirSlot
  <1>6. ConnectionsAccounted'
    <2>1. IsFiniteSet(Active')
      BY <1>3, <1>4, ConstantTypes, FS_Subset DEF PeersTypeOK
    <2>2. Cardinality(Active') \in Nat
      BY <2>1, FS_CardinalityType
    <2>3. Cardinality(Active') - Cardinality(bootActive') = 0
      BY <1>3, <2>2
    <2>4. 0 % U16 = 0
      BY ModSmall, ConstantTypes DEF Words
    <2> QED
      BY <1>1, <1>2, <2>3, <2>4 DEF ConnectionsAccounted
  <1>7. SlotsOwnTheirFds'
    BY <1>1, <1>2, <1>3 DEF SlotsOwnTheirFds
  <1>8. IdleTimeBounded'
    BY <1>1, <1>2 DEF IdleTimeBounded, Live, Active
  <1>9. Traceable \subseteq Traceable'
    BY <1>1, <1>2 DEF Traceable, Message, NoConn
  <1> QED
    BY <1>3, <1>4, <1>5, <1>6, <1>7, <1>8, <1>9 DEF TableInv
-----------------------------------------------------------------------------
(* Accepting.                                                              *)

\* accept returns a descriptor that is free, get_idle_peer an idle slot.
LEMMA Accepting ==
    ASSUME TableInv, CanAccept
    PROVE  /\ NewFd \in Fds /\ open[NewFd] = NoConn /\ registered[NewFd] = NoSlot
           /\ NewFd \in Nat /\ pc = "run" /\ shm /\ nextConn \in Nat \ {0}
           /\ Idle # {} => get_idle_peer \in Slots /\ ~slots[get_idle_peer].active
  <1>1. FreeFds \subseteq Nat /\ FreeFds # {} /\ pc = "run"
    BY ConstantTypes DEF FreeFds, CanAccept
  <1>2. NewFd \in FreeFds
    BY <1>1, MinInSet DEF NewFd
  <1>3. NewFd \in Fds /\ open[NewFd] = NoConn /\ NewFd \in Nat
    BY <1>1, <1>2 DEF FreeFds
  <1>4. registered[NewFd] = NoSlot
    BY <1>3 DEF TableInv, HandlersFindTheirSlot
  <1>5. Idle # {} => get_idle_peer \in Idle
    <2>1. Idle \subseteq Nat
      BY ConstantTypes DEF Idle
    <2> QED
      BY <2>1, MinInSet DEF get_idle_peer
  <1>6. Idle # {} => get_idle_peer \in Slots /\ ~slots[get_idle_peer].active
    BY <1>5 DEF Idle, Active
  <1> QED
    BY <1>1, <1>3, <1>4, <1>6 DEF TableInv, NothingBefore, PeersTypeOK

LEMMA AcceptWithoutSlotStep ==
    ASSUME TableInv, AcceptWithoutSlot
    PROVE  TableInv' /\ Traceable \subseteq Traceable'
  <1>1. PICK f \in Fds : /\ f = NewFd /\ open[f] = NoConn /\ registered[f] = NoSlot
                         /\ pc = "run" /\ nextConn \in Nat \ {0}
    BY Accepting DEF AcceptWithoutSlot
  <1>2. /\ open' = [open EXCEPT ![f] = nextConn]
        /\ leaked' = leaked \cup {nextConn} /\ nextConn' = nextConn + 1
        /\ UNCHANGED <<shm, slots, pc, reload, socket_timeout, connections, registered,
                       conn, idle, bootActive, unfinished>>
    BY <1>1 DEF AcceptWithoutSlot, shared
  <1>3. /\ open' \in [Fds -> Nat] /\ open'[f] = nextConn
        /\ \A g \in Fds : g # f => open'[g] = open[g]
    BY <1>1, <1>2 DEF TableInv, PeersTypeOK
  <1>4. PeersTypeOK'
    BY <1>1, <1>2, <1>3 DEF TableInv, PeersTypeOK
  <1>5. NothingBefore' /\ IdsAssigned' /\ ConnectionsAccounted' /\ IdleTimeBounded'
    BY <1>1, <1>2 DEF TableInv, NothingBefore, IdsAssigned, ConnectionsAccounted, IdleTimeBounded,
                      Active, Live
  <1>6. OneConnection'
    BY <1>1, <1>2, <1>3 DEF TableInv, OneConnection, PeersTypeOK
  <1>7. HandlersFindTheirSlot'
    BY <1>1, <1>2, <1>3 DEF TableInv, HandlersFindTheirSlot, Active
  <1>8. SlotsOwnTheirFds'
    <2> SUFFICES ASSUME bootActive = {}
                 PROVE  SlotsOwnTheirFds'
      BY <1>2 DEF SlotsOwnTheirFds
    <2>1. /\ \A i \in Active : /\ slots[i].fd \in Fds /\ conn[i] # NoConn
                               /\ open[slots[i].fd] = conn[i] /\ registered[slots[i].fd] = i
          /\ \A g \in Fds : open[g] # NoConn => registered[g] # NoSlot \/ open[g] \in leaked
      BY <1>1 DEF TableInv, SlotsOwnTheirFds
    <2>2. \A g \in Fds : open'[g] # NoConn => registered'[g] # NoSlot \/ open'[g] \in leaked'
      BY <1>2, <1>3, <2>1
    <2>3. \A i \in Active' : /\ slots'[i].fd \in Fds /\ conn'[i] # NoConn
                             /\ open'[slots'[i].fd] = conn'[i] /\ registered'[slots'[i].fd] = i
      BY <1>1, <1>2, <1>3, <2>1 DEF Active
    <2> QED
      BY <1>7, <2>2, <2>3 DEF SlotsOwnTheirFds, HandlersFindTheirSlot
  <1>9. Traceable \subseteq Traceable'
    BY <1>1, <1>2, <1>3 DEF Traceable, Message
  <1> QED
    BY <1>4, <1>5, <1>6, <1>7, <1>8, <1>9 DEF TableInv

LEMMA AcceptStep ==
    ASSUME TableInv, accept_tcp_handler
    PROVE  TableInv' /\ Traceable \subseteq Traceable'
  <1>1. PICK f \in Fds : /\ f = NewFd /\ open[f] = NoConn /\ registered[f] = NoSlot
                         /\ pc = "run" /\ nextConn \in Nat \ {0} /\ f \in Nat
    BY Accepting DEF accept_tcp_handler
  <1>2. PICK i \in Slots : i = get_idle_peer /\ ~slots[i].active
    BY Accepting DEF accept_tcp_handler
  <1>3. /\ slots' = [slots EXCEPT ![i].fd = f, ![i].active = TRUE,
                                  ![i].session_timer = socket_timeout]
        /\ registered' = [registered EXCEPT ![f] = i]
        /\ conn' = [conn EXCEPT ![i] = nextConn]
        /\ idle' = [idle EXCEPT ![i] = 0]
        /\ open' = [open EXCEPT ![f] = nextConn]
        /\ connections' = (connections + 1) % U16
        /\ nextConn' = nextConn + 1
        /\ UNCHANGED <<shm, pc, reload, socket_timeout, bootActive, leaked, unfinished>>
    BY <1>1, <1>2 DEF accept_tcp_handler
  <1>4. PeersTypeOK
    BY DEF TableInv
  <1>5. /\ slots' \in [Slots -> SlotType]
        /\ slots'[i].id = slots[i].id /\ slots'[i].fd = f /\ slots'[i].active
        /\ slots'[i].session_timer = socket_timeout
        /\ \A k \in Slots : k # i => slots'[k] = slots[k]
    <2>1. slots[i] \in SlotType
      BY <1>4 DEF PeersTypeOK
    <2>2. slots'[i] = [[[slots[i] EXCEPT !.fd = f] EXCEPT !.active = TRUE]
                         EXCEPT !.session_timer = socket_timeout]
      BY <1>3, <1>4 DEF PeersTypeOK
    <2>3. /\ slots'[i] \in SlotType /\ slots'[i].id = slots[i].id /\ slots'[i].fd = f
          /\ slots'[i].active /\ slots'[i].session_timer = socket_timeout
      BY <1>1, <1>4, <2>1, <2>2 DEF PeersTypeOK, SlotType
    <2>4. /\ slots' \in [Slots -> SlotType]
          /\ \A k \in Slots : k # i => slots'[k] = slots[k]
      BY <1>3, <1>4, <2>3 DEF PeersTypeOK
    <2> QED
      BY <2>3, <2>4
  <1>6. /\ registered' \in [Fds -> Slots \cup {NoSlot}] /\ open' \in [Fds -> Nat]
        /\ registered'[f] = i /\ open'[f] = nextConn
        /\ \A g \in Fds : g # f => registered'[g] = registered[g] /\ open'[g] = open[g]
    BY <1>1, <1>3, <1>4 DEF PeersTypeOK
  <1>7. /\ conn' \in [Slots -> Nat] /\ idle' \in [Slots -> Nat]
        /\ conn'[i] = nextConn /\ idle'[i] = 0
        /\ \A k \in Slots : k # i => conn'[k] = conn[k] /\ idle'[k] = idle[k]
    BY <1>1, <1>3, <1>4 DEF PeersTypeOK
  <1>8. Active' = Active \cup {i} /\ i \notin Active /\ Active \subseteq Slots
    BY <1>2, <1>5 DEF Active
  <1>9. PeersTypeOK'
    <2>1. connections + 1 \in Int
      BY <1>4, ConstantTypes DEF PeersTypeOK
    <2>2. connections' \in Words
      BY <1>3, <2>1, ConstantTypes
    <2> QED
      BY <1>1, <1>3, <1>4, <1>5, <1>6, <1>7, <2>2 DEF PeersTypeOK
  <1>10. NothingBefore'
    BY <1>1, <1>3 DEF TableInv, NothingBefore
  <1>11. OneConnection'
    BY <1>1, <1>3, <1>4, <1>6, <1>7 DEF TableInv, OneConnection, PeersTypeOK
  <1>12. HandlersFindTheirSlot'
    BY <1>1, <1>5, <1>6, <1>7, <1>8 DEF TableInv, HandlersFindTheirSlot, NoConn
  <1>13. IdsAssigned'
    BY <1>3, <1>5 DEF TableInv, IdsAssigned
  <1>14. ConnectionsAccounted'
    <2>1. IsFiniteSet(Active) /\ IsFiniteSet(bootActive)
      BY <1>4, <1>8, ConstantTypes, FS_Subset DEF PeersTypeOK
    <2>2. /\ Cardinality(Active) \in Nat /\ Cardinality(bootActive) \in Nat
          /\ Cardinality(Active') = Cardinality(Active) + 1
      BY <1>8, <2>1, FS_CardinalityType, FS_AddElement
    <2>3. PICK a \in Int : a = Cardinality(Active) - Cardinality(bootActive)
      BY <2>2
    <2>4. connections = a % U16
      BY <1>1, <2>3 DEF TableInv, ConnectionsAccounted
    <2>5. ((a % U16) + 1) % U16 = (a + 1) % U16
      <3>1. PICK n \in Int : n = 1
        OBVIOUS
      <3>2. ((a % U16) + n) % U16 = (a + n) % U16
        BY ModAdd, ConstantTypes
      <3> QED
        BY <3>1, <3>2
    <2>6. a + 1 = Cardinality(Active') - Cardinality(bootActive')
      BY <1>3, <2>2, <2>3
    <2> QED
      BY <1>3, <2>4, <2>5, <2>6 DEF ConnectionsAccounted
  <1>15. SlotsOwnTheirFds'
    <2> SUFFICES ASSUME bootActive = {}
                 PROVE  SlotsOwnTheirFds'
      BY <1>3 DEF SlotsOwnTheirFds
    <2>1. /\ \A k \in Active : /\ slots[k].fd \in Fds /\ conn[k] # NoConn
                               /\ open[slots[k].fd] = conn[k] /\ registered[slots[k].fd] = k
          /\ \A g \in Fds : open[g] # NoConn => registered[g] # NoSlot \/ open[g] \in leaked
      BY <1>1 DEF TableInv, SlotsOwnTheirFds
    <2>2. \A g \in Fds : open'[g] # NoConn => registered'[g] # NoSlot \/ open'[g] \in leaked'
      BY <1>3, <1>6, <2>1, ConstantTypes
    <2>3. ASSUME NEW k \in Active'
          PROVE  /\ slots'[k].fd \in Fds /\ conn'[k] # NoConn
                 /\ open'[slots'[k].fd] = conn'[k] /\ registered'[slots'[k].fd] = k
      <3>1. CASE k = i
        BY <1>1, <1>5, <1>6, <1>7, <3>1 DEF NoConn
      <3>2. CASE k # i
        <4>1. k \in Active /\ k \in Slots /\ slots[k].fd # f
          BY <1>1, <1>8, <2>1, <3>2
        <4> QED
          BY <1>5, <1>6, <1>7, <2>1, <3>2, <4>1
      <3> QED
        BY <3>1, <3>2
    <2> QED
      BY <1>12, <2>2, <2>3 DEF SlotsOwnTheirFds, HandlersFindTheirSlot
  <1>16. IdleTimeBounded'
    <2>1. socket_timeout \in Words /\ socket_timeout % U16 = socket_timeout
      BY <1>4, ModSmall, ConstantTypes DEF PeersTypeOK, Words
    <2>2. /\ (slots'[i].session_timer + idle'[i]) % U16 = socket_timeout'
          /\ idle'[i] < (IF socket_timeout' = 0 THEN U16 ELSE socket_timeout')
      <3>1. slots'[i].session_timer + idle'[i] = socket_timeout
        BY <1>5, <1>7, <2>1, ConstantTypes
      <3> QED
        BY <1>3, <1>7, <2>1, <3>1, ConstantTypes
    <2>3. \A k \in Live' : k # i => k \in Live /\ k \in Slots
      BY <1>7, <1>8 DEF Live
    <2> QED
      BY <1>3, <1>5, <1>7, <2>2, <2>3 DEF TableInv, IdleTimeBounded
  <1>17. Traceable \subseteq Traceable'
    <2> SUFFICES ASSUME NEW m \in Traceable
                 PROVE  m \in Traceable'
      OBVIOUS
    <2>1. /\ m \in Message /\ m.conn \in Nat /\ m.conn < nextConn
          /\ \A k \in Slots : conn[k] = m.conn => m.id = slots[k].id
          /\ \A g \in Fds, k \in Slots :
                open[g] = m.conn /\ m.id = k + PEER_ID_OFFSET => slots[k].active /\ slots[k].fd = g
      BY DEF Traceable, Message
    <2>2. m.conn < nextConn' /\ m.conn # nextConn
      BY <1>1, <1>3, <2>1
    <2>3. \A k \in Slots : conn'[k] = m.conn => m.id = slots'[k].id
      BY <1>5, <1>7, <2>1, <2>2
    <2>4. \A g \in Fds, k \in Slots :
             open'[g] = m.conn /\ m.id = k + PEER_ID_OFFSET => slots'[k].active /\ slots'[k].fd = g
      BY <1>2, <1>5, <1>6, <2>1, <2>2
    <2> QED
      BY <2>1, <2>2, <2>3, <2>4 DEF Traceable
  <1> QED
    BY <1>9, <1>10, <1>11, <1>12, <1>13, <1>14, <1>15, <1>16, <1>17 DEF TableInv

\* The slot keeps the number of a descriptor that is closed again.
LEMMA AcceptNotRegisteredStep ==
    ASSUME TableInv, AcceptNotRegistered
    PROVE  TableInv' /\ Traceable \subseteq Traceable'
  <1>1. PICK f \in Nat : f = NewFd /\ nextConn \in Nat \ {0}
    BY Accepting DEF AcceptNotRegistered
  <1>2. PICK i \in Slots : i = get_idle_peer /\ ~slots[i].active
    BY Accepting DEF AcceptNotRegistered
  <1>3. /\ slots' = [slots EXCEPT ![i].fd = f]
        /\ nextConn' = nextConn + 1
        /\ UNCHANGED <<shm, pc, reload, socket_timeout, connections, registered, open,
                       conn, idle, bootActive, leaked, unfinished>>
    BY <1>1, <1>2 DEF AcceptNotRegistered, process
  <1>4. PeersTypeOK
    BY DEF TableInv
  <1>5. /\ slots' \in [Slots -> SlotType]
        /\ slots'[i].id = slots[i].id /\ ~slots'[i].active
        /\ \A k \in Slots : k # i => slots'[k] = slots[k]
    <2>1. slots[i] \in SlotType
      BY <1>4 DEF PeersTypeOK
    <2>2. slots'[i] = [slots[i] EXCEPT !.fd = f]
      BY <1>3, <1>4 DEF PeersTypeOK
    <2>3. slots'[i] \in SlotType /\ slots'[i].id = slots[i].id /\ ~slots'[i].active
      BY <1>1, <1>2, <2>1, <2>2 DEF SlotType
    <2> QED
      BY <1>3, <1>4, <2>3 DEF PeersTypeOK
  <1>6. Active' = Active /\ i \notin Active /\ Active \subseteq Slots /\ Live' = Live
    BY <1>2, <1>3, <1>5 DEF Active, Live
  <1>7. PeersTypeOK'
    BY <1>1, <1>3, <1>4, <1>5 DEF PeersTypeOK
  <1>8. NothingBefore' /\ IdsAssigned' /\ ConnectionsAccounted'
    BY <1>3, <1>5, <1>6 DEF TableInv, NothingBefore, IdsAssigned, ConnectionsAccounted
  <1>9. OneConnection'
    BY <1>1, <1>3, <1>4 DEF TableInv, OneConnection, PeersTypeOK
  <1>10. HandlersFindTheirSlot'
    BY <1>3, <1>5, <1>6 DEF TableInv, HandlersFindTheirSlot
  <1>11. SlotsOwnTheirFds'
    BY <1>3, <1>5, <1>6 DEF TableInv, SlotsOwnTheirFds
  <1>12. IdleTimeBounded'
    BY <1>3, <1>5, <1>6 DEF TableInv, IdleTimeBounded, Live
  <1>13. Traceable \subseteq Traceable'
    BY <1>1, <1>2, <1>3, <1>5 DEF Traceable, Message
  <1> QED
    BY <1>7, <1>8, <1>9, <1>10, <1>11, <1>12, <1>13 DEF TableInv

LEMMA DieInAcceptStep ==
    ASSUME TableInv, DieInAccept
    PROVE  TableInv' /\ Traceable \subseteq Traceable'
  <1>1. PICK f \in Nat : f = NewFd /\ nextConn \in Nat \ {0}
    BY Accepting DEF DieInAccept
  <1>2. PICK i \in Slots : i = get_idle_peer
    BY Accepting DEF DieInAccept
  <1>3. /\ slots' = [slots EXCEPT ![i].fd = f, ![i].active = TRUE]
        /\ nextConn' = nextConn + 1 /\ Gone /\ UNCHANGED <<shm, unfinished>>
    BY <1>1, <1>2 DEF DieInAccept
  <1>4. slots' \in [Slots -> SlotType] /\ \A k \in Slots : slots'[k].id = slots[k].id
    <2>1. slots \in [Slots -> SlotType] /\ slots[i] \in SlotType
      BY DEF TableInv, PeersTypeOK
    <2>2. slots'[i] = [[slots[i] EXCEPT !.fd = f] EXCEPT !.active = TRUE]
      BY <1>3, <2>1
    <2>3. slots'[i] \in SlotType /\ slots'[i].id = slots[i].id
      BY <1>1, <2>1, <2>2 DEF SlotType
    <2> QED
      BY <1>3, <2>1, <2>3
  <1>5. nextConn' \in Nat /\ nextConn' >= nextConn
    BY <1>1, <1>3
  <1> QED
    BY <1>3, <1>4, <1>5, GoneStep
-----------------------------------------------------------------------------
(* Requests and responses.                                                 *)

\* close_peer by a handler.
LEMMA ClosePeerStep ==
    ASSUME TableInv, pc = "run", NEW i \in Active, close_peer(i),
           UNCHANGED <<shm, pc, reload, socket_timeout, nextConn, bootActive, unfinished>>
    PROVE  TableInv' /\ Traceable \subseteq Traceable'
  <1>1. {i} \subseteq Active /\ slots \in [Slots -> SlotType] /\ idle \in [Slots -> Nat]
    BY DEF TableInv, PeersTypeOK
  <1>2. \A k \in Live \ {i} : /\ (slots[k].session_timer + idle[k]) % U16 = socket_timeout
                              /\ idle[k] < Patience
    BY DEF TableInv, IdleTimeBounded, Patience
  <1>3. ClosePeers({i}, slots, idle)
    BY DEF close_peer
  <1> QED
    BY <1>1, <1>2, <1>3, Closing

\* Traffic restarts the session timer of a slot.
LEMMA TrafficStep ==
    ASSUME TableInv, NEW i \in Slots,
           slots' = [slots EXCEPT ![i].session_timer = socket_timeout],
           idle' = [idle EXCEPT ![i] = 0],
           UNCHANGED <<shm, pc, reload, socket_timeout, connections, registered, open,
                       nextConn, conn, bootActive, leaked, unfinished>>
    PROVE  TableInv' /\ Traceable \subseteq Traceable'
  <1>1. PeersTypeOK
    BY DEF TableInv
  <1>2. /\ slots' \in [Slots -> SlotType]
        /\ slots'[i].session_timer = socket_timeout
        /\ \A k \in Slots : /\ slots'[k].id = slots[k].id /\ slots'[k].fd = slots[k].fd
                            /\ slots'[k].active = slots[k].active
                            /\ k # i => slots'[k] = slots[k]
    <2>1. slots[i] \in SlotType
      BY <1>1 DEF PeersTypeOK
    <2>2. slots'[i] = [slots[i] EXCEPT !.session_timer = socket_timeout]
      BY <1>1 DEF PeersTypeOK
    <2>3. /\ slots'[i] \in SlotType /\ slots'[i].id = slots[i].id /\ slots'[i].fd = slots[i].fd
          /\ slots'[i].active = slots[i].active /\ slots'[i].session_timer = socket_timeout
      BY <1>1, <2>1, <2>2 DEF PeersTypeOK, SlotType
    <2>4. \A k \in Slots : k # i => slots'[k] = slots[k]
      BY <1>1 DEF PeersTypeOK
    <2> QED
      BY <1>1, <2>3, <2>4 DEF PeersTypeOK
  <1>3. idle' \in [Slots -> Nat] /\ idle'[i] = 0 /\ \A k \in Slots : k # i => idle'[k] = idle[k]
    BY <1>1 DEF PeersTypeOK
  <1>4. Active' = Active /\ Live' = Live /\ Active \subseteq Slots
    BY <1>2 DEF Active, Live
  <1>5. PeersTypeOK'
    BY <1>1, <1>2, <1>3 DEF PeersTypeOK
  <1>6. NothingBefore' /\ OneConnection' /\ IdsAssigned' /\ ConnectionsAccounted'
    BY <1>2, <1>4 DEF TableInv, NothingBefore, OneConnection, IdsAssigned, ConnectionsAccounted
  <1>7. HandlersFindTheirSlot'
    BY <1>2, <1>4 DEF TableInv, HandlersFindTheirSlot
  <1>8. SlotsOwnTheirFds'
    BY <1>2, <1>4 DEF TableInv, SlotsOwnTheirFds
  <1>9. IdleTimeBounded'
    <2>1. socket_timeout \in Words /\ socket_timeout % U16 = socket_timeout
      BY <1>1, ModSmall, ConstantTypes DEF PeersTypeOK, Words
    <2>2. slots'[i].session_timer + idle'[i] = socket_timeout
      BY <1>2, <1>3, <2>1, ConstantTypes
    <2>3. /\ (slots'[i].session_timer + idle'[i]) % U16 = socket_timeout'
          /\ idle'[i] < (IF socket_timeout' = 0 THEN U16 ELSE socket_timeout')
      BY <1>3, <2>1, <2>2, ConstantTypes
    <2> QED
      BY <1>2, <1>3, <1>4, <2>3 DEF TableInv, IdleTimeBounded, Live
  <1>10. Traceable \subseteq Traceable'
    BY <1>2 DEF Traceable
  <1> QED
    BY <1>5, <1>6, <1>7, <1>8, <1>9, <1>10 DEF TableInv

LEMMA TableKept ==
    ASSUME TableInv,
           UNCHANGED <<shm, slots, pc, reload, socket_timeout, connections, registered, open,
                       nextConn, conn, idle, bootActive, leaked, unfinished>>
    PROVE  TableInv' /\ Traceable \subseteq Traceable'
  <1>1. PeersTypeOK' /\ NothingBefore' /\ OneConnection' /\ IdsAssigned' /\ HandlersFindTheirSlot'
    BY DEF TableInv, PeersTypeOK, NothingBefore, OneConnection, IdsAssigned, HandlersFindTheirSlot, Active
  <1>2. ConnectionsAccounted' /\ SlotsOwnTheirFds' /\ IdleTimeBounded'
    BY DEF TableInv, ConnectionsAccounted, SlotsOwnTheirFds, IdleTimeBounded, Active, Live
  <1>3. Traceable \subseteq Traceable'
    BY DEF Traceable
  <1> QED
    BY <1>1, <1>2, <1>3 DEF TableInv

\* A registered descriptor's slot is one that close_peer may close.
LEMMA PeerOfIsActive ==
    ASSUME TableInv, NEW f \in Fds, PeerOf(f) # NoSlot
    PROVE  PeerOf(f) \in Active /\ PeerOf(f) \in Slots
  BY DEF TableInv, HandlersFindTheirSlot, PeerOf, Active

LEMMA BrokenStep ==
    ASSUME TableInv, NEW f \in Fds, RequestBroken(f)
    PROVE  TableInv' /\ Traceable \subseteq Traceable'
  <1>1. PICK i \in Active : i = PeerOf(f)
    BY PeerOfIsActive DEF RequestBroken
  <1> QED
    BY <1>1, ClosePeerStep DEF RequestBroken

\* A request that is passed on carries the id of the slot of its connection.
LEMMA RequestStep ==
    ASSUME TableInv, NEW f \in Fds, NEW len \in Lens, NEW dstid \in {0, 1},
           peer_request_handler(f, len, dstid)
    PROVE  /\ TableInv' /\ Traceable \subseteq Traceable'
           /\ outq' = outq \/ \E m \in Traceable' : outq' = Append(outq, m)
           /\ UNCHANGED <<inq, mqueue>>
  <1>1. PICK i \in Active : i = PeerOf(f) /\ i \in Slots /\ PeerOf(f) # NoSlot
    BY PeerOfIsActive DEF peer_request_handler
  <1>2. /\ pc = "run"
        /\ UNCHANGED <<shm, inq, pc, reload, socket_timeout, mqueue, nextConn, bootActive, unfinished>>
    BY DEF peer_request_handler
  <1>3. CASE InRange(len) /\ Writable(len, dstid)
    <2> DEFINE m == [id |-> slots[i].id, conn |-> open[f]]
    <2>1. /\ outq' = Append(outq, m)
          /\ slots' = [slots EXCEPT ![i].session_timer = socket_timeout]
          /\ idle' = [idle EXCEPT ![i] = 0]
          /\ UNCHANGED <<connections, registered, open, conn, leaked>>
      BY <1>1, <1>3 DEF peer_request_handler
    <2>2. TableInv' /\ Traceable \subseteq Traceable'
      BY <1>1, <1>2, <2>1, TrafficStep
    <2>3. m \in Traceable
      <3>1. /\ slots[i].active /\ slots[i].fd = f /\ open[f] = conn[i] /\ open[f] # NoConn
        BY <1>1 DEF TableInv, HandlersFindTheirSlot, PeerOf, Active
      <3>2. PeersTypeOK
        BY DEF TableInv
      <3>3. open[f] \in Nat /\ slots[i].id \in Nat /\ slots \in [Slots -> SlotType]
        BY <1>1, <3>2 DEF PeersTypeOK, SlotType
      <3>4. m \in Message /\ m.conn < nextConn
        BY <3>1, <3>3 DEF Message, NoConn, TableInv, OneConnection
      <3>5. \A k \in Slots : conn[k] = m.conn => m.id = slots[k].id
        BY <1>1, <3>1 DEF TableInv, OneConnection
      <3>6. \A g \in Fds, k \in Slots :
               open[g] = m.conn /\ m.id = k + PEER_ID_OFFSET => slots[k].active /\ slots[k].fd = g
        <4> SUFFICES ASSUME NEW g \in Fds, NEW k \in Slots,
                            open[g] = m.conn, m.id = k + PEER_ID_OFFSET
                     PROVE  slots[k].active /\ slots[k].fd = g
          OBVIOUS
        <4>1. g = f
          BY <3>1 DEF TableInv, OneConnection
        <4>2. slots[i].id \in {0, i + PEER_ID_OFFSET}
          BY <1>1 DEF TableInv, IdsAssigned
        <4>3. k = i
          BY <4>2, ConstantTypes, <1>1
        <4> QED
          BY <3>1, <4>1, <4>3
      <3> HIDE DEF m
      <3> QED
        BY <3>4, <3>5, <3>6 DEF Traceable
    <2> HIDE DEF m
    <2> QED
      BY <1>2, <2>1, <2>2, <2>3
  <1>4. CASE ~(InRange(len) /\ Writable(len, dstid))
    <2>1. close_peer(i) /\ outq' = outq
      BY <1>1, <1>4 DEF peer_request_handler
    <2> QED
      BY <1>1, <1>2, <2>1, ClosePeerStep
  <1> QED
    BY <1>3, <1>4

LEMMA ResponseStep ==
    ASSUME TableInv, NEW i \in Slots, ResponseWritten(i) \/ ResponseNotWritten(i)
    PROVE  TableInv' /\ Traceable \subseteq Traceable'
  <1>1. pc = "run" /\ i \in Active
    BY DEF ResponseWritten, ResponseNotWritten, ReadResponse, get_active_peer
  <1>2. CASE ResponseWritten(i)
    BY <1>2, TrafficStep DEF ResponseWritten
  <1>3. CASE ResponseNotWritten(i)
    BY <1>1, <1>3, ClosePeerStep DEF ResponseNotWritten
  <1> QED
    BY <1>2, <1>3
-----------------------------------------------------------------------------
(* The life cycle timer.                                                   *)

\* One tick of a timer that is not closed by it.
LEMMA TickKeepsSum ==
    ASSUME NEW s \in Words, NEW d \in Nat, NEW t \in Words,
           (s + d) % U16 = t, d < (IF t = 0 THEN U16 ELSE t), (s - 1) % U16 # 0
    PROVE  /\ (((s - 1) % U16) + (d + 1)) % U16 = t
           /\ d + 1 < (IF t = 0 THEN U16 ELSE t)
  <1>1. U16 \in Nat \ {0} /\ s \in Int /\ d \in Int
    BY ConstantTypes
  <1>2. PICK x \in Int, n \in Int : x = s - 1 /\ n = d + 1
    BY <1>1
  <1>3. ((x % U16) + n) % U16 = (x + n) % U16
    BY <1>1, ModAdd
  <1>4. x + n = s + d
    BY <1>1, <1>2
  <1>5. s # 1
    <2> SUFFICES ASSUME s = 1
                 PROVE  FALSE
      OBVIOUS
    <2>1. 0 % U16 = 0
      BY <1>1, ModSmall, ConstantTypes DEF Words
    <2> QED
      BY <2>1
  <1>6. d + 1 < (IF t = 0 THEN U16 ELSE t)
    <2> SUFFICES ASSUME d + 1 = (IF t = 0 THEN U16 ELSE t)
                 PROVE  FALSE
      BY <1>1, ConstantTypes
    \* Then s + d is t modulo U16 only for s = 1.
    <2>1. PICK e \in Int : e = (IF t = 0 THEN U16 ELSE t) /\ e >= 1 /\ e <= U16
      BY <1>1 DEF Words
    <2>2. PICK y \in Int : y = s + d
      BY <1>1
    <2>3. y = s + e - 1
      BY <1>1, <2>1, <2>2
    <2>4. e % U16 = t
      <3>1. CASE t = 0
        <4>1. e \in Int /\ e = U16 * 1 + t /\ t \in 0..(U16 - 1)
          BY <1>1, <2>1, <3>1 DEF Words
        <4> QED
          BY <1>1, <4>1, ModUnique
      <3>2. CASE t # 0
        BY <1>1, <2>1, <3>2, ModSmall DEF Words
      <3> QED
        BY <3>1, <3>2
    <2>5. PICK p \in Int : y = U16 * p + t
      <3>1. PICK p \in Int : y = U16 * p + (y % U16)
        BY <1>1, DivMod
      <3> QED
        BY <2>2, <3>1
    <2>6. PICK q \in Int : e = U16 * q + t
      <3>1. PICK q \in Int : e = U16 * q + (e % U16)
        BY <1>1, DivMod
      <3> QED
        BY <2>4, <3>1
    <2>7. PICK k \in Int : k = p - q
      OBVIOUS
    <2>8. U16 * p = U16 * q + U16 * k
      BY <1>1, <2>7
    <2>9. PICK v \in Int : v = U16 * k
      BY <1>1
    <2>10. s - 1 = v
      BY <1>1, <2>3, <2>5, <2>6, <2>8, <2>9
    <2>11. (s - 1) % U16 = 0
      <3>1. x \in Int /\ x = U16 * k + 0 /\ 0 \in 0..(U16 - 1)
        BY <1>1, <1>2, <2>9, <2>10
      <3>2. x % U16 = 0
        BY <1>1, <3>1, ModUnique
      <3> QED
        BY <1>2, <3>2
    <2> QED
      BY <2>11
  <1> QED
    BY <1>2, <1>3, <1>4, <1>6

LEMMA LifeCycleStep ==
    ASSUME TableInv, life_cycle_handler
    PROVE  TableInv' /\ Traceable \subseteq Traceable'
  <1> DEFINE table == [i \in Slots |->
                          IF i \in Active
                          THEN [slots[i] EXCEPT !.session_timer = (@ - 1) % U16]
                          ELSE slots[i]]
             ticks == [i \in Slots |->
                          IF i \in Live /\ idle[i] < U16 THEN idle[i] + 1 ELSE idle[i]]
             S     == {i \in Active : table[i].session_timer = 0}
  <1>1. /\ pc = "run" /\ ClosePeers(S, table, ticks)
        /\ UNCHANGED <<shm, pc, reload, socket_timeout, nextConn, bootActive, unfinished>>
    BY DEF life_cycle_handler
  <1>2. PeersTypeOK
    BY DEF TableInv
  <1>3. ASSUME NEW i \in Slots
        PROVE  /\ table[i] \in SlotType /\ table[i].id = slots[i].id
               /\ table[i].fd = slots[i].fd /\ table[i].active = slots[i].active
               /\ i \in Active => table[i].session_timer = (slots[i].session_timer - 1) % U16
               /\ ticks[i] \in Nat
    <2>1. slots[i] \in SlotType /\ idle[i] \in Nat
      BY <1>2 DEF PeersTypeOK
    <2>2. slots[i].session_timer - 1 \in Int
      <3>1. slots[i].session_timer \in Words
        BY <2>1 DEF SlotType
      <3>2. PICK s \in Nat : s = slots[i].session_timer
        BY <3>1, ConstantTypes
      <3>3. s - 1 \in Int
        OBVIOUS
      <3> QED
        BY <3>2, <3>3
    <2>3. (slots[i].session_timer - 1) % U16 \in Words
      BY <2>2, ConstantTypes
    <2>4. PICK w \in Words : w = (slots[i].session_timer - 1) % U16
      BY <2>3
    <2>5. CASE i \in Active
      <3>1. table[i] = [slots[i] EXCEPT !.session_timer = w]
        BY <2>4, <2>5
      <3> HIDE DEF table
      <3> QED
        BY <2>1, <2>4, <2>5, <3>1 DEF SlotType
    <2>6. CASE i \notin Active
      BY <2>1, <2>6
    <2> QED
      BY <2>5, <2>6
  <1>4. table \in [Slots -> SlotType] /\ ticks \in [Slots -> Nat]
    BY <1>3
  <1>5. S \subseteq Active
    OBVIOUS
  <1>6. ASSUME NEW i \in Live \ S
        PROVE  /\ (table[i].session_timer + ticks[i]) % U16 = socket_timeout
               /\ ticks[i] < Patience
    <2>1. i \in Slots /\ i \in Active /\ slots[i] \in SlotType
      BY <1>2 DEF Live, Active, PeersTypeOK
    <2>2. PICK s \in Words, d \in Nat, t \in Words :
             s = slots[i].session_timer /\ d = idle[i] /\ t = socket_timeout
      BY <1>2, <2>1 DEF PeersTypeOK, SlotType
    <2>3. (s + d) % U16 = t /\ d < (IF t = 0 THEN U16 ELSE t)
      BY <1>6, <2>2 DEF TableInv, IdleTimeBounded
    <2>4. table[i].session_timer = (s - 1) % U16 /\ (s - 1) % U16 # 0
      BY <1>3, <1>6, <2>1, <2>2
    <2>5. /\ (((s - 1) % U16) + (d + 1)) % U16 = t
          /\ d + 1 < (IF t = 0 THEN U16 ELSE t)
      BY <2>3, <2>4, TickKeepsSum
    <2>6. d < U16
      BY <2>2, <2>3, ConstantTypes DEF Words
    <2>7. ticks[i] = d + 1
      BY <1>6, <2>1, <2>2, <2>6
    <2> HIDE DEF table, ticks, S
    <2> QED
      BY <2>2, <2>4, <2>5, <2>7 DEF Patience
  <1> HIDE DEF table, ticks, S
  <1> QED
    BY <1>1, <1>3, <1>4, <1>5, <1>6, Closing
-----------------------------------------------------------------------------
(* The invariant holds, and what follows from it.                          *)

LEMMA PeersStep == PeersInv /\ [Next]_vars => PeersInv'
  <1> SUFFICES ASSUME PeersInv, [Next]_vars
               PROVE  PeersInv'
    OBVIOUS
  <1> USE DEF PeersInv
  <1> DEFINE Kept == /\ outq' = outq /\ inq' = inq
                     /\ mqueue' = mqueue \/ mqueue' = <<>> \/ (mqueue # <<>> /\ mqueue' = Tail(mqueue))
  <1>1. ASSUME TableInv', Traceable \subseteq Traceable', Kept
        PROVE  PeersInv'
    BY <1>1, QueuesKept
  <1>2. CASE InitializeConsole
    BY <1>1, <1>2, ConsoleStep DEF InitializeConsole, process
  <1>3. CASE \E cfg \in BOOLEAN, t \in Timeouts : initialize(cfg, t)
    BY <1>1, <1>3, InitializeStep DEF initialize
  <1>4. CASE init_peers
    BY <1>1, <1>4, InitPeersStep DEF init_peers
  <1>5. CASE Die
    <2>1. /\ Gone /\ UNCHANGED <<shm, slots, outq, inq, nextConn, unfinished>>
      BY <1>5 DEF Die, shared
    <2>2. /\ slots' \in [Slots -> SlotType] /\ \A i \in Slots : slots'[i].id = slots[i].id
          /\ nextConn' \in Nat /\ nextConn' >= nextConn
      BY <2>1 DEF TableInv, PeersTypeOK
    <2>3. TableInv' /\ Traceable \subseteq Traceable'
      BY <2>1, <2>2, GoneStep
    <2> QED
      BY <1>1, <2>1, <2>3 DEF Gone
  <1>6. CASE DieInAccept
    BY <1>1, <1>6, DieInAcceptStep DEF DieInAccept, Gone
  <1>7. CASE AcceptWithoutSlot
    BY <1>1, <1>7, AcceptWithoutSlotStep DEF AcceptWithoutSlot, shared
  <1>8. CASE accept_tcp_handler
    BY <1>1, <1>8, AcceptStep DEF accept_tcp_handler
  <1>9. CASE AcceptNotRegistered
    BY <1>1, <1>9, AcceptNotRegisteredStep DEF AcceptNotRegistered, process
  <1>10. CASE \E f \in Fds : RequestBroken(f)
    BY <1>1, <1>10, BrokenStep DEF RequestBroken
  <1>11. CASE \E f \in Fds, len \in Lens, dstid \in {0, 1} : peer_request_handler(f, len, dstid)
    <2>1. PICK f \in Fds, len \in Lens, dstid \in {0, 1} : peer_request_handler(f, len, dstid)
      BY <1>11
    <2>2. /\ TableInv' /\ Traceable \subseteq Traceable'
          /\ outq' = outq \/ \E m \in Traceable' : outq' = Append(outq, m)
          /\ inq' = inq /\ mqueue' = mqueue
      BY <2>1, RequestStep
    <2> QED
      BY <2>2, QueuesKept
  <1>12. CASE DeviceAnswers \/ DeviceIgnores \/ wait_response_thread
    <2>1. UNCHANGED <<shm, slots, pc, reload, socket_timeout, connections, registered, open,
                      nextConn, conn, idle, bootActive, leaked, unfinished>>
      BY <1>12 DEF DeviceAnswers, DeviceIgnores, wait_response_thread, process
    <2>2. TableInv' /\ Traceable \subseteq Traceable'
      BY <2>1, TableKept
    <2> QED
      BY <1>12, <2>2, QueuesKept DEF DeviceAnswers, DeviceIgnores, wait_response_thread, process
  <1>13. CASE ResponseLost
    <2>1. UNCHANGED <<shm, slots, outq, inq, pc, reload, socket_timeout, connections, registered,
                      open, nextConn, conn, idle, bootActive, leaked, unfinished>>
      BY <1>13 DEF ResponseLost, shared
    <2>2. mqueue # <<>> /\ mqueue' = Tail(mqueue)
      BY <1>13 DEF ResponseLost, ReadResponse
    <2> QED
      BY <1>1, <2>1, <2>2, TableKept
  <1>14. CASE \E i \in Slots : ResponseWritten(i) \/ ResponseNotWritten(i)
    <2>1. PICK i \in Slots : ResponseWritten(i) \/ ResponseNotWritten(i)
      BY <1>14
    <2>2. Kept
      BY <2>1 DEF ResponseWritten, ResponseNotWritten, ReadResponse
    <2> QED
      BY <1>1, <2>1, <2>2, ResponseStep
  <1>15. CASE life_cycle_handler
    BY <1>1, <1>15, LifeCycleStep DEF life_cycle_handler
  <1>16. CASE UNCHANGED vars
    BY <1>1, <1>16, TableKept DEF vars
  <1> QED
    BY <1>2, <1>3, <1>4, <1>5, <1>6, <1>7, <1>8, <1>9, <1>10, <1>11, <1>12, <1>13, <1>14, <1>15,
       <1>16 DEF Next

\* In every reachable state, restarts with a stale table included.
THEOREM PeersInvariant == Spec => []PeersInv
  BY InitialPeers, PeersStep, PTL DEF Spec

\* The connection count of main.c is the number of active slots less the
\* stale ones of the start, modulo the width of the counter, whatever
\* clients, the life cycle timer and failed registrations do.
THEOREM CountAccounted == Spec => []ConnectionsAccounted
  <1>1. PeersInv => ConnectionsAccounted
    BY DEF PeersInv, TableInv
  <1> QED
    BY <1>1, PeersInvariant, PTL

\* After a start without stale slots, slots, registrations and descriptors
\* stay in agreement through accept_tcp_handler and close_peer.
THEOREM FdsOwned == Spec => []SlotsOwnTheirFds
  <1>1. PeersInv => SlotsOwnTheirFds
    BY DEF PeersInv, TableInv
  <1> QED
    BY <1>1, PeersInvariant, PTL

\* The session timer of a slot measures the idle time of the connection in
\* it, and closes it after exactly socket_timeout life cycles.
THEOREM TimersBoundIdleTime == Spec => []IdleTimeBounded
  <1>1. PeersInv => IdleTimeBounded
    BY DEF PeersInv, TableInv
  <1> QED
    BY <1>1, PeersInvariant, PTL

\* A response written to a connection that did not ask for it is one whose
\* asker has been closed, even across restarts.
THEOREM AstrayResponses == Spec => AstrayOnlyAfterClose
  <1>1. ASSUME PeersInv, NEW i \in Slots, ResponseWritten(i)
        PROVE  open[slots[i].fd] = Head(mqueue).conn \/ \A f \in Fds : open[f] # Head(mqueue).conn
    <2>1. PICK m \in Traceable : m = Head(mqueue)
      BY <1>1 DEF PeersInv, QueuesInv, ResponseWritten, ReadResponse
    <2>2. m \in Message /\ i = m.id - PEER_ID_OFFSET
      BY <1>1, <2>1 DEF ResponseWritten, get_active_peer, Traceable
    <2>3. m.id = i + PEER_ID_OFFSET
      BY <2>2, ConstantTypes DEF Message
    <2> QED
      BY <2>1, <2>3 DEF Traceable
  <1>2. PeersInv => [\A i \in Slots : ResponseWritten(i) =>
                        LET asker == Head(mqueue).conn
                        IN  open[slots[i].fd] = asker \/ \A f \in Fds : open[f] # asker]_vars
    BY <1>1
  <1> QED
    BY <1>2, PeersInvariant, PTL DEF AstrayOnlyAfterClose

\* A response dropped by get_active_peer is one whose asker has left its
\* slot, except in slot 0 and in a table that no start has initialised.
THEOREM LostResponses == Spec => LostOnlyAfterClose
  <1>1. ASSUME PeersInv, ResponseLost, NEW i \in Live \ {0}, conn[i] = Head(mqueue).conn
        PROVE  unfinished
    <2>1. PICK m \in Traceable : m = Head(mqueue)
      BY <1>1 DEF PeersInv, QueuesInv, ResponseLost, ReadResponse
    <2>2. i \in Slots /\ i \in Active /\ i # 0
      BY DEF Live, Active
    <2>3. m.id = slots[i].id
      BY <1>1, <2>1, <2>2 DEF Traceable
    <2>4. shm
      BY <1>1 DEF ResponseLost, ReadResponse, PeersInv, TableInv, NothingBefore
    <2>5. SUFFICES ASSUME ~unfinished
                   PROVE  FALSE
      BY <1>1 DEF PeersInv, TableInv, PeersTypeOK
    <2>6. m.id = i + PEER_ID_OFFSET
      BY <1>1, <2>2, <2>3, <2>4, <2>5 DEF PeersInv, TableInv, IdsAssigned
    <2>7. i = m.id - PEER_ID_OFFSET /\ i > 0
      BY <2>2, <2>6, ConstantTypes
    <2>8. i \in get_active_peer(Head(mqueue).id)
      BY <2>1, <2>2, <2>7 DEF get_active_peer
    <2> QED
      BY <1>1, <2>8 DEF ResponseLost
  <1>2. PeersInv => [ResponseLost =>
                        \A i \in Live \ {0} : conn[i] = Head(mqueue).conn => unfinished]_vars
    BY <1>1
  <1> QED
    BY <1>2, PeersInvariant, PTL DEF LostOnlyAfterClose
=============================================================================
