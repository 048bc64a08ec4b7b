--------------------------- MODULE AeTimersProofs ---------------------------
(* Proofs about the time events of ae.c, for any number of timers, any     *)
(* delays and periods, any clock and any behaviour of the callbacks.       *)
EXTENDS AeTimers, SequenceTheorems, WellFoundedInduction, TLAPS

(***************************************************************************)
(* Facts about the operators of AeTimers.                                  *)
(***************************************************************************)

\* aeAddMillisecondsToNow yields a normalised time: one carry is enough.
LEMMA AddMillisecondsType ==
    ASSUME NEW t \in [sec : Nat, ms : 0..(MsPerSec - 1)], NEW d \in Nat
    PROVE  AddMilliseconds(t, d) \in [sec : Nat, ms : 0..(MsPerSec - 1)]
  <1>1. MsPerSec \in Nat /\ MsPerSec > 0
    BY TimersAssumption
  <1>2. d \div MsPerSec \in Nat /\ d % MsPerSec \in 0..(MsPerSec - 1)
    BY <1>1
  <1>3. t.sec \in Nat /\ t.ms \in 0..(MsPerSec - 1)
    OBVIOUS
  <1> QED
    BY <1>1, <1>2, <1>3 DEF AddMilliseconds

\* Unlinking one element leaves a sequence that is shorter by one.
LEMMA UnlinkType ==
    ASSUME NEW S, NEW s \in Seq(S), NEW k \in 1..Len(s)
    PROVE  /\ Unlink(s, k) \in Seq(S)
           /\ Len(Unlink(s, k)) = Len(s) - 1
           /\ \A j \in 1..(Len(s) - 1) :
                  Unlink(s, k)[j] = IF j < k THEN s[j] ELSE s[j + 1]
  <1>1. Len(s) \in Nat /\ Len(s) > 0 /\ Len(s) - 1 \in Nat
    OBVIOUS
  <1>2. \A j \in 1..(Len(s) - 1) : s[j] \in S /\ s[j + 1] \in S
    BY <1>1
  <1>3. Unlink(s, k) \in [1..(Len(s) - 1) -> S]
    BY <1>2 DEF Unlink
  <1>4. Unlink(s, k) \in Seq(S)
    BY <1>1, <1>3, SeqDef
  <1>5. DOMAIN Unlink(s, k) = 1..(Len(s) - 1)
    BY DEF Unlink
  <1>6. Len(Unlink(s, k)) = Len(s) - 1
    BY <1>1, <1>4, <1>5
  <1> QED
    BY <1>4, <1>6 DEF Unlink

LEMMA ArmedType ==
    ASSUME now \in Time, NEW id \in Nat, NEW d \in Nat
    PROVE  Armed(id, d) \in Timer /\ Armed(id, d).id = id
  <1>1. now \in [sec : Nat, ms : 0..(MsPerSec - 1)]
    BY TimersAssumption DEF Time
  <1>2. AddMilliseconds(now, d) \in [sec : Nat, ms : 0..(MsPerSec - 1)]
    BY <1>1, AddMillisecondsType
  <1>3. Millis(now) + d \in Nat
    BY <1>1, TimersAssumption DEF Millis
  <1> QED
    BY <1>2, <1>3 DEF Armed, Timer

\* Whatever is left of the sleep after the two clamps is not negative.
LEMMA SleepForType ==
    ASSUME TypeOK, NEW e \in Timer
    PROVE  SleepFor(e) \in Nat
  <1>1. /\ MsPerSec \in Nat /\ MsPerSec > 0
        /\ now.sec \in Nat /\ now.ms \in 0..(MsPerSec - 1)
        /\ e.sec \in Nat /\ e.ms \in 0..(MsPerSec - 1)
    BY TimersAssumption DEF TypeOK, Time, Timer
  <1> DEFINE sec == e.sec - now.sec - (IF e.ms < now.ms THEN 1 ELSE 0)
             ms  == IF e.ms < now.ms THEN e.ms + MsPerSec - now.ms ELSE e.ms - now.ms
             pos == IF sec < 0 THEN 0 ELSE sec
  <1>2. pos \in Nat /\ ms \in Nat
    BY <1>1
  <1>3. pos * MsPerSec \in Nat
    BY <1>1, <1>2
  <1> QED
    BY <1>2, <1>3 DEF SleepFor

\* The fields of the timers in the list.
LEMMA ListFields ==
    ASSUME timeEventHead \in Seq(Timer)
    PROVE  \A i \in 1..Len(timeEventHead) :
              /\ timeEventHead[i] \in Timer
              /\ timeEventHead[i].id \in Nat
              /\ timeEventHead[i].sec \in Nat
              /\ timeEventHead[i].ms \in 0..(MsPerSec - 1)
  <1>1. \A i \in 1..Len(timeEventHead) : timeEventHead[i] \in Timer
    OBVIOUS
  <1>2. \A e \in Timer : e.id \in Nat /\ e.sec \in Nat /\ e.ms \in 0..(MsPerSec - 1)
    BY DEF Timer
  <1> QED
    BY <1>1, <1>2

LEMMA LeastNat ==
    ASSUME NEW T, T \subseteq Nat, T # {}
    PROVE  \E x \in T : \A y \in T : x <= y
  <1>1. PICK x \in T : \A y \in T : ~(<<y, x>> \in OpToRel(<, Nat))
    BY NatLessThanWellFounded, WFMin
  <1>2. \A y \in T : ~(y < x)
    BY <1>1 DEF OpToRel
  <1> QED
    BY <1>2

\* A list that is not empty has a nearest timer: the least second, within it
\* the least millisecond, and among those the first of the list.
LEMMA NearestType ==
    ASSUME timeEventHead \in Seq(Timer), timeEventHead # <<>>
    PROVE  /\ Nearest \in 1..Len(timeEventHead)
           /\ \A j \in 1..Len(timeEventHead) : ~Sooner(timeEventHead[j], timeEventHead[Nearest])
  <1> DEFINE D == 1..Len(timeEventHead)
             T == timeEventHead
  <1>0. Len(T) \in Nat /\ Len(T) # 0
    BY EmptySeq
  <1>1. 1 \in D /\ \A i \in D : T[i].sec \in Nat /\ T[i].ms \in Nat
    BY <1>0, ListFields, TimersAssumption
  <1>2. PICK a \in D : \A j \in D : T[a].sec <= T[j].sec
    <2> DEFINE V == {T[i].sec : i \in D}
    <2>1. V \subseteq Nat /\ V # {}
      BY <1>1
    <2>2. PICK x \in V : \A y \in V : x <= y
      BY <2>1, LeastNat
    <2> QED
      BY <2>2
  <1> DEFINE E == {i \in D : T[i].sec = T[a].sec}
  <1>3. PICK b \in E : \A j \in E : T[b].ms <= T[j].ms
    <2> DEFINE V == {T[i].ms : i \in E}
    <2>1. V \subseteq Nat /\ V # {}
      BY <1>1
    <2>2. PICK x \in V : \A y \in V : x <= y
      BY <2>1, LeastNat
    <2> QED
      BY <2>2
  <1> DEFINE F == {i \in E : T[i].ms = T[b].ms}
  <1>4. PICK k \in F : \A j \in F : k <= j
    <2>1. F \subseteq Nat /\ F # {}
      OBVIOUS
    <2> QED
      BY <2>1, LeastNat
  <1>5. k \in D /\ T[k].sec = T[a].sec /\ T[k].ms = T[b].ms
    OBVIOUS
  <1>6. \A j \in D : ~Sooner(T[j], T[k])
    BY <1>1, <1>2, <1>3, <1>5 DEF Sooner
  <1>7. \A j \in 1..(k - 1) : Sooner(T[k], T[j])
    <2> SUFFICES ASSUME NEW j \in 1..(k - 1) PROVE Sooner(T[k], T[j])
      OBVIOUS
    <2>1. j \in D /\ j \notin F
      BY <1>4, <1>5
    <2> QED
      BY <1>1, <1>2, <1>3, <1>5, <2>1 DEF Sooner
  <1> HIDE DEF D, T, E, F
  <1> QED
    BY <1>5, <1>6, <1>7 DEF Nearest, D, T

LEMMA PlainUnlink ==
    ASSUME NEW id, timeEventHead \in Seq(Timer), DeleteTimer(id)
    PROVE  timeEventHead' \in Seq(Timer)
  BY UnlinkType DEF DeleteTimer

-----------------------------------------------------------------------------
(***************************************************************************)
(* Type correctness.                                                       *)
(***************************************************************************)
LEMMA InitTypeOK == Init => TypeOK
  <1> SUFFICES ASSUME Init PROVE TypeOK
    OBVIOUS
  <1>1. now \in Time /\ now.sec = 1
    BY TimersAssumption DEF Init, Time
  <1>2. Epoch \in Time
    BY TimersAssumption DEF Epoch, Time
  <1>3. timeEventHead \in Seq(Timer)
    BY DEF Init
  <1> QED
    BY <1>1, <1>2, <1>3, TimersAssumption DEF Init, TypeOK, Forever

LEMMA StepTypeOK == TypeOK /\ [Next]_vars => TypeOK'
  <1> SUFFICES ASSUME TypeOK, [Next]_vars PROVE TypeOK'
    OBVIOUS
  <1> USE DEF TypeOK
  <1>a. /\ 1 \in Nat \ {0} /\ -1 \in Int /\ Forever \in {Forever}
        /\ Epoch \in Time /\ Epoch.sec = 0
    BY TimersAssumption DEF Epoch, Time
  <1>b. \A i \in 1..Len(timeEventHead) : timeEventHead[i] \in Timer
    OBVIOUS
  <1>c. Ids \subseteq Nat
    BY <1>b DEF Ids, Timer
  <1>1. ASSUME NEW d \in Delays, aeCreateTimeEvent(d) PROVE TypeOK'
    <2>1. Armed(timeEventNextId, d) \in Timer
      BY TimersAssumption, ArmedType
    <2>2. timeEventHead' \in Seq(Timer)
      BY <1>1, <2>1 DEF aeCreateTimeEvent
    <2> QED
      BY <1>1, <2>2, TimersAssumption DEF aeCreateTimeEvent, clock
  <1>2. ASSUME NEW id \in 0..(MaxIds - 1), aeDeleteTimeEvent(id) PROVE TypeOK'
    <2>1. DeleteTimer(id)
      BY <1>2 DEF aeDeleteTimeEvent
    <2>2. timeEventHead' \in Seq(Timer)
      BY <2>1, PlainUnlink
    <2>3. id \in Nat
      OBVIOUS
    <2>4. finalized' \subseteq Nat /\ owed' \subseteq Nat
      BY <2>1, <2>3 DEF DeleteTimer
    <2> QED
      BY <1>2, <2>2, <2>4 DEF aeDeleteTimeEvent, clock
  <1>3. ASSUME NEW id \in 0..(MaxIds - 1), NEW d \in Delays, aeModifyTimeEvent(id, d)
        PROVE  TypeOK'
    <2>1. Armed(id, d) \in Timer
      BY TimersAssumption, ArmedType
    <2>2. timeEventHead' \in Seq(Timer)
      BY <1>3, <2>1 DEF aeModifyTimeEvent, RearmTimer
    <2>3. owed' \subseteq Nat
      BY <1>3 DEF aeModifyTimeEvent
    <2> QED
      BY <1>3, <2>2, <2>3 DEF aeModifyTimeEvent, clock
  <1>4. CASE PollAndWait
    <2>1. timeout' \in Nat \cup {Forever}
      <3>1. CASE timeEventHead = <<>>
        BY <1>4, <3>1 DEF PollAndWait
      <3>2. CASE timeEventHead # <<>>
        <4>1. timeEventHead[Nearest] \in Timer
          BY <3>2, <1>b, NearestType
        <4> QED
          BY <1>4, <3>2, <4>1, SleepForType DEF PollAndWait
      <3> QED
        BY <3>1, <3>2
    <2> QED
      BY <1>4, <2>1 DEF PollAndWait, api, clock
  <1>5. CASE PollDontWait
    BY <1>5 DEF PollDontWait, api, clock
  <1>6. CASE Wake
    BY <1>6 DEF Wake, api, clock
  <1>7. CASE BeginPass
    <2>1. timeEventHead' \in Seq(Timer)
      <3>1. \A i \in 1..Len(timeEventHead) : [timeEventHead[i] EXCEPT !.sec = 0] \in Timer
        BY <1>b DEF Timer
      <3>2. timeEventHead' \in [1..Len(timeEventHead) -> Timer]
        BY <1>7, <1>b, <3>1 DEF BeginPass
      <3> QED
        BY <3>2, SeqDef
    <2>2. lastTime' \in 0..MaxSec /\ maxId' \in Int /\ te' \in Nat \ {0} /\ scanMin' \in Time
      BY <1>7 DEF BeginPass, Time
    <2>3. cohort' \subseteq Nat /\ owed' \subseteq Nat
      BY <1>7, <1>c DEF BeginPass
    <2> QED
      BY <1>7, <2>1, <2>2, <2>3 DEF BeginPass, clock
  <1>8. CASE SkipTimer
    BY <1>8 DEF SkipTimer, api, clock
  <1>9. CASE CallTimeProc
    <2>1. timeEventHead[te].id \in Nat
      BY <1>9, <1>b DEF CallTimeProc, Timer
    <2>2. owed' \subseteq Nat
      BY <1>9 DEF CallTimeProc
    <2> QED
      BY <1>9, <1>a, <2>1, <2>2 DEF CallTimeProc, clock
  <1>10. CASE EndPass
    BY <1>10, <1>a DEF EndPass, api, clock
  <1>11. CASE TimeProcReturnsNoMore
    <2>1. DeleteTimer(cbId)
      BY <1>11 DEF TimeProcReturnsNoMore
    <2>2. timeEventHead' \in Seq(Timer)
      BY <2>1, PlainUnlink
    <2>3. finalized' \subseteq Nat /\ owed' \subseteq Nat
      BY <2>1, <1>c DEF DeleteTimer
    <2> QED
      BY <1>11, <2>2, <2>3 DEF TimeProcReturnsNoMore, RestartFromHead, clock
  <1>12. CASE TimeProcReturnsToFreedTimer
    BY <1>12 DEF TimeProcReturnsToFreedTimer, api, clock
  <1>13. ASSUME NEW r \in Periods, TimeProcReturnsPeriod(r) PROVE TypeOK'
    <2>1. Armed(cbId, r) \in Timer
      BY <1>13, <1>c, TimersAssumption, ArmedType DEF TimeProcReturnsPeriod
    <2>2. timeEventHead' \in Seq(Timer)
      BY <1>13, <2>1 DEF TimeProcReturnsPeriod, RearmTimer
    <2> QED
      BY <1>13, <2>2 DEF TimeProcReturnsPeriod, RestartFromHead, clock
  <1>14. CASE Tick
    <2>1. AddMilliseconds(now, 1) \in [sec : Nat, ms : 0..(MsPerSec - 1)]
      BY AddMillisecondsType DEF Time
    <2>2. now' \in Time
      BY <1>14, <2>1, TimersAssumption DEF Tick, Time
    <2> QED
      BY <1>14, <2>2 DEF Tick, api
  <1>15. ASSUME NEW t \in Time, SetClock(t) PROVE TypeOK'
    <2>1. Earlier(t, scanMin) \in Time
      BY DEF Earlier
    <2> QED
      BY <1>15, <2>1, TimersAssumption DEF SetClock, api
  <1>16. CASE UNCHANGED vars
    BY <1>16 DEF vars
  <1> QED
    BY <1>1, <1>2, <1>3, <1>4, <1>5, <1>6, <1>7, <1>8, <1>9, <1>10, <1>11, <1>12,
       <1>13, <1>14, <1>15, <1>16 DEF Next, Pass, Undefined

\* Every variable of the timer code keeps its type: in particular the
\* millisecond part of every timer stays below a second after any carry, and
\* the timeout given to the poller is a number or "forever".
THEOREM TimersTypeCorrect == Spec => []TypeOK
  BY InitTypeOK, StepTypeOK, PTL DEF Spec

-----------------------------------------------------------------------------
(***************************************************************************)
(* The list: no timer is lost and its order is the order of creation.      *)
(***************************************************************************)

\* What the three ways of changing the list do to its elements.
LEMMA CreateEffect ==
    ASSUME TypeOK, IdsDescend, NEW d \in Delays, aeCreateTimeEvent(d)
    PROVE  /\ IdsDescend'
           /\ Ids' = Ids \cup {timeEventNextId}
           /\ Len(timeEventHead') = Len(timeEventHead) + 1
           /\ timeEventHead'[1].id = timeEventNextId
           /\ \A i \in 1..Len(timeEventHead) : timeEventHead'[i + 1] = timeEventHead[i]
  <1> DEFINE e == Armed(timeEventNextId, d)
  <1>1. e \in Timer /\ e.id = timeEventNextId
    BY TimersAssumption, ArmedType DEF TypeOK
  <1>2. timeEventHead' = <<e>> \o timeEventHead /\ timeEventNextId' = timeEventNextId + 1
    BY DEF aeCreateTimeEvent
  <1>3. timeEventHead \in Seq(Timer) /\ timeEventNextId \in Nat
    BY TimersAssumption DEF TypeOK
  <1> HIDE DEF e
  <1>4. /\ Len(timeEventHead') = Len(timeEventHead) + 1
        /\ timeEventHead'[1] = e
        /\ \A i \in 1..Len(timeEventHead) : timeEventHead'[i + 1] = timeEventHead[i]
    BY <1>1, <1>2, <1>3
  <1>5. \A i \in 2..Len(timeEventHead') : i - 1 \in 1..Len(timeEventHead)
                                          /\ timeEventHead'[i] = timeEventHead[i - 1]
    BY <1>3, <1>4
  <1>6. \A i \in 1..Len(timeEventHead) :
            timeEventHead[i].id \in Nat /\ timeEventHead[i].id < timeEventNextId
    BY <1>3, ListFields DEF IdsDescend
  <1>7. \A i \in 1..Len(timeEventHead') : i = 1 \/ i \in 2..Len(timeEventHead')
    OBVIOUS
  <1>8. \A i \in 1..Len(timeEventHead') : timeEventHead'[i].id < timeEventNextId'
    <2> SUFFICES ASSUME NEW i \in 1..Len(timeEventHead')
                 PROVE  timeEventHead'[i].id < timeEventNextId + 1
      BY <1>2
    <2>1. CASE i = 1
      BY <1>1, <1>3, <1>4, <2>1
    <2>2. CASE i \in 2..Len(timeEventHead')
      <3>1. i - 1 \in 1..Len(timeEventHead) /\ timeEventHead'[i] = timeEventHead[i - 1]
        BY <1>5, <2>2
      <3>2. timeEventHead[i - 1].id \in Nat /\ timeEventHead[i - 1].id < timeEventNextId
        BY <1>6, <3>1
      <3> QED
        BY <1>3, <3>1, <3>2
    <2> QED
      BY <1>7, <2>1, <2>2
  <1>9. \A i, j \in 1..Len(timeEventHead') :
            i < j => timeEventHead'[i].id > timeEventHead'[j].id
    <2> SUFFICES ASSUME NEW i \in 1..Len(timeEventHead'),
                        NEW j \in 1..Len(timeEventHead'), i < j
                 PROVE  timeEventHead'[i].id > timeEventHead'[j].id
      OBVIOUS
    <2>1. j \in 2..Len(timeEventHead') /\ timeEventHead'[j] = timeEventHead[j - 1]
          /\ j - 1 \in 1..Len(timeEventHead)
      BY <1>5
    <2>2. CASE i = 1
      BY <1>1, <1>3, <1>4, <1>6, <2>1, <2>2
    <2>3. CASE i \in 2..Len(timeEventHead')
      BY <1>3, <1>5, <2>1, <2>3 DEF IdsDescend
    <2> QED
      BY <1>7, <2>2, <2>3
  <1>10. Ids' = Ids \cup {timeEventNextId}
    <2>1. Ids' \subseteq Ids \cup {timeEventNextId}
      BY <1>1, <1>4, <1>5, <1>7 DEF Ids
    <2>2. \A i \in 1..Len(timeEventHead) : i + 1 \in 1..Len(timeEventHead')
      BY <1>3, <1>4
    <2>3. Ids \subseteq Ids'
      BY <1>4, <2>2 DEF Ids
    <2>4. timeEventNextId \in Ids'
      BY <1>1, <1>3, <1>4 DEF Ids
    <2> QED
      BY <2>1, <2>3, <2>4
  <1> QED
    BY <1>1, <1>4, <1>8, <1>9, <1>10 DEF IdsDescend

LEMMA DeleteEffect ==
    ASSUME TypeOK, IdsDescend, NEW id \in Ids, DeleteTimer(id),
           timeEventNextId' = timeEventNextId
    PROVE  /\ IdsDescend'
           /\ Ids' = Ids \ {id}
           /\ finalized' = finalized \cup {id}
           /\ owed' = owed \ {id}
           /\ \A i \in 1..Len(timeEventHead') :
                 \E j \in 1..Len(timeEventHead) : timeEventHead'[i] = timeEventHead[j]
           /\ \A j \in 1..Len(timeEventHead) : timeEventHead[j].id # id =>
                 \E i \in 1..Len(timeEventHead') : timeEventHead'[i] = timeEventHead[j]
  <1>1. PICK k \in 1..Len(timeEventHead) :
            timeEventHead[k].id = id /\ timeEventHead' = Unlink(timeEventHead, k)
    BY DEF DeleteTimer
  <1>2. timeEventHead \in Seq(Timer)
    BY DEF TypeOK
  <1>3. /\ Len(timeEventHead) \in Nat
        /\ Len(timeEventHead') = Len(timeEventHead) - 1
        /\ \A j \in 1..(Len(timeEventHead) - 1) :
              timeEventHead'[j] = IF j < k THEN timeEventHead[j] ELSE timeEventHead[j + 1]
    <2>1. Len(timeEventHead) \in Nat
      BY <1>2
    <2>2. /\ Len(Unlink(timeEventHead, k)) = Len(timeEventHead) - 1
          /\ \A j \in 1..(Len(timeEventHead) - 1) : Unlink(timeEventHead, k)[j] =
                IF j < k THEN timeEventHead[j] ELSE timeEventHead[j + 1]
      BY <1>2, UnlinkType
    <2> QED
      BY <1>1, <2>1, <2>2
  <1>4. \A i \in 1..Len(timeEventHead') :
           LET j == IF i < k THEN i ELSE i + 1
           IN  j \in 1..Len(timeEventHead) /\ j # k /\ timeEventHead'[i] = timeEventHead[j]
    BY <1>3
  <1>5. \A j \in 1..Len(timeEventHead) : j # k =>
           LET i == IF j < k THEN j ELSE j - 1
           IN  i \in 1..Len(timeEventHead') /\ timeEventHead'[i] = timeEventHead[j]
    BY <1>3
  <1>6. \A j \in 1..Len(timeEventHead) : timeEventHead[j].id = id <=> j = k
    <2>1. \A j \in 1..Len(timeEventHead) : timeEventHead[j].id \in Nat
      BY <1>2, ListFields
    <2>2. \A j \in 1..Len(timeEventHead) : j # k => j < k \/ k < j
      BY <1>1
    <2> QED
      BY <1>1, <2>1, <2>2 DEF IdsDescend
  <1>7. IdsDescend'
    <2>1. \A i \in 1..Len(timeEventHead') : timeEventHead'[i].id < timeEventNextId'
      BY <1>4 DEF IdsDescend
    <2>2. ASSUME NEW i \in 1..Len(timeEventHead'), NEW j \in 1..Len(timeEventHead'), i < j
          PROVE  timeEventHead'[i].id > timeEventHead'[j].id
      <3> DEFINE ii == IF i < k THEN i ELSE i + 1
                 jj == IF j < k THEN j ELSE j + 1
      <3>1. ii < jj
        BY <1>3, <2>2
      <3>2. /\ ii \in 1..Len(timeEventHead) /\ timeEventHead'[i] = timeEventHead[ii]
            /\ jj \in 1..Len(timeEventHead) /\ timeEventHead'[j] = timeEventHead[jj]
        BY <1>4
      <3> HIDE DEF ii, jj
      <3> QED
        BY <3>1, <3>2 DEF IdsDescend
    <2> QED
      BY <2>1, <2>2 DEF IdsDescend
  <1>8. Ids' = Ids \ {id}
    <2>1. Ids' \subseteq Ids /\ id \notin Ids'
      BY <1>4, <1>6 DEF Ids
    <2>2. Ids \ {id} \subseteq Ids'
      BY <1>5, <1>6 DEF Ids
    <2> QED
      BY <2>1, <2>2
  <1>9. finalized' = finalized \cup {id} /\ owed' = owed \ {id}
    BY DEF DeleteTimer
  <1>10. \A i \in 1..Len(timeEventHead') :
            \E j \in 1..Len(timeEventHead) : timeEventHead'[i] = timeEventHead[j]
    BY <1>4
  <1>11. \A j \in 1..Len(timeEventHead) : timeEventHead[j].id # id =>
            \E i \in 1..Len(timeEventHead') : timeEventHead'[i] = timeEventHead[j]
    BY <1>5, <1>6
  <1> QED
    BY <1>7, <1>8, <1>9, <1>10, <1>11

LEMMA RearmEffect ==
    ASSUME TypeOK, IdsDescend, NEW id \in Ids, NEW d \in Nat, RearmTimer(id, d),
           timeEventNextId' = timeEventNextId
    PROVE  /\ IdsDescend'
           /\ Ids' = Ids
           /\ Len(timeEventHead') = Len(timeEventHead)
           /\ \A i \in 1..Len(timeEventHead) :
                 /\ timeEventHead'[i].id = timeEventHead[i].id
                 /\ timeEventHead[i].id # id => timeEventHead'[i] = timeEventHead[i]
  <1>1. PICK k \in 1..Len(timeEventHead) :
            /\ timeEventHead[k].id = id
            /\ timeEventHead' = [timeEventHead EXCEPT ![k] = Armed(id, d)]
    BY DEF RearmTimer
  <1>2. timeEventHead \in Seq(Timer) /\ now \in Time
    BY DEF TypeOK
  <1>3. Armed(id, d).id = id
    BY DEF Armed
  <1>4. /\ Len(timeEventHead') = Len(timeEventHead)
        /\ \A i \in 1..Len(timeEventHead) :
              timeEventHead'[i] = IF i = k THEN Armed(id, d) ELSE timeEventHead[i]
    BY <1>1, <1>2
  <1>5. \A i \in 1..Len(timeEventHead) :
           /\ timeEventHead'[i].id = timeEventHead[i].id
           /\ timeEventHead[i].id # id => timeEventHead'[i] = timeEventHead[i]
    BY <1>1, <1>3, <1>4
  <1>6. IdsDescend' /\ Ids' = Ids
    BY <1>4, <1>5 DEF IdsDescend, Ids
  <1> QED
    BY <1>4, <1>5, <1>6

ListInv == TypeOK /\ IdsDescend /\ NoTimerLost

\* BeginPass may zero the seconds of every timer but moves none.
LEMMA BeginPassEffect ==
    ASSUME TypeOK, BeginPass
    PROVE  /\ Len(timeEventHead') = Len(timeEventHead)
           /\ \A i \in 1..Len(timeEventHead) :
                 /\ timeEventHead'[i].id = timeEventHead[i].id
                 /\ ClockWentBack => timeEventHead'[i].sec = 0
           /\ Ids' = Ids
  <1>1. timeEventHead \in Seq(Timer) /\ Len(timeEventHead) \in Nat
    BY DEF TypeOK
  <1>2. timeEventHead' = [i \in 1..Len(timeEventHead) |->
                             IF ClockWentBack THEN [timeEventHead[i] EXCEPT !.sec = 0]
                                              ELSE timeEventHead[i]]
    BY DEF BeginPass
  <1>3. DOMAIN timeEventHead' = 1..Len(timeEventHead)
    BY <1>2
  <1>4. timeEventHead' \in Seq(Timer)
    BY StepTypeOK DEF Next, Pass, Undefined, TypeOK
  <1>5. Len(timeEventHead') = Len(timeEventHead)
    BY <1>1, <1>3, <1>4
  <1>6. \A i \in 1..Len(timeEventHead) :
           timeEventHead[i] \in Timer /\
           timeEventHead'[i] = IF ClockWentBack THEN [timeEventHead[i] EXCEPT !.sec = 0]
                                                ELSE timeEventHead[i]
    BY <1>1, <1>2
  <1>7. \A e \in Timer : [e EXCEPT !.sec = 0].id = e.id /\ [e EXCEPT !.sec = 0].sec = 0
    BY DEF Timer
  <1>8. \A i \in 1..Len(timeEventHead) :
           /\ timeEventHead'[i].id = timeEventHead[i].id
           /\ ClockWentBack => timeEventHead'[i].sec = 0
    BY <1>6, <1>7
  <1> QED
    BY <1>5, <1>8 DEF Ids

LEMMA InitList == Init => IdsDescend /\ NoTimerLost
  <1> SUFFICES ASSUME Init PROVE IdsDescend /\ NoTimerLost
    OBVIOUS
  <1>1. timeEventHead = <<>> /\ Len(timeEventHead) = 0
    BY EmptySeq DEF Init
  <1>2. Ids = {} /\ finalized = {} /\ timeEventNextId = 0
    BY <1>1 DEF Ids, Init
  <1> QED
    BY <1>1, <1>2 DEF IdsDescend, NoTimerLost

LEMMA StepList == ListInv /\ [Next]_vars => (IdsDescend /\ NoTimerLost)'
  <1> SUFFICES ASSUME TypeOK, IdsDescend, NoTimerLost, [Next]_vars
               PROVE  (IdsDescend /\ NoTimerLost)'
    BY DEF ListInv
  <1>a. /\ timeEventHead \in Seq(Timer) /\ timeEventNextId \in Nat
        /\ finalized \subseteq Nat
    BY TimersAssumption DEF TypeOK
  <1>b. ASSUME UNCHANGED <<timeEventHead, timeEventNextId, finalized>>
        PROVE  (IdsDescend /\ NoTimerLost)'
    BY <1>b DEF IdsDescend, NoTimerLost, Ids
  <1>c. ASSUME NEW id \in Ids, DeleteTimer(id), timeEventNextId' = timeEventNextId
        PROVE  (IdsDescend /\ NoTimerLost)'
    <2>1. /\ IdsDescend' /\ Ids' = Ids \ {id}
          /\ finalized' = finalized \cup {id}
      BY <1>c, DeleteEffect
    <2> QED
      BY <1>c, <2>1 DEF NoTimerLost
  <1>d. ASSUME NEW id \in Ids, NEW d \in Nat, RearmTimer(id, d),
               UNCHANGED <<timeEventNextId, finalized>>
        PROVE  (IdsDescend /\ NoTimerLost)'
    <2>1. IdsDescend' /\ Ids' = Ids
      BY <1>d, RearmEffect
    <2> QED
      BY <1>d, <2>1 DEF NoTimerLost
  <1>1. ASSUME NEW d \in Delays, aeCreateTimeEvent(d) PROVE (IdsDescend /\ NoTimerLost)'
    <2>1. IdsDescend' /\ Ids' = Ids \cup {timeEventNextId}
      BY <1>1, CreateEffect
    <2>2. finalized' = finalized /\ timeEventNextId' = timeEventNextId + 1
      BY <1>1 DEF aeCreateTimeEvent
    <2>3. timeEventNextId \notin finalized
      BY <1>a DEF NoTimerLost
    <2>4. 0..(timeEventNextId' - 1) = (0..(timeEventNextId - 1)) \cup {timeEventNextId}
      BY <1>a, <2>2
    <2> QED
      BY <2>1, <2>2, <2>3, <2>4 DEF NoTimerLost
  <1>2. ASSUME NEW id \in 0..(MaxIds - 1), aeDeleteTimeEvent(id)
        PROVE  (IdsDescend /\ NoTimerLost)'
    <2>1. CASE id \in Ids
      BY <1>2, <1>c, <2>1 DEF aeDeleteTimeEvent
    <2>2. CASE id \notin Ids
      BY <1>2, <1>b, <2>2 DEF aeDeleteTimeEvent, DeleteTimer
    <2> QED
      BY <2>1, <2>2
  <1>3. ASSUME NEW id \in 0..(MaxIds - 1), NEW d \in Delays, aeModifyTimeEvent(id, d)
        PROVE  (IdsDescend /\ NoTimerLost)'
    BY <1>3, <1>b, <1>d, TimersAssumption DEF aeModifyTimeEvent
  <1>4. CASE PollAndWait \/ PollDontWait \/ Wake
    BY <1>4, <1>b DEF PollAndWait, PollDontWait, Wake, api
  <1>5. CASE BeginPass
    <2>1. /\ Len(timeEventHead') = Len(timeEventHead)
          /\ \A i \in 1..Len(timeEventHead) : timeEventHead'[i].id = timeEventHead[i].id
          /\ Ids' = Ids
      BY <1>5, BeginPassEffect
    <2>2. UNCHANGED <<timeEventNextId, finalized>>
      BY <1>5 DEF BeginPass
    <2> QED
      BY <2>1, <2>2 DEF IdsDescend, NoTimerLost
  <1>6. CASE SkipTimer \/ CallTimeProc \/ EndPass \/ TimeProcReturnsToFreedTimer
    BY <1>6, <1>b DEF SkipTimer, CallTimeProc, EndPass, TimeProcReturnsToFreedTimer, api
  <1>7. CASE TimeProcReturnsNoMore
    <2>1. CASE cbId \in Ids
      BY <1>7, <1>c, <2>1 DEF TimeProcReturnsNoMore
    <2>2. CASE cbId \notin Ids
      BY <1>7, <1>b, <2>2 DEF TimeProcReturnsNoMore, DeleteTimer
    <2> QED
      BY <2>1, <2>2
  <1>8. ASSUME NEW r \in Periods, TimeProcReturnsPeriod(r)
        PROVE  (IdsDescend /\ NoTimerLost)'
    BY <1>8, <1>d, TimersAssumption DEF TimeProcReturnsPeriod
  <1>9. CASE Tick
    BY <1>9, <1>b DEF Tick, api
  <1>10. ASSUME NEW t \in Time, SetClock(t) PROVE (IdsDescend /\ NoTimerLost)'
    BY <1>10, <1>b DEF SetClock, api
  <1>11. CASE UNCHANGED vars
    BY <1>11, <1>b DEF vars
  <1> QED
    BY <1>1, <1>2, <1>3, <1>4, <1>5, <1>6, <1>7, <1>8, <1>9, <1>10, <1>11 DEF Next, Pass, Undefined

\* The two list invariants and the types are inductive together.
LEMMA ListInvariant == Spec => []ListInv
  <1>1. Init => ListInv
    BY InitTypeOK, InitList DEF ListInv
  <1>2. ListInv /\ [Next]_vars => ListInv'
    BY StepTypeOK, StepList DEF ListInv
  <1> QED
    BY <1>1, <1>2, PTL DEF Spec

\* The list keeps the order of creation and every id is given to one timer,
\* whatever the callbacks create, rearm and delete.
THEOREM TimersIdsDescend == Spec => []IdsDescend
  <1>1. ListInv => IdsDescend
    BY DEF ListInv
  <1> QED
    BY <1>1, ListInvariant, PTL

\* aeCreateTimeEvent, aeDeleteTimeEvent and processTimeEvents together lose no
\* timer and finalize none twice.
THEOREM TimersNoneLost == Spec => []NoTimerLost
  <1>1. ListInv => NoTimerLost
    BY DEF ListInv
  <1> QED
    BY <1>1, ListInvariant, PTL

-----------------------------------------------------------------------------
(***************************************************************************)
(* The pass: callbacks do not feed it.  The invariant needs to know that   *)
(* the saved maxId separates the timers of the cohort from those created   *)
(* since.                                                                  *)
(***************************************************************************)
InPass == pc \in {"scan", "callback"}

CohortInv ==
    InPass => /\ maxId < timeEventNextId
              /\ \A id \in Ids : id <= maxId => id \in cohort
              /\ pc = "callback" => cbId \in cohort

LEMMA StepCohort == ListInv /\ CohortInv /\ [Next]_vars => CohortInv'
  <1> SUFFICES ASSUME TypeOK, IdsDescend, CohortInv, [Next]_vars PROVE CohortInv'
    BY DEF ListInv
  <1>a. /\ timeEventHead \in Seq(Timer) /\ timeEventNextId \in Nat /\ maxId \in Int
        /\ cbId \in Int
    BY TimersAssumption DEF TypeOK
  <1>b. ASSUME Ids' \subseteq Ids, UNCHANGED <<timeEventNextId, maxId, cohort>>,
               pc' \in {"scan", "callback"} => InPass,
               pc' = "callback" => pc = "callback" /\ cbId' = cbId
        PROVE  CohortInv'
    BY <1>b DEF CohortInv, InPass
  <1>c. ASSUME UNCHANGED <<timeEventHead, timeEventNextId, maxId, cohort, pc, cbId>>
        PROVE  CohortInv'
    BY <1>c DEF CohortInv, InPass, Ids
  <1>d. ASSUME NEW id, DeleteTimer(id), timeEventNextId' = timeEventNextId
        PROVE  Ids' \subseteq Ids
    <2>1. CASE id \in Ids
      BY <1>d, <2>1, DeleteEffect
    <2>2. CASE id \notin Ids
      BY <1>d, <2>2 DEF DeleteTimer, Ids
    <2> QED
      BY <2>1, <2>2
  <1>e. ASSUME pc' \notin {"scan", "callback"} PROVE CohortInv'
    BY <1>e DEF CohortInv, InPass
  <1>f. \A id \in Ids : id \in Nat /\ id < timeEventNextId
    BY <1>a, ListFields DEF Ids, IdsDescend
  <1>1. ASSUME NEW d \in Delays, aeCreateTimeEvent(d) PROVE CohortInv'
    <2>1. Ids' = Ids \cup {timeEventNextId}
      BY <1>1, CreateEffect
    <2>2. timeEventNextId' = timeEventNextId + 1 /\ UNCHANGED <<maxId, cohort, pc, cbId>>
      BY <1>1 DEF aeCreateTimeEvent
    <2> QED
      BY <1>a, <2>1, <2>2 DEF CohortInv, InPass
  <1>2. ASSUME NEW id \in 0..(MaxIds - 1), aeDeleteTimeEvent(id) PROVE CohortInv'
    BY <1>2, <1>b, <1>d DEF aeDeleteTimeEvent, InPass
  <1>3. ASSUME NEW id \in 0..(MaxIds - 1), NEW d \in Delays, aeModifyTimeEvent(id, d)
        PROVE  CohortInv'
    <2>1. CASE id \in Ids
      <3>1. Ids' = Ids
        BY <1>3, <2>1, RearmEffect, TimersAssumption DEF aeModifyTimeEvent
      <3> QED
        BY <1>3, <1>b, <3>1 DEF aeModifyTimeEvent, InPass
    <2>2. CASE id \notin Ids
      BY <1>3, <1>c, <2>2 DEF aeModifyTimeEvent
    <2> QED
      BY <2>1, <2>2
  <1>4. CASE PollAndWait \/ PollDontWait \/ Wake \/ EndPass \/ TimeProcReturnsToFreedTimer
    BY <1>4, <1>e DEF PollAndWait, PollDontWait, Wake, EndPass, TimeProcReturnsToFreedTimer
  <1>5. CASE BeginPass
    <2>1. Ids' = Ids
      BY <1>5, BeginPassEffect
    <2>2. /\ pc' = "scan" /\ maxId' = timeEventNextId - 1 /\ cohort' = Ids
          /\ timeEventNextId' = timeEventNextId
      BY <1>5 DEF BeginPass
    <2> QED
      BY <1>a, <2>1, <2>2 DEF CohortInv
  <1>6. CASE SkipTimer
    BY <1>6, <1>c DEF SkipTimer, api
  <1>7. CASE CallTimeProc
    <2>1. /\ timeEventHead[te].id \in Ids /\ timeEventHead[te].id <= maxId
          /\ pc = "scan"
      BY <1>7 DEF CallTimeProc, Ids, TypeOK
    <2>2. timeEventHead[te].id \in cohort
      BY <2>1 DEF CohortInv, InPass
    <2>3. /\ cbId' = timeEventHead[te].id
          /\ UNCHANGED <<timeEventHead, timeEventNextId, maxId, cohort>>
      BY <1>7 DEF CallTimeProc
    <2> QED
      BY <2>1, <2>2, <2>3 DEF CohortInv, InPass, Ids
  <1>8. CASE TimeProcReturnsNoMore
    BY <1>8, <1>b, <1>d DEF TimeProcReturnsNoMore, RestartFromHead, InPass
  <1>9. ASSUME NEW r \in Periods, TimeProcReturnsPeriod(r) PROVE CohortInv'
    <2>1. Ids' = Ids
      BY <1>9, RearmEffect, TimersAssumption DEF TimeProcReturnsPeriod
    <2> QED
      BY <1>9, <1>b, <2>1 DEF TimeProcReturnsPeriod, RestartFromHead, InPass
  <1>10. CASE Tick
    BY <1>10, <1>c DEF Tick, api
  <1>11. ASSUME NEW t \in Time, SetClock(t) PROVE CohortInv'
    BY <1>11, <1>c DEF SetClock, api
  <1>12. CASE UNCHANGED vars
    BY <1>12, <1>c DEF vars
  <1> QED
    BY <1>1, <1>2, <1>3, <1>4, <1>5, <1>6, <1>7, <1>8, <1>9, <1>10, <1>11, <1>12
    DEF Next, Pass, Undefined

\* A pass runs only timers that existed when it began, whatever the callbacks
\* register (the maxId test of ae.c:254).
THEOREM TimersHandlersDoNotFeedPass == Spec => []HandlersDoNotFeedPass
  <1>1. Init => CohortInv
    BY DEF Init, CohortInv, InPass
  <1>2. CohortInv => HandlersDoNotFeedPass
    BY DEF CohortInv, InPass, HandlersDoNotFeedPass
  <1> QED
    BY <1>1, <1>2, StepCohort, ListInvariant, PTL DEF Spec

-----------------------------------------------------------------------------
(***************************************************************************)
(* The pass: no timer that had expired is skipped.  While a scan runs the  *)
(* list does not change, but the clock may be set in either direction; the *)
(* lowest value it had since the scan left the head is what the skipped    *)
(* timers can be compared with.                                            *)
(***************************************************************************)
ScanInv == ScannedNotDue /\ (pc = "scan" => ~Sooner(now, scanMin))

\* A timer that has not expired at some time has not expired before it.
LEMMA ExpiredMonotone ==
    ASSUME NEW e \in Timer, NEW t \in Time, NEW u \in Time,
           ~Sooner(t, u), ~Expired(e, t)
    PROVE  ~Expired(e, u)
  <1>1. /\ t.sec \in Int /\ t.ms \in Int /\ u.sec \in Int /\ u.ms \in Int
        /\ e.sec \in Int /\ e.ms \in Int
    BY DEF Time, Timer
  <1> QED
    BY <1>1 DEF Sooner, Expired

LEMMA StepScan == ListInv /\ ScanInv /\ [Next]_vars => ScanInv'
  <1> SUFFICES ASSUME TypeOK, ScanInv, [Next]_vars PROVE ScanInv'
    BY DEF ListInv
  <1>a. /\ now \in Time /\ scanMin \in Time /\ te \in Nat
        /\ timeEventHead \in Seq(Timer) /\ Len(timeEventHead) \in Nat
    BY DEF TypeOK
  <1>b. \A t \in Time : t.sec \in Int /\ t.ms \in Int
    BY DEF Time
  <1>c. \A t \in Time : ~Sooner(t, t)
    BY <1>b DEF Sooner
  <1>d. ASSUME pc' # "scan" PROVE ScanInv'
    BY <1>d DEF ScanInv, ScannedNotDue
  <1>e. ASSUME te' = 1, scanMin' = now, now' = now PROVE ScanInv'
    BY <1>a, <1>c, <1>e DEF ScanInv, ScannedNotDue
  <1>1. ASSUME NEW d \in Delays, aeCreateTimeEvent(d) PROVE ScanInv'
    BY <1>1, <1>d DEF aeCreateTimeEvent, InApplication
  <1>2. ASSUME NEW id \in 0..(MaxIds - 1), aeDeleteTimeEvent(id) PROVE ScanInv'
    BY <1>2, <1>d DEF aeDeleteTimeEvent, InApplication
  <1>3. ASSUME NEW id \in 0..(MaxIds - 1), NEW d \in Delays, aeModifyTimeEvent(id, d)
        PROVE  ScanInv'
    BY <1>3, <1>d DEF aeModifyTimeEvent, InApplication
  <1>4. CASE PollAndWait \/ PollDontWait \/ Wake \/ EndPass \/ TimeProcReturnsToFreedTimer
             \/ CallTimeProc
    BY <1>4, <1>d DEF PollAndWait, PollDontWait, Wake, EndPass,
                      TimeProcReturnsToFreedTimer, CallTimeProc
  <1>5. CASE BeginPass
    BY <1>5, <1>e DEF BeginPass, clock
  <1>6. CASE TimeProcReturnsNoMore
    BY <1>6, <1>e DEF TimeProcReturnsNoMore, RestartFromHead, clock
  <1>7. ASSUME NEW r \in Periods, TimeProcReturnsPeriod(r) PROVE ScanInv'
    BY <1>7, <1>e DEF TimeProcReturnsPeriod, RestartFromHead, clock
  <1>8. CASE SkipTimer
    <2>1. /\ pc = "scan" /\ te \in 1..Len(timeEventHead) /\ te' = te + 1
          /\ UNCHANGED <<timeEventHead, maxId, now, scanMin, pc>>
          /\ timeEventHead[te].id > maxId \/ ~Expired(timeEventHead[te], now)
      BY <1>8 DEF SkipTimer, api, clock, TypeOK
    <2>2. ~Sooner(now, scanMin)
      BY <2>1 DEF ScanInv
    <2>3. timeEventHead[te].id <= maxId => ~Expired(timeEventHead[te], scanMin)
      <3>1. timeEventHead[te] \in Timer /\ timeEventHead[te].id \in Int /\ maxId \in Int
        BY <1>a, <2>1, ListFields DEF TypeOK
      <3>2. timeEventHead[te].id <= maxId => ~(timeEventHead[te].id > maxId)
        BY <3>1
      <3> QED
        BY <1>a, <2>1, <2>2, <3>1, <3>2, ExpiredMonotone
    <2>4. \A i \in 1..Len(timeEventHead) : i < te' => i < te \/ i = te
      BY <1>a, <2>1
    <2>5. ScannedNotDue'
      BY <2>1, <2>3, <2>4 DEF ScanInv, ScannedNotDue, Expired
    <2> QED
      BY <2>1, <2>2, <2>5 DEF ScanInv, Sooner
  <1>9. CASE Tick
    <2>1. now' = AddMilliseconds(now, 1) /\ UNCHANGED <<timeEventHead, maxId, te, pc, scanMin>>
      BY <1>9 DEF Tick, api
    <2>2. ~Sooner(now, scanMin) => ~Sooner(now', scanMin)
      <3>1. MsPerSec = 1 \/ MsPerSec > 1
        BY TimersAssumption
      <3>2. /\ MsPerSec \in Nat /\ MsPerSec > 0
            /\ now.sec \in Nat /\ now.ms \in 0..(MsPerSec - 1)
            /\ scanMin.sec \in Nat /\ scanMin.ms \in 0..(MsPerSec - 1)
        BY <1>a, TimersAssumption DEF Time
      <3>3. CASE MsPerSec = 1
        <4>1. 1 \div MsPerSec = 1 /\ 1 % MsPerSec = 0
          BY <3>3
        <4>2. now' = [sec |-> now.sec + 1, ms |-> now.ms]
          BY <2>1, <3>2, <3>3, <4>1 DEF AddMilliseconds
        <4> QED
          BY <3>2, <4>2 DEF Sooner
      <3>4. CASE MsPerSec > 1
        <4>1. 1 \div MsPerSec = 0 /\ 1 % MsPerSec = 1
          BY <3>2, <3>4
        <4>2. now' = IF now.ms + 1 >= MsPerSec
                     THEN [sec |-> now.sec + 1, ms |-> now.ms + 1 - MsPerSec]
                     ELSE [sec |-> now.sec, ms |-> now.ms + 1]
          BY <2>1, <3>2, <4>1 DEF AddMilliseconds
        <4> QED
          BY <3>2, <4>2 DEF Sooner
      <3> QED
        BY <3>1, <3>3, <3>4
    <2> QED
      BY <2>1, <2>2 DEF ScanInv, ScannedNotDue, Expired, Sooner
  <1>10. ASSUME NEW t \in Time, SetClock(t) PROVE ScanInv'
    <2>1. /\ now' = t /\ scanMin' = Earlier(t, scanMin)
          /\ UNCHANGED <<timeEventHead, maxId, te, pc>>
      BY <1>10 DEF SetClock, api
    <2>2. scanMin' \in Time /\ ~Sooner(t, scanMin') /\ ~Sooner(scanMin, scanMin')
      BY <1>a, <1>b, <2>1 DEF Earlier, Sooner
    <2>3. \A i \in 1..Len(timeEventHead) :
             ~Expired(timeEventHead[i], scanMin) => ~Expired(timeEventHead[i], scanMin')
      BY <1>a, <2>2, ListFields, ExpiredMonotone
    <2>4. ScannedNotDue'
      BY <2>1, <2>3 DEF ScanInv, ScannedNotDue, Expired
    <2> QED
      BY <2>1, <2>2, <2>4 DEF ScanInv, Sooner
  <1>11. CASE UNCHANGED vars
    BY <1>11 DEF vars, ScanInv, ScannedNotDue, Expired, Sooner
  <1> QED
    BY <1>1, <1>2, <1>3, <1>4, <1>5, <1>6, <1>7, <1>8, <1>9, <1>10, <1>11 DEF Next, Pass, Undefined

LEMMA ScanInvariant == Spec => []ScanInv
  <1>1. Init => ScanInv
    BY DEF Init, ScanInv, ScannedNotDue
  <1> QED
    BY <1>1, StepScan, ListInvariant, PTL DEF Spec

\* The part of the list that a scan has passed holds no expired timer of the
\* pass, for any list and any movement of the clock.
THEOREM TimersScannedNotDue == Spec => []ScannedNotDue
  <1>1. ScanInv => ScannedNotDue
    BY DEF ScanInv
  <1> QED
    BY <1>1, ScanInvariant, PTL

\* When processTimeEvents returns, it leaves no timer of its cohort that had
\* expired when its last scan started.
THEOREM TimersNoDueTimerSkipped == Spec => NoDueTimerSkipped
  <1> DEFINE Done == EndPass => \A i \in 1..Len(timeEventHead) :
                        timeEventHead[i].id <= maxId => ~Expired(timeEventHead[i], scanMin)
  <1>1. ListInv /\ ScanInv /\ [Next]_vars => [Done]_vars
    <2> SUFFICES ASSUME TypeOK, ScannedNotDue, EndPass,
                        NEW i \in 1..Len(timeEventHead), timeEventHead[i].id <= maxId
                 PROVE  ~Expired(timeEventHead[i], scanMin)
      BY DEF ListInv, ScanInv
    <2>1. pc = "scan" /\ te > Len(timeEventHead) /\ te \in Nat /\ Len(timeEventHead) \in Nat
      BY DEF EndPass, TypeOK
    <2>2. i < te
      BY <2>1
    <2> QED
      BY <2>1, <2>2 DEF ScannedNotDue
  <1> QED
    BY <1>1, ScanInvariant, ListInvariant, PTL DEF Spec, NoDueTimerSkipped

-----------------------------------------------------------------------------
(***************************************************************************)
(* The pass after a clock skew: every timer of the list fires.  A timer    *)
(* that is still owed its call sits at or behind the scan with its second  *)
(* set to 0, and no clock value has second 0.                              *)
(***************************************************************************)
Owed(o, from) ==
    /\ o <= maxId
    /\ \E i \in from..Len(timeEventHead) :
          timeEventHead[i].id = o /\ timeEventHead[i].sec = 0

SkewInv ==
    /\ now.sec > 0
    /\ pc \in {"main", "sleep", "files"} => owed = {}
    /\ pc = "callback" => \A o \in owed : Owed(o, 1) /\ o # cbId
    /\ pc = "scan" => \A o \in owed : Owed(o, te)

LEMMA StepSkew == ListInv /\ SkewInv /\ [Next]_vars => SkewInv'
  <1> SUFFICES ASSUME TypeOK, IdsDescend, SkewInv, [Next]_vars PROVE SkewInv'
    BY DEF ListInv
  <1>a. /\ timeEventHead \in Seq(Timer) /\ Len(timeEventHead) \in Nat /\ maxId \in Int
        /\ te \in Nat \ {0} /\ timeEventNextId \in Nat /\ owed \subseteq Nat
    BY TimersAssumption DEF TypeOK
  <1>b. ASSUME UNCHANGED <<timeEventHead, maxId, te, pc, cbId, now>>, owed' \subseteq owed
        PROVE  SkewInv'
    BY <1>b DEF SkewInv, Owed
  <1>c. ASSUME NEW id, DeleteTimer(id), timeEventNextId' = timeEventNextId,
               maxId' = maxId, NEW o \in owed', Owed(o, 1)
        PROVE  o \in owed /\ Owed(o, 1)'
    <2>1. CASE id \in Ids
      <3>1. owed' = owed \ {id} /\ o # id
        BY <1>c, <2>1 DEF DeleteTimer
      <3>2. PICK j \in 1..Len(timeEventHead) :
                timeEventHead[j].id = o /\ timeEventHead[j].sec = 0
        BY <1>c DEF Owed
      <3>3. \E i \in 1..Len(timeEventHead') : timeEventHead'[i] = timeEventHead[j]
        BY <1>c, <2>1, <3>1, <3>2, DeleteEffect
      <3> QED
        BY <1>c, <3>1, <3>2, <3>3 DEF Owed
    <2>2. CASE id \notin Ids
      BY <1>c, <2>2 DEF DeleteTimer, Owed
    <2> QED
      BY <2>1, <2>2
  <1>d. ASSUME NEW id \in Ids, NEW d \in Nat, RearmTimer(id, d),
               timeEventNextId' = timeEventNextId, maxId' = maxId,
               NEW o \in owed, o # id, Owed(o, 1)
        PROVE  Owed(o, 1)'
    <2>1. PICK j \in 1..Len(timeEventHead) :
              timeEventHead[j].id = o /\ timeEventHead[j].sec = 0
      BY <1>d DEF Owed
    <2>2. Len(timeEventHead') = Len(timeEventHead) /\ timeEventHead'[j] = timeEventHead[j]
      BY <1>d, <2>1, RearmEffect
    <2> QED
      BY <1>d, <2>1, <2>2 DEF Owed
  <1>1. ASSUME NEW d \in Delays, aeCreateTimeEvent(d) PROVE SkewInv'
    <2>1. /\ Len(timeEventHead') = Len(timeEventHead) + 1
          /\ \A i \in 1..Len(timeEventHead) : timeEventHead'[i + 1] = timeEventHead[i]
      BY <1>1, CreateEffect
    <2>2. pc # "scan" /\ UNCHANGED <<maxId, owed, pc, cbId, now>>
      BY <1>1 DEF aeCreateTimeEvent, InApplication, clock
    <2>3. \A o \in owed : Owed(o, 1) => Owed(o, 1)'
      <3> SUFFICES ASSUME NEW o \in owed, Owed(o, 1) PROVE Owed(o, 1)'
        OBVIOUS
      <3>1. PICK i \in 1..Len(timeEventHead) :
                timeEventHead[i].id = o /\ timeEventHead[i].sec = 0
        BY DEF Owed
      <3>2. i + 1 \in 1..Len(timeEventHead') /\ timeEventHead'[i + 1] = timeEventHead[i]
        BY <1>a, <2>1
      <3> QED
        BY <2>2, <3>1, <3>2 DEF Owed
    <2> QED
      BY <2>2, <2>3 DEF SkewInv
  <1>2. ASSUME NEW id \in 0..(MaxIds - 1), aeDeleteTimeEvent(id) PROVE SkewInv'
    <2>1. /\ pc # "scan" /\ DeleteTimer(id)
          /\ UNCHANGED <<timeEventNextId, maxId, pc, cbId, now>>
      BY <1>2 DEF aeDeleteTimeEvent, InApplication, clock
    <2>2. owed' \subseteq owed
      BY <2>1 DEF DeleteTimer
    <2> QED
      BY <1>c, <2>1, <2>2 DEF SkewInv
  <1>3. ASSUME NEW id \in 0..(MaxIds - 1), NEW d \in Delays, aeModifyTimeEvent(id, d)
        PROVE  SkewInv'
    <2>1. pc # "scan" /\ UNCHANGED <<timeEventNextId, maxId, te, pc, cbId, now>>
      BY <1>3 DEF aeModifyTimeEvent, InApplication, clock
    <2>2. CASE id \in Ids
      <3>1. RearmTimer(id, d) /\ owed' = owed \ {id} /\ d \in Nat
        BY <1>3, <2>2, TimersAssumption DEF aeModifyTimeEvent
      <3> QED
        BY <1>d, <2>1, <2>2, <3>1 DEF SkewInv
    <2>3. CASE id \notin Ids
      BY <1>3, <1>b, <2>1, <2>3 DEF aeModifyTimeEvent
    <2> QED
      BY <2>2, <2>3
  <1>4. CASE PollAndWait \/ PollDontWait \/ Wake
    BY <1>4 DEF PollAndWait, PollDontWait, Wake, api, clock, SkewInv
  <1>5. CASE BeginPass
    <2>1. /\ Len(timeEventHead') = Len(timeEventHead)
          /\ \A i \in 1..Len(timeEventHead) :
                /\ timeEventHead'[i].id = timeEventHead[i].id
                /\ ClockWentBack => timeEventHead'[i].sec = 0
      BY <1>5, BeginPassEffect
    <2>2. /\ pc' = "scan" /\ te' = 1 /\ maxId' = timeEventNextId - 1 /\ now' = now
          /\ owed' = IF ClockWentBack THEN Ids ELSE {}
      BY <1>5 DEF BeginPass, clock
    <2>3. \A o \in owed' : Owed(o, te)'
      <3> SUFFICES ASSUME NEW o \in owed' PROVE Owed(o, te)'
        OBVIOUS
      <3>1. ClockWentBack /\ o \in Ids
        BY <2>2
      <3>2. PICK i \in 1..Len(timeEventHead) : timeEventHead[i].id = o
        BY <3>1 DEF Ids
      <3>3. o \in Nat /\ o < timeEventNextId
        BY <1>a, <3>2, ListFields DEF IdsDescend
      <3> QED
        BY <1>a, <2>1, <2>2, <3>1, <3>2, <3>3 DEF Owed
    <2> QED
      BY <2>2, <2>3 DEF SkewInv
  <1>6. CASE SkipTimer
    <2>1. /\ pc = "scan" /\ te \in 1..Len(timeEventHead) /\ te' = te + 1
          /\ UNCHANGED <<timeEventHead, maxId, now, owed, pc>>
          /\ timeEventHead[te].id > maxId \/ ~Expired(timeEventHead[te], now)
      BY <1>6, <1>a DEF SkipTimer, api, clock
    <2>2. timeEventHead[te].id <= maxId => timeEventHead[te].sec # 0
      <3>1. /\ timeEventHead[te].id \in Nat /\ timeEventHead[te].sec \in Nat
            /\ now.sec \in Nat /\ now.sec > 0
        BY <1>a, <2>1, ListFields DEF SkewInv, TypeOK, Time
      <3> QED
        BY <1>a, <2>1, <3>1 DEF Expired
    <2>3. \A o \in owed : Owed(o, te + 1)
      <3> SUFFICES ASSUME NEW o \in owed PROVE Owed(o, te + 1)
        OBVIOUS
      <3>1. o <= maxId /\ \E i \in te..Len(timeEventHead) :
               timeEventHead[i].id = o /\ timeEventHead[i].sec = 0
        BY <2>1 DEF SkewInv, Owed
      <3>2. PICK i \in te..Len(timeEventHead) :
               timeEventHead[i].id = o /\ timeEventHead[i].sec = 0
        BY <3>1
      <3>3. i # te
        BY <2>2, <3>1, <3>2
      <3>4. i \in (te + 1)..Len(timeEventHead)
        BY <1>a, <3>3
      <3> QED
        BY <3>1, <3>2, <3>4 DEF Owed
    <2> QED
      BY <2>1, <2>3 DEF SkewInv, Owed
  <1>7. CASE CallTimeProc
    <2>1. /\ pc = "scan" /\ pc' = "callback" /\ cbId' = timeEventHead[te].id
          /\ owed' = owed \ {timeEventHead[te].id}
          /\ UNCHANGED <<timeEventHead, maxId, now>>
      BY <1>7 DEF CallTimeProc, clock
    <2>2. te..Len(timeEventHead) \subseteq 1..Len(timeEventHead)
      BY <1>a
    <2> QED
      BY <2>1, <2>2 DEF SkewInv, Owed
  <1>8. CASE TimeProcReturnsNoMore
    <2>1. /\ pc = "callback" /\ pc' = "scan" /\ te' = 1 /\ DeleteTimer(cbId)
          /\ UNCHANGED <<timeEventNextId, maxId, now>>
      BY <1>8 DEF TimeProcReturnsNoMore, RestartFromHead, clock
    <2>2. owed' \subseteq owed
      BY <2>1 DEF DeleteTimer
    <2>3. \A o \in owed' : Owed(o, 1)'
      BY <1>c, <2>1, <2>2 DEF SkewInv
    <2> QED
      BY <2>1, <2>3 DEF SkewInv, Owed
  <1>9. ASSUME NEW r \in Periods, TimeProcReturnsPeriod(r) PROVE SkewInv'
    <2>1. /\ pc = "callback" /\ pc' = "scan" /\ te' = 1 /\ cbId \in Ids
          /\ RearmTimer(cbId, r) /\ r \in Nat
          /\ UNCHANGED <<timeEventNextId, maxId, now, owed>>
      BY <1>9, TimersAssumption DEF TimeProcReturnsPeriod, RestartFromHead, clock
    <2>2. \A o \in owed' : Owed(o, 1)'
      BY <1>d, <2>1 DEF SkewInv
    <2> QED
      BY <2>1, <2>2 DEF SkewInv, Owed
  <1>10. CASE TimeProcReturnsToFreedTimer
    BY <1>10 DEF TimeProcReturnsToFreedTimer, clock, SkewInv
  <1>11. CASE EndPass
    <2>1. /\ pc = "scan" /\ te > Len(timeEventHead) /\ pc' = "main"
          /\ UNCHANGED <<owed, now>>
      BY <1>11 DEF EndPass, api, clock
    <2>2. te..Len(timeEventHead) = {}
      BY <1>a, <2>1
    <2>3. owed = {}
      BY <2>1, <2>2 DEF SkewInv, Owed
    <2> QED
      BY <2>1, <2>3 DEF SkewInv
  <1>12. CASE Tick
    <2>1. now' = AddMilliseconds(now, 1) /\ UNCHANGED <<timeEventHead, maxId, te, pc, cbId, owed>>
      BY <1>12 DEF Tick, api
    <2>2. now'.sec > 0
      <3>1. now.sec \in Nat /\ now.sec > 0 /\ now.ms \in Nat
        BY DEF SkewInv, TypeOK, Time
      <3>2. 1 \div MsPerSec \in Nat
        BY TimersAssumption
      <3> QED
        BY <2>1, <3>1, <3>2 DEF AddMilliseconds
    <2> QED
      BY <2>1, <2>2 DEF SkewInv, Owed
  <1>13. ASSUME NEW t \in Time, SetClock(t) PROVE SkewInv'
    BY <1>13 DEF SetClock, api, SkewInv, Owed
  <1>14. CASE UNCHANGED vars
    BY <1>14, <1>b DEF vars
  <1> QED
    BY <1>1, <1>2, <1>3, <1>4, <1>5, <1>6, <1>7, <1>8, <1>9, <1>10, <1>11, <1>12,
       <1>13, <1>14 DEF Next, Pass, Undefined

\* When processTimeEvents notices that the clock went back, every timer of
\* the list fires in that pass unless a callback deletes or rearms it first.
THEOREM TimersSkewFiresAll == Spec => SkewFiresAll
  <1>1. Init => SkewInv
    BY DEF Init, SkewInv
  <1>2. Spec => []SkewInv
    BY <1>1, StepSkew, ListInvariant, PTL DEF Spec
  <1>3. ListInv /\ SkewInv /\ [Next]_vars => [EndPass => owed = {}]_vars
    <2> SUFFICES ASSUME TypeOK, SkewInv, EndPass PROVE owed = {}
      BY DEF ListInv
    <2>1. pc = "scan" /\ te > Len(timeEventHead) /\ te \in Nat /\ Len(timeEventHead) \in Nat
      BY DEF EndPass, TypeOK
    <2>2. te..Len(timeEventHead) = {}
      BY <2>1
    <2> QED
      BY <2>1, <2>2 DEF SkewInv, Owed
  <1> QED
    BY <1>2, <1>3, ListInvariant, PTL DEF Spec, SkewFiresAll

-----------------------------------------------------------------------------
(***************************************************************************)
(* Seconds and milliseconds agree with plain milliseconds: timers do not   *)
(* fire early, and the loop sleeps until the nearest one.                  *)
(***************************************************************************)
Clocks == [sec : Nat, ms : 0..(MsPerSec - 1)]

LEMMA WholeSeconds ==
    ASSUME NEW a \in Nat, NEW b \in Nat
    PROVE  /\ a * MsPerSec \in Nat /\ b * MsPerSec \in Nat
           /\ (a + b) * MsPerSec = a * MsPerSec + b * MsPerSec
           /\ a < b => a * MsPerSec + MsPerSec <= b * MsPerSec
  <1>1. MsPerSec \in Nat /\ MsPerSec > 0
    BY TimersAssumption
  <1>2. a * MsPerSec \in Nat /\ b * MsPerSec \in Nat
    BY <1>1
  <1>3. (a + b) * MsPerSec = a * MsPerSec + b * MsPerSec
    BY <1>1
  <1>4. ASSUME a < b PROVE a * MsPerSec + MsPerSec <= b * MsPerSec
    <2>1. PICK c \in Nat : b = (a + 1) + c
      <3>1. b - (a + 1) \in Nat /\ b = (a + 1) + (b - (a + 1))
        BY <1>4
      <3> QED
        BY <3>1
    <2>2. b * MsPerSec = a * MsPerSec + MsPerSec + c * MsPerSec
      BY <1>1, <2>1
    <2>3. c * MsPerSec \in Nat
      BY <1>1
    <2> QED
      BY <1>1, <1>2, <2>2, <2>3
  <1> QED
    BY <1>2, <1>3, <1>4

\* The comparisons of the code are those of milliseconds.
LEMMA SoonerIsLess ==
    ASSUME NEW e, NEW f, e.sec \in Nat, e.ms \in 0..(MsPerSec - 1), f.sec \in Nat, f.ms \in 0..(MsPerSec - 1)
    PROVE  /\ Millis(e) \in Nat /\ Millis(f) \in Nat
           /\ Sooner(e, f) <=> Millis(e) < Millis(f)
           /\ Expired(e, f) <=> Millis(e) <= Millis(f)
  <1>0. MsPerSec \in Nat /\ MsPerSec > 0
    BY TimersAssumption
  <1>1. PICK a \in Nat, b \in Nat, x \in Nat, y \in Nat :
            a = e.sec /\ b = f.sec /\ x = a * MsPerSec /\ y = b * MsPerSec
    BY WholeSeconds
  <1>2. Millis(e) = x + e.ms /\ Millis(f) = y + f.ms
    BY <1>1 DEF Millis
  <1>3. (a < b => x + MsPerSec <= y) /\ (b < a => y + MsPerSec <= x) /\ (a = b => x = y)
    BY <1>1, WholeSeconds
  <1>4. PICK m \in Nat, n \in Nat : m = e.ms /\ n = f.ms /\ m < MsPerSec /\ n < MsPerSec
    BY <1>0
  <1>5. Sooner(e, f) <=> (a < b \/ (a = b /\ m < n))
    BY <1>1, <1>4 DEF Sooner
  <1>6. Expired(e, f) <=> (b > a \/ (b = a /\ n >= m))
    BY <1>1, <1>4 DEF Expired
  <1>7. Millis(e) = x + m /\ Millis(f) = y + n
    BY <1>2, <1>4
  <1> QED
    BY <1>0, <1>3, <1>4, <1>5, <1>6, <1>7

LEMMA SplitDelay ==
    ASSUME NEW U \in Nat \ {0}, NEW x \in Nat
    PROVE  x \div U \in Nat /\ x % U \in 0..(U - 1) /\ x = U * (x \div U) + (x % U)
  OBVIOUS

\* aeAddMillisecondsToNow adds milliseconds, and the seconds do not decrease.
LEMMA AddMillisecondsAdds ==
    ASSUME NEW t \in Clocks, NEW d \in Nat
    PROVE  /\ Millis(AddMilliseconds(t, d)) = Millis(t) + d
           /\ AddMilliseconds(t, d).sec >= t.sec
  <1>0. MsPerSec \in Nat /\ MsPerSec > 0
    BY TimersAssumption
  <1>1. PICK a \in Nat, m \in 0..(MsPerSec - 1) : a = t.sec /\ m = t.ms
    BY DEF Clocks
  <1>2. PICK q \in Nat, r \in 0..(MsPerSec - 1) :
            q = d \div MsPerSec /\ r = d % MsPerSec /\ d = q * MsPerSec + r
    <2>1. MsPerSec \in Nat \ {0}
      BY <1>0
    <2>2. PICK q \in Nat, r \in 0..(MsPerSec - 1) :
              q = d \div MsPerSec /\ r = d % MsPerSec /\ d = MsPerSec * q + r
      BY <2>1, SplitDelay
    <2>3. MsPerSec * q = q * MsPerSec
      BY <1>0
    <2> QED
      BY <2>2, <2>3
  <1>3. (a + q) * MsPerSec = a * MsPerSec + q * MsPerSec /\ a * MsPerSec \in Nat /\ q * MsPerSec \in Nat
    BY WholeSeconds
  <1>4. ((a + q) + 1) * MsPerSec = (a + q) * MsPerSec + MsPerSec
    BY <1>0
  <1>5. AddMilliseconds(t, d) = IF m + r >= MsPerSec THEN [sec |-> (a + q) + 1, ms |-> (m + r) - MsPerSec]
                                                      ELSE [sec |-> a + q, ms |-> m + r]
    BY <1>1, <1>2 DEF AddMilliseconds
  <1>6. Millis(t) = a * MsPerSec + m
    BY <1>1 DEF Millis
  <1>7. CASE m + r >= MsPerSec
    <2>1. AddMilliseconds(t, d).sec = (a + q) + 1 /\ AddMilliseconds(t, d).ms = (m + r) - MsPerSec
      BY <1>5, <1>7
    <2>2. Millis(AddMilliseconds(t, d)) = ((a + q) + 1) * MsPerSec + ((m + r) - MsPerSec)
      BY <2>1 DEF Millis
    <2>3. Millis(AddMilliseconds(t, d)) = ((a * MsPerSec + q * MsPerSec) + MsPerSec) + ((m + r) - MsPerSec)
      BY <1>3, <1>4, <2>2
    <2>4. PICK x \in Nat, y \in Nat : x = a * MsPerSec /\ y = q * MsPerSec
      BY <1>3
    <2>5. Millis(AddMilliseconds(t, d)) = ((x + y) + MsPerSec) + ((m + r) - MsPerSec) /\ Millis(t) = x + m /\ d = y + r
      BY <1>2, <1>6, <2>3, <2>4
    <2>6. Millis(AddMilliseconds(t, d)) = Millis(t) + d
      BY <1>0, <2>5
    <2> QED
      BY <1>1, <2>1, <2>6
  <1>8. CASE ~(m + r >= MsPerSec)
    <2>1. AddMilliseconds(t, d).sec = a + q /\ AddMilliseconds(t, d).ms = m + r
      BY <1>5, <1>8
    <2>2. Millis(AddMilliseconds(t, d)) = (a + q) * MsPerSec + (m + r)
      BY <2>1 DEF Millis
    <2> QED
      BY <1>0, <1>1, <1>2, <1>3, <1>6, <2>1, <2>2
  <1> QED
    BY <1>7, <1>8

LEMMA ArmedDue ==
    ASSUME now \in Time, NEW id, NEW d \in Nat
    PROVE  Millis(Armed(id, d)) = Armed(id, d).due
  <1>1. now \in Clocks
    BY TimersAssumption DEF Time, Clocks
  <1>2. Millis(AddMilliseconds(now, d)) = Millis(now) + d
    BY <1>1, AddMillisecondsAdds
  <1>3. /\ Armed(id, d).sec = AddMilliseconds(now, d).sec /\ Armed(id, d).ms = AddMilliseconds(now, d).ms
        /\ Armed(id, d).due = Millis(now) + d
    BY DEF Armed
  <1>4. Millis(Armed(id, d)) = Millis(AddMilliseconds(now, d))
    BY <1>3 DEF Millis
  <1> QED
    BY <1>2, <1>3, <1>4

\* As long as nobody has set the clock, no pass has seen it go back, and
\* every timer is armed for the time at which it is due.
DueInv ==
    skews = 0 => /\ lastTime <= now.sec
                 /\ \A i \in 1..Len(timeEventHead) : Millis(timeEventHead[i]) = timeEventHead[i].due

LEMMA StepDue == ListInv /\ DueInv /\ [Next]_vars => DueInv'
  <1> SUFFICES ASSUME TypeOK, IdsDescend, DueInv, [Next]_vars, skews' = 0
               PROVE  /\ lastTime' <= now'.sec
                      /\ \A i \in 1..Len(timeEventHead') :
                            Millis(timeEventHead'[i]) = timeEventHead'[i].due
    BY DEF ListInv, DueInv
  <1> DEFINE Dues == \A i \in 1..Len(timeEventHead) : Millis(timeEventHead[i]) = timeEventHead[i].due
             Goal == lastTime' <= now'.sec /\ Dues'
  <1>a. /\ timeEventHead \in Seq(Timer) /\ Len(timeEventHead) \in Nat
        /\ now \in Time /\ skews \in Nat /\ timeEventNextId \in Nat /\ lastTime \in Nat /\ now.sec \in Nat
    BY TimersAssumption DEF TypeOK, Time
  <1>b. skews = 0 => lastTime <= now.sec /\ Dues
    BY DEF DueInv
  <1> HIDE DEF Dues
  <1>c. ASSUME UNCHANGED <<lastTime, now, skews>>, Dues => Dues' PROVE Goal
    BY <1>b, <1>c
  <1>d. ASSUME NEW id, DeleteTimer(id), timeEventNextId' = timeEventNextId PROVE Dues => Dues'
    <2>1. CASE id \in Ids
      <3>1. \A i \in 1..Len(timeEventHead') :
               \E j \in 1..Len(timeEventHead) : timeEventHead'[i] = timeEventHead[j]
        BY <1>d, <2>1, DeleteEffect
      <3> QED
        BY <3>1 DEF Dues
    <2>2. CASE id \notin Ids
      BY <1>d, <2>2 DEF DeleteTimer, Dues
    <2> QED
      BY <2>1, <2>2
  <1>e. ASSUME NEW id, NEW d \in Nat, RearmTimer(id, d) PROVE Dues => Dues'
    <2>1. PICK k \in 1..Len(timeEventHead) : timeEventHead' = [timeEventHead EXCEPT ![k] = Armed(id, d)]
      BY <1>e DEF RearmTimer
    <2>2. PICK e : e = Armed(id, d)
      OBVIOUS
    <2>3. Millis(e) = e.due
      BY <1>a, <2>2, ArmedDue
    <2>4. /\ Len(timeEventHead') = Len(timeEventHead)
          /\ \A i \in 1..Len(timeEventHead) : timeEventHead'[i] = IF i = k THEN e ELSE timeEventHead[i]
      BY <1>a, <2>1, <2>2
    <2> QED
      BY <2>3, <2>4 DEF Dues
  <1>1. ASSUME NEW d \in Delays, aeCreateTimeEvent(d) PROVE Goal
    <2>1. PICK e : e = Armed(timeEventNextId, d)
      OBVIOUS
    <2>2. Millis(e) = e.due
      BY <1>a, <2>1, ArmedDue, TimersAssumption
    <2>3. timeEventHead' = <<e>> \o timeEventHead /\ UNCHANGED <<lastTime, now, skews>>
      BY <1>1, <2>1 DEF aeCreateTimeEvent, clock
    <2>4. e \in Timer
      BY <1>a, <2>1, ArmedType, TimersAssumption
    <2>5. /\ Len(timeEventHead') = Len(timeEventHead) + 1 /\ timeEventHead'[1] = e
          /\ \A i \in 2..Len(timeEventHead') : timeEventHead'[i] = timeEventHead[i - 1]
      BY <1>a, <2>3, <2>4
    <2>6. Dues => Dues'
      <3> SUFFICES ASSUME Dues, NEW i \in 1..Len(timeEventHead')
                   PROVE  Millis(timeEventHead'[i]) = timeEventHead'[i].due
        BY DEF Dues
      <3>1. CASE i = 1
        BY <2>2, <2>5, <3>1
      <3>2. CASE i # 1
        <4>1. i \in 2..Len(timeEventHead') /\ i - 1 \in 1..Len(timeEventHead)
          BY <1>a, <2>5, <3>2
        <4> QED
          BY <2>5, <4>1 DEF Dues
      <3> QED
        BY <3>1, <3>2
    <2> QED
      BY <1>c, <2>3, <2>6
  <1>2. ASSUME NEW id \in 0..(MaxIds - 1), aeDeleteTimeEvent(id) PROVE Goal
    BY <1>2, <1>c, <1>d DEF aeDeleteTimeEvent, clock
  <1>3. ASSUME NEW id \in 0..(MaxIds - 1), NEW d \in Delays, aeModifyTimeEvent(id, d) PROVE Goal
    <2>1. CASE id \in Ids
      BY <1>3, <1>c, <1>e, <2>1, TimersAssumption DEF aeModifyTimeEvent, clock
    <2>2. CASE id \notin Ids
      BY <1>3, <1>c, <2>2 DEF aeModifyTimeEvent, clock, Dues
    <2> QED
      BY <2>1, <2>2
  <1>4. ASSUME \/ PollAndWait \/ PollDontWait \/ Wake \/ SkipTimer \/ CallTimeProc \/ EndPass
               \/ TimeProcReturnsToFreedTimer \/ UNCHANGED vars
        PROVE  Goal
    <2>1. UNCHANGED <<timeEventHead, lastTime, now, skews>>
      BY <1>4 DEF PollAndWait, PollDontWait, Wake, SkipTimer, CallTimeProc, EndPass,
                  TimeProcReturnsToFreedTimer, vars, api, clock
    <2> QED
      BY <1>c, <2>1 DEF Dues
  <1>5. ASSUME BeginPass PROVE Goal
    <2>1. lastTime' = now.sec /\ now' = now /\ skews' = skews
      BY <1>5 DEF BeginPass, clock
    <2>2. ~ClockWentBack
      BY <1>a, <1>b, <2>1 DEF ClockWentBack
    <2>3. timeEventHead' = [i \in 1..Len(timeEventHead) |-> timeEventHead[i]]
      BY <1>5, <2>2 DEF BeginPass
    <2>4. timeEventHead' = timeEventHead
      BY <1>a, <2>3
    <2> QED
      BY <1>a, <1>b, <2>1, <2>4 DEF Dues
  <1>6. ASSUME TimeProcReturnsNoMore PROVE Goal
    <2>1. DeleteTimer(cbId) /\ timeEventNextId' = timeEventNextId /\ UNCHANGED <<lastTime, now, skews>>
      BY <1>6 DEF TimeProcReturnsNoMore, clock
    <2>2. Dues => Dues'
      BY <1>d, <2>1
    <2> QED
      BY <1>c, <2>1, <2>2
  <1>7. ASSUME NEW r \in Periods, TimeProcReturnsPeriod(r) PROVE Goal
    <2>1. RearmTimer(cbId, r) /\ r \in Nat /\ UNCHANGED <<lastTime, now, skews>>
      BY <1>7, TimersAssumption DEF TimeProcReturnsPeriod, clock
    <2>2. Dues => Dues'
      BY <1>e, <2>1
    <2> QED
      BY <1>c, <2>1, <2>2
  <1>8. ASSUME Tick PROVE Goal
    <2>1. now' = AddMilliseconds(now, 1) /\ UNCHANGED <<timeEventHead, lastTime, skews>>
      BY <1>8 DEF Tick, api
    <2>2. now \in Clocks
      BY <1>a, TimersAssumption DEF Time, Clocks
    <2>3. now'.sec >= now.sec
      BY <2>1, <2>2, AddMillisecondsAdds
    <2>4. now'.sec \in Nat
      BY StepTypeOK, TimersAssumption DEF TypeOK, Time
    <2> QED
      BY <1>a, <1>b, <2>1, <2>3, <2>4 DEF Dues
  <1>9. ASSUME NEW t \in Time, SetClock(t) PROVE Goal
    <2>1. skews' = skews + 1
      BY <1>9 DEF SetClock
    <2> QED
      BY <1>a, <2>1
  <1> HIDE DEF Goal
  <1>10. Goal
    BY <1>1, <1>2, <1>3, <1>4, <1>5, <1>6, <1>7, <1>8, <1>9 DEF Next, Pass, Undefined
  <1> QED
    BY <1>10 DEF Goal, Dues

\* While nobody sets the clock, no timeProc runs before the delay or period
\* it was armed with has elapsed, for any lengths of delays and of a second.
THEOREM TimersNeverEarly == Spec => NeverEarly
  <1>1. Init => DueInv
    <2> SUFFICES ASSUME Init PROVE DueInv
      OBVIOUS
    <2>1. lastTime = now.sec /\ now.sec = 1 /\ Len(timeEventHead) = 0
      BY DEF Init
    <2> QED
      BY <2>1 DEF DueInv
  <1>2. Spec => []DueInv
    BY <1>1, StepDue, ListInvariant, PTL DEF Spec
  <1>3. ListInv /\ DueInv /\ [Next]_vars
          => [CallTimeProc /\ skews = 0 => timeEventHead[te].due <= Millis(now)]_vars
    <2> SUFFICES ASSUME TypeOK, DueInv, CallTimeProc, skews = 0
                 PROVE  timeEventHead[te].due <= Millis(now)
      BY DEF ListInv
    <2>1. /\ timeEventHead \in Seq(Timer) /\ te \in 1..Len(timeEventHead)
          /\ Expired(timeEventHead[te], now)
      BY DEF TypeOK, CallTimeProc
    <2>2. /\ now.sec \in Nat /\ now.ms \in 0..(MsPerSec - 1)
          /\ timeEventHead[te].sec \in Nat /\ timeEventHead[te].ms \in 0..(MsPerSec - 1)
      BY <2>1, ListFields, TimersAssumption DEF TypeOK, Time
    <2>3. Millis(timeEventHead[te]) <= Millis(now)
      BY <2>1, <2>2, SoonerIsLess
    <2> QED
      BY <2>1, <2>3 DEF DueInv
  <1> QED
    BY <1>2, <1>3, ListInvariant, PTL DEF Spec, NeverEarly

\* The borrow and the two clamps of aeProcessEvents.
LEMMA SleepIsLeft ==
    ASSUME now \in Time, NEW e, e.sec \in Nat, e.ms \in 0..(MsPerSec - 1)
    PROVE  /\ Millis(e) >= Millis(now) => SleepFor(e) = Millis(e) - Millis(now)
           /\ Millis(e) < Millis(now) => SleepFor(e) < MsPerSec
  <1>0. MsPerSec \in Nat /\ MsPerSec > 0
    BY TimersAssumption
  <1>1. PICK a \in Nat, b \in Nat, m \in Nat, n \in Nat :
            /\ a = e.sec /\ m = e.ms /\ b = now.sec /\ n = now.ms
            /\ m < MsPerSec /\ n < MsPerSec
    BY <1>0, TimersAssumption DEF Time
  <1>2. PICK x \in Nat, y \in Nat : x = a * MsPerSec /\ y = b * MsPerSec
    BY WholeSeconds
  <1>3. Millis(e) = x + m /\ Millis(now) = y + n
    BY <1>1, <1>2 DEF Millis
  <1>4. (a < b => x + MsPerSec <= y) /\ (b < a => y + MsPerSec <= x) /\ (a = b => x = y)
    BY <1>2, WholeSeconds
  <1>5. CASE m < n
    <2>1. SleepFor(e) = (IF (a - b) - 1 < 0 THEN 0 ELSE (a - b) - 1) * MsPerSec + ((m + MsPerSec) - n)
      <3>1. e.ms < now.ms /\ e.sec - now.sec - 1 = (a - b) - 1 /\ e.ms + MsPerSec - now.ms = (m + MsPerSec) - n
        BY <1>0, <1>1, <1>5
      <3> QED
        BY <3>1 DEF SleepFor
    <2>2. CASE a > b
      <3>1. (a - b) - 1 \in Nat /\ b + ((a - b) - 1) + 1 = a
        BY <2>2
      <3>2. PICK c \in Nat : c = (a - b) - 1 /\ (b + c) + 1 = a
        BY <3>1
      <3>3. x = (y + c * MsPerSec) + MsPerSec /\ c * MsPerSec \in Nat
        BY <1>0, <1>2, <3>2
      <3>4. SleepFor(e) = c * MsPerSec + ((m + MsPerSec) - n)
        BY <2>1, <3>2
      <3>5. PICK z \in Nat : z = c * MsPerSec
        BY <3>3
      <3> QED
        BY <1>0, <1>1, <1>3, <3>3, <3>4, <3>5
    <2>3. CASE a <= b
      <3>1. SleepFor(e) = 0 * MsPerSec + ((m + MsPerSec) - n)
        BY <2>1, <2>3
      <3>2. x + m < y + n
        BY <1>0, <1>4, <1>5, <2>3
      <3> QED
        BY <1>0, <1>1, <1>3, <1>5, <3>1, <3>2
    <2> QED
      BY <2>2, <2>3
  <1>6. CASE ~(m < n)
    <2>1. SleepFor(e) = (IF a - b < 0 THEN 0 ELSE a - b) * MsPerSec + (m - n)
      <3>1. ~(e.ms < now.ms)
        BY <1>1, <1>6
      <3>2. SleepFor(e) = (IF e.sec - now.sec - 0 < 0 THEN 0 ELSE e.sec - now.sec - 0) * MsPerSec + (e.ms - now.ms)
        BY <3>1 DEF SleepFor
      <3>3. e.sec - now.sec - 0 = a - b /\ e.ms - now.ms = m - n
        BY <1>1
      <3> QED
        BY <3>2, <3>3
    <2>2. CASE a >= b
      <3>1. PICK c \in Nat : c = a - b /\ b + c = a
        BY <2>2
      <3>2. x = y + c * MsPerSec /\ c * MsPerSec \in Nat
        BY <1>0, <1>2, <3>1
      <3>3. SleepFor(e) = c * MsPerSec + (m - n)
        BY <2>1, <3>1
      <3>4. PICK z \in Nat : z = c * MsPerSec
        BY <3>2
      <3>5. Millis(e) = (y + z) + m /\ Millis(now) = y + n /\ SleepFor(e) = z + (m - n)
        BY <1>3, <3>2, <3>3, <3>4
      <3>6. ~(Millis(e) < Millis(now))
        BY <1>6, <3>5
      <3>7. SleepFor(e) = Millis(e) - Millis(now)
        BY <3>5
      <3> QED
        BY <3>6, <3>7
    <2>3. CASE a < b
      <3>1. SleepFor(e) = 0 * MsPerSec + (m - n)
        BY <2>1, <2>3
      <3>2. x + m < y + n
        BY <1>0, <1>1, <1>4, <2>3
      <3> QED
        BY <1>0, <1>1, <1>3, <3>1, <3>2
    <2> QED
      BY <2>2, <2>3
  <1> QED
    BY <1>5, <1>6

\* For any timers and any length of a second: the loop sleeps exactly until
\* the nearest timer while none has expired, and less than a second
\* otherwise (ae.c:325-340).
THEOREM TimersSleepBounded == Spec => SleepBounded
  <1> DEFINE Left == {Millis(timeEventHead[i]) - Millis(now) : i \in 1..Len(timeEventHead)}
  <1>1. ASSUME TypeOK, PollAndWait, timeEventHead # <<>>
        PROVE  IF \A l \in Left : l >= 0
               THEN timeout' \in Left /\ \A l \in Left : timeout' <= l
               ELSE timeout' < MsPerSec
    <2>1. timeEventHead \in Seq(Timer) /\ now \in Time
      BY <1>1 DEF TypeOK
    <2>2. PICK k \in 1..Len(timeEventHead) :
              /\ k = Nearest
              /\ \A j \in 1..Len(timeEventHead) : ~Sooner(timeEventHead[j], timeEventHead[k])
      BY <1>1, <2>1, NearestType
    <2>3. timeout' = SleepFor(timeEventHead[k])
      BY <1>1, <2>2 DEF PollAndWait
    <2>4. \A j \in 1..Len(timeEventHead) :
              timeEventHead[j].sec \in Nat /\ timeEventHead[j].ms \in 0..(MsPerSec - 1)
      BY <2>1, ListFields
    <2>5. now.sec \in Nat /\ now.ms \in 0..(MsPerSec - 1)
      BY <2>1, TimersAssumption DEF Time
    <2>6. Millis(now) \in Nat /\ Millis(timeEventHead[k]) \in Nat
      BY <2>4, <2>5, SoonerIsLess
    <2>7. \A j \in 1..Len(timeEventHead) :
              Millis(timeEventHead[j]) \in Nat /\ Millis(timeEventHead[k]) <= Millis(timeEventHead[j])
      <3> SUFFICES ASSUME NEW j \in 1..Len(timeEventHead)
                   PROVE  Millis(timeEventHead[j]) \in Nat /\ Millis(timeEventHead[k]) <= Millis(timeEventHead[j])
        OBVIOUS
      <3>1. /\ Millis(timeEventHead[j]) \in Nat
            /\ Sooner(timeEventHead[j], timeEventHead[k])
                  <=> Millis(timeEventHead[j]) < Millis(timeEventHead[k])
        BY <2>4, SoonerIsLess
      <3> QED
        BY <2>2, <2>6, <3>1
    <2>8. PICK left \in Int : left = Millis(timeEventHead[k]) - Millis(now)
      BY <2>6
    <2>9. left \in Left /\ \A l \in Left : left <= l /\ l \in Int
      BY <2>6, <2>7, <2>8
    <2>10. (left >= 0 => timeout' = left) /\ (left < 0 => timeout' < MsPerSec)
      <3>1. /\ Millis(timeEventHead[k]) >= Millis(now) => timeout' = left
            /\ Millis(timeEventHead[k]) < Millis(now) => timeout' < MsPerSec
        BY <2>1, <2>3, <2>4, <2>8, SleepIsLeft
      <3> QED
        BY <2>6, <2>8, <3>1
    <2> HIDE DEF Left
    <2> QED
      BY <2>9, <2>10
  <1>2. TypeOK /\ [Next]_vars =>
          [PollAndWait /\ timeEventHead # <<>> =>
              LET left == {Millis(timeEventHead[i]) - Millis(now) : i \in 1..Len(timeEventHead)}
              IN  IF \A l \in left : l >= 0
                  THEN timeout' \in left /\ \A l \in left : timeout' <= l
                  ELSE timeout' < MsPerSec]_vars
    BY <1>1
  <1> QED
    BY <1>2, TimersTypeCorrect, PTL DEF Spec, SleepBounded
=============================================================================
