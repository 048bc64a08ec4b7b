------------------------------ MODULE AeTimers ------------------------------
(***************************************************************************)
(* The time events of the ae event loop (tflib/ae/ae.c): the linked list   *)
(* of timers, the three calls an application makes on it, the sleep that   *)
(* aeProcessEvents computes from it, and the pass of processTimeEvents     *)
(* with the callbacks it runs.  Callbacks, file handlers and the           *)
(* beforesleep hook are the application: they may call the timer API.      *)
(*                                                                         *)
(* The wall clock is part of the environment.  It advances by itself and,  *)
(* at most MaxSkews times, it is set to another value.                     *)
(***************************************************************************)
EXTENDS Integers, Sequences

CONSTANTS
    MsPerSec,   \* milliseconds in a second (1000 in the code)
    MaxSec,     \* bound: the clock stays below this second
    MaxIds,     \* bound: timers ever created
    MaxSkews,   \* bound: how often the clock is set
    Delays,     \* the delays, in milliseconds, that the application asks for
    Periods     \* what a timeProc may return other than AE_NOMORE

ASSUME TimersAssumption ==
    /\ MsPerSec \in Nat \ {0}
    /\ MaxSec \in Nat \ {0} /\ MaxIds \in Nat /\ MaxSkews \in Nat
    /\ Delays \subseteq Nat
    /\ Periods \subseteq Nat

AE_NOMORE == -1
Forever   == -1     \* tvp = NULL: epoll_wait with timeout -1

VARIABLES
    timeEventHead,    \* the list, head first; "due" is auxiliary
    timeEventNextId,
    lastTime,
    now,              \* the wall clock
    skews,            \* how often the clock was set
    pc,               \* where aeMain is
    timeout,          \* the timeout handed to aeApiPoll, in milliseconds
    maxId, te,        \* locals of processTimeEvents; te is a position of the list
    cbId,             \* the timer whose timeProc is running
    finalized,        \* auxiliary: timers whose finalizerProc has run
    cohort,           \* auxiliary: the timers that existed when the pass began
    owed,             \* auxiliary: timers a detected clock skew makes fire in this pass
    scanMin           \* auxiliary: lowest clock value since the scan last left the head

api    == <<timeEventHead, timeEventNextId, finalized, owed>>
clock  == <<now, skews>>
vars   == <<timeEventHead, timeEventNextId, lastTime, now, skews, pc, timeout,
            maxId, te, cbId, finalized, cohort, owed, scanMin>>
-----------------------------------------------------------------------------
(* Time arithmetic.                                                        *)

Time == [sec : 0..MaxSec, ms : 0..(MsPerSec - 1)]

Millis(t) == t.sec * MsPerSec + t.ms

\* aeAddMillisecondsToNow: split the delay, add, carry once.
AddMilliseconds(t, d) ==
    LET sec == t.sec + (d \div MsPerSec)
        ms  == t.ms + (d % MsPerSec)
    IN  IF ms >= MsPerSec THEN [sec |-> sec + 1, ms |-> ms - MsPerSec]
                          ELSE [sec |-> sec, ms |-> ms]

\* Mutant of Expired: only the seconds are compared.
ExpiredBySecond(e, t) == t.sec >= e.sec

\* The comparison in processTimeEvents: has timer e expired at time t?
Expired(e, t) == t.sec > e.sec \/ (t.sec = e.sec /\ t.ms >= e.ms)

Sooner(e, f) == e.sec < f.sec \/ (e.sec = f.sec /\ e.ms < f.ms)

\* Earlier than any time of day, and the value of scanMin while no scan runs.
Epoch == [sec |-> 0, ms |-> 0]

Earlier(t, u) == IF Sooner(t, u) THEN t ELSE u
-----------------------------------------------------------------------------
(* The list.                                                               *)

Ids == {timeEventHead[i].id : i \in 1..Len(timeEventHead)}

Unlink(s, k) == [j \in 1..(Len(s) - 1) |-> IF j < k THEN s[j] ELSE s[j + 1]]

\* A timer armed at the present time to fire d milliseconds later.
Armed(id, d) ==
    LET when == AddMilliseconds(now, d)
    IN  [id |-> id, sec |-> when.sec, ms |-> when.ms, due |-> Millis(now) + d]

\* aeSearchNearestTimer keeps the first of the soonest timers.
Nearest ==
    CHOOSE k \in 1..Len(timeEventHead) :
        /\ \A j \in 1..Len(timeEventHead) : ~Sooner(timeEventHead[j], timeEventHead[k])
        /\ \A j \in 1..(k - 1) : Sooner(timeEventHead[k], timeEventHead[j])

\* Mutant of SleepFor: the borrowed second is not taken off.
SleepForNoBorrow(e) ==
    LET sec == e.sec - now.sec
        ms  == IF e.ms < now.ms THEN e.ms + MsPerSec - now.ms ELSE e.ms - now.ms
    IN  (IF sec < 0 THEN 0 ELSE sec) * MsPerSec + ms

\* aeProcessEvents: seconds and milliseconds are clamped separately.
SleepFor(e) ==
    LET borrow == e.ms < now.ms
        sec == e.sec - now.sec - (IF borrow THEN 1 ELSE 0)
        ms  == IF borrow THEN e.ms + MsPerSec - now.ms ELSE e.ms - now.ms
    IN  (IF sec < 0 THEN 0 ELSE sec) * MsPerSec + ms
-----------------------------------------------------------------------------
Init ==
    /\ now \in [sec : {1}, ms : 0..(MsPerSec - 1)]
    /\ skews = 0
    /\ timeEventHead = <<>>
    /\ timeEventNextId = 0
    /\ lastTime = now.sec
    /\ pc = "main"
    /\ timeout = Forever
    /\ maxId = -1
    /\ te = 1
    /\ cbId = -1
    /\ finalized = {}
    /\ cohort = {}
    /\ owed = {}
    /\ scanMin = Epoch
-----------------------------------------------------------------------------
(* The application's calls.  They are made before aeMain or by the         *)
(* beforesleep hook ("main"), by file handlers ("files") and by a running  *)
(* timeProc ("callback"); everything is one thread.                        *)

InApplication == pc \in {"main", "files", "callback"}

aeCreateTimeEvent(d) ==
    /\ InApplication
    /\ timeEventNextId < MaxIds
    /\ timeEventHead' = <<Armed(timeEventNextId, d)>> \o timeEventHead
    /\ timeEventNextId' = timeEventNextId + 1
    /\ UNCHANGED <<lastTime, clock, pc, timeout, maxId, te, cbId, finalized,
                   cohort, owed, scanMin>>

\* Mutant of DeleteTimer: the timer is unlinked as if it were the head.
DeleteTimerAsHead(id) ==
    IF id \in Ids
    THEN /\ \E k \in 1..Len(timeEventHead) :
               /\ timeEventHead[k].id = id
               /\ timeEventHead' = SubSeq(timeEventHead, k + 1, Len(timeEventHead))
         /\ finalized' = finalized \cup {id}
         /\ owed' = owed \ {id}
    ELSE UNCHANGED <<timeEventHead, finalized, owed>>

\* Unlink the timer and run its finalizerProc.  An id that is not in the
\* list leaves everything as it is (AE_ERR).
DeleteTimer(id) ==
    IF id \in Ids
    THEN /\ \E k \in 1..Len(timeEventHead) :
               /\ timeEventHead[k].id = id
               /\ timeEventHead' = Unlink(timeEventHead, k)
         /\ finalized' = finalized \cup {id}
         /\ owed' = owed \ {id}
    ELSE UNCHANGED <<timeEventHead, finalized, owed>>

aeDeleteTimeEvent(id) ==
    /\ InApplication
    /\ DeleteTimer(id)
    /\ UNCHANGED <<timeEventNextId, lastTime, clock, pc, timeout, maxId, te, cbId,
                   cohort, scanMin>>

RearmTimer(id, d) ==
    \E k \in 1..Len(timeEventHead) :
        /\ timeEventHead[k].id = id
        /\ timeEventHead' = [timeEventHead EXCEPT ![k] = Armed(id, d)]

aeModifyTimeEvent(id, d) ==
    /\ InApplication
    /\ \/ id \in Ids /\ RearmTimer(id, d) /\ owed' = owed \ {id}
       \/ id \notin Ids /\ UNCHANGED <<timeEventHead, owed>>
    /\ UNCHANGED <<timeEventNextId, lastTime, clock, pc, timeout, maxId, te, cbId,
                   finalized, cohort, scanMin>>
-----------------------------------------------------------------------------
(* aeProcessEvents.                                                        *)

\* The call that sleeps until the nearest timer (aeMain's flags).  Without a
\* timer there is nothing to wait for but a file event.
PollAndWait ==
    /\ pc = "main"
    /\ pc' = "sleep"
    /\ timeout' = IF timeEventHead = <<>> THEN Forever
                  ELSE SleepFor(timeEventHead[Nearest])
    /\ UNCHANGED <<api, lastTime, clock, maxId, te, cbId, cohort, scanMin>>

\* The same with AE_DONT_WAIT: a poll with timeout 0.
PollDontWait ==
    /\ pc = "main"
    /\ pc' = "sleep"
    /\ timeout' = 0
    /\ UNCHANGED <<api, lastTime, clock, maxId, te, cbId, cohort, scanMin>>

\* aeApiPoll returns: a file event, a signal or the timeout.
Wake ==
    /\ pc = "sleep"
    /\ pc' = "files"
    /\ timeout' = Forever
    /\ UNCHANGED <<api, lastTime, clock, maxId, te, cbId, cohort, scanMin>>
-----------------------------------------------------------------------------
(* processTimeEvents.                                                      *)

ClockWentBack == now.sec < lastTime

\* Mutant of BeginPass: only the first timer is made to fire after a skew.
BeginPassResetsHead ==
    /\ pc = "files"
    /\ pc' = "scan"
    /\ timeEventHead' = [i \in 1..Len(timeEventHead) |->
                            IF ClockWentBack /\ i = 1
                            THEN [timeEventHead[i] EXCEPT !.sec = 0]
                            ELSE timeEventHead[i]]
    /\ lastTime' = now.sec
    /\ te' = 1
    /\ maxId' = timeEventNextId - 1
    /\ cohort' = Ids
    /\ owed' = IF ClockWentBack THEN Ids ELSE {}
    /\ scanMin' = now
    /\ UNCHANGED <<timeEventNextId, clock, timeout, cbId, finalized>>

BeginPass ==
    /\ pc = "files"
    /\ pc' = "scan"
    /\ timeEventHead' = [i \in 1..Len(timeEventHead) |->
                            IF ClockWentBack THEN [timeEventHead[i] EXCEPT !.sec = 0]
                                             ELSE timeEventHead[i]]
    /\ lastTime' = now.sec
    /\ te' = 1
    /\ maxId' = timeEventNextId - 1
    /\ cohort' = Ids
    /\ owed' = IF ClockWentBack THEN Ids ELSE {}
    /\ scanMin' = now
    /\ UNCHANGED <<timeEventNextId, clock, timeout, cbId, finalized>>

\* Mutant of SkipTimer: te advances twice.
SkipTwoTimers ==
    /\ pc = "scan"
    /\ te <= Len(timeEventHead)
    /\ \/ timeEventHead[te].id > maxId
       \/ ~Expired(timeEventHead[te], now)
    /\ te' = te + 2
    /\ UNCHANGED <<api, lastTime, clock, pc, timeout, maxId, cbId, cohort, scanMin>>

\* A timer that a callback of this pass created, or that has not expired.
SkipTimer ==
    /\ pc = "scan"
    /\ te <= Len(timeEventHead)
    /\ \/ timeEventHead[te].id > maxId
       \/ ~Expired(timeEventHead[te], now)
    /\ te' = te + 1
    /\ UNCHANGED <<api, lastTime, clock, pc, timeout, maxId, cbId, cohort, scanMin>>

\* Mutant of CallTimeProc: no comparison with maxId.
CallAnyTimeProc ==
    /\ pc = "scan"
    /\ te <= Len(timeEventHead)
    /\ Expired(timeEventHead[te], now)
    /\ pc' = "callback"
    /\ cbId' = timeEventHead[te].id
    /\ owed' = owed \ {timeEventHead[te].id}
    /\ scanMin' = Epoch
    /\ UNCHANGED <<timeEventHead, timeEventNextId, finalized, lastTime, clock,
                   timeout, maxId, te, cohort>>

CallTimeProc ==
    /\ pc = "scan"
    /\ te <= Len(timeEventHead)
    /\ timeEventHead[te].id <= maxId
    /\ Expired(timeEventHead[te], now)
    /\ pc' = "callback"
    /\ cbId' = timeEventHead[te].id
    /\ owed' = owed \ {timeEventHead[te].id}
    /\ scanMin' = Epoch
    /\ UNCHANGED <<timeEventHead, timeEventNextId, finalized, lastTime, clock,
                   timeout, maxId, te, cohort>>

RestartFromHead ==
    /\ pc' = "scan"
    /\ te' = 1
    /\ cbId' = -1
    /\ scanMin' = now

TimeProcReturnsNoMore ==
    /\ pc = "callback"
    /\ DeleteTimer(cbId)
    /\ RestartFromHead
    /\ UNCHANGED <<timeEventNextId, lastTime, clock, timeout, maxId, cohort>>

TimeProcReturnsPeriod(retval) ==
    /\ pc = "callback"
    /\ cbId \in Ids
    /\ RearmTimer(cbId, retval)
    /\ RestartFromHead
    /\ UNCHANGED <<timeEventNextId, lastTime, clock, timeout, maxId, cohort,
                   finalized, owed>>

\* The timeProc deleted its own timer and returns a period: te points to
\* freed memory and te->when_sec is written.  Nothing is known of the
\* process after that.
TimeProcReturnsToFreedTimer ==
    /\ pc = "callback"
    /\ cbId \notin Ids
    /\ pc' = "undefined"
    /\ UNCHANGED <<api, lastTime, clock, timeout, maxId, te, cbId, cohort, scanMin>>

Undefined == pc = "undefined" /\ UNCHANGED vars

EndPass ==
    /\ pc = "scan"
    /\ te > Len(timeEventHead)
    /\ pc' = "main"
    /\ maxId' = -1
    /\ te' = 1
    /\ cohort' = {}
    /\ scanMin' = Epoch
    /\ UNCHANGED <<api, lastTime, clock, timeout, cbId>>
-----------------------------------------------------------------------------
(* The environment: the clock.                                             *)

Tick ==
    /\ pc # "undefined"
    /\ AddMilliseconds(now, 1).sec <= MaxSec
    /\ now' = AddMilliseconds(now, 1)
    /\ UNCHANGED <<skews, api, lastTime, pc, timeout, maxId, te, cbId, cohort, scanMin>>

SetClock(t) ==
    /\ pc # "undefined"
    /\ skews < MaxSkews
    /\ t.sec > 0
    /\ now' = t
    /\ skews' = skews + 1
    /\ scanMin' = Earlier(t, scanMin)
    /\ UNCHANGED <<api, lastTime, pc, timeout, maxId, te, cbId, cohort>>
-----------------------------------------------------------------------------
Pass ==
    \/ BeginPass \/ SkipTimer \/ CallTimeProc \/ EndPass
    \/ TimeProcReturnsNoMore \/ TimeProcReturnsToFreedTimer
    \/ \E r \in Periods : TimeProcReturnsPeriod(r)

Next ==
    \/ \E d \in Delays : aeCreateTimeEvent(d)
    \/ \E id \in 0..(MaxIds - 1) : aeDeleteTimeEvent(id)
    \/ \E id \in 0..(MaxIds - 1), d \in Delays : aeModifyTimeEvent(id, d)
    \/ PollAndWait \/ PollDontWait \/ Wake
    \/ Pass \/ Undefined
    \/ Tick
    \/ \E t \in Time : SetClock(t)

Spec == Init /\ [][Next]_vars

\* The loop runs on its own thread: it keeps scanning, and every timeProc
\* returns (the application's obligation).
FairSpec == Spec /\ WF_vars(Pass)
-----------------------------------------------------------------------------
(* Correctness.                                                            *)

Timer == [id : Nat, sec : Nat, ms : 0..(MsPerSec - 1), due : Nat]

TypeOK ==
    /\ timeEventHead \in Seq(Timer)
    /\ timeEventNextId \in 0..MaxIds
    /\ lastTime \in 0..MaxSec
    /\ now \in Time
    /\ skews \in 0..MaxSkews
    /\ pc \in {"main", "sleep", "files", "scan", "callback", "undefined"}
    /\ timeout \in Nat \cup {Forever}
    /\ maxId \in Int
    /\ te \in Nat \ {0}
    /\ cbId \in Int
    /\ finalized \subseteq Nat
    /\ cohort \subseteq Nat
    /\ owed \subseteq Nat
    /\ scanMin \in Time

\* Ids are handed out once and the list is always in the order in which the
\* timers were created, newest first, whatever callbacks create and delete:
\* this is what makes the search for an id, and the comparison with maxId,
\* meaningful.
IdsDescend ==
    /\ \A i, j \in 1..Len(timeEventHead) :
           i < j => timeEventHead[i].id > timeEventHead[j].id
    /\ \A i \in 1..Len(timeEventHead) : timeEventHead[i].id < timeEventNextId

\* Every timer ever created is in the list or has been finalized, never both
\* and never neither: no timer is lost by an unlink, none is finalized twice.
NoTimerLost ==
    /\ Ids \cap finalized = {}
    /\ Ids \cup finalized = 0..(timeEventNextId - 1)

\* "Still we make sure to don't process events registered by event handlers
\* itself" (ae.c:269): a pass runs only timers that existed when it began.
HandlersDoNotFeedPass == pc = "callback" => cbId \in cohort

\* While nobody sets the clock, a timeProc never runs before the delay it was
\* armed with has elapsed (the seconds/milliseconds split, carry and
\* comparison agree with plain milliseconds).
NeverEarly ==
    [][CallTimeProc /\ skews = 0 => timeEventHead[te].due <= Millis(now)]_vars

\* The part of the list behind the scan holds no timer of this pass that had
\* expired when the scan left the head.
ScannedNotDue ==
    pc = "scan" => \A i \in 1..Len(timeEventHead) :
        (i < te /\ timeEventHead[i].id <= maxId) => ~Expired(timeEventHead[i], scanMin)

\* When a pass ends, no timer that it was responsible for and that had
\* expired when the last scan started is left unfired, although every
\* callback may have reordered the list under the scan.
NoDueTimerSkipped ==
    [][EndPass => \A i \in 1..Len(timeEventHead) :
          timeEventHead[i].id <= maxId => ~Expired(timeEventHead[i], scanMin)]_vars

\* "force all the time events to be processed ASAP" (ae.c:235): in a pass
\* that notices that the clock went back, every timer of the list fires
\* unless a callback deletes or rearms it first.
SkewFiresAll == [][EndPass => owed = {}]_vars

\* While no timer has expired the loop sleeps exactly until the nearest one:
\* it neither oversleeps nor wakes up for nothing.  When one has expired it
\* sleeps for less than a second.
SleepBounded ==
    [][PollAndWait /\ timeEventHead # <<>> =>
          LET left == {Millis(timeEventHead[i]) - Millis(now) : i \in 1..Len(timeEventHead)}
          IN  IF \A l \in left : l >= 0
              THEN timeout' \in left /\ \A l \in left : timeout' <= l
              ELSE timeout' < MsPerSec]_vars

\* aeSearchNearestTimer says "how many time the select can be put in sleep
\* without to delay any event" (ae.c:199): an expired timer allows no sleep.
NoTimerDelayed ==
    [][PollAndWait =>
          \A i \in 1..Len(timeEventHead) :
             Expired(timeEventHead[i], now) => timeout' = 0]_vars

\* The pass is meant not to "loop forever" (ae.c:270), whatever periods the
\* timeProcs return.
PassTerminates == pc = "scan" ~> pc \in {"main", "undefined"}
=============================================================================
