------------------------------- MODULE TfRate -------------------------------
(***************************************************************************)
(* The rate limiter of tflib (tflib/tf_util.c) and a client that, as the   *)
(* interface intends, asks tf_rate_check before each event and counts the  *)
(* event with tf_rate_add once it was let through.  The two calls read the *)
(* clock separately.                                                       *)
(***************************************************************************)
EXTENDS Integers, FiniteSets

CONSTANTS
    Totals, Windows, Waits,     \* parameters a limiter may be created with
    Epoch,                      \* time(0) at the start, beyond any window
    MaxTime                     \* bound: the last time of the clock

ASSUME RateAssumption ==
    /\ Totals \subseteq Nat \ {0} /\ Windows \subseteq Nat \ {0} /\ Waits \subseteq Nat
    /\ Epoch \in Nat \ {0} /\ MaxTime \in Nat
    /\ \A s \in Windows : s <= Epoch

VARIABLES
    rt,         \* TF_RATE_ST, NoLimiter before rate_new
    ask,        \* the client: "new", "idle", or "add" when it was let through
    clock,      \* time(0)
    events,     \* history: the events of the last rt.seconds seconds, each <<time, number>>
    wentBad     \* history: the time of the last event that reached the total

rateVars == <<rt, ask, clock, events, wentBad>>

NoLimiter == [total |-> 0, seconds |-> 0, wait |-> 0, time |-> 0, count |-> 0, bad |-> 0]

RateInit ==
    /\ rt = NoLimiter
    /\ ask = "new"
    /\ clock = Epoch
    /\ events = {}
    /\ wentBad = 0
-----------------------------------------------------------------------------
\* time, count and bad are not initialized.
rate_new(total, seconds, wait) ==
    /\ rt = NoLimiter
    /\ \E time \in {0, clock}, count \in {0, total}, bad \in {0, clock} :
          rt' = [total |-> total, seconds |-> seconds, wait |-> wait,
                 time |-> time, count |-> count, bad |-> bad]
    /\ UNCHANGED <<ask, clock, events, wentBad>>

Reset(r) == [r EXCEPT !.time = 0, !.count = 0, !.bad = 0]

\* The client resets a new limiter, or an old one at any time.
tf_rate_reset ==
    /\ rt # NoLimiter
    /\ rt' = Reset(rt)
    /\ ask' = "idle"
    /\ events' = {}
    /\ wentBad' = 0
    /\ UNCHANGED clock

WaitOver(r) == r.bad # 0 /\ clock - r.bad >= r.wait

\* Mutant of Allowed: a limiter that is bad is good again when its window is over.
AllowedAfterWindow(r) ==
    r.time = 0 \/ r.count < r.total \/ clock - r.time >= r.seconds \/ WaitOver(r)

\* What tf_rate_check returns.
Allowed(r) == r.time = 0 \/ r.count < r.total \/ r.bad = 0 \/ WaitOver(r)

\* It resets the limiter when the wait is over.
Checked(r) ==
    IF r.time # 0 /\ r.count >= r.total /\ WaitOver(r) THEN Reset(r) ELSE r

tf_rate_check ==
    /\ ask = "idle"
    /\ rt' = Checked(rt)
    /\ ask' = IF Allowed(rt) THEN "add" ELSE "idle"
    /\ UNCHANGED <<clock, events, wentBad>>

\* Mutant of Added: the limiter goes bad one event too late.
AddedLate(r, n) ==
    LET fresh == IF clock - r.time >= r.seconds THEN Reset(r) ELSE r
    IN  [fresh EXCEPT !.count = @ + n,
                      !.time = IF @ = 0 THEN clock ELSE @,
                      !.bad = IF fresh.count + n > r.total THEN clock ELSE @]

\* n more events.  A window that is over takes the count with it.
Added(r, n) ==
    LET fresh == IF clock - r.time >= r.seconds THEN Reset(r) ELSE r
    IN  [fresh EXCEPT !.count = @ + n,
                      !.time = IF @ = 0 THEN clock ELSE @,
                      !.bad = IF fresh.count + n >= r.total THEN clock ELSE @]

tf_rate_add ==
    /\ ask = "add"
    /\ rt' = Added(rt, 1)
    /\ ask' = "idle"
    /\ events' = events \cup {<<clock, Cardinality({e \in events : e[1] = clock})>>}
    /\ wentBad' = IF rt'.bad # 0 THEN rt'.bad ELSE wentBad
    /\ UNCHANGED clock

\* External: time passes; at the bound the clock starts again with a new
\* limiter.
Second ==
    IF clock < MaxTime
    THEN /\ clock' = clock + 1
         /\ events' = {e \in events : clock + 1 - e[1] < rt.seconds}
         /\ UNCHANGED <<rt, ask, wentBad>>
    ELSE /\ clock' = Epoch
         /\ rt' = NoLimiter
         /\ ask' = "new"
         /\ events' = {}
         /\ wentBad' = 0

RateNext ==
    \/ \E total \in Totals, seconds \in Windows, wait \in Waits : rate_new(total, seconds, wait)
    \/ tf_rate_reset \/ tf_rate_check \/ tf_rate_add
    \/ Second

RateSpec == RateInit /\ [][RateNext]_rateVars
-----------------------------------------------------------------------------
(* Correctness.                                                            *)

\* "if we exceed this many events in this many seconds" (tf_util.h:144-146):
\* the windows of the limiter are fixed, so an arbitrary period of that
\* length may straddle two of them, of which only the second reaches the total.
BurstBounded ==
    rt # NoLimiter /\ rt.wait >= rt.seconds => Cardinality(events) <= 2 * rt.total - 1

\* "then go bad for this many seconds" (tf_util.h:147): once the total is
\* reached no event is let through before the wait is over, although the
\* window may end before.
PenaltyServed ==
    [][events' \ events # {} /\ wentBad # 0 => clock - wentBad >= rt.wait]_rateVars
=============================================================================
