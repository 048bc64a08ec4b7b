---------------------------- MODULE TfUtilProofs ----------------------------
(***************************************************************************)
(* Parts of tflib that share no state: the extensible strings, for any     *)
(* number of strings, any allocation unit and any width of asize; the rate *)
(* limiter, for any total, window, wait and length of time; the streaming  *)
(* of MD5, for a message of any length in pieces of any length; the memory *)
(* accounting, for any number of threads, regions and sizes; Base64,       *)
(* hexadecimal digits and BCD, for any number of bytes.                    *)
(***************************************************************************)
EXTENDS TfStr, TfRate, Md5Stream, TfMalloc, Codecs, FiniteSetTheorems, SequenceTheorems,
        WellFoundedInduction, TLAPS

-----------------------------------------------------------------------------
(* Extensible strings.                                                     *)

Xstr == [size : Nat, asize : Nat, cap : Nat]

\* The size fits with the zero behind it, and asize is no larger than the region.
Fits(s) == s.size < s.cap /\ s.asize <= s.cap

StrSound ==
    /\ xstr \in [Xstrs -> Xstr]
    /\ regions \in [Xstrs -> Nat]
    /\ ended = "no"
    /\ \A x \in Xstrs : xstr[x].cap > 0 => Fits(xstr[x])

\* The inductive invariant: nothing is claimed of a program that has gone
\* beyond what an int or a __u32 holds.
StrInv == ~beyond => StrSound

\* What a __u32 holds is not changed by taking it as one.
LEMMA WordHolds ==
    ASSUME NEW n \in Nat, n < U32
    PROVE  n % U32 = n
<1>1. U32 \in Nat /\ U32 > 0
  BY StrAssumption
<1> QED  BY <1>1

\* What an int holds is not changed by taking it as one.
LEMMA IntHolds ==
    ASSUME NEW n \in Nat, n <= INT_MAX
    PROVE  ToInt(n) = n /\ n % U32 = n
<1>1. n < U32
  BY StrAssumption
<1>2. n % U32 = n
  BY <1>1, WordHolds
<1> QED  BY <1>2 DEF ToInt

\* tf_strcat's growth yields room for nsize bytes even if doubling wraps around.
LEMMA EnlargedFits ==
    ASSUME NEW s \in Xstr, s.cap > 0, Fits(s), NEW n \in Nat
    PROVE  /\ Enlarged(s, s.size + n + 1) \in Xstr
           /\ Enlarged(s, s.size + n + 1).size = s.size
           /\ Enlarged(s, s.size + n + 1).cap >= s.size + n + 1
           /\ Enlarged(s, s.size + n + 1).asize <= Enlarged(s, s.size + n + 1).cap
<1> DEFINE nsize == s.size + n + 1
           twice == (2 * s.asize) % U32
           asize == IF twice < nsize THEN nsize ELSE twice
<1>1. s.size \in Nat /\ s.asize \in Nat /\ s.cap \in Nat /\ nsize \in Nat
  BY DEF Xstr
<1>2. U32 \in Nat /\ U32 > 0
  BY StrAssumption
<1>3. twice \in Nat
  <2> DEFINE d == 2 * s.asize
  <2>1. d \in Nat  BY <1>1
  <2> HIDE DEF d
  <2>2. d % U32 \in Nat  BY <2>1, <1>2
  <2> QED  BY <2>2 DEF d
<1> HIDE DEF twice
<1>4. asize \in Nat /\ asize >= nsize
  BY <1>1, <1>3
<1>5. Enlarged(s, nsize) = IF s.asize >= nsize THEN s
                           ELSE [size |-> s.size, asize |-> asize, cap |-> asize]
  BY DEF Enlarged, twice
<1> HIDE DEF asize, nsize
<1>6. CASE s.asize >= nsize
  <2>1. Enlarged(s, nsize) = s  BY <1>5, <1>6
  <2>2. s.cap >= nsize  BY <1>1, <1>6 DEF Fits
  <2> QED  BY <2>1, <2>2 DEF Fits, nsize
<1>7. CASE ~(s.asize >= nsize)
  <2>1. Enlarged(s, nsize) = [size |-> s.size, asize |-> asize, cap |-> asize]
    BY <1>5, <1>7
  <2> QED  BY <2>1, <1>1, <1>4 DEF nsize, Xstr
<1> QED  BY <1>6, <1>7

\* Replacing one string by one that fits, or by none, keeps the strings sound.
LEMMA ReplaceOne ==
    ASSUME StrSound, NEW x \in Xstrs, NEW s \in Xstr, s.cap > 0 => Fits(s),
           xstr' = [xstr EXCEPT ![x] = s], regions' \in [Xstrs -> Nat], ended' = ended
    PROVE  StrSound'
<1>1. xstr' \in [Xstrs -> Xstr] /\ ended' = "no"
  BY DEF StrSound
<1>2. ASSUME NEW y \in Xstrs, xstr'[y].cap > 0 PROVE Fits(xstr'[y])
  <2>1. CASE y = x
    <3>1. xstr'[y] = s  BY <2>1 DEF StrSound
    <3> QED  BY <3>1, <1>2
  <2>2. CASE y # x
    <3>1. xstr'[y] = xstr[y]  BY <2>2 DEF StrSound
    <3> QED  BY <3>1, <1>2 DEF StrSound
  <2> QED  BY <2>1, <2>2
<1> QED  BY <1>1, <1>2 DEF StrSound, Fits

\* A write that ends within the region of the string does no harm.
LEMMA WriteWithin ==
    ASSUME StrSound, NEW x \in Xstrs, NEW s \in Xstr, Fits(s), NEW at \in Nat, NEW n \in Nat,
           at + n <= s.cap, Fill(x, s, at, n)
    PROVE  StrSound'
<1>1. xstr' = [xstr EXCEPT ![x] = s] /\ regions' = regions
  BY DEF Fill
<1>2. n >= 0
  OBVIOUS
<1>3. ended' = ended
  BY <1>2 DEF Fill
<1>4. regions' \in [Xstrs -> Nat]
  BY <1>1 DEF StrSound
<1> QED  BY <1>1, <1>3, <1>4, ReplaceOne

LEMMA NewFits ==
    ASSUME NEW n \in Nat, NEW size \in Nat, size < AtLeastUnit(n)
    PROVE  /\ [size |-> size, asize |-> AtLeastUnit(n), cap |-> AtLeastUnit(n)] \in Xstr
           /\ Fits([size |-> size, asize |-> AtLeastUnit(n), cap |-> AtLeastUnit(n)])
<1>1. AtLeastUnit(n) \in Nat
  BY StrAssumption DEF AtLeastUnit
<1> QED  BY <1>1 DEF Xstr, Fits

LEMMA NoXstrOK == NoXstr \in Xstr /\ NoXstr.cap = 0
  BY DEF NoXstr, Xstr

LEMMA NewStep ==
    ASSUME StrSound, NEW x \in Xstrs, NEW n \in Nat, New(x, 0, AtLeastUnit(n))
    PROVE  StrSound'
<1> DEFINE s == [size |-> 0, asize |-> AtLeastUnit(n), cap |-> AtLeastUnit(n)]
<1>1. 0 < AtLeastUnit(n)
  BY StrAssumption DEF AtLeastUnit
<1>2. s \in Xstr /\ Fits(s)
  BY <1>1, NewFits
<1>3. xstr' = [xstr EXCEPT ![x] = s] /\ regions' = regions /\ ended' = ended
  BY DEF New
<1>4. regions' \in [Xstrs -> Nat]
  BY <1>3 DEF StrSound
<1> HIDE DEF s
<1> QED  BY <1>2, <1>3, <1>4, ReplaceOne

\* A region for n bytes and a zero, and the zero written behind the bytes.
LEMMA WriteNew ==
    ASSUME StrSound, NEW x \in Xstrs, NEW n \in Nat,
           Fill(x, [size |-> n, asize |-> AtLeastUnit(n + 1), cap |-> AtLeastUnit(n + 1)], 0, n + 1)
    PROVE  StrSound'
<1> DEFINE s == [size |-> n, asize |-> AtLeastUnit(n + 1), cap |-> AtLeastUnit(n + 1)]
<1>1. n + 1 \in Nat /\ n < AtLeastUnit(n + 1) /\ 0 + (n + 1) <= AtLeastUnit(n + 1)
  BY StrAssumption DEF AtLeastUnit
<1>2. s \in Xstr /\ Fits(s) /\ s.cap = AtLeastUnit(n + 1)
  BY <1>1, NewFits
<1>3. Fill(x, s, 0, n + 1)
  OBVIOUS
<1> HIDE DEF s
<1> QED  BY <1>1, <1>2, <1>3, WriteWithin

LEMMA New2Step ==
    ASSUME StrSound, NEW x \in Xstrs, NEW n \in Nat, n < INT_MAX, tf_strnew2(x, n)
    PROVE  StrSound'
<1>1. n <= INT_MAX /\ n + 1 \in Nat /\ n + 1 <= INT_MAX
  BY StrAssumption
<1>2. ToInt(n) = n /\ n % U32 = n /\ ToInt(n + 1) = n + 1
  BY <1>1, IntHolds
<1>3. Fill(x, [size |-> n, asize |-> AtLeastUnit(n + 1), cap |-> AtLeastUnit(n + 1)], 0, n + 1)
  BY <1>2 DEF tf_strnew2
<1> QED  BY <1>3, WriteNew

LEMMA DupStep ==
    ASSUME StrSound, NEW x \in Xstrs, NEW y \in Xstrs, tf_strdup(x, y), ~beyond'
    PROVE  StrSound'
<1> DEFINE n == xstr[x].size
<1>1. n \in Nat
  BY DEF StrSound, Xstr
<1> HIDE DEF n
<1>2. /\ Fill(y, [size |-> n, asize |-> AtLeastUnit((n + 1) % U32),
                   cap |-> AtLeastUnit((n + 1) % U32)], 0, (n + 1) % U32)
      /\ ~(n + 1 >= U32)
  BY DEF tf_strdup, n
<1>3. n + 1 < U32 /\ n + 1 \in Nat
  BY <1>1, <1>2, StrAssumption
<1>4. (n + 1) % U32 = n + 1
  BY <1>3, WordHolds
<1>5. Fill(y, [size |-> n, asize |-> AtLeastUnit(n + 1), cap |-> AtLeastUnit(n + 1)], 0, n + 1)
  BY <1>2, <1>4
<1> QED  BY <1>1, <1>5, WriteNew

\* Both ways of appending, as long as the sum is within a __u32.
LEMMA ExtendStep ==
    ASSUME StrSound, NEW x \in Xstrs, Exists(x), NEW n \in Nat, ~(xstr[x].size + n + 1 >= U32),
           Fill(x, Extended(xstr[x], n), xstr[x].size, n + 1)
    PROVE  StrSound'
<1> DEFINE s == xstr[x]
           e == Enlarged(s, s.size + n + 1)
           r == [size |-> s.size + n, asize |-> e.asize, cap |-> e.cap]
<1>1. s \in Xstr /\ s.cap > 0 /\ Fits(s)
  BY DEF StrSound, Exists
<1>2. e \in Xstr /\ e.size = s.size /\ e.cap >= s.size + n + 1 /\ e.asize <= e.cap
  BY <1>1, EnlargedFits
<1>3. s.size \in Nat
  BY <1>1 DEF Xstr
<1>4. (s.size + n + 1) % U32 = s.size + n + 1 /\ (s.size + n) % U32 = s.size + n
  <2>1. PICK k \in Nat : k = s.size + n
    BY <1>3
  <2>2. k < U32 /\ k + 1 < U32 /\ k + 1 \in Nat /\ s.size + n + 1 = k + 1
    BY <1>3, <2>1, StrAssumption
  <2>3. k % U32 = k /\ (k + 1) % U32 = k + 1
    BY <2>2, WordHolds
  <2> QED  BY <2>1, <2>2, <2>3
<1> HIDE DEF s
<1>5. Extended(s, n) = r
  BY <1>4 DEF Extended
<1> HIDE DEF e
<1>6. e.asize \in Nat /\ e.cap \in Nat
  BY <1>2 DEF Xstr
<1>7. r \in Xstr /\ Fits(r) /\ s.size + (n + 1) <= r.cap
  BY <1>2, <1>3, <1>6 DEF Xstr, Fits
<1>8. Fill(x, r, s.size, n + 1)
  BY <1>5 DEF s
<1>9. n + 1 \in Nat
  OBVIOUS
<1> HIDE DEF r
<1> QED  BY <1>3, <1>7, <1>8, <1>9, WriteWithin

LEMMA CatStep ==
    ASSUME StrSound, NEW x \in Xstrs, NEW n \in Nat, tf_strcat(x, n), ~beyond'
    PROVE  StrSound'
<1>1. /\ Exists(x) /\ ~(xstr[x].size + n + 1 >= U32)
      /\ Fill(x, Extended(xstr[x], n), xstr[x].size, n + 1)
  BY DEF tf_strcat
<1> QED  BY <1>1, ExtendStep

LEMMA Cat2Step ==
    ASSUME StrSound, NEW x \in Xstrs, NEW n \in Nat, tf_strcat2(x, n), ~beyond'
    PROVE  StrSound'
<1>1. /\ Exists(x) /\ ~(xstr[x].size + n + 1 >= U32) /\ ~(n >= INT_MAX)
      /\ Fill(x, Extended(xstr[x], n), xstr[x].size, ToInt(ToInt(n) + 1))
  BY DEF tf_strcat2
<1>2. n <= INT_MAX /\ n + 1 \in Nat /\ n + 1 <= INT_MAX
  BY <1>1, StrAssumption
<1>3. ToInt(n) = n /\ ToInt(n + 1) = n + 1
  BY <1>2, IntHolds
<1>4. Fill(x, Extended(xstr[x], n), xstr[x].size, n + 1)
  BY <1>1, <1>3
<1> QED  BY <1>1, <1>4, ExtendStep

LEMMA StrInitOK == StrInit => StrInv
  BY NoXstrOK DEF StrInit, StrInv, StrSound

LEMMA LengthsAreNat == (\A n \in Lengths : n \in Nat) /\ (\A n \in Ints : n \in Nat)
  BY StrAssumption DEF Lengths, Ints

\* A program that went too far is not brought back by any call.
LEMMA BeyondStays == [StrNext]_strVars /\ ~beyond' => ~beyond
<1> USE DEF strVars
<1>1. StrNext /\ ~beyond' => ~beyond
  BY DEF StrNext, StrEnded, tf_strnew, tf_strnew2, tf_strnew3, New, tf_strdup, tf_strdel, tf_strcat,
         tf_strcat2, tf_vstrprintf, tf_strclear, tf_strtomalloc, tf_strfrommalloc
<1>2. UNCHANGED strVars /\ ~beyond' => ~beyond
  OBVIOUS
<1> QED  BY <1>1, <1>2

LEMMA StrStep == StrInv /\ [StrNext]_strVars => StrInv'
<1> SUFFICES ASSUME StrInv, [StrNext]_strVars, ~beyond' PROVE StrSound'
  BY DEF StrInv
<1>0. StrSound
  BY BeyondStays DEF StrInv
<1>1. CASE UNCHANGED strVars
  BY <1>0, <1>1 DEF StrSound, strVars, Fits
<1>2. CASE \E x \in Xstrs :
           \/ tf_strnew(x) \/ tf_strdel(x) \/ tf_strclear(x)
           \/ tf_vstrprintf(x) \/ tf_strtomalloc(x)
           \/ \E n \in Lengths : tf_strnew2(x, n) \/ tf_strcat2(x, n)
           \/ \E n \in Ints : tf_strnew3(x, n) \/ tf_strcat(x, n) \/ tf_strfrommalloc(x, n)
           \/ \E y \in Xstrs : tf_strdup(x, y)
  <2>1. PICK x \in Xstrs :
           \/ tf_strnew(x) \/ tf_strdel(x) \/ tf_strclear(x)
           \/ tf_vstrprintf(x) \/ tf_strtomalloc(x)
           \/ \E n \in Lengths : tf_strnew2(x, n) \/ tf_strcat2(x, n)
           \/ \E n \in Ints : tf_strnew3(x, n) \/ tf_strcat(x, n) \/ tf_strfrommalloc(x, n)
           \/ \E y \in Xstrs : tf_strdup(x, y)
    BY <1>2
  <2> DEFINE s == xstr[x]
  <2>s. s \in Xstr /\ (s.cap > 0 => Fits(s))
    BY <1>0 DEF StrSound
  <2>2. CASE tf_strnew(x)
    <3>1. TF_STR_UNIT \in Nat /\ AtLeastUnit(TF_STR_UNIT) = TF_STR_UNIT
      BY StrAssumption DEF AtLeastUnit
    <3>2. New(x, 0, AtLeastUnit(TF_STR_UNIT))
      BY <2>2, <3>1 DEF tf_strnew
    <3> QED  BY <1>0, <3>1, <3>2, NewStep
  <2>3. CASE tf_strdel(x)
    <3>1. xstr' = [xstr EXCEPT ![x] = NoXstr] /\ regions' \in [Xstrs -> Nat] /\ ended' = ended
      BY <1>0, <2>3 DEF tf_strdel, StrSound
    <3>2. NoXstr.cap > 0 => Fits(NoXstr)
      BY NoXstrOK
    <3> QED  BY <1>0, <3>1, <3>2, NoXstrOK, ReplaceOne
  <2>4. CASE tf_strclear(x)
    <3> DEFINE new == [size |-> 0, asize |-> s.asize, cap |-> s.cap]
    <3>1. s.asize \in Nat /\ s.cap \in Nat /\ s.cap > 0 /\ s.asize <= s.cap
      BY <2>s, <2>4 DEF Xstr, Fits, tf_strclear, Exists
    <3>2. new \in Xstr /\ Fits(new)
      BY <3>1 DEF Xstr, Fits
    <3>3. [s EXCEPT !.size = 0] = new
      BY <2>s DEF Xstr
    <3>4. xstr' = [xstr EXCEPT ![x] = new] /\ regions' \in [Xstrs -> Nat] /\ ended' = ended
      BY <1>0, <2>4, <3>3 DEF tf_strclear, StrSound
    <3> HIDE DEF new
    <3> QED  BY <1>0, <3>2, <3>4, ReplaceOne
  <2>5. CASE tf_vstrprintf(x)
    <3>1. ASSUME NEW n \in Piece, tf_strcat(x, n) PROVE StrSound'
      <4>1. n \in Nat
        BY LengthsAreNat DEF Piece
      <4> QED  BY <1>0, <3>1, <4>1, CatStep
    <3>2. ASSUME NEW n \in Lengths, tf_strcat2(x, n) PROVE StrSound'
      BY <1>0, <3>2, LengthsAreNat, Cat2Step
    <3> QED  BY <2>5, <3>1, <3>2 DEF tf_vstrprintf
  <2>6. CASE tf_strtomalloc(x)
    <3>1. xstr' = [xstr EXCEPT ![x] = NoXstr] /\ ended' = ended
      BY <2>6 DEF tf_strtomalloc
    <3>2. regions' \in [Xstrs -> Nat]
      BY <1>0, <2>6, <2>s DEF tf_strtomalloc, StrSound, Xstr
    <3>3. NoXstr.cap > 0 => Fits(NoXstr)
      BY NoXstrOK
    <3> QED  BY <1>0, <3>1, <3>2, <3>3, NoXstrOK, ReplaceOne
  <2>7. ASSUME NEW n \in Lengths, tf_strnew2(x, n) PROVE StrSound'
    <3>1. ~(n >= INT_MAX)
      BY <2>7 DEF tf_strnew2
    <3>2. n \in Nat /\ n < INT_MAX
      BY <3>1, LengthsAreNat, StrAssumption
    <3> QED  BY <1>0, <2>7, <3>2, New2Step
  <2>8. ASSUME NEW n \in Lengths, tf_strcat2(x, n) PROVE StrSound'
    BY <1>0, <2>8, LengthsAreNat, Cat2Step
  <2>9. ASSUME NEW n \in Ints, tf_strnew3(x, n) PROVE StrSound'
    BY <1>0, <2>9, LengthsAreNat, NewStep DEF tf_strnew3
  <2>10. ASSUME NEW n \in Ints, tf_strcat(x, n) PROVE StrSound'
    BY <1>0, <2>10, LengthsAreNat, CatStep
  <2>11. ASSUME NEW n \in Ints, tf_strfrommalloc(x, n) PROVE StrSound'
    <3> DEFINE new == [size |-> n, asize |-> n, cap |-> n + 1]
    <3>1. new \in Xstr /\ Fits(new)
      BY LengthsAreNat DEF Xstr, Fits
    <3>2. xstr' = [xstr EXCEPT ![x] = new] /\ regions' \in [Xstrs -> Nat] /\ ended' = ended
      BY <1>0, <2>11 DEF tf_strfrommalloc, StrSound
    <3> HIDE DEF new
    <3> QED  BY <1>0, <3>1, <3>2, ReplaceOne
  <2>12. ASSUME NEW y \in Xstrs, tf_strdup(x, y) PROVE StrSound'
    BY <1>0, <2>12, DupStep
  <2> QED  BY <2>1, <2>2, <2>3, <2>4, <2>5, <2>6, <2>7, <2>8, <2>9, <2>10, <2>11, <2>12
<1> QED  BY <1>1, <1>2 DEF StrNext, StrEnded

\* No function of tf_string.c writes beyond the region of a string, and none
\* asks for a negative number of bytes, whatever the program does with its
\* strings, unless it passes, copies or takes over one of INT_MAX bytes or
\* more or lets one grow to U32 - 1.
THEOREM StrStringWithinRegion == StrSpec => []StringWithinRegion
<1>1. StrInv => StringWithinRegion
  BY DEF StrInv, StrSound, StringWithinRegion, Exists, Alive, Fits
<1> QED  BY <1>1, StrInitOK, StrStep, PTL DEF StrSpec
-----------------------------------------------------------------------------
(* The rate limiter.                                                       *)

Limiter == [total : Totals, seconds : Windows, wait : Waits, time : Nat, count : Nat, bad : Nat]

RateType ==
    /\ rt \in Limiter \/ rt = NoLimiter
    /\ ask \in {"new", "idle", "add"} /\ (ask # "new" => rt \in Limiter)
    /\ clock \in Nat /\ clock >= Epoch /\ wentBad \in Nat
    /\ events \subseteq Nat \X Nat /\ IsFiniteSet(events) /\ \A e \in events : e[1] <= clock
    /\ ask = "new" => events = {} /\ wentBad = 0

\* A limiter that is in use is bad when its total is reached, and only then;
\* no event is let through then.
LimiterInv ==
    ask # "new" =>
        /\ rt.time <= clock /\ rt.count <= rt.total /\ rt.bad <= clock
        /\ rt.time = 0 => rt.count = 0 /\ rt.bad = 0
        /\ rt.bad # 0 <=> rt.count >= rt.total
        /\ ask = "add" => rt.bad = 0

\* It is bad until the wait is over.
PenaltyInv == wentBad # 0 => rt.bad = wentBad \/ clock - wentBad >= rt.wait

Since(es, t)   == {e \in es : e[1] >= t}
Earlier(es, t) == {e \in es : e[1] < t}

\* The recent events belong to the window, or to the one before it, which
\* did not reach the total.
BurstInv ==
    ask # "new" =>
        /\ \A e \in events : clock - e[1] < rt.seconds
        /\ rt.bad # 0 => \A e \in events : e[1] <= rt.bad
        /\ rt.time # 0 => \A e \in events : e[1] - rt.time < rt.seconds
        /\ rt.wait >= rt.seconds =>
              /\ rt.time = 0 => events = {}
              /\ Cardinality(Since(events, rt.time)) <= rt.count
              /\ Cardinality(Earlier(events, rt.time)) <= rt.total - 1

RateInv == RateType /\ LimiterInv /\ PenaltyInv /\ BurstInv

LEMMA LimiterFields ==
    ASSUME NEW r \in Limiter
    PROVE  /\ r.total \in Nat /\ r.total > 0 /\ r.seconds \in Nat /\ r.seconds > 0 /\ r.seconds <= Epoch
           /\ r.wait \in Nat /\ r.time \in Nat /\ r.count \in Nat /\ r.bad \in Nat /\ r # NoLimiter
           /\ Epoch \in Nat /\ Epoch > 0
  <1>1. /\ r.total \in Totals /\ r.seconds \in Windows /\ r.wait \in Waits
        /\ r.time \in Nat /\ r.count \in Nat /\ r.bad \in Nat
    BY DEF Limiter
  <1>2. r.total \in Nat /\ r.total > 0 /\ r.seconds \in Nat /\ r.seconds > 0 /\ r.seconds <= Epoch
        /\ r.wait \in Nat /\ Epoch \in Nat /\ Epoch > 0
    <2>1. \A t \in Totals : t \in Nat /\ t > 0
      BY RateAssumption
    <2>2. \A t \in Windows : t \in Nat /\ t > 0 /\ t <= Epoch
      BY RateAssumption
    <2>3. Waits \subseteq Nat /\ Epoch \in Nat /\ Epoch > 0
      BY RateAssumption
    <2> QED
      BY <1>1, <2>1, <2>2, <2>3
  <1>3. r # NoLimiter
    BY <1>2 DEF NoLimiter
  <1> QED
    BY <1>1, <1>2, <1>3

LEMMA ResetFields ==
    ASSUME NEW r \in Limiter, NEW q, q = Reset(r)
    PROVE  /\ q \in Limiter /\ q.time = 0 /\ q.count = 0 /\ q.bad = 0
           /\ q.total = r.total /\ q.seconds = r.seconds /\ q.wait = r.wait
  BY DEF Limiter, Reset

\* The limiter after an event was added.
LEMMA AddedFields ==
    ASSUME NEW r \in Limiter, clock \in Nat, NEW q, q = Added(r, 1)
    PROVE  /\ q \in Limiter /\ q.total = r.total /\ q.seconds = r.seconds /\ q.wait = r.wait
           /\ clock - r.time >= r.seconds =>
                 q.time = clock /\ q.count = 1 /\ q.bad = IF 1 >= r.total THEN clock ELSE 0
           /\ ~(clock - r.time >= r.seconds) =>
                 /\ q.time = (IF r.time = 0 THEN clock ELSE r.time) /\ q.count = r.count + 1
                 /\ q.bad = IF r.count + 1 >= r.total THEN clock ELSE r.bad
  <1>1. PICK f : f = IF clock - r.time >= r.seconds THEN Reset(r) ELSE r
    OBVIOUS
  <1>2. f \in Limiter /\ f.total = r.total /\ f.seconds = r.seconds /\ f.wait = r.wait
    BY <1>1, ResetFields
  <1>3. q = [f EXCEPT !.count = @ + 1, !.time = IF @ = 0 THEN clock ELSE @,
                      !.bad = IF f.count + 1 >= r.total THEN clock ELSE @]
    BY <1>1 DEF Added
  <1>4. /\ q \in Limiter /\ q.total = f.total /\ q.seconds = f.seconds /\ q.wait = f.wait
        /\ q.count = f.count + 1 /\ q.time = (IF f.time = 0 THEN clock ELSE f.time)
        /\ q.bad = IF f.count + 1 >= r.total THEN clock ELSE f.bad
    <2>1. PICK c, t, b : /\ c = f.count + 1
                         /\ t = (IF f.time = 0 THEN clock ELSE f.time)
                         /\ b = IF f.count + 1 >= r.total THEN clock ELSE f.bad
      OBVIOUS
    <2>2. f.count \in Nat /\ f.time \in Nat /\ f.bad \in Nat /\ r.total \in Nat
      BY <1>2, LimiterFields
    <2>3. c \in Nat /\ t \in Nat /\ b \in Nat
      BY <2>1, <2>2
    <2>4. q = [f EXCEPT !.count = c, !.time = t, !.bad = b]
      BY <1>3, <2>1
    <2>5. /\ q \in Limiter /\ q.total = f.total /\ q.seconds = f.seconds /\ q.wait = f.wait
          /\ q.count = c /\ q.time = t /\ q.bad = b
      BY <1>2, <2>3, <2>4 DEF Limiter
    <2> QED
      BY <2>1, <2>5
  <1>5. CASE clock - r.time >= r.seconds
    <2>1. f.time = 0 /\ f.count = 0 /\ f.bad = 0
      BY <1>1, <1>5, ResetFields
    <2> QED
      BY <1>2, <1>4, <1>5, <2>1
  <1>6. CASE ~(clock - r.time >= r.seconds)
    BY <1>1, <1>2, <1>4, <1>6
  <1> QED
    BY <1>5, <1>6

\* Two parts of a finite set of events.
LEMMA EventParts ==
    ASSUME NEW es, IsFiniteSet(es), es \subseteq Nat \X Nat, NEW t \in Nat
    PROVE  /\ IsFiniteSet(Since(es, t)) /\ IsFiniteSet(Earlier(es, t))
           /\ Cardinality(Since(es, t)) \in Nat /\ Cardinality(Earlier(es, t)) \in Nat
           /\ Cardinality(es) \in Nat /\ Cardinality(es) <= Cardinality(Since(es, t)) + Cardinality(Earlier(es, t))
  <1>1. Since(es, t) \subseteq es /\ Earlier(es, t) \subseteq es
    BY DEF Since, Earlier
  <1>2. IsFiniteSet(Since(es, t)) /\ IsFiniteSet(Earlier(es, t))
    BY <1>1, FS_Subset
  <1>3. es = Since(es, t) \cup Earlier(es, t)
    <2>1. \A e \in es : e[1] \in Nat
      OBVIOUS
    <2>2. \A e \in es : e[1] >= t \/ e[1] < t
      BY <2>1
    <2> QED
      BY <2>2 DEF Since, Earlier
  <1>4. Since(es, t) \cap Earlier(es, t) = {}
    <2>1. \A e \in es : e[1] \in Nat
      OBVIOUS
    <2> QED
      BY <2>1 DEF Since, Earlier
  <1>5. Cardinality(es) = Cardinality(Since(es, t)) + Cardinality(Earlier(es, t))
                              - Cardinality(Since(es, t) \cap Earlier(es, t))
    BY <1>2, <1>3, FS_Union
  <1>6. Cardinality(Since(es, t) \cap Earlier(es, t)) = 0
    BY <1>4, FS_EmptySet
  <1> QED
    BY <1>2, <1>5, <1>6, FS_CardinalityType

LEMMA FewerEvents ==
    ASSUME NEW es, IsFiniteSet(es), NEW fs, fs \subseteq es, NEW n \in Int, Cardinality(es) <= n
    PROVE  IsFiniteSet(fs) /\ Cardinality(fs) \in Nat /\ Cardinality(fs) <= n
  BY FS_Subset, FS_CardinalityType

LEMMA NoEvents ==
    ASSUME NEW t
    PROVE  Cardinality(Since({}, t)) = 0 /\ Cardinality(Earlier({}, t)) = 0
  <1>1. Since({}, t) = {} /\ Earlier({}, t) = {}
    BY DEF Since, Earlier
  <1> QED
    BY <1>1, FS_EmptySet

LEMMA RateInitOK == RateInit => RateInv
<1> SUFFICES ASSUME RateInit PROVE RateInv
  OBVIOUS
<1>1. Epoch \in Nat
  BY RateAssumption
<1>2. IsFiniteSet(events)
  BY FS_EmptySet DEF RateInit
<1>3. RateType
  BY <1>1, <1>2 DEF RateInit, RateType
<1> QED
  BY <1>3 DEF RateInit, RateInv, LimiterInv, PenaltyInv, BurstInv

LEMMA RateNewStep ==
    ASSUME RateInv, NEW total \in Totals, NEW seconds \in Windows, NEW wait \in Waits,
           rate_new(total, seconds, wait)
    PROVE  RateInv'
<1>1. ask = "new"
  <2>1. rt \notin Limiter
    BY LimiterFields DEF rate_new
  <2> QED
    BY <2>1 DEF RateInv, RateType
<1>2. PICK time \in {0, clock}, count \in {0, total}, bad \in {0, clock} :
          rt' = [total |-> total, seconds |-> seconds, wait |-> wait,
                 time |-> time, count |-> count, bad |-> bad]
  BY DEF rate_new
<1>3. time \in Nat /\ count \in Nat /\ bad \in Nat
  <2>1. total \in Nat
    BY RateAssumption
  <2>2. clock \in Nat
    BY DEF RateInv, RateType
  <2> QED
    BY <2>1, <2>2
<1>4. rt' \in Limiter
  BY <1>2, <1>3 DEF Limiter
<1>5. ask' = ask /\ clock' = clock /\ events' = events /\ wentBad' = wentBad
  BY DEF rate_new
<1>6. RateType'
  BY <1>1, <1>4, <1>5 DEF RateInv, RateType
<1>7. wentBad = 0
  BY <1>1 DEF RateInv, RateType
<1> QED
  BY <1>1, <1>5, <1>6, <1>7 DEF RateInv, LimiterInv, PenaltyInv, BurstInv

LEMMA RateResetStep ==
    ASSUME RateInv, tf_rate_reset
    PROVE  RateInv'
<1>1. rt \in Limiter
  BY DEF RateInv, RateType, tf_rate_reset
<1>2. rt' = Reset(rt) /\ ask' = "idle" /\ events' = {} /\ wentBad' = 0 /\ clock' = clock
  BY DEF tf_rate_reset
<1>3. /\ rt' \in Limiter /\ rt'.time = 0 /\ rt'.count = 0 /\ rt'.bad = 0
      /\ rt'.total = rt.total
  BY <1>1, <1>2, ResetFields
<1>4. rt.total \in Nat /\ rt.total > 0
  BY <1>1, LimiterFields
<1>5. RateType'
  BY <1>2, <1>3, FS_EmptySet DEF RateInv, RateType
<1>6. LimiterInv'
  BY <1>2, <1>3, <1>4 DEF RateInv, RateType, LimiterInv
<1>7. BurstInv'
  <2>1. Cardinality(Since(events', rt'.time)) = 0 /\ Cardinality(Earlier(events', rt'.time)) = 0
    BY <1>2, NoEvents
  <2> QED
    BY <1>2, <1>3, <1>4, <2>1 DEF BurstInv
<1> QED
  BY <1>2, <1>5, <1>6, <1>7 DEF RateInv, PenaltyInv

LEMMA RateCheckStep ==
    ASSUME RateInv, tf_rate_check
    PROVE  RateInv'
<1>1. ask = "idle" /\ clock' = clock /\ events' = events /\ wentBad' = wentBad /\ rt \in Limiter
  BY DEF RateInv, RateType, tf_rate_check
<1>2. /\ rt.total \in Nat /\ rt.total > 0 /\ rt.seconds \in Nat /\ rt.seconds > 0
      /\ rt.wait \in Nat /\ rt.time \in Nat /\ rt.count \in Nat /\ rt.bad \in Nat /\ clock \in Nat
      /\ wentBad \in Nat
  BY <1>1, LimiterFields DEF RateInv, RateType
<1>3. /\ rt.time <= clock /\ rt.count <= rt.total /\ rt.bad <= clock
      /\ rt.time = 0 => rt.count = 0 /\ rt.bad = 0
      /\ rt.bad # 0 <=> rt.count >= rt.total
  BY <1>1 DEF RateInv, LimiterInv
<1>4. rt' = Checked(rt) /\ ask' = IF Allowed(rt) THEN "add" ELSE "idle"
  BY DEF tf_rate_check
<1>5. ask' \in {"idle", "add"}
  BY <1>4
<1>6. CASE rt.time # 0 /\ rt.count >= rt.total /\ WaitOver(rt)
  <2>1. rt' = Reset(rt)
    BY <1>4, <1>6 DEF Checked
  <2>2. /\ rt' \in Limiter /\ rt'.time = 0 /\ rt'.count = 0 /\ rt'.bad = 0
        /\ rt'.total = rt.total /\ rt'.seconds = rt.seconds /\ rt'.wait = rt.wait
    BY <1>1, <2>1, ResetFields
  <2>3. rt.bad # 0 /\ clock - rt.bad >= rt.wait
    BY <1>6 DEF WaitOver
  <2>4. RateType'
    BY <1>1, <1>5, <2>2 DEF RateInv, RateType
  <2>5. LimiterInv'
    BY <1>1, <1>2, <2>2 DEF LimiterInv
  <2>6. PenaltyInv'
    BY <1>1, <1>2, <2>2, <2>3 DEF RateInv, PenaltyInv
  <2>7. BurstInv'
    <3>1. \A e \in events : clock - e[1] < rt.seconds /\ e[1] <= rt.bad /\ e[1] \in Nat
      BY <1>1, <2>3 DEF RateInv, RateType, BurstInv
    <3>2. rt.wait >= rt.seconds => events = {}
      <4> SUFFICES ASSUME rt.wait >= rt.seconds, NEW e \in events PROVE FALSE
        OBVIOUS
      <4> QED
        BY <1>2, <2>3, <3>1
    <3>3. /\ Cardinality(Since({}, rt'.time)) = 0 /\ Cardinality(Earlier({}, rt'.time)) = 0
      BY NoEvents
    <3>4. (\A e \in events : clock - e[1] < rt.seconds)'
      BY <1>1, <2>2, <3>1
    <3>5. ASSUME rt'.wait >= rt'.seconds
          PROVE  /\ events' = {} /\ Cardinality(Since(events', rt'.time)) <= rt'.count
                 /\ Cardinality(Earlier(events', rt'.time)) <= rt'.total - 1
      <4>1. events' = {}
        BY <1>1, <2>2, <3>2, <3>5
      <4>2. Cardinality(Since(events', rt'.time)) = 0 /\ Cardinality(Earlier(events', rt'.time)) = 0
        BY <3>3, <4>1
      <4> QED
        BY <1>2, <2>2, <4>1, <4>2
    <3> QED
      BY <2>2, <3>4, <3>5 DEF BurstInv
  <2> QED
    BY <2>4, <2>5, <2>6, <2>7 DEF RateInv
<1>7. CASE ~(rt.time # 0 /\ rt.count >= rt.total /\ WaitOver(rt))
  <2>1. rt' = rt
    BY <1>4, <1>7 DEF Checked
  <2>2. ask' = "add" => rt.bad = 0
    <3>1. Allowed(rt) => rt.bad = 0
      BY <1>2, <1>3, <1>7 DEF Allowed
    <3> QED
      BY <1>4, <3>1
  <2>3. RateType'
    BY <1>1, <1>5, <2>1 DEF RateInv, RateType
  <2>4. LimiterInv'
    BY <1>1, <1>3, <2>1, <2>2 DEF LimiterInv
  <2>5. PenaltyInv'
    BY <1>1, <2>1 DEF RateInv, PenaltyInv
  <2>6. BurstInv'
    BY <1>1, <2>1 DEF RateInv, BurstInv
  <2> QED
    BY <2>3, <2>4, <2>5, <2>6 DEF RateInv
<1> QED
  BY <1>6, <1>7

\* The events of the last seconds, one more of them now.
LEMMA OneMoreEvent ==
    ASSUME NEW es, IsFiniteSet(es), NEW fs, NEW x, fs \subseteq es \cup {x},
           NEW n \in Int, Cardinality(es) <= n
    PROVE  IsFiniteSet(fs) /\ Cardinality(fs) \in Nat /\ Cardinality(fs) <= n + 1
<1>1. IsFiniteSet(es \cup {x}) /\ Cardinality(es) \in Nat /\ Cardinality(es \cup {x}) \in Nat
  BY FS_AddElement, FS_CardinalityType
<1>2. Cardinality(es \cup {x}) <= Cardinality(es) + 1
  <2>1. CASE x \in es
    <3>1. Cardinality(es \cup {x}) = Cardinality(es)
      <4>1. es \cup {x} = es
        BY <2>1
      <4> QED
        BY <4>1, Zenon
    <3> QED
      BY <1>1, <3>1
  <2>2. CASE x \notin es
    <3>1. Cardinality(es \cup {x}) = Cardinality(es) + 1
      BY <2>2, FS_AddElement
    <3> QED
      BY <1>1, <3>1
  <2> QED
    BY <2>1, <2>2
<1>3. IsFiniteSet(fs) /\ Cardinality(fs) <= Cardinality(es \cup {x})
  BY <1>1, FS_Subset
<1>4. Cardinality(fs) \in Nat
  BY <1>3, FS_CardinalityType
<1> QED
  BY <1>1, <1>2, <1>3, <1>4

LEMMA RateAddStep ==
    ASSUME RateInv, tf_rate_add
    PROVE  RateInv'
<1>1. ask = "add" /\ rt' = Added(rt, 1) /\ ask' = "idle" /\ clock' = clock /\ rt \in Limiter
  BY DEF RateInv, RateType, tf_rate_add
<1>2. /\ rt.total \in Nat /\ rt.total > 0 /\ rt.seconds \in Nat /\ rt.seconds > 0
      /\ rt.wait \in Nat /\ rt.time \in Nat /\ rt.count \in Nat /\ rt.bad \in Nat
      /\ rt.seconds <= Epoch /\ Epoch \in Nat /\ Epoch > 0
  BY <1>1, LimiterFields
<1>3. clock \in Nat /\ clock >= Epoch /\ wentBad \in Nat
  BY DEF RateInv, RateType
<1>4. /\ rt.time <= clock /\ rt.bad = 0 /\ rt.count <= rt.total - 1 /\ (rt.time = 0 => rt.count = 0)
  <2>1. rt.time <= clock /\ rt.bad = 0 /\ ~(rt.count >= rt.total) /\ (rt.time = 0 => rt.count = 0)
    BY <1>1 DEF RateInv, LimiterInv
  <2> QED
    BY <1>2, <2>1
<1>5. /\ rt' \in Limiter /\ rt'.total = rt.total /\ rt'.seconds = rt.seconds /\ rt'.wait = rt.wait
  BY <1>1, <1>3, AddedFields
<1>6. ASSUME clock - rt.time >= rt.seconds
      PROVE  rt'.time = clock /\ rt'.count = 1 /\ rt'.bad = IF 1 >= rt.total THEN clock ELSE 0
  BY <1>1, <1>3, <1>6, AddedFields
<1>7. ASSUME ~(clock - rt.time >= rt.seconds)
      PROVE  /\ rt.time # 0 /\ rt'.time = rt.time /\ rt'.count = rt.count + 1
             /\ rt'.bad = IF rt.count + 1 >= rt.total THEN clock ELSE 0
  <2>1. rt.time # 0
    BY <1>2, <1>3, <1>7
  <2>2. /\ rt'.time = (IF rt.time = 0 THEN clock ELSE rt.time) /\ rt'.count = rt.count + 1
        /\ rt'.bad = IF rt.count + 1 >= rt.total THEN clock ELSE rt.bad
    BY <1>1, <1>3, <1>7, AddedFields
  <2> QED
    BY <1>4, <2>1, <2>2
<1>8. /\ rt'.time # 0 /\ rt'.time <= clock /\ rt'.count <= rt.total
      /\ rt'.bad \in {0, clock} /\ (rt'.bad # 0 <=> rt'.count >= rt.total)
  <2>1. CASE clock - rt.time >= rt.seconds
    BY <1>2, <1>3, <1>6, <2>1
  <2>2. CASE ~(clock - rt.time >= rt.seconds)
    BY <1>2, <1>3, <1>4, <1>7, <2>2
  <2> QED
    BY <2>1, <2>2
<1>9. IsFiniteSet(events) /\ events \subseteq Nat \X Nat
  BY DEF RateInv, RateType
<1>10. PICK x \in Nat \X Nat : x[1] = clock /\ events' = events \cup {x}
  <2>1. PICK n : n = Cardinality({e \in events : e[1] = clock})
    OBVIOUS
  <2>2. n \in Nat
    <3>1. {e \in events : e[1] = clock} \subseteq events
      OBVIOUS
    <3>2. IsFiniteSet({e \in events : e[1] = clock})
      BY <1>9, <3>1, FS_Subset
    <3> QED
      BY <2>1, <3>2, FS_CardinalityType
  <2>3. events' = events \cup {<<clock, n>>}
    BY <2>1 DEF tf_rate_add
  <2>4. <<clock, n>> \in Nat \X Nat /\ <<clock, n>>[1] = clock
    BY <1>3, <2>2
  <2> QED
    BY <2>3, <2>4
<1>11. \A e \in events' : e[1] \in Nat /\ e[1] <= clock /\ clock - e[1] < rt.seconds
  <2>1. \A e \in events : e[1] <= clock /\ clock - e[1] < rt.seconds
    BY <1>1 DEF RateInv, RateType, BurstInv
  <2>2. \A e \in events : e[1] \in Nat
    BY <1>9
  <2>3. x[1] \in Nat /\ x[1] <= clock /\ clock - x[1] < rt.seconds
    BY <1>2, <1>3, <1>10
  <2> QED
    BY <1>10, <2>1, <2>2, <2>3
<1>12. wentBad' = IF rt'.bad # 0 THEN rt'.bad ELSE wentBad
  BY DEF tf_rate_add
<1>13. RateType'
  <2>1. IsFiniteSet(events')
    BY <1>9, <1>10, FS_AddElement
  <2>2. events' \subseteq Nat \X Nat
    BY <1>9, <1>10
  <2>3. \A e \in events' : e[1] <= clock
    BY <1>11
  <2>4. wentBad' \in Nat
    BY <1>3, <1>8, <1>12
  <2> QED
    BY <1>1, <1>3, <1>5, <2>1, <2>2, <2>3, <2>4 DEF RateType
<1>14. LimiterInv'
  <2>1. rt'.bad <= clock
    BY <1>3, <1>8
  <2> QED
    BY <1>1, <1>5, <1>8, <2>1 DEF LimiterInv
<1>15. PenaltyInv'
  <2>1. wentBad # 0 => clock - wentBad >= rt.wait
    BY <1>4 DEF RateInv, PenaltyInv
  <2> QED
    BY <1>1, <1>5, <1>12, <2>1 DEF PenaltyInv
<1>16. BurstInv'
  <2>1. \A e \in events' : clock - e[1] < rt.seconds
    BY <1>11
  <2>2. rt'.bad # 0 => \A e \in events' : e[1] <= rt'.bad
    BY <1>8, <1>11
  <2>3. rt.time # 0 => \A e \in events : e[1] - rt.time < rt.seconds
    BY <1>1 DEF RateInv, BurstInv
  <2>4. \A e \in events' : e[1] - rt'.time < rt.seconds
    <3>1. CASE clock - rt.time >= rt.seconds
      <4>1. rt'.time = clock
        BY <1>6, <3>1
      <4> QED
        BY <1>2, <1>3, <1>11, <4>1
    <3>2. CASE ~(clock - rt.time >= rt.seconds)
      <4>1. rt.time # 0 /\ rt'.time = rt.time
        BY <1>7, <3>2
      <4>2. \A e \in events' : e[1] \in Nat /\ e[1] <= clock
        BY <1>11
      <4> QED
        BY <1>2, <1>3, <3>2, <4>1, <4>2
    <3> QED
      BY <3>1, <3>2
  <2>5. ASSUME rt.wait >= rt.seconds
        PROVE  /\ Cardinality(Since(events', rt'.time)) <= rt'.count
               /\ Cardinality(Earlier(events', rt'.time)) <= rt.total - 1
    <3>1. /\ rt.time = 0 => events = {}
          /\ Cardinality(Since(events, rt.time)) <= rt.count
          /\ Cardinality(Earlier(events, rt.time)) <= rt.total - 1
      BY <1>1, <2>5 DEF RateInv, BurstInv
    <3>2. IsFiniteSet(Since(events, rt.time)) /\ IsFiniteSet(Earlier(events, rt.time))
      BY <1>2, <1>9, EventParts
    <3>3. rt.total - 1 \in Int /\ rt.count \in Int /\ 0 \in Int /\ rt.count <= rt.total - 1
      BY <1>2, <1>4
    <3>4. CASE clock - rt.time >= rt.seconds
      <4>1. rt'.time = clock /\ rt'.count = 1
        BY <1>6, <3>4
      <4>2. \A e \in events : e[1] < clock /\ e[1] >= rt.time
        <5> SUFFICES ASSUME NEW e \in events PROVE e[1] < clock /\ e[1] >= rt.time
          OBVIOUS
        <5>1. e[1] \in Nat /\ clock - e[1] < rt.seconds
          BY <1>10, <1>11
        <5>2. e[1] - rt.time < rt.seconds
          BY <2>3, <3>1
        <5> QED
          BY <1>2, <1>3, <3>4, <5>1, <5>2
      <4>3. Since(events', clock) \subseteq {} \cup {x}
        <5>1. \A e \in events : ~(e[1] >= clock)
          BY <1>3, <1>10, <1>11, <4>2
        <5> QED
          BY <1>10, <5>1 DEF Since
      <4>4. Earlier(events', clock) \subseteq Since(events, rt.time)
        <5>1. ~(x[1] < clock)
          BY <1>3, <1>10
        <5> QED
          BY <1>10, <4>2, <5>1 DEF Since, Earlier
      <4>5. Cardinality(Since(events', clock)) <= 1
        <5>1. IsFiniteSet({}) /\ Cardinality({}) <= 0
          BY FS_EmptySet
        <5> QED
          BY <3>3, <4>3, <5>1, OneMoreEvent
      <4>6. Cardinality(Earlier(events', clock)) <= rt.count /\ Cardinality(Earlier(events', clock)) \in Nat
        BY <3>1, <3>2, <3>3, <4>4, FewerEvents
      <4> QED
        BY <1>2, <3>3, <4>1, <4>5, <4>6
    <3>5. CASE ~(clock - rt.time >= rt.seconds)
      <4>1. rt'.time = rt.time /\ rt'.count = rt.count + 1
        BY <1>7, <3>5
      <4>2. Since(events', rt.time) \subseteq Since(events, rt.time) \cup {x}
        BY <1>10 DEF Since
      <4>3. Earlier(events', rt.time) \subseteq Earlier(events, rt.time)
        <5>1. ~(x[1] < rt.time)
          BY <1>2, <1>3, <1>4, <1>10
        <5> QED
          BY <1>10, <5>1 DEF Earlier
      <4>4. Cardinality(Since(events', rt.time)) <= rt.count + 1
        BY <3>1, <3>2, <3>3, <4>2, OneMoreEvent
      <4>5. Cardinality(Earlier(events', rt.time)) <= rt.total - 1
        BY <3>1, <3>2, <3>3, <4>3, FewerEvents
      <4> QED
        BY <4>1, <4>4, <4>5
    <3> QED
      BY <3>4, <3>5
  <2> QED
    BY <1>1, <1>5, <1>8, <2>1, <2>2, <2>4, <2>5 DEF BurstInv
<1> QED
  BY <1>13, <1>14, <1>15, <1>16 DEF RateInv

LEMMA RateSecondStep ==
    ASSUME RateInv, Second
    PROVE  RateInv'
<1>1. CASE clock < MaxTime
  <2>1. /\ clock' = clock + 1 /\ rt' = rt /\ ask' = ask /\ wentBad' = wentBad
        /\ events' = {e \in events : clock + 1 - e[1] < rt.seconds}
    BY <1>1 DEF Second
  <2>2. clock \in Nat /\ clock >= Epoch /\ Epoch \in Nat /\ wentBad \in Nat
    BY RateAssumption DEF RateInv, RateType
  <2>3. events' \subseteq events /\ events \subseteq Nat \X Nat /\ IsFiniteSet(events)
    BY <2>1 DEF RateInv, RateType
  <2>4. rt \in Limiter \/ (ask = "new" /\ wentBad = 0)
    BY DEF RateInv, RateType
  <2>5. RateType'
    <3>1. IsFiniteSet(events')
      BY <2>3, FS_Subset
    <3>2. \A e \in events' : e[1] <= clock + 1
      <4>1. \A e \in events : e[1] \in Nat
        BY <2>3
      <4>2. \A e \in events : e[1] <= clock
        BY DEF RateInv, RateType
      <4> QED
        BY <2>2, <2>3, <4>1, <4>2
    <3>3. clock + 1 \in Nat /\ clock + 1 >= Epoch
      BY <2>2
    <3>4. ask = "new" => events' = {}
      BY <2>3 DEF RateInv, RateType
    <3> QED
      BY <2>1, <2>3, <3>1, <3>2, <3>3, <3>4 DEF RateInv, RateType
  <2>6. LimiterInv'
    <3> SUFFICES ASSUME ask # "new" PROVE LimiterInv'
      BY <2>1 DEF LimiterInv
    <3>1. rt.time \in Nat /\ rt.bad \in Nat
      BY <2>4, LimiterFields
    <3>2. /\ rt.time <= clock /\ rt.count <= rt.total /\ rt.bad <= clock
          /\ rt.time = 0 => rt.count = 0 /\ rt.bad = 0
          /\ rt.bad # 0 <=> rt.count >= rt.total
          /\ ask = "add" => rt.bad = 0
      BY DEF RateInv, LimiterInv
    <3>3. rt.time <= clock + 1 /\ rt.bad <= clock + 1
      BY <2>2, <3>1, <3>2
    <3> QED
      BY <2>1, <3>2, <3>3 DEF LimiterInv
  <2>7. PenaltyInv'
    <3> SUFFICES ASSUME wentBad # 0 PROVE PenaltyInv'
      BY <2>1 DEF PenaltyInv
    <3>1. rt.wait \in Nat
      BY <2>4, LimiterFields
    <3>2. rt.bad = wentBad \/ clock - wentBad >= rt.wait
      BY DEF RateInv, PenaltyInv
    <3>3. rt.bad = wentBad \/ (clock + 1) - wentBad >= rt.wait
      BY <2>2, <3>1, <3>2
    <3>4. rt'.bad = wentBad' \/ clock' - wentBad' >= rt'.wait
      BY <2>1, <3>3, Zenon
    <3> QED
      BY <3>4 DEF PenaltyInv
  <2>8. BurstInv'
    <3> SUFFICES ASSUME ask # "new" PROVE BurstInv'
      BY <2>1 DEF BurstInv
    <3>1. /\ rt.bad # 0 => \A e \in events : e[1] <= rt.bad
          /\ rt.time # 0 => \A e \in events : e[1] - rt.time < rt.seconds
      BY DEF RateInv, BurstInv
    <3>2. \A e \in events' : clock + 1 - e[1] < rt.seconds
      BY <2>1
    <3>3. ASSUME rt.wait >= rt.seconds
          PROVE  /\ rt.time = 0 => events' = {}
                 /\ Cardinality(Since(events', rt.time)) <= rt.count
                 /\ Cardinality(Earlier(events', rt.time)) <= rt.total - 1
      <4>1. /\ rt.time = 0 => events = {}
            /\ Cardinality(Since(events, rt.time)) <= rt.count
            /\ Cardinality(Earlier(events, rt.time)) <= rt.total - 1
        BY <3>3 DEF RateInv, BurstInv
      <4>2. rt.time \in Nat /\ rt.count \in Int /\ rt.total \in Nat
        BY <2>4, LimiterFields
      <4>3. rt.total - 1 \in Int
        BY <4>2
      <4>4. IsFiniteSet(Since(events, rt.time)) /\ IsFiniteSet(Earlier(events, rt.time))
        BY <2>3, <4>2, EventParts
      <4>5. /\ Since(events', rt.time) \subseteq Since(events, rt.time)
            /\ Earlier(events', rt.time) \subseteq Earlier(events, rt.time)
        BY <2>3 DEF Since, Earlier
      <4>6. Cardinality(Since(events', rt.time)) <= rt.count
        BY <4>1, <4>2, <4>4, <4>5, FewerEvents
      <4>7. Cardinality(Earlier(events', rt.time)) <= rt.total - 1
        BY <4>1, <4>3, <4>4, <4>5, FewerEvents
      <4> QED
        BY <2>3, <4>1, <4>6, <4>7
    <3>4. /\ rt.bad # 0 => \A e \in events' : e[1] <= rt.bad
          /\ rt.time # 0 => \A e \in events' : e[1] - rt.time < rt.seconds
      BY <2>3, <3>1
    <3>5. \A e \in events' : clock' - e[1] < rt.seconds
      <4>1. \A e \in events' : e[1] \in Nat
        BY <2>3
      <4> QED
        BY <2>1, <2>2, <3>2, <4>1
    <3>6. /\ \A e \in events' : clock' - e[1] < rt'.seconds
          /\ rt'.bad # 0 => \A e \in events' : e[1] <= rt'.bad
          /\ rt'.time # 0 => \A e \in events' : e[1] - rt'.time < rt'.seconds
          /\ rt'.wait >= rt'.seconds =>
                /\ rt'.time = 0 => events' = {}
                /\ Cardinality(Since(events', rt'.time)) <= rt'.count
                /\ Cardinality(Earlier(events', rt'.time)) <= rt'.total - 1
      <4>1. rt' = rt
        BY <2>1
      <4> QED
        BY <4>1, <3>3, <3>4, <3>5, Zenon
    <3> QED
      BY <3>6 DEF BurstInv
  <2> QED
    BY <2>5, <2>6, <2>7, <2>8 DEF RateInv
<1>2. CASE ~(clock < MaxTime)
  <2>1. clock' = Epoch /\ rt' = NoLimiter /\ ask' = "new" /\ events' = {} /\ wentBad' = 0
    BY <1>2 DEF Second
  <2>2. RateType'
    BY <2>1, RateAssumption, FS_EmptySet DEF RateType
  <2> QED
    BY <2>1, <2>2 DEF RateInv, LimiterInv, PenaltyInv, BurstInv
<1> QED
  BY <1>1, <1>2

LEMMA RateStep == RateInv /\ [RateNext]_rateVars => RateInv'
<1> SUFFICES ASSUME RateInv, [RateNext]_rateVars PROVE RateInv'
  OBVIOUS
<1>1. CASE RateNext
  <2>1. ASSUME NEW total \in Totals, NEW seconds \in Windows, NEW wait \in Waits,
               rate_new(total, seconds, wait)
        PROVE  RateInv'
    BY <2>1, RateNewStep
  <2>2. CASE tf_rate_reset
    BY <2>2, RateResetStep
  <2>3. CASE tf_rate_check
    BY <2>3, RateCheckStep
  <2>4. CASE tf_rate_add
    BY <2>4, RateAddStep
  <2>5. CASE Second
    BY <2>5, RateSecondStep
  <2> QED
    BY <1>1, <2>1, <2>2, <2>3, <2>4, <2>5 DEF RateNext
<1>2. CASE UNCHANGED rateVars
  BY <1>2 DEF rateVars, RateInv, RateType, LimiterInv, PenaltyInv, BurstInv
<1> QED
  BY <1>1, <1>2

\* Whatever its parameters, a limiter whose wait is at least its window lets
\* less than twice its total through in any period of the window's length,
\* however tf_rate_check and tf_rate_add meet the clock.
THEOREM RateBurstBounded == RateSpec => []BurstBounded
<1>1. RateInv => BurstBounded
  <2> SUFFICES ASSUME RateInv, rt # NoLimiter, rt.wait >= rt.seconds
               PROVE  Cardinality(events) <= 2 * rt.total - 1
    BY DEF BurstBounded
  <2>1. rt \in Limiter
    BY DEF RateInv, RateType
  <2>2. rt.total \in Nat /\ rt.total > 0 /\ rt.count \in Nat /\ rt.time \in Nat
    BY <2>1, LimiterFields
  <2>3. CASE ask = "new"
    <3>1. Cardinality(events) = 0
      BY <2>3, FS_EmptySet DEF RateInv, RateType
    <3> QED
      BY <2>2, <3>1
  <2>4. CASE ask # "new"
    <3>1. rt.count <= rt.total
      BY <2>4 DEF RateInv, LimiterInv
    <3>2. /\ Cardinality(Since(events, rt.time)) <= rt.count
          /\ Cardinality(Earlier(events, rt.time)) <= rt.total - 1
      BY <2>4 DEF RateInv, BurstInv
    <3>3. /\ Cardinality(Since(events, rt.time)) \in Nat /\ Cardinality(Earlier(events, rt.time)) \in Nat
          /\ Cardinality(events) \in Nat
          /\ Cardinality(events) <= Cardinality(Since(events, rt.time)) + Cardinality(Earlier(events, rt.time))
      BY <2>2, EventParts DEF RateInv, RateType
    <3> QED
      BY <2>2, <3>1, <3>2, <3>3
  <2> QED
    BY <2>3, <2>4
<1> QED
  BY <1>1, RateInitOK, RateStep, PTL DEF RateSpec

\* Once the total was reached no event is let through before the wait is
\* over, also when the window ends first.
THEOREM RatePenaltyServed == RateSpec => PenaltyServed
<1>1. RateInv /\ [RateNext]_rateVars
        => [events' \ events # {} /\ wentBad # 0 => clock - wentBad >= rt.wait]_rateVars
  <2> SUFFICES ASSUME RateInv, RateNext, events' \ events # {}, wentBad # 0
               PROVE  clock - wentBad >= rt.wait
    OBVIOUS
  <2>1. tf_rate_add
    <3>1. ~ Second
      BY DEF Second
    <3> QED
      BY <3>1 DEF RateNext, rate_new, tf_rate_reset, tf_rate_check
  <2>2. ask = "add"
    BY <2>1 DEF tf_rate_add
  <2>3. rt.bad = 0
    BY <2>2 DEF RateInv, LimiterInv
  <2> QED
    BY <2>3 DEF RateInv, PenaltyInv
<1> QED
  BY <1>1, RateInitOK, RateStep, PTL DEF RateSpec, PenaltyServed
-----------------------------------------------------------------------------
(* MD5 streaming.                                                          *)

MdBytes == Nat \cup {PadByte} \cup (Nat \X Nat)
MdBlocks == [Cells -> MdBytes]
MdContexts == [lo : Nat, hi : Nat, in : MdBlocks]

MdTypeOK ==
    /\ ctx \in MdContexts
    /\ blocks \in Seq(MdBlocks)
    /\ msgLen \in Nat
    /\ final \in BOOLEAN

\* The first n blocks of the message were transformed.
BlocksHold(bs, n) ==
    /\ Len(bs) = n
    /\ \A k \in 1..n : \A i \in Cells : bs[k][i] = BLOCK * (k - 1) + i

\* The buffer has the t bytes of the message that follow the first start.
BufferHolds(in, start, t) == \A i \in 1..t : in[i] = start + i

\* The two words are the bits of m bytes, modulo their width.
CountHolds(c, m) ==
    /\ c.lo = (8 * m) % WORD
    /\ c.hi = ((8 * m) \div WORD) % WORD

\* Between calls the blocks and the buffer have the message so far.
MessageHeld ==
    /\ BlocksHold(blocks, msgLen \div BLOCK)
    /\ BufferHolds(ctx.in, BLOCK * (msgLen \div BLOCK), msgLen % BLOCK)
    /\ CountHolds(ctx, msgLen)

\* The inductive invariant of the stream.
MdInv ==
    /\ MdTypeOK
    /\ ~final => MessageHeld
    /\ TransformsPaddedMessage

\* A product with a positive factor is no smaller than the other factor.
LEMMA ProductAtLeast ==
    ASSUME NEW U \in Nat \ {0}, NEW d \in Int, d >= 1
    PROVE  U * d >= U
OBVIOUS

\* What quotient and remainder are.
LEMMA QuotientRemainder ==
    ASSUME NEW U \in Nat \ {0}, NEW x \in Int
    PROVE  /\ x % U \in 0..(U - 1) /\ x \div U \in Int
           /\ x = U * (x \div U) + (x % U)
OBVIOUS

\* They are the only such numbers.
LEMMA QuotientUnique ==
    ASSUME NEW U \in Nat \ {0}, NEW b \in Int, NEW q \in Int, NEW s \in 0..(U - 1),
           b = U * q + s
    PROVE  b \div U = q /\ b % U = s
<1>1. PICK p \in Int, r \in 0..(U - 1) : p = b \div U /\ r = b % U /\ b = U * p + r
  BY QuotientRemainder
<1>2. U * (p - q) = s - r /\ U * (q - p) = r - s
  BY <1>1
<1>3. ~(p > q)
  BY <1>2, ProductAtLeast
<1>4. ~(q > p)
  BY <1>2, ProductAtLeast
<1>5. p = q
  BY <1>3, <1>4
<1>6. r = s
  BY <1>5, <1>1
<1> QED BY <1>1, <1>5, <1>6

\* The quotient of a number that is not negative.
LEMMA QuotientNat ==
    ASSUME NEW U \in Nat \ {0}, NEW x \in Nat
    PROVE  x \div U \in Nat
<1>1. PICK p \in Int, r \in 0..(U - 1) : p = x \div U /\ x = U * p + r
  BY QuotientRemainder
<1>2. ASSUME p < 0 PROVE FALSE
  <2>1. U * (0 - p) >= U
    BY <1>2, ProductAtLeast
  <2> QED BY <1>1, <2>1
<1> QED BY <1>1, <1>2

\* A remainder may be taken before an addition.
LEMMA RemainderOfSum ==
    ASSUME NEW U \in Nat \ {0}, NEW x \in Int, NEW n \in Int
    PROVE  ((x % U) + n) % U = (x + n) % U
<1>1. PICK r \in 0..(U - 1), p \in Int : r = x % U /\ x = U * p + r
  BY QuotientRemainder
<1>2. PICK y \in Int : y = r + n
  OBVIOUS
<1>3. PICK s \in 0..(U - 1), q \in Int : s = y % U /\ y = U * q + s
  BY QuotientRemainder
<1>4. PICK z \in Int : z = x + n
  OBVIOUS
<1>5. PICK k \in Int : k = p + q
  OBVIOUS
<1>6. U * k = U * p + U * q
  BY <1>5
<1>a. PICK g \in Int, h \in Int : g = U * p /\ h = U * q
  OBVIOUS
<1>7. z = U * k + s
  <2>1. x = g + r /\ y = h + s
    BY <1>1, <1>3, <1>a
  <2>2. z = (g + h) + s
    BY <2>1, <1>2, <1>4
  <2> QED BY <2>2, <1>6, <1>a
<1>8. z % U = s
  BY <1>7, QuotientUnique
<1> QED BY <1>1, <1>2, <1>3, <1>4, <1>8

\* The carry from the low to the high word: the sum is less than what was
\* added to if and only if it wrapped.
LEMMA SumCarries ==
    ASSUME NEW W \in Nat \ {0}, NEW a \in Nat, NEW b \in Nat
    PROVE  \E lo \in Nat, sum \in Nat :
              /\ lo = a % W /\ sum = (lo + (b % W)) % W /\ sum = (a + b) % W
              /\ (a + b) \div W = ((a \div W) + (IF sum < lo THEN 1 ELSE 0)) + (b \div W)
<1>1. PICK p \in Int, lo \in 0..(W - 1) : p = a \div W /\ lo = a % W /\ a = W * p + lo
  BY QuotientRemainder
<1>2. PICK q \in Int, x \in 0..(W - 1) : q = b \div W /\ x = b % W /\ b = W * q + x
  BY QuotientRemainder
<1>3. PICK c \in Int : c = a + b
  OBVIOUS
<1>4. c = (W * p + lo) + (W * q + x)
  BY <1>1, <1>2, <1>3
<1>5. PICK k \in {0, 1} : k = IF lo + x < W THEN 0 ELSE 1
  OBVIOUS
<1>6. PICK sum \in 0..(W - 1) : sum = (lo + x) - W * k
  <2>1. CASE k = 0
    <3>1. lo + x < W /\ (lo + x) - W * 0 = lo + x
      BY <1>5, <2>1
    <3> QED BY <2>1, <3>1
  <2>2. CASE k = 1
    <3>1. lo + x >= W /\ (lo + x) - W * 1 = (lo + x) - W
      BY <1>5, <2>2
    <3> QED BY <2>2, <3>1
  <2> QED BY <2>1, <2>2
<1>7. c \div W = (p + k) + q /\ c % W = sum /\ (lo + x) % W = sum
  <2>1. PICK g \in Int, h \in Int, e \in Int : g = W * p /\ h = W * q /\ e = W * k
    OBVIOUS
  <2>2. PICK n \in Int, z \in Int : n = (p + k) + q /\ z = lo + x
    OBVIOUS
  <2>3. W * n = (g + e) + h
    BY <2>1, <2>2
  <2>4. c = W * n + sum /\ z = W * k + sum
    BY <2>1, <2>2, <2>3, <1>4, <1>6
  <2>5. c \div W = n /\ c % W = sum
    BY <2>4, QuotientUnique
  <2>6. z % W = sum
    BY <2>4, QuotientUnique
  <2> QED BY <2>2, <2>5, <2>6
<1>8. k = IF sum < lo THEN 1 ELSE 0
  <2>1. CASE k = 0
    BY <2>1, <1>6
  <2>2. CASE k = 1
    BY <2>2, <1>6
  <2> QED BY <2>1, <2>2
<1>9. lo \in Nat /\ sum \in Nat
  OBVIOUS
<1>10. sum = (lo + (b % W)) % W /\ sum = (a + b) % W
  BY <1>2, <1>3, <1>7
<1>11. (a + b) \div W = ((a \div W) + (IF sum < lo THEN 1 ELSE 0)) + (b \div W)
  BY <1>1, <1>2, <1>3, <1>7, <1>8
<1> QED BY <1>1, <1>9, <1>10, <1>11

\* WORD is a multiple of eight blocks, so that the low word alone tells how
\* much of the buffer is used.
LEMMA BufferedBytes ==
    ASSUME NEW c \in MdContexts, NEW m \in Nat, CountHolds(c, m)
    PROVE  Buffered(c) = m % BLOCK
<1>1. WORD \in Nat \ {0} /\ BLOCK \in Nat \ {0}
  BY MdAssumption
<1>2. PICK w \in Int : WORD = (8 * BLOCK) * w
  <2>1. PICK u \in Nat \ {0} : u = 8 * BLOCK
    BY <1>1
  <2>2. PICK n \in Int, r \in Int : r = WORD % u /\ WORD = u * n + r
    <3>1. PICK W \in Int : W = WORD
      BY <1>1
    <3>2. W % u \in 0..(u - 1) /\ W \div u \in Int /\ W = u * (W \div u) + (W % u)
      BY QuotientRemainder
    <3> QED BY <3>1, <3>2
  <2>3. r = 0
    BY <2>1, <2>2, MdAssumption
  <2> QED BY <2>1, <2>2, <2>3
<1>3. PICK e \in Nat, p \in Int, lo \in Nat : e = 8 * m /\ lo = c.lo /\ e = WORD * p + lo
  <2>1. PICK e \in Nat : e = 8 * m
    OBVIOUS
  <2>2. e % WORD \in 0..(WORD - 1) /\ e \div WORD \in Int /\ e = WORD * (e \div WORD) + (e % WORD)
    BY <1>1, QuotientRemainder
  <2> QED BY <1>1, <2>1, <2>2 DEF CountHolds
<1>4. PICK v \in Int : v = w * p
  OBVIOUS
<1>5. WORD * p = 8 * (BLOCK * v)
  <2>1. ((8 * BLOCK) * w) * p = 8 * (BLOCK * (w * p))
    BY <1>1
  <2> QED BY <2>1, <1>2, <1>4
<1>6. PICK g \in Int : g = BLOCK * v
  BY <1>1
<1>7. PICK z \in Int : z = m - g
  OBVIOUS
<1>8. lo = 8 * z + 0
  BY <1>3, <1>5, <1>6, <1>7
<1>9. lo \div 8 = z
  BY <1>8, QuotientUnique
<1>10. PICK s \in 0..(BLOCK - 1), y \in Int : s = z % BLOCK /\ z = BLOCK * y + s
  BY <1>1, QuotientRemainder
<1>11. PICK k \in Int : k = v + y
  OBVIOUS
<1>12. BLOCK * k = g + BLOCK * y
  BY <1>1, <1>6, <1>11
<1>13. m = BLOCK * k + s
  BY <1>1, <1>7, <1>10, <1>12
<1>14. m % BLOCK = s
  BY <1>1, <1>13, QuotientUnique
<1> QED BY <1>3, <1>9, <1>10, <1>14 DEF Buffered

\* MD5Update counts the bits of len bytes more.
LEMMA CountedHolds ==
    ASSUME NEW c \in MdContexts, NEW m \in Nat, NEW len \in Nat, CountHolds(c, m)
    PROVE  /\ Counted(c, len) \in MdContexts /\ Counted(c, len).in = c.in
           /\ CountHolds(Counted(c, len), m + len)
<1>1. PICK W \in Nat \ {0} : W = WORD
  BY MdAssumption
<1>2. PICK a \in Nat, b \in Nat : a = 8 * m /\ b = 8 * len /\ a + b = 8 * (m + len)
  OBVIOUS
<1>3. PICK lo \in Nat, sum \in Nat :
        /\ lo = a % W /\ sum = (lo + (b % W)) % W /\ sum = (a + b) % W
        /\ (a + b) \div W = ((a \div W) + (IF sum < lo THEN 1 ELSE 0)) + (b \div W)
  BY SumCarries
<1>4. PICK p \in Int, q \in Int, k \in {0, 1}, hi \in Nat :
        p = a \div W /\ q = b \div W /\ k = (IF sum < lo THEN 1 ELSE 0) /\ hi = p % W
  <2>1. a \div W \in Int /\ b \div W \in Int
    OBVIOUS
  <2>2. (a \div W) % W \in Nat
    BY <2>1
  <2> QED BY <2>1, <2>2
<1>5. c.lo = lo /\ c.hi = hi
  BY <1>1, <1>2, <1>3, <1>4 DEF CountHolds
<1>6. ((hi + k) + q) % W = ((p + k) + q) % W
  <2>1. PICK n \in Int : n = k + q
    OBVIOUS
  <2>2. (hi + n) % W = (p + n) % W
    BY <1>4, RemainderOfSum
  <2>3. hi + n = (hi + k) + q /\ p + n = (p + k) + q
    BY <2>1
  <2> QED BY <2>2, <2>3
<1>7. PICK h \in Nat : h = ((hi + k) + q) % W
  OBVIOUS
<1>8. Counted(c, len) = [c EXCEPT !.lo = sum, !.hi = h]
  BY <1>1, <1>2, <1>3, <1>4, <1>5, <1>7 DEF Counted
<1>9. h = ((a + b) \div W) % W
  BY <1>3, <1>4, <1>6, <1>7
<1>10. Counted(c, len) \in MdContexts /\ Counted(c, len).in = c.in
       /\ Counted(c, len).lo = sum /\ Counted(c, len).hi = h
  BY <1>8 DEF MdContexts
<1> QED BY <1>1, <1>2, <1>3, <1>9, <1>10 DEF CountHolds

\* Block k of a sequence, of which there are as many as its length has.
LEMMA BlockOf ==
    ASSUME NEW all \in Seq(MdBytes), NEW k \in 1..(Len(all) \div BLOCK)
    PROVE  /\ SubSeq(all, (k - 1) * BLOCK + 1, k * BLOCK) \in MdBlocks
           /\ \A i \in Cells : /\ BLOCK * (k - 1) + i \in 1..Len(all)
                               /\ SubSeq(all, (k - 1) * BLOCK + 1, k * BLOCK)[i]
                                    = all[BLOCK * (k - 1) + i]
<1>1. PICK B \in Nat \ {0}, L \in Nat : B = BLOCK /\ L = Len(all)
  BY MdAssumption, LenProperties
<1>2. PICK q \in Int, r \in 0..(B - 1) : q = L \div B /\ L = B * q + r
  <2>1. L % B \in 0..(B - 1) /\ L \div B \in Int /\ L = B * (L \div B) + (L % B)
    BY QuotientRemainder
  <2> QED BY <2>1
<1>3. k \in Int /\ k >= 1 /\ k <= q
  BY <1>1, <1>2
<1>4. PICK p \in Int : p = B * (k - 1)
  BY <1>3
<1>5. (k - 1) * B = p /\ k * B = p + B
  BY <1>3, <1>4
<1>6. p >= 0 /\ p + B <= L
  <2>1. p >= 0
    <3>1. CASE k = 1
      BY <3>1, <1>4
    <3>2. CASE k # 1
      BY <3>2, <1>3, <1>4, ProductAtLeast
    <3> QED BY <3>1, <3>2
  <2>2. PICK d \in Int, e \in Int : d = q - k /\ e = B * d
    BY <1>3
  <2>3. B * q = (p + B) + e
    BY <1>3, <1>4, <2>2
  <2>4. e >= 0
    <3>1. CASE d = 0
      BY <3>1, <2>2
    <3>2. CASE d # 0
      BY <3>2, <1>3, <2>2, ProductAtLeast
    <3> QED BY <3>1, <3>2
  <2> QED BY <2>1, <2>3, <2>4, <1>2
<1>7. PICK s : s = SubSeq(all, p + 1, p + B)
  OBVIOUS
<1>8. \A i \in (p + 1)..(p + B) : all[i] \in MdBytes
  BY <1>1, <1>6, ElementOfSeq
<1>9. s \in Seq(MdBytes) /\ Len(s) = B
  <2>1. p + 1 <= p + B /\ ((p + B) - (p + 1)) + 1 = B /\ p + 1 \in Int /\ p + B \in Int
    BY <1>1
  <2> QED BY <1>1, <1>7, <1>8, <2>1, SubSeqProperties
<1>10. \A i \in 1..B : s[i] = all[p + i]
  BY <1>1, <1>6, <1>7
<1>11. s \in [1..B -> MdBytes]
  BY <1>9, LenProperties
<1>12. \A i \in 1..B : p + i \in 1..L
  BY <1>6
<1> QED BY <1>1, <1>4, <1>5, <1>7, <1>10, <1>11, <1>12 DEF MdBlocks, Cells

\* What the message has beyond its last whole block.
LEMMA RestOf ==
    ASSUME NEW all \in Seq(MdBytes), NEW n, n = Len(all) \div BLOCK
    PROVE  /\ SubSeq(all, n * BLOCK + 1, Len(all)) \in Seq(MdBytes)
           /\ Len(SubSeq(all, n * BLOCK + 1, Len(all))) = Len(all) % BLOCK
           /\ \A i \in 1..(Len(all) % BLOCK) :
                 /\ BLOCK * n + i \in 1..Len(all)
                 /\ SubSeq(all, n * BLOCK + 1, Len(all))[i] = all[BLOCK * n + i]
<1>1. PICK B \in Nat \ {0}, L \in Nat : B = BLOCK /\ L = Len(all)
  BY MdAssumption, LenProperties
<1>2. PICK r \in 0..(B - 1) : n \in Int /\ r = L % B /\ L = B * n + r
  <2>1. L % B \in 0..(B - 1) /\ L \div B \in Int /\ L = B * (L \div B) + (L % B)
    BY QuotientRemainder
  <2>2. n = L \div B
    BY <1>1
  <2> QED BY <2>1, <2>2
<1>3. n \in Nat
  BY <1>1, QuotientNat
<1>4. PICK p \in Nat : p = B * n /\ p = n * B
  BY <1>3
<1>5. L = p + r
  BY <1>2, <1>4
<1>6. PICK s : s = SubSeq(all, p + 1, L)
  OBVIOUS
<1>7. \A i \in (p + 1)..L : all[i] \in MdBytes
  BY <1>1, ElementOfSeq
<1>8. s \in Seq(MdBytes) /\ Len(s) = r
  <2>1. p + 1 \in Int /\ L \in Int /\ (p + 1 <= L => (L - (p + 1)) + 1 = r) /\ (~(p + 1 <= L) => r = 0)
    BY <1>5
  <2> QED BY <1>6, <1>7, <2>1, SubSeqProperties
<1>9. \A i \in 1..r : s[i] = all[p + i]
  BY <1>1, <1>5, <1>6
<1>10. \A i \in 1..r : p + i \in 1..L
  BY <1>5
<1> QED BY <1>1, <1>2, <1>4, <1>6, <1>8, <1>9, <1>10

\* memcpy writes what it is given and leaves the rest alone.
LEMMA PutBytes ==
    ASSUME NEW in \in MdBlocks, NEW at \in Nat, NEW s \in Seq(MdBytes)
    PROVE  /\ Put(in, at, s) \in MdBlocks
           /\ \A i \in Cells : i \in (at + 1)..(at + Len(s)) => Put(in, at, s)[i] = s[i - at]
           /\ \A i \in Cells : i \notin (at + 1)..(at + Len(s)) => Put(in, at, s)[i] = in[i]
<1>1. Len(s) \in Nat
  BY LenProperties
<1>2. \A i \in Cells : i \in (at + 1)..(at + Len(s)) => s[i - at] \in MdBytes
  BY <1>1, ElementOfSeq, MdAssumption DEF Cells
<1>3. \A i \in Cells : in[i] \in MdBytes
  BY DEF MdBlocks
<1> QED BY <1>2, <1>3 DEF Put, MdBlocks

\* Quotient and remainder of the message, when what is beyond its whole
\* blocks is taken together with what is added.
LEMMA LongerMessage ==
    ASSUME NEW B \in Nat \ {0}, NEW m \in Nat, NEW len \in Nat
    PROVE  /\ (m + len) \div B = (m \div B) + (((m % B) + len) \div B)
           /\ (m + len) % B = ((m % B) + len) % B
<1>1. PICK n \in Int, t \in 0..(B - 1) : n = m \div B /\ t = m % B /\ m = B * n + t
  <2>1. m % B \in 0..(B - 1) /\ m \div B \in Int /\ m = B * (m \div B) + (m % B)
    BY QuotientRemainder
  <2> QED BY <2>1
<1>2. PICK l \in Int : l = t + len
  OBVIOUS
<1>3. PICK k \in Int, r \in 0..(B - 1) : k = l \div B /\ r = l % B /\ l = B * k + r
  <2>1. l % B \in 0..(B - 1) /\ l \div B \in Int /\ l = B * (l \div B) + (l % B)
    BY QuotientRemainder
  <2> QED BY <2>1
<1>4. PICK g \in Int, h \in Int : g = B * n /\ h = B * k
  OBVIOUS
<1>5. PICK q \in Int, c \in Int : q = n + k /\ c = m + len
  OBVIOUS
<1>6. B * q = g + h
  BY <1>4, <1>5
<1>7. c = B * q + r
  <2>1. m = g + t /\ l = h + r
    BY <1>1, <1>3, <1>4
  <2>2. c = (g + h) + r
    BY <2>1, <1>2, <1>5
  <2> QED BY <2>2, <1>6
<1>8. c \div B = q /\ c % B = r
  BY <1>7, QuotientUnique
<1> QED BY <1>1, <1>2, <1>3, <1>5, <1>8

\* MD5Update keeps the message in the blocks and the buffer, whatever the
\* length of the piece and of what is buffered.
LEMMA UpdateStep ==
    ASSUME MdTypeOK, MessageHeld, NEW len \in Nat, MD5Update(len)
    PROVE  MdTypeOK' /\ MessageHeld' /\ final' = final
<1>1. PICK B \in Nat \ {0} : B = BLOCK
  BY MdAssumption
<1>2. /\ ctx \in MdContexts /\ blocks \in Seq(MdBlocks) /\ msgLen \in Nat /\ final \in BOOLEAN
      /\ ctx.in \in MdBlocks
  BY DEF MdTypeOK, MdContexts
<1>3. PICK n \in Nat, t \in 0..(B - 1), m \in Nat :
        /\ m = msgLen /\ n = msgLen \div BLOCK /\ t = msgLen % BLOCK /\ m = B * n + t
  <2>1. PICK m \in Nat : m = msgLen
    BY <1>2
  <2>2. m % B \in 0..(B - 1) /\ m = B * (m \div B) + (m % B)
    BY QuotientRemainder
  <2>3. m \div B \in Nat
    BY QuotientNat
  <2> QED BY <1>1, <2>1, <2>2, <2>3
<1>4. Buffered(ctx) = t
  BY <1>2, <1>3, BufferedBytes DEF MessageHeld
<1> DEFINE buf == [i \in 1..len |-> msgLen + i]
           head == [i \in 1..t |-> ctx.in[i]]
           all == head \o buf
           N == Len(all) \div BLOCK
           block(k) == SubSeq(all, (k - 1) * BLOCK + 1, k * BLOCK)
           last == IF N = 0 THEN ctx.in ELSE block(N)
           rest == SubSeq(all, N * BLOCK + 1, Len(all))
           more == [k \in 1..N |-> block(k)]
<1>5. /\ blocks' = blocks \o more
      /\ ctx' = [Counted(ctx, len) EXCEPT !.in = Put(last, 0, rest)]
      /\ msgLen' = msgLen + len
      /\ final' = final
  BY <1>4 DEF MD5Update
<1>6. /\ all \in Seq(MdBytes) /\ Len(all) = t + len
      /\ \A i \in 1..(t + len) : all[i] = B * n + i
  <2>1. /\ head \in Seq(MdBytes) /\ Len(head) = t
        /\ \A i \in 1..t : head[i] = B * n + i
    <3>1. \A i \in 1..t : i \in Cells
      BY <1>1 DEF Cells
    <3>2. head \in [1..t -> MdBytes]
      BY <1>2, <3>1 DEF MdBlocks
    <3>3. head \in Seq(MdBytes) /\ Len(head) = t
      BY <3>2
    <3>4. \A i \in 1..t : head[i] = B * n + i
      BY <1>1, <1>3 DEF MessageHeld, BufferHolds
    <3> QED BY <3>3, <3>4
  <2>2. /\ buf \in Seq(MdBytes) /\ Len(buf) = len
        /\ \A i \in 1..len : buf[i] = m + i
    <3>1. buf \in [1..len -> MdBytes]
      BY <1>2 DEF MdBytes
    <3>2. buf \in Seq(MdBytes) /\ Len(buf) = len
      BY <3>1
    <3> QED BY <3>2, <1>3
  <2> HIDE DEF head, buf
  <2>3. /\ all \in Seq(MdBytes) /\ Len(all) = Len(head) + Len(buf)
        /\ \A i \in 1..(Len(head) + Len(buf)) :
              all[i] = IF i <= Len(head) THEN head[i] ELSE buf[i - Len(head)]
    BY <2>1, <2>2, ConcatProperties
  <2>4. Len(all) = t + len
    BY <2>1, <2>2, <2>3
  <2>5. ASSUME NEW i \in 1..(t + len) PROVE all[i] = B * n + i
    <3>1. all[i] = IF i <= t THEN head[i] ELSE buf[i - t]
      BY <2>1, <2>2, <2>3
    <3>2. CASE i <= t
      BY <3>1, <3>2, <2>1
    <3>3. CASE ~(i <= t)
      <4>1. i - t \in 1..len
        BY <3>3
      <4>2. buf[i - t] = m + (i - t)
        BY <4>1, <2>2
      <4>3. PICK p \in Int : p = B * n
        OBVIOUS
      <4>4. m + (i - t) = p + i
        BY <4>3, <1>3
      <4> QED BY <3>1, <3>3, <4>2, <4>3, <4>4
    <3> QED BY <3>2, <3>3
  <2> QED BY <2>3, <2>4, <2>5
<1> HIDE DEF all
<1>7. PICK L \in Nat : L = Len(all) /\ L = t + len
  BY <1>6
<1>8. N \in Nat
  BY <1>1, <1>7, QuotientNat
<1>9. ASSUME NEW k \in 1..N
      PROVE  block(k) \in MdBlocks /\ \A i \in Cells : block(k)[i] = B * ((n + k) - 1) + i
  <2>1. /\ block(k) \in MdBlocks
        /\ \A i \in Cells : /\ BLOCK * (k - 1) + i \in 1..Len(all)
                            /\ block(k)[i] = all[BLOCK * (k - 1) + i]
    BY <1>6, BlockOf
  <2> HIDE DEF block, N
  <2>2. PICK g \in Int, h \in Int : g = B * n /\ h = B * (k - 1)
    BY <1>8
  <2>3. B * ((n + k) - 1) = g + h
    BY <2>2, <1>8
  <2>4. ASSUME NEW i \in Cells PROVE block(k)[i] = B * ((n + k) - 1) + i
    <3>1. h + i \in 1..(t + len) /\ block(k)[i] = all[h + i]
      BY <1>1, <1>7, <2>1, <2>2
    <3>2. all[h + i] = g + (h + i)
      BY <3>1, <2>2, <1>6
    <3>3. i \in Int
      BY <1>1 DEF Cells
    <3> QED BY <3>1, <3>2, <3>3, <2>3
  <2> QED BY <2>1, <2>4
<1>10. /\ rest \in Seq(MdBytes) /\ Len(rest) = L % B
       /\ \A i \in 1..(L % B) : rest[i] = B * (n + N) + i
  <2>1. /\ rest \in Seq(MdBytes) /\ Len(rest) = Len(all) % BLOCK
        /\ \A i \in 1..(Len(all) % BLOCK) : /\ BLOCK * N + i \in 1..Len(all)
                                            /\ rest[i] = all[BLOCK * N + i]
    BY <1>6, RestOf
  <2> HIDE DEF rest, N
  <2>2. PICK g \in Int, h \in Int : g = B * n /\ h = B * N
    BY <1>8
  <2>3. B * (n + N) = g + h
    BY <2>2, <1>8
  <2>4. ASSUME NEW i \in 1..(L % B) PROVE rest[i] = B * (n + N) + i
    <3>1. h + i \in 1..(t + len) /\ rest[i] = all[h + i]
      BY <1>1, <1>7, <2>1, <2>2
    <3>2. all[h + i] = g + (h + i)
      BY <3>1, <2>2, <1>6
    <3>3. i \in Int
      OBVIOUS
    <3> QED BY <3>1, <3>2, <3>3, <2>2, <2>3
  <2> QED BY <1>1, <1>7, <2>1, <2>4
<1>11. last \in MdBlocks
  <2>1. N # 0 => N \in 1..N
    BY <1>8
  <2> HIDE DEF block, N
  <2> QED BY <1>2, <1>9, <2>1
<1>12. more \in Seq(MdBlocks) /\ Len(more) = N /\ \A k \in 1..N : more[k] = block(k)
  <2> HIDE DEF block, N
  <2>1. more \in [1..N -> MdBlocks]
    BY <1>9
  <2>2. more \in Seq(MdBlocks) /\ Len(more) = N
    BY <1>8, <2>1
  <2> QED BY <2>2
<1> HIDE DEF block, N, last, rest, more
<1>13. /\ blocks' \in Seq(MdBlocks) /\ Len(blocks') = n + N
       /\ \A k \in 1..(n + N) : blocks'[k] = IF k <= n THEN blocks[k] ELSE more[k - n]
  <2>1. Len(blocks) = n
    BY <1>3 DEF MessageHeld, BlocksHold
  <2>2. /\ blocks \o more \in Seq(MdBlocks) /\ Len(blocks \o more) = Len(blocks) + Len(more)
        /\ \A k \in 1..(Len(blocks) + Len(more)) :
              (blocks \o more)[k] = IF k <= Len(blocks) THEN blocks[k] ELSE more[k - Len(blocks)]
    BY <1>2, <1>12, ConcatProperties
  <2> QED BY <1>5, <1>12, <2>1, <2>2
<1>14. BlocksHold(blocks', n + N)
  <2>1. ASSUME NEW k \in 1..(n + N), NEW i \in Cells PROVE blocks'[k][i] = B * (k - 1) + i
    <3>1. CASE k <= n
      <4>1. k \in 1..n
        BY <3>1, <1>8
      <4> QED BY <3>1, <4>1, <1>1, <1>3, <1>13 DEF MessageHeld, BlocksHold
    <3>2. CASE ~(k <= n)
      <4>1. PICK j \in 1..N : j = k - n /\ (n + j) - 1 = k - 1
        BY <3>2, <1>8
      <4>2. blocks'[k] = block(j)
        BY <3>2, <4>1, <1>12, <1>13
      <4> QED BY <4>1, <4>2, <1>9
    <3> QED BY <3>1, <3>2
  <2> QED BY <2>1, <1>1, <1>13 DEF BlocksHold
<1>15. PICK nm \in Nat : nm = m + len
  OBVIOUS
<1>16. nm \div B = n + N /\ nm % B = L % B
  <2>1. /\ (m + len) \div B = (m \div B) + (((m % B) + len) \div B)
        /\ (m + len) % B = ((m % B) + len) % B
    BY LongerMessage
  <2>2. m \div B = n /\ m % B = t /\ N = L \div B
    BY <1>1, <1>3, <1>7 DEF N
  <2> QED BY <2>1, <2>2, <1>7, <1>15
<1>17. /\ Counted(ctx, len) \in MdContexts /\ CountHolds(Counted(ctx, len), nm)
  BY <1>2, <1>3, <1>15, CountedHolds DEF MessageHeld
<1>18. PICK in \in MdBlocks :
         in = Put(last, 0, rest) /\ \A i \in 1..(L % B) : in[i] = B * (n + N) + i
  <2>1. /\ Put(last, 0, rest) \in MdBlocks
        /\ \A i \in Cells : i \in (0 + 1)..(0 + Len(rest)) => Put(last, 0, rest)[i] = rest[i - 0]
    BY <1>10, <1>11, PutBytes
  <2>2. L % B \in 0..(B - 1)
    BY QuotientRemainder
  <2>3. ASSUME NEW i \in 1..(L % B) PROVE Put(last, 0, rest)[i] = rest[i]
    <3>1. i \in Cells /\ i \in (0 + 1)..(0 + Len(rest)) /\ i - 0 = i
      BY <1>1, <1>10, <2>2 DEF Cells
    <3> QED BY <3>1, <2>1
  <2> QED BY <2>1, <2>3, <1>10
<1>19. PICK c \in MdContexts : c = Counted(ctx, len) /\ CountHolds(c, nm)
  BY <1>17
<1>20. ctx' \in MdContexts /\ ctx'.in = in /\ CountHolds(ctx', nm)
  <2>1. ctx' = [c EXCEPT !.in = in]
    BY <1>5, <1>18, <1>19
  <2>2. ctx' \in MdContexts /\ ctx'.in = in /\ ctx'.lo = c.lo /\ ctx'.hi = c.hi
    BY <2>1 DEF MdContexts
  <2> QED BY <2>2, <1>19 DEF CountHolds
<1>21. msgLen' = nm
  BY <1>3, <1>5, <1>15
<1>22. MdTypeOK'
  BY <1>2, <1>5, <1>13, <1>20, <1>21 DEF MdTypeOK
<1>23. BufferHolds(ctx'.in, BLOCK * (msgLen' \div BLOCK), msgLen' % BLOCK)
  BY <1>1, <1>16, <1>18, <1>20, <1>21 DEF BufferHolds
<1>24. BlocksHold(blocks', msgLen' \div BLOCK)
  BY <1>1, <1>14, <1>16, <1>21
<1>25. CountHolds(ctx', msgLen')
  BY <1>20, <1>21
<1>26. MessageHeld'
  BY <1>23, <1>24, <1>25 DEF MessageHeld
<1> QED BY <1>5, <1>22, <1>26

\* The zeros between the padding byte and the length.
LEMMA ZerosBetween ==
    ASSUME NEW B \in Nat \ {0}, NEW l \in Nat, l < B, NEW t \in 0..(B - 1)
    PROVE  (2 * B - l - 1 - t) % B
             = IF (B - 1 - t) < l THEN (B + (B - 1 - t)) - l ELSE (B - 1 - t) - l
<1>1. PICK z \in Int, x \in Int : z = 2 * B - l - 1 - t /\ x = (B - 1 - t) - l
  OBVIOUS
<1>2. CASE (B - 1 - t) < l
  <2>1. PICK s \in 0..(B - 1) : s = x + B
    BY <1>1, <1>2
  <2>2. z = B * 0 + s
    BY <1>1, <2>1
  <2>3. z % B = s
    BY <2>2, QuotientUnique
  <2>4. s = (B + (B - 1 - t)) - l
    BY <1>1, <2>1
  <2> QED BY <1>1, <1>2, <2>3, <2>4
<1>3. CASE ~((B - 1 - t) < l)
  <2>1. x \in 0..(B - 1)
    BY <1>1, <1>3
  <2>2. z = B * 1 + x
    BY <1>1
  <2>3. z % B = x
    BY <2>1, <2>2, QuotientUnique
  <2> QED BY <1>1, <1>3, <2>3
<1> QED BY <1>2, <1>3

\* Zeros and the length are sequences of bytes.
LEMMA FillBytes ==
    ASSUME NEW z \in Nat, NEW lo \in Nat, NEW hi \in Nat
    PROVE  /\ Zeros(z) \in Seq(MdBytes) /\ Len(Zeros(z)) = z
           /\ \A i \in 1..z : Zeros(z)[i] = 0
           /\ LengthField(lo, hi) \in Seq(MdBytes) /\ Len(LengthField(lo, hi)) = LENGTH
           /\ <<PadByte>> \in Seq(MdBytes) /\ Len(<<PadByte>>) = 1 /\ <<PadByte>>[1] = PadByte
<1>0. LENGTH \in Nat
  BY MdAssumption
<1>1. Zeros(z) \in [1..z -> MdBytes] /\ \A i \in 1..z : Zeros(z)[i] = 0
  BY DEF Zeros, MdBytes
<1>2. Zeros(z) \in Seq(MdBytes) /\ Len(Zeros(z)) = z
  BY <1>1
<1>3. LengthField(lo, hi) \in [1..LENGTH -> MdBytes]
  <2>1. ASSUME NEW i \in 1..LENGTH PROVE <<lo, i>> \in MdBytes /\ <<hi, i>> \in MdBytes
    BY <1>0 DEF MdBytes
  <2> QED BY <2>1 DEF LengthField
<1>4. LengthField(lo, hi) \in Seq(MdBytes) /\ Len(LengthField(lo, hi)) = LENGTH
  BY <1>0, <1>3
<1>5. <<PadByte>> \in Seq(MdBytes) /\ Len(<<PadByte>>) = 1 /\ <<PadByte>>[1] = PadByte
  <2>1. PadByte \in MdBytes
    BY DEF MdBytes
  <2> QED BY <2>1
<1> QED BY <1>1, <1>2, <1>4, <1>5

\* Byte i of a message of m bytes padded with z zeros and the length field f.
PaddedByte(m, z, f, i) ==
    IF i <= m THEN i
    ELSE IF i = m + 1 THEN PadByte
    ELSE IF i <= (m + 1) + z THEN 0
    ELSE f[i - ((m + 1) + z)]

\* That message.
PaddedWith(m, z, f) == [i \in 1..m |-> i] \o <<PadByte>> \o Zeros(z) \o f

PaddedIs(s, m, z, f) ==
    /\ s \in Seq(MdBytes) /\ Len(s) = ((m + 1) + z) + Len(f)
    /\ \A i \in 1..(((m + 1) + z) + Len(f)) : s[i] = PaddedByte(m, z, f, i)

\* The padded message, byte by byte.
LEMMA PaddedBytes ==
    ASSUME NEW m \in Nat, NEW z \in Nat, NEW f \in Seq(MdBytes), NEW s, s = PaddedWith(m, z, f)
    PROVE  PaddedIs(s, m, z, f)
<1>1. PICK a \in Seq(MdBytes) : a = [i \in 1..m |-> i] /\ Len(a) = m /\ \A i \in 1..m : a[i] = i
  <2>1. [i \in 1..m |-> i] \in [1..m -> MdBytes]
    BY DEF MdBytes
  <2>2. [i \in 1..m |-> i] \in Seq(MdBytes) /\ Len([i \in 1..m |-> i]) = m
    BY <2>1
  <2> QED BY <2>2
<1>2. PICK b \in Seq(MdBytes) : b = <<PadByte>> /\ Len(b) = 1 /\ b[1] = PadByte
  BY FillBytes
<1>3. PICK zs \in Seq(MdBytes) : zs = Zeros(z) /\ Len(zs) = z /\ \A i \in 1..z : zs[i] = 0
  BY FillBytes
<1>4. PICK ab \in Seq(MdBytes) :
        /\ ab = a \o b /\ Len(ab) = Len(a) + Len(b)
        /\ \A i \in 1..(Len(a) + Len(b)) : ab[i] = IF i <= Len(a) THEN a[i] ELSE b[i - Len(a)]
  <2>1. /\ a \o b \in Seq(MdBytes) /\ Len(a \o b) = Len(a) + Len(b)
        /\ \A i \in 1..(Len(a) + Len(b)) :
              (a \o b)[i] = IF i <= Len(a) THEN a[i] ELSE b[i - Len(a)]
    BY ConcatProperties
  <2> QED BY <2>1
<1>5. PICK abz \in Seq(MdBytes) :
        /\ abz = ab \o zs /\ Len(abz) = Len(ab) + Len(zs)
        /\ \A i \in 1..(Len(ab) + Len(zs)) : abz[i] = IF i <= Len(ab) THEN ab[i] ELSE zs[i - Len(ab)]
  <2>1. /\ ab \o zs \in Seq(MdBytes) /\ Len(ab \o zs) = Len(ab) + Len(zs)
        /\ \A i \in 1..(Len(ab) + Len(zs)) :
              (ab \o zs)[i] = IF i <= Len(ab) THEN ab[i] ELSE zs[i - Len(ab)]
    BY ConcatProperties
  <2> QED BY <2>1
<1>6. /\ abz \o f \in Seq(MdBytes) /\ Len(abz \o f) = Len(abz) + Len(f)
      /\ \A i \in 1..(Len(abz) + Len(f)) : (abz \o f)[i] = IF i <= Len(abz) THEN abz[i] ELSE f[i - Len(abz)]
  BY ConcatProperties
<1>7. s = abz \o f
  BY <1>1, <1>2, <1>3, <1>4, <1>5 DEF PaddedWith
<1>8. Len(ab) = m + 1 /\ Len(abz) = (m + 1) + z /\ Len(f) \in Nat
  BY <1>1, <1>2, <1>3, <1>4, <1>5, LenProperties
<1>9. s \in Seq(MdBytes) /\ Len(s) = ((m + 1) + z) + Len(f)
  BY <1>6, <1>7, <1>8
<1>10. ASSUME NEW i \in 1..(((m + 1) + z) + Len(f)) PROVE s[i] = PaddedByte(m, z, f, i)
  <2>0. i \in Int /\ i >= 1
    BY <1>8
  <2>1. s[i] = IF i <= (m + 1) + z THEN abz[i] ELSE f[i - ((m + 1) + z)]
    BY <1>6, <1>7, <1>8
  <2>2. CASE i <= m
    <3>1. i \in 1..m /\ i \in 1..(m + 1) /\ i \in 1..((m + 1) + z) /\ i <= m + 1 /\ i <= (m + 1) + z
      BY <2>0, <2>2
    <3>2. abz[i] = ab[i]
      BY <3>1, <1>3, <1>5, <1>8
    <3>3. ab[i] = a[i]
      BY <3>1, <1>1, <1>2, <1>4
    <3> QED BY <2>1, <2>2, <3>1, <3>2, <3>3, <1>1 DEF PaddedByte
  <2>3. CASE i = m + 1
    <3>1. i \in 1..(m + 1) /\ i \in 1..((m + 1) + z) /\ ~(i <= m) /\ i <= (m + 1) + z /\ i - m = 1
      BY <2>3
    <3>2. abz[i] = ab[i]
      BY <3>1, <2>3, <1>3, <1>5, <1>8
    <3>3. ab[i] = b[1]
      BY <3>1, <1>1, <1>2, <1>4
    <3> QED BY <2>1, <2>3, <3>1, <3>2, <3>3, <1>2 DEF PaddedByte
  <2>4. CASE i > m + 1 /\ i <= (m + 1) + z
    <3>1. i \in 1..((m + 1) + z) /\ ~(i <= m) /\ ~(i <= m + 1) /\ i # m + 1 /\ i - (m + 1) \in 1..z
      BY <2>0, <2>4
    <3>2. abz[i] = zs[i - (m + 1)]
      BY <3>1, <1>3, <1>5, <1>8
    <3>3. zs[i - (m + 1)] = 0
      BY <3>1, <1>3
    <3> QED BY <2>1, <2>4, <3>1, <3>2, <3>3 DEF PaddedByte
  <2>5. CASE i > (m + 1) + z
    <3>1. ~(i <= m) /\ i # m + 1 /\ ~(i <= (m + 1) + z)
      BY <2>0, <2>5
    <3> QED BY <2>1, <3>1 DEF PaddedByte
  <2>6. i <= m \/ i = m + 1 \/ (i > m + 1 /\ i <= (m + 1) + z) \/ i > (m + 1) + z
    BY <2>0
  <2> QED BY <2>2, <2>3, <2>4, <2>5, <2>6
<1> QED BY <1>9, <1>10 DEF PaddedIs

\* The blocks that MD5Final makes of the buffer: in has t bytes of the
\* message, f is the length.
FirstBlock(in, t, l) ==
    LET room == BLOCK - 1 - t
    IN  Put(Put(in, t, <<PadByte>>), t + 1, Zeros(IF room < l THEN room ELSE room - l))

FinalBlock(in, t, l, f) ==
    LET first == FirstBlock(in, t, l)
    IN  Put(IF BLOCK - 1 - t < l THEN Put(first, 0, Zeros(BLOCK - l)) ELSE first, BLOCK - l, f)

\* The first of two blocks is padded with zeros.
LEMMA FirstBlockBytes ==
    ASSUME NEW in \in MdBlocks, NEW t \in 0..(BLOCK - 1)
    PROVE  /\ FirstBlock(in, t, LENGTH) \in MdBlocks
           /\ \A c \in Cells : c <= t => FirstBlock(in, t, LENGTH)[c] = in[c]
           /\ \A c \in Cells : c = t + 1 => FirstBlock(in, t, LENGTH)[c] = PadByte
           /\ \A c \in Cells : c > t + 1 /\ (BLOCK - 1 - t < LENGTH \/ c <= BLOCK - LENGTH) =>
                 FirstBlock(in, t, LENGTH)[c] = 0
<1>1. PICK B \in Nat \ {0}, l \in Nat : B = BLOCK /\ l = LENGTH /\ l < B
  BY MdAssumption
<1>2. t \in Nat /\ t <= B - 1
  BY <1>1
<1>3. PICK room \in Nat : room = B - 1 - t
  BY <1>2
<1>4. PICK z \in Nat : z = IF room < l THEN room ELSE room - l
  <2>1. room < l \/ room - l \in Nat
    OBVIOUS
  <2> QED BY <2>1
<1>5. PICK zs \in Seq(MdBytes), b \in Seq(MdBytes) :
        /\ zs = Zeros(z) /\ Len(zs) = z /\ \A i \in 1..z : zs[i] = 0
        /\ b = <<PadByte>> /\ Len(b) = 1 /\ b[1] = PadByte
  BY FillBytes
<1>6. PICK p \in MdBlocks :
        /\ p = Put(in, t, b)
        /\ \A c \in Cells : c \in (t + 1)..(t + 1) => p[c] = b[c - t]
        /\ \A c \in Cells : c \notin (t + 1)..(t + 1) => p[c] = in[c]
  <2>1. /\ Put(in, t, b) \in MdBlocks
        /\ \A c \in Cells : c \in (t + 1)..(t + Len(b)) => Put(in, t, b)[c] = b[c - t]
        /\ \A c \in Cells : c \notin (t + 1)..(t + Len(b)) => Put(in, t, b)[c] = in[c]
    BY <1>2, PutBytes
  <2> QED BY <2>1, <1>5
<1>7. PICK u \in Nat : u = t + 1
  BY <1>2
<1>8. PICK q \in MdBlocks :
        /\ q = Put(p, u, zs)
        /\ \A c \in Cells : c \in (u + 1)..(u + z) => q[c] = zs[c - u]
        /\ \A c \in Cells : c \notin (u + 1)..(u + z) => q[c] = p[c]
  <2>1. /\ Put(p, u, zs) \in MdBlocks
        /\ \A c \in Cells : c \in (u + 1)..(u + Len(zs)) => Put(p, u, zs)[c] = zs[c - u]
        /\ \A c \in Cells : c \notin (u + 1)..(u + Len(zs)) => Put(p, u, zs)[c] = p[c]
    BY PutBytes
  <2> QED BY <2>1, <1>5
<1>9. q = FirstBlock(in, t, LENGTH)
  BY <1>1, <1>3, <1>4, <1>5, <1>6, <1>7, <1>8 DEF FirstBlock
<1>10. \A c \in Cells : c \in 1..B
  BY <1>1 DEF Cells
<1>11. ASSUME NEW c \in Cells, c <= t PROVE q[c] = in[c]
  <2>1. c \notin (t + 1)..(t + 1) /\ c \notin (u + 1)..(u + z)
    BY <1>2, <1>7, <1>10, <1>11
  <2> QED BY <2>1, <1>6, <1>8
<1>12. ASSUME NEW c \in Cells, c = t + 1 PROVE q[c] = PadByte
  <2>1. c \in (t + 1)..(t + 1) /\ c \notin (u + 1)..(u + z) /\ c - t = 1
    BY <1>2, <1>7, <1>10, <1>12
  <2> QED BY <2>1, <1>5, <1>6, <1>8
<1>13. ASSUME NEW c \in Cells, c > t + 1, BLOCK - 1 - t < LENGTH \/ c <= BLOCK - LENGTH
       PROVE  q[c] = 0
  <2>1. c \in (u + 1)..(u + z) /\ c - u \in 1..z
    <3>1. CASE room < l
      <4>1. u + z = B
        BY <3>1, <1>2, <1>3, <1>4, <1>7
      <4> QED BY <4>1, <1>2, <1>7, <1>10, <1>13
    <3>2. CASE ~(room < l)
      <4>1. u + z = B - l /\ c <= B - l
        BY <3>2, <1>1, <1>2, <1>3, <1>4, <1>7, <1>13
      <4> QED BY <4>1, <1>2, <1>7, <1>10, <1>13
    <3> QED BY <3>1, <3>2
  <2> QED BY <2>1, <1>5, <1>8
<1> QED BY <1>9, <1>11, <1>12, <1>13

\* The last block ends with the length.
LEMMA FinalBlockBytes ==
    ASSUME NEW in \in MdBlocks, NEW t \in 0..(BLOCK - 1),
           NEW f \in Seq(MdBytes), Len(f) = LENGTH
    PROVE  /\ FinalBlock(in, t, LENGTH, f) \in MdBlocks
           /\ \A c \in Cells : c > BLOCK - LENGTH =>
                 FinalBlock(in, t, LENGTH, f)[c] = f[c - (BLOCK - LENGTH)]
           /\ \A c \in Cells : c <= BLOCK - LENGTH =>
                 FinalBlock(in, t, LENGTH, f)[c] =
                    IF BLOCK - 1 - t < LENGTH THEN 0 ELSE FirstBlock(in, t, LENGTH)[c]
<1>1. PICK B \in Nat \ {0}, l \in Nat : B = BLOCK /\ l = LENGTH /\ l < B
  BY MdAssumption
<1>2. PICK fb \in MdBlocks : fb = FirstBlock(in, t, LENGTH)
  BY FirstBlockBytes
<1>3. PICK d \in Nat : d = B - l
  BY <1>1
<1>4. PICK zs \in Seq(MdBytes) : zs = Zeros(d) /\ Len(zs) = d /\ \A i \in 1..d : zs[i] = 0
  BY FillBytes
<1>5. PICK s \in MdBlocks :
        /\ s = Put(fb, 0, zs)
        /\ \A c \in Cells : c \in 1..d => s[c] = zs[c]
  <2>1. /\ Put(fb, 0, zs) \in MdBlocks
        /\ \A c \in Cells : c \in (0 + 1)..(0 + Len(zs)) => Put(fb, 0, zs)[c] = zs[c - 0]
    BY PutBytes
  <2>2. \A c \in Cells : c - 0 = c
    BY <1>1 DEF Cells
  <2> QED BY <2>1, <2>2, <1>4
<1>6. PICK g \in MdBlocks : g = IF BLOCK - 1 - t < LENGTH THEN s ELSE fb
  OBVIOUS
<1>7. PICK last \in MdBlocks :
        /\ last = Put(g, d, f)
        /\ \A c \in Cells : c \in (d + 1)..(d + l) => last[c] = f[c - d]
        /\ \A c \in Cells : c \notin (d + 1)..(d + l) => last[c] = g[c]
  <2>1. /\ Put(g, d, f) \in MdBlocks
        /\ \A c \in Cells : c \in (d + 1)..(d + Len(f)) => Put(g, d, f)[c] = f[c - d]
        /\ \A c \in Cells : c \notin (d + 1)..(d + Len(f)) => Put(g, d, f)[c] = g[c]
    BY PutBytes
  <2> QED BY <2>1, <1>1
<1>8. last = FinalBlock(in, t, LENGTH, f)
  BY <1>1, <1>2, <1>3, <1>4, <1>5, <1>6, <1>7 DEF FinalBlock
<1>9. \A c \in Cells : c \in 1..B
  BY <1>1 DEF Cells
<1>10. ASSUME NEW c \in Cells, c > BLOCK - LENGTH PROVE last[c] = f[c - (BLOCK - LENGTH)]
  <2>1. c \in (d + 1)..(d + l)
    BY <1>1, <1>3, <1>9, <1>10
  <2> QED BY <2>1, <1>1, <1>3, <1>7
<1>11. ASSUME NEW c \in Cells, c <= BLOCK - LENGTH
       PROVE  last[c] = IF BLOCK - 1 - t < LENGTH THEN 0 ELSE FirstBlock(in, t, LENGTH)[c]
  <2>1. c \notin (d + 1)..(d + l) /\ c \in 1..d
    BY <1>1, <1>3, <1>9, <1>11
  <2>2. last[c] = g[c] /\ s[c] = 0
    BY <2>1, <1>4, <1>5, <1>7
  <2> QED BY <2>2, <1>2, <1>6
<1> QED BY <1>8, <1>10, <1>11

\* The bytes of the blocks, in order, from the bytes of each.
LEMMA StreamOf ==
    ASSUME NEW bs \in Seq(MdBlocks), NEW s \in Seq(MdBytes), Len(s) = BLOCK * Len(bs),
           \A k \in 0..(Len(bs) - 1) : \A c \in Cells : bs[k + 1][c] = s[BLOCK * k + c]
    PROVE  [i \in 1..(BLOCK * Len(bs)) |->
               bs[((i - 1) \div BLOCK) + 1][((i - 1) % BLOCK) + 1]] = s
<1>1. PICK B \in Nat \ {0}, N \in Nat : B = BLOCK /\ N = Len(bs)
  <2>1. Len(bs) \in Nat
    BY LenProperties
  <2>2. BLOCK \in Nat \ {0}
    BY MdAssumption
  <2> QED BY <2>1, <2>2
<1>2. PICK T \in Nat : T = B * N /\ T = Len(s)
  BY <1>1, LenProperties
<1>3. ASSUME NEW i \in 1..T PROVE bs[((i - 1) \div B) + 1][((i - 1) % B) + 1] = s[i]
  <2>1. PICK x \in Nat : x = i - 1
    OBVIOUS
  <2>2. PICK k \in Int, r \in 0..(B - 1) : k = x \div B /\ r = x % B /\ x = B * k + r
    <3>1. x % B \in 0..(B - 1) /\ x \div B \in Int /\ x = B * (x \div B) + (x % B)
      BY QuotientRemainder
    <3> QED BY <3>1
  <2>3. k \in Nat
    BY <2>2, QuotientNat
  <2>4. k < N
    <3>1. SUFFICES ASSUME k >= N PROVE FALSE
      BY <2>3
    <3>2. PICK d \in Int, e \in Int : d = k - N /\ e = B * d
      OBVIOUS
    <3>3. e >= 0
      <4>1. CASE d = 0
        BY <3>2, <4>1
      <4>2. CASE d # 0
        BY <3>1, <3>2, <4>2, ProductAtLeast
      <4> QED BY <4>1, <4>2
    <3>4. B * k = T + e
      BY <3>2, <1>2
    <3> QED BY <3>3, <3>4, <2>1, <2>2
  <2>5. PICK c \in Cells : c = r + 1
    BY <1>1 DEF Cells
  <2>6. k \in 0..(N - 1)
    BY <2>3, <2>4
  <2>7. bs[k + 1][c] = s[B * k + c]
    BY <1>1, <2>6
  <2>8. B * k + c = i
    BY <2>1, <2>2, <2>5
  <2> QED BY <2>1, <2>2, <2>5, <2>7, <2>8
<1>4. s = [i \in 1..T |-> s[i]]
  BY <1>2, LenProperties
<1>5. [i \in 1..T |-> bs[((i - 1) \div B) + 1][((i - 1) % B) + 1]] = [i \in 1..T |-> s[i]]
  BY <1>3
<1> QED BY <1>1, <1>2, <1>4, <1>5

\* A message of m bytes has n whole blocks and t bytes more.
IsMessage(B, n, t, m) == m = B * n + t

\* What byte c of the last block of the padded message is, if one suffices.
OneBlock(B, l, n, t, m, z, f, c) ==
    /\ ((m + 1) + z) + l = B * (n + 1)
    /\ c <= t => PaddedByte(m, z, f, B * n + c) = B * n + c
    /\ c = t + 1 => PaddedByte(m, z, f, B * n + c) = PadByte
    /\ c > t + 1 /\ c <= B - l => PaddedByte(m, z, f, B * n + c) = 0
    /\ c > B - l => PaddedByte(m, z, f, B * n + c) = f[c - (B - l)]

\* What byte c of each of the last two blocks is, otherwise.
TwoBlocks(B, l, n, t, m, z, f, c) ==
    /\ ((m + 1) + z) + l = B * (n + 2)
    /\ c <= t => PaddedByte(m, z, f, B * n + c) = B * n + c
    /\ c = t + 1 => PaddedByte(m, z, f, B * n + c) = PadByte
    /\ c > t + 1 => PaddedByte(m, z, f, B * n + c) = 0
    /\ c <= B - l => PaddedByte(m, z, f, B * (n + 1) + c) = 0
    /\ c > B - l => PaddedByte(m, z, f, B * (n + 1) + c) = f[c - (B - l)]

\* What the padded message has in the block of the mark, when the length fits there.
LEMMA PaddedOneBlock ==
    ASSUME NEW B \in Nat \ {0}, NEW l \in Nat, NEW n \in Nat, NEW t \in 0..(B - 1),
           NEW m \in Nat, IsMessage(B, n, t, m), NEW z \in Nat, z = (B - 1 - t) - l, NEW f,
           NEW c \in 1..B
    PROVE  OneBlock(B, l, n, t, m, z, f, c)
<1>1. PICK p \in Int : p = B * n /\ B * (n + 1) = p + B
  OBVIOUS
<1>2. ((m + 1) + z) + l = p + B /\ m = p + t
  BY <1>1 DEF IsMessage
<1>3. c <= t => PaddedByte(m, z, f, p + c) = p + c
  BY <1>2 DEF PaddedByte
<1>4. c = t + 1 => PaddedByte(m, z, f, p + c) = PadByte
  BY <1>2 DEF PaddedByte
<1>5. c > t + 1 /\ c <= B - l => PaddedByte(m, z, f, p + c) = 0
  BY <1>2 DEF PaddedByte
<1>6. ASSUME c > B - l PROVE PaddedByte(m, z, f, p + c) = f[c - (B - l)]
  <2>1. /\ ~(p + c <= m) /\ p + c # m + 1 /\ ~(p + c <= (m + 1) + z)
        /\ (p + c) - ((m + 1) + z) = c - (B - l)
    BY <1>2, <1>6
  <2> QED BY <2>1 DEF PaddedByte
<1> QED BY <1>1, <1>2, <1>3, <1>4, <1>5, <1>6 DEF OneBlock

\* What it has in the block of the mark and in the next one, when it does not fit.
LEMMA PaddedTwoBlocks ==
    ASSUME NEW B \in Nat \ {0}, NEW l \in Nat, l < B, NEW n \in Nat, NEW t \in 0..(B - 1),
           NEW m \in Nat, IsMessage(B, n, t, m), NEW z \in Nat, z = (B + (B - 1 - t)) - l, NEW f,
           NEW c \in 1..B
    PROVE  TwoBlocks(B, l, n, t, m, z, f, c)
<1>1. PICK p \in Int : p = B * n /\ B * (n + 1) = p + B /\ B * (n + 2) = (p + B) + B
  OBVIOUS
<1>2. ((m + 1) + z) + l = (p + B) + B /\ m = p + t
  BY <1>1 DEF IsMessage
<1>3. c <= t => PaddedByte(m, z, f, p + c) = p + c
  BY <1>2 DEF PaddedByte
<1>4. c = t + 1 => PaddedByte(m, z, f, p + c) = PadByte
  BY <1>2 DEF PaddedByte
<1>5. c > t + 1 => PaddedByte(m, z, f, p + c) = 0
  BY <1>2 DEF PaddedByte
<1>6. c <= B - l => PaddedByte(m, z, f, (p + B) + c) = 0
  BY <1>2 DEF PaddedByte
<1>7. ASSUME c > B - l PROVE PaddedByte(m, z, f, (p + B) + c) = f[c - (B - l)]
  <2>1. /\ ~((p + B) + c <= m) /\ (p + B) + c # m + 1 /\ ~((p + B) + c <= (m + 1) + z)
        /\ ((p + B) + c) - ((m + 1) + z) = c - (B - l)
    BY <1>2, <1>7
  <2> QED BY <2>1 DEF PaddedByte
<1> QED BY <1>1, <1>2, <1>3, <1>4, <1>5, <1>6, <1>7 DEF TwoBlocks

\* MD5Final transforms the rest of the padded message, in one block or two.
LEMMA FinalStep ==
    ASSUME MdTypeOK, MessageHeld, MD5Final
    PROVE  MdTypeOK' /\ final' /\ (Stream = Padded)'
<1>1. PICK B \in Nat \ {0}, l \in Nat : B = BLOCK /\ l = LENGTH /\ l < B
  BY MdAssumption
<1>2. /\ ctx \in MdContexts /\ blocks \in Seq(MdBlocks) /\ msgLen \in Nat
      /\ ctx.in \in MdBlocks /\ ctx.lo \in Nat /\ ctx.hi \in Nat
  BY DEF MdTypeOK, MdContexts
<1>3. PICK n \in Nat, t \in 0..(B - 1), m \in Nat :
        /\ m = msgLen /\ n = msgLen \div BLOCK /\ t = msgLen % BLOCK /\ m = B * n + t
  <2>1. PICK m \in Nat : m = msgLen
    BY <1>2
  <2>2. m % B \in 0..(B - 1) /\ m = B * (m \div B) + (m % B)
    BY QuotientRemainder
  <2>3. m \div B \in Nat
    BY QuotientNat
  <2> QED BY <1>1, <2>1, <2>2, <2>3
<1>4. Buffered(ctx) = t
  BY <1>2, <1>3, BufferedBytes DEF MessageHeld
<1>5. PICK f \in Seq(MdBytes) :
        /\ f = LengthField(ctx.lo, ctx.hi) /\ Len(f) = LENGTH
        /\ f = LengthField((8 * m) % WORD, ((8 * m) \div WORD) % WORD)
  <2>1. ctx.lo = (8 * m) % WORD /\ ctx.hi = ((8 * m) \div WORD) % WORD
    BY <1>3 DEF MessageHeld, CountHolds
  <2>2. LengthField(ctx.lo, ctx.hi) \in Seq(MdBytes) /\ Len(LengthField(ctx.lo, ctx.hi)) = LENGTH
    BY <1>2, FillBytes
  <2> QED BY <2>1, <2>2
<1>6. PICK in \in MdBlocks : in = ctx.in /\ BufferHolds(in, B * n, t)
  BY <1>1, <1>2, <1>3 DEF MessageHeld
<1>7. PICK first \in MdBlocks, last \in MdBlocks :
        first = FirstBlock(in, t, LENGTH) /\ last = FinalBlock(in, t, LENGTH, f)
  BY <1>1, <1>5, FirstBlockBytes, FinalBlockBytes
<1>8. /\ blocks' = (blocks \o (IF B - 1 - t < l THEN <<first>> ELSE <<>>)) \o <<last>>
      /\ ctx' = [ctx EXCEPT !.in = last] /\ final' = TRUE /\ msgLen' = msgLen
  BY <1>1, <1>4, <1>5, <1>6, <1>7 DEF MD5Final, NeedsTwoBlocks, FirstBlock, FinalBlock
<1>9. Len(blocks) = n /\ \A k \in 1..n : \A c \in Cells : blocks[k][c] = B * (k - 1) + c
  BY <1>1, <1>3 DEF MessageHeld, BlocksHold
<1>10. ctx' \in MdContexts
  BY <1>2, <1>8 DEF MdContexts
<1>11. PICK z \in Nat :
         /\ z = (2 * BLOCK - LENGTH - 1 - (msgLen % BLOCK)) % BLOCK
         /\ z = IF (B - 1 - t) < l THEN (B + (B - 1 - t)) - l ELSE (B - 1 - t) - l
  <2>1. (2 * B - l - 1 - t) % B = IF (B - 1 - t) < l THEN (B + (B - 1 - t)) - l ELSE (B - 1 - t) - l
    BY <1>1, ZerosBetween
  <2>2. (IF (B - 1 - t) < l THEN (B + (B - 1 - t)) - l ELSE (B - 1 - t) - l) \in Nat
    BY <1>1
  <2> QED BY <2>1, <2>2, <1>1, <1>3
<1>12. PICK s \in Seq(MdBytes) :
         /\ s = Padded' /\ Len(s) = ((m + 1) + z) + l
         /\ \A i \in 1..(((m + 1) + z) + l) : s[i] = PaddedByte(m, z, f, i)
  <2>1. Padded' = PaddedWith(m, z, f)
    BY <1>3, <1>5, <1>8, <1>11 DEF Padded, PaddedWith
  <2>2. PICK s : s = PaddedWith(m, z, f)
    OBVIOUS
  <2>3. /\ s \in Seq(MdBytes) /\ Len(s) = ((m + 1) + z) + Len(f)
        /\ \A i \in 1..(((m + 1) + z) + Len(f)) : s[i] = PaddedByte(m, z, f, i)
    <3>1. PaddedIs(s, m, z, f)
      BY ONLY <2>2, m \in Nat, z \in Nat, f \in Seq(MdBytes), PaddedBytes
    <3> QED BY ONLY <3>1 DEF PaddedIs
  <2> QED BY <2>1, <2>2, <2>3, <1>1, <1>5
<1>13. /\ \A c \in Cells : c <= t => first[c] = in[c]
       /\ \A c \in Cells : c = t + 1 => first[c] = PadByte
       /\ \A c \in Cells : c > t + 1 /\ (B - 1 - t < l \/ c <= B - l) => first[c] = 0
  BY <1>1, <1>7, FirstBlockBytes
<1>14. /\ \A c \in Cells : c > B - l => last[c] = f[c - (B - l)]
       /\ \A c \in Cells : c <= B - l => last[c] = IF B - 1 - t < l THEN 0 ELSE first[c]
  <2>1. /\ \A c \in Cells : c > BLOCK - LENGTH => last[c] = f[c - (BLOCK - LENGTH)]
        /\ \A c \in Cells : c <= BLOCK - LENGTH =>
              last[c] = IF BLOCK - 1 - t < LENGTH THEN 0 ELSE FirstBlock(in, t, LENGTH)[c]
    <3>1. t \in 0..(BLOCK - 1)
      BY <1>1
    <3> QED BY <3>1, <1>5, <1>7, FinalBlockBytes
  <2> QED BY <2>1, <1>1, <1>7
<1>15. Cells = 1..B
  BY <1>1 DEF Cells
<1>16. \A c \in Cells : c <= t => in[c] = B * n + c
  BY <1>6, <1>15 DEF BufferHolds
\* Bytes of the blocks before the padding.
<1>17. ASSUME NEW k \in Nat, k < n, NEW c \in Cells
       PROVE  B * k + c <= m /\ B * k + c >= 1
  <2>1. PICK p \in Int, q \in Int, d \in Int, e \in Int :
          p = B * k /\ q = B * n /\ d = n - k /\ e = B * d
    OBVIOUS
  <2>2. q = p + e /\ e >= B
    BY <2>1, <1>17, ProductAtLeast
  <2>3. p >= 0
    BY <2>1
  <2>4. m = q + t /\ c \in 1..B
    BY <1>3, <1>15, <2>1
  <2> QED BY <2>1, <2>2, <2>3, <2>4
<1> DEFINE Total == ((m + 1) + z) + l
<1>18. Total \in Nat /\ Total > m
  OBVIOUS
<1>19. ASSUME NEW k \in Nat, k < n, NEW c \in Cells
       PROVE  blocks[k + 1][c] = PaddedByte(m, z, f, B * k + c) /\ B * k + c \in 1..Total
  <2>1. B * k + c <= m /\ B * k + c >= 1 /\ B * k + c \in Int
    <3>1. B * k + c <= m /\ B * k + c >= 1
      BY <1>17, <1>19
    <3>2. c \in Int /\ B * k \in Int
      BY <1>15
    <3> QED BY <3>1, <3>2
  <2>2. k + 1 \in 1..n /\ (k + 1) - 1 = k
    BY <1>19
  <2>3. blocks[k + 1][c] = B * k + c
    BY <2>2, <1>9
  <2> QED BY <2>1, <2>3, <1>18 DEF PaddedByte
<1> HIDE DEF Total
\* The stream, in each case.
<1> DEFINE Goal == blocks' \in Seq(MdBlocks) /\ Stream' = s
<1>20. ASSUME ~(B - 1 - t < l) PROVE Goal
  <2>1. /\ blocks' \in Seq(MdBlocks) /\ Len(blocks') = n + 1
        /\ \A k \in 1..n : blocks'[k] = blocks[k]
        /\ blocks'[n + 1] = last
    <3>1. blocks \o <<>> = blocks
      BY <1>2
    <3>2. blocks' = Append(blocks, last)
      BY <1>2, <1>8, <1>20, <3>1
    <3> QED BY <3>2, <1>2, <1>9, AppendProperties
  <2>2. z = (B - 1 - t) - l
    BY <1>11, <1>20
  <2>3. Total = B * (n + 1)
    <3>1. 1 \in 1..B
      OBVIOUS
    <3>2. IsMessage(B, n, t, m)
      BY <1>3 DEF IsMessage
    <3>3. OneBlock(B, l, n, t, m, z, f, 1)
      BY <3>1, <3>2, <2>2, PaddedOneBlock
    <3> QED BY <3>3 DEF OneBlock, Total
  <2>4. ASSUME NEW c \in 1..B PROVE last[c] = PaddedByte(m, z, f, B * n + c)
    <3>1. /\ c <= t => PaddedByte(m, z, f, B * n + c) = B * n + c
          /\ c = t + 1 => PaddedByte(m, z, f, B * n + c) = PadByte
          /\ c > t + 1 /\ c <= B - l => PaddedByte(m, z, f, B * n + c) = 0
          /\ c > B - l => PaddedByte(m, z, f, B * n + c) = f[c - (B - l)]
      <4>1. IsMessage(B, n, t, m)
        BY <1>3 DEF IsMessage
      <4>2. OneBlock(B, l, n, t, m, z, f, c)
        BY <4>1, <2>2, PaddedOneBlock
      <4> QED BY <4>2 DEF OneBlock
    <3>2. CASE c > B - l
      BY <3>1, <3>2, <1>14, <1>15
    <3>3. CASE c <= B - l
      <4>1. last[c] = first[c]
        BY <3>3, <1>14, <1>15, <1>20
      <4>2. CASE c <= t
        BY <4>1, <4>2, <3>1, <1>13, <1>15, <1>16
      <4>3. CASE c = t + 1
        BY <4>1, <4>3, <3>1, <1>13, <1>15
      <4>4. CASE c > t + 1
        BY <4>1, <4>4, <3>1, <3>3, <1>13, <1>15
      <4> QED BY <4>2, <4>3, <4>4
    <3> QED BY <1>1, <3>2, <3>3
  <2>5. \A k \in 0..n : \A c \in Cells : blocks'[k + 1][c] = s[B * k + c]
    <3>1. SUFFICES ASSUME NEW k \in 0..n, NEW c \in Cells
                   PROVE  blocks'[k + 1][c] = s[B * k + c]
      OBVIOUS
    <3>2. CASE k < n
      <4>1. k + 1 \in 1..n /\ k \in Nat
        BY <3>2
      <4>2. blocks'[k + 1] = blocks[k + 1]
        BY <4>1, <2>1
      <4> QED BY <3>2, <4>1, <4>2, <1>12, <1>19 DEF Total
    <3>3. CASE k = n
      <4>1. blocks'[k + 1][c] = PaddedByte(m, z, f, B * n + c)
        BY <3>3, <2>1, <2>4, <1>15
      <4>2. PICK p \in Nat : p = B * n /\ B * (n + 1) = p + B
        OBVIOUS
      <4>3. B * n + c \in 1..Total
        BY <4>2, <2>3, <1>15
      <4> QED BY <3>3, <4>1, <4>3, <1>12 DEF Total
    <3> QED BY <3>2, <3>3
  <2>6. Stream' = s
    <3>1. Len(s) = BLOCK * Len(blocks')
      BY <1>1, <1>12, <2>1, <2>3 DEF Total
    <3>2. \A k \in 0..(Len(blocks') - 1) : \A c \in Cells : blocks'[k + 1][c] = s[BLOCK * k + c]
      <4>1. Len(blocks') - 1 = n
        BY <2>1
      <4> QED BY <4>1, <2>5, <1>1
    <3>3. PICK bs \in Seq(MdBlocks) : bs = blocks'
      BY <2>1
    <3>4. /\ Len(s) = BLOCK * Len(bs)
          /\ \A k \in 0..(Len(bs) - 1) : \A c \in Cells : bs[k + 1][c] = s[BLOCK * k + c]
      BY <3>1, <3>2, <3>3
    <3>5. [i \in 1..(BLOCK * Len(bs)) |->
               bs[((i - 1) \div BLOCK) + 1][((i - 1) % BLOCK) + 1]] = s
      BY <3>4, StreamOf
    <3> QED BY <3>3, <3>5 DEF Stream
  <2> QED BY <2>1, <2>6
<1>21. ASSUME B - 1 - t < l PROVE Goal
  <2>1. /\ blocks' \in Seq(MdBlocks) /\ Len(blocks') = n + 2
        /\ \A k \in 1..n : blocks'[k] = blocks[k]
        /\ blocks'[n + 1] = first /\ blocks'[n + 2] = last
    <3>1. PICK bs \in Seq(MdBlocks) :
            /\ bs = blocks \o <<first>> /\ bs = Append(blocks, first)
            /\ Len(bs) = n + 1 /\ bs[n + 1] = first /\ \A k \in 1..n : bs[k] = blocks[k]
      <4>1. blocks \o <<first>> = Append(blocks, first)
        BY <1>2
      <4>2. /\ Append(blocks, first) \in Seq(MdBlocks)
            /\ Len(Append(blocks, first)) = n + 1 /\ Append(blocks, first)[n + 1] = first
            /\ \A k \in 1..n : Append(blocks, first)[k] = blocks[k]
        BY <1>2, <1>9, AppendProperties
      <4> QED BY <4>1, <4>2
    <3>2. blocks' = Append(bs, last)
      <4>1. blocks' = bs \o <<last>>
        BY <3>1, <1>8, <1>21
      <4>2. bs \o <<last>> = Append(bs, last)
        OBVIOUS
      <4> QED BY <4>1, <4>2
    <3>3. /\ Append(bs, last) \in Seq(MdBlocks) /\ Len(Append(bs, last)) = Len(bs) + 1
          /\ \A k \in 1..Len(bs) : Append(bs, last)[k] = bs[k]
          /\ Append(bs, last)[Len(bs) + 1] = last
      BY AppendProperties
    <3>4. (n + 1) + 1 = n + 2 /\ n + 1 \in 1..(n + 1) /\ \A k \in 1..n : k \in 1..(n + 1)
      OBVIOUS
    <3> QED BY <3>1, <3>2, <3>3, <3>4
  <2>2. z = (B + (B - 1 - t)) - l
    BY <1>11, <1>21
  <2>3. Total = B * (n + 2)
    <3>1. 1 \in 1..B
      OBVIOUS
    <3>2. IsMessage(B, n, t, m)
      BY <1>3 DEF IsMessage
    <3>3. TwoBlocks(B, l, n, t, m, z, f, 1)
      BY <3>1, <3>2, <1>1, <2>2, PaddedTwoBlocks
    <3> QED BY <3>3 DEF TwoBlocks, Total
  <2>4. ASSUME NEW c \in 1..B
        PROVE  /\ first[c] = PaddedByte(m, z, f, B * n + c)
               /\ last[c] = PaddedByte(m, z, f, B * (n + 1) + c)
    <3>1. /\ c <= t => PaddedByte(m, z, f, B * n + c) = B * n + c
          /\ c = t + 1 => PaddedByte(m, z, f, B * n + c) = PadByte
          /\ c > t + 1 => PaddedByte(m, z, f, B * n + c) = 0
          /\ c <= B - l => PaddedByte(m, z, f, B * (n + 1) + c) = 0
          /\ c > B - l => PaddedByte(m, z, f, B * (n + 1) + c) = f[c - (B - l)]
      <4>1. IsMessage(B, n, t, m)
        BY <1>3 DEF IsMessage
      <4>2. TwoBlocks(B, l, n, t, m, z, f, c)
        BY <4>1, <1>1, <2>2, PaddedTwoBlocks
      <4> QED BY <4>2 DEF TwoBlocks
    <3>2. first[c] = PaddedByte(m, z, f, B * n + c)
      <4>2. CASE c <= t
        BY <4>2, <3>1, <1>13, <1>15, <1>16
      <4>3. CASE c = t + 1
        BY <4>3, <3>1, <1>13, <1>15
      <4>4. CASE c > t + 1
        BY <4>4, <3>1, <1>13, <1>15, <1>21
      <4> QED BY <4>2, <4>3, <4>4
    <3>3. last[c] = PaddedByte(m, z, f, B * (n + 1) + c)
      <4>2. CASE c > B - l
        BY <4>2, <3>1, <1>14, <1>15
      <4>3. CASE c <= B - l
        BY <4>3, <3>1, <1>14, <1>15, <1>21
      <4> QED BY <1>1, <4>2, <4>3
    <3> QED BY <3>2, <3>3
  <2>5. \A k \in 0..(n + 1) : \A c \in Cells : blocks'[k + 1][c] = s[B * k + c]
    <3>1. SUFFICES ASSUME NEW k \in 0..(n + 1), NEW c \in Cells
                   PROVE  blocks'[k + 1][c] = s[B * k + c]
      OBVIOUS
    <3>2. CASE k < n
      <4>1. k + 1 \in 1..n /\ k \in Nat
        BY <3>2
      <4>2. blocks'[k + 1] = blocks[k + 1]
        BY <4>1, <2>1
      <4> QED BY <3>2, <4>1, <4>2, <1>12, <1>19 DEF Total
    <3>3. PICK p \in Nat : p = B * n /\ B * (n + 1) = p + B /\ B * (n + 2) = (p + B) + B
      OBVIOUS
    <3>4. CASE k = n
      <4>1. blocks'[k + 1][c] = PaddedByte(m, z, f, B * n + c)
        BY <3>4, <2>1, <2>4, <1>15
      <4>3. B * n + c \in 1..Total
        BY <3>3, <2>3, <1>15
      <4> QED BY <3>4, <4>1, <4>3, <1>12 DEF Total
    <3>5. CASE k = n + 1
      <4>0. k + 1 = n + 2
        BY <3>5
      <4>1. blocks'[k + 1][c] = PaddedByte(m, z, f, B * (n + 1) + c)
        BY <4>0, <2>1, <2>4, <1>15
      <4>3. B * (n + 1) + c \in 1..Total
        BY <3>3, <2>3, <1>15
      <4> QED BY <3>5, <4>1, <4>3, <1>12 DEF Total
    <3> QED BY <3>2, <3>4, <3>5
  <2>6. Stream' = s
    <3>1. Len(s) = BLOCK * Len(blocks')
      BY <1>1, <1>12, <2>1, <2>3 DEF Total
    <3>2. \A k \in 0..(Len(blocks') - 1) : \A c \in Cells : blocks'[k + 1][c] = s[BLOCK * k + c]
      <4>1. Len(blocks') - 1 = n + 1
        BY <2>1
      <4> QED BY <4>1, <2>5, <1>1
    <3>3. PICK bs \in Seq(MdBlocks) : bs = blocks'
      BY <2>1
    <3>4. /\ Len(s) = BLOCK * Len(bs)
          /\ \A k \in 0..(Len(bs) - 1) : \A c \in Cells : bs[k + 1][c] = s[BLOCK * k + c]
      BY <3>1, <3>2, <3>3
    <3>5. [i \in 1..(BLOCK * Len(bs)) |->
               bs[((i - 1) \div BLOCK) + 1][((i - 1) % BLOCK) + 1]] = s
      BY <3>4, StreamOf
    <3> QED BY <3>3, <3>5 DEF Stream
  <2> QED BY <2>1, <2>6
<1>22. blocks' \in Seq(MdBlocks) /\ Stream' = s
  BY <1>20, <1>21
<1>23. MdTypeOK'
  BY <1>2, <1>8, <1>10, <1>22 DEF MdTypeOK
<1>24. (Stream = Padded)'
  BY <1>12, <1>22
<1> QED BY <1>8, <1>23, <1>24

\* A context after MD5Init holds the empty message.
LEMMA EmptyMessageHeld ==
    ASSUME NEW c \in MdContexts, c.lo = 0, c.hi = 0
    PROVE  /\ BlocksHold(<<>>, 0 \div BLOCK)
           /\ BufferHolds(c.in, BLOCK * (0 \div BLOCK), 0 % BLOCK)
           /\ CountHolds(c, 0)
<1>1. PICK B \in Nat \ {0}, W \in Nat \ {0} : B = BLOCK /\ W = WORD
  BY MdAssumption
<1>2. 0 \div B = 0 /\ 0 % B = 0 /\ 0 \div W = 0 /\ 0 % W = 0
  <2>1. 0 = B * 0 + 0 /\ 0 = W * 0 + 0
    OBVIOUS
  <2> QED BY <2>1, QuotientUnique
<1>3. Len(<<>>) = 0 /\ 1..0 = {} /\ 8 * 0 = 0
  OBVIOUS
<1> QED BY <1>1, <1>2, <1>3 DEF BlocksHold, BufferHolds, CountHolds

\* MD5Init holds none of the empty message.
LEMMA MdInvInit == MD5Init => MdInv
<1> SUFFICES ASSUME MD5Init PROVE MdInv
  OBVIOUS
<1>1. ctx \in MdContexts /\ ctx.lo = 0 /\ ctx.hi = 0
  <2>1. [i \in Cells |-> 0] \in MdBlocks
    BY DEF MdBlocks, MdBytes
  <2> QED BY <2>1 DEF MD5Init, MdContexts
<1>2. MdTypeOK
  <2>1. <<>> \in Seq(MdBlocks)
    OBVIOUS
  <2> QED BY <1>1, <2>1 DEF MD5Init, MdTypeOK
<1>3. MessageHeld
  BY <1>1, EmptyMessageHeld DEF MD5Init, MessageHeld
<1> QED BY <1>2, <1>3 DEF MdInv, MD5Init, TransformsPaddedMessage

\* Each call of MD5Update and MD5Final preserves the invariant.
LEMMA MdInvStep == MdInv /\ [MdNext]_mdVars => MdInv'
<1> SUFFICES ASSUME MdInv, [MdNext]_mdVars PROVE MdInv'
  OBVIOUS
<1>1. ASSUME NEW len \in 0..(MaxBytes - msgLen), MD5Update(len) PROVE MdInv'
  <2>1. ~final /\ MdTypeOK /\ MessageHeld
    BY <1>1 DEF MD5Update, MdInv
  <2>2. len \in Nat
    BY <2>1, MdAssumption DEF MdTypeOK
  <2>3. MdTypeOK' /\ MessageHeld' /\ final' = final
    BY <1>1, <2>1, <2>2, UpdateStep
  <2> QED BY <2>1, <2>3 DEF MdInv, TransformsPaddedMessage
<1>2. ASSUME MD5Final PROVE MdInv'
  <2>1. ~final /\ MdTypeOK /\ MessageHeld
    BY <1>2 DEF MD5Final, MdInv
  <2>2. MdTypeOK' /\ final' /\ (Stream = Padded)'
    BY <1>2, <2>1, FinalStep
  <2> QED BY <2>2 DEF MdInv, TransformsPaddedMessage
<1>3. ASSUME Again PROVE MdInv'
  <2>1. ctx \in MdContexts
    BY DEF MdInv, MdTypeOK
  <2>2. PICK c \in MdContexts : c = ctx' /\ c.lo = 0 /\ c.hi = 0
    <3>1. ctx' = [ctx EXCEPT !.lo = 0, !.hi = 0]
      BY <1>3 DEF Again
    <3>2. ctx' \in MdContexts /\ ctx'.lo = 0 /\ ctx'.hi = 0
      BY <2>1, <3>1 DEF MdContexts
    <3> QED BY <3>2
  <2>3. blocks' = <<>> /\ msgLen' = 0 /\ final' = FALSE
    BY <1>3 DEF Again
  <2>4. MdTypeOK'
    <3>1. <<>> \in Seq(MdBlocks)
      OBVIOUS
    <3> QED BY <2>2, <2>3, <3>1 DEF MdTypeOK
  <2>5. MessageHeld'
    BY <2>2, <2>3, EmptyMessageHeld DEF MessageHeld
  <2> QED BY <2>3, <2>4, <2>5 DEF MdInv, TransformsPaddedMessage
<1>4. CASE UNCHANGED mdVars
  BY <1>4 DEF mdVars, MdInv, MdTypeOK, MessageHeld, TransformsPaddedMessage, Stream, Padded
<1> QED BY <1>1, <1>2, <1>3, <1>4 DEF MdNext

\* MD5Update and MD5Final transform the padded message of RFC 1321, for
\* messages of any length that come in pieces of any length, whatever the
\* sizes of blocks, of words and of the length field.
THEOREM Md5Padding == MdSpec => []TransformsPaddedMessage
<1>1. MdInv => TransformsPaddedMessage
  BY DEF MdInv
<1> QED BY MdInvInit, MdInvStep, <1>1, PTL DEF MdSpec
-----------------------------------------------------------------------------
(* Induction.                                                              *)

\* A set of naturals has a least element.
LEMMA LeastOf ==
    ASSUME NEW S, S \subseteq Nat, S # {}
    PROVE  \E x \in S : \A y \in S : x <= y
  <1>1. PICK x \in S : \A y \in S : ~(<<y, x>> \in OpToRel(<, Nat))
    BY NatLessThanWellFounded, WFMin
  <1>2. \A y \in S : ~(y < x)
    BY <1>1 DEF OpToRel
  <1> QED
    BY <1>2

\* Induction over the naturals, for a set.
LEMMA SetInduction ==
    ASSUME NEW S, 0 \in S, \A n \in Nat : n \in S => n + 1 \in S
    PROVE  \A n \in Nat : n \in S
  <1> SUFFICES ASSUME NEW n \in Nat, n \notin S PROVE FALSE
    OBVIOUS
  <1>1. PICK T : T = {k \in Nat : k \notin S}
    OBVIOUS
  <1>2. T \subseteq Nat /\ T # {}
    BY <1>1
  <1>3. PICK b \in T : \A k \in T : b <= k
    BY <1>2, LeastOf
  <1>4. b \in Nat /\ b # 0 /\ b \notin S
    BY <1>1, <1>3
  <1>5. b - 1 \in Nat /\ b - 1 \notin T
    BY <1>3, <1>4
  <1>6. b - 1 \in S
    BY <1>1, <1>5
  <1>7. (b - 1) + 1 \in S
    BY <1>5, <1>6
  <1> QED
    BY <1>4, <1>7

-----------------------------------------------------------------------------
(* Sums.                                                                   *)

\* One step of the fold behind SumFunction, and the function it defines.
AnyIn(s) == CHOOSE x \in s : TRUE
SumBody(g, f, s) == IF s = {} THEN 0 ELSE f[AnyIn(s)] + g[s \ {AnyIn(s)}]
SumFun(g, f, D) == [s \in SUBSET D |-> SumBody(g, f, s)]

\* What the fold of the library stands for.
LEMMA SumUnfolds ==
    ASSUME NEW f, NEW D, D = DOMAIN f
    PROVE  SumFunction(f) = (CHOOSE g : g = SumFun(g, f, D))[D]
  BY DEF SumFunction, SumFunctionOnSet, FoldFunctionOnSet, MapThenFoldSet, SumFun, SumBody, AnyIn

\* The step, subset by subset.
LEMMA SumFunAt ==
    ASSUME NEW f, NEW D, NEW g, NEW h, h = SumFun(g, f, D), NEW s \in SUBSET D
    PROVE  h[s] = SumBody(g, f, s)
  BY DEF SumFun

\* The element the fold takes.
LEMMA AnyOf == ASSUME NEW s, s # {} PROVE AnyIn(s) \in s
  BY DEF AnyIn

\* Finite sets, one element less.
LEMMA LessOne ==
    ASSUME NEW D, IsFiniteSet(D), NEW s \in SUBSET D
    PROVE  /\ IsFiniteSet(s) /\ Cardinality(s) \in Nat /\ Cardinality(s) <= Cardinality(D)
           /\ Cardinality(s) = 0 <=> s = {}
           /\ \A x \in s : s \ {x} \in SUBSET D /\ Cardinality(s \ {x}) = Cardinality(s) - 1
  BY FS_Subset, FS_CardinalityType, FS_EmptySet, FS_RemoveElement

SummedUpTo(g, f, D, d) == \A s \in SUBSET D : Cardinality(s) <= d => g[s] = SumBody(g, f, s)

\* The fold is defined.
LEMMA SumExists ==
    ASSUME NEW D, IsFiniteSet(D), NEW f
    PROVE  \E g : g = SumFun(g, f, D)
  <1>0. Cardinality(D) \in Nat
    BY FS_CardinalityType
  <1>1. PICK S : S = {d \in Nat : \E g : SummedUpTo(g, f, D, d)}
    OBVIOUS
  <1>2. ASSUME NEW g, NEW h, h = SumFun(g, f, D), NEW s \in SUBSET D,
               \A r \in SUBSET D : Cardinality(r) < Cardinality(s) => g[r] = h[r]
        PROVE  SumBody(g, f, s) = SumBody(h, f, s)
    <2>1. CASE s = {}
      BY <2>1 DEF SumBody
    <2>2. CASE s # {}
      <3>1. AnyIn(s) \in s
        BY <2>2, AnyOf
      <3>2. s \ {AnyIn(s)} \in SUBSET D /\ Cardinality(s \ {AnyIn(s)}) < Cardinality(s)
        BY <3>1, LessOne
      <3>3. g[s \ {AnyIn(s)}] = h[s \ {AnyIn(s)}]
        BY <1>2, <3>2
      <3> QED
        BY <3>3 DEF SumBody
    <2> QED
      BY <2>1, <2>2
  <1>3. ASSUME NEW g, NEW h, h = SumFun(g, f, D), NEW d \in Nat, SummedUpTo(g, f, D, d)
        PROVE  SummedUpTo(h, f, D, d + 1)
    <2> SUFFICES ASSUME NEW s \in SUBSET D, Cardinality(s) <= d + 1
                 PROVE  h[s] = SumBody(h, f, s)
      BY DEF SummedUpTo
    <2>1. h[s] = SumBody(g, f, s)
      BY <1>3, SumFunAt
    <2>2. ASSUME NEW r \in SUBSET D, Cardinality(r) < Cardinality(s) PROVE g[r] = h[r]
      <3>1. h[r] = SumBody(g, f, r)
        BY <1>3, SumFunAt
      <3>2. Cardinality(r) \in Nat /\ Cardinality(s) \in Nat
        BY LessOne
      <3>3. Cardinality(r) <= d
        BY <2>2, <3>2
      <3>4. g[r] = SumBody(g, f, r)
        BY <1>3, <3>3 DEF SummedUpTo
      <3> QED
        BY <3>1, <3>4
    <2>3. SumBody(g, f, s) = SumBody(h, f, s)
      BY <1>2, <1>3, <2>2
    <2> QED
      BY <2>1, <2>3
  <1>4. 0 \in S
    <2>1. PICK h : h = SumFun(0, f, D)
      OBVIOUS
    <2>2. SummedUpTo(h, f, D, 0)
      <3> SUFFICES ASSUME NEW s \in SUBSET D, Cardinality(s) <= 0
                   PROVE  h[s] = SumBody(h, f, s)
        BY DEF SummedUpTo
      <3>1. h[s] = SumBody(0, f, s)
        BY <2>1, SumFunAt
      <3>2. s = {}
        BY LessOne
      <3> QED
        BY <3>1, <3>2 DEF SumBody
    <2> QED
      BY <1>1, <2>2
  <1>5. ASSUME NEW d \in Nat, d \in S PROVE d + 1 \in S
    <2>1. PICK g : SummedUpTo(g, f, D, d)
      BY <1>1, <1>5
    <2>2. PICK h : h = SumFun(g, f, D)
      OBVIOUS
    <2>3. SummedUpTo(h, f, D, d + 1)
      BY <1>3, <2>1, <2>2
    <2> QED
      BY <1>1, <2>3
  <1>6. Cardinality(D) \in S
    BY <1>0, <1>4, <1>5, SetInduction
  <1>7. PICK g : SummedUpTo(g, f, D, Cardinality(D))
    BY <1>1, <1>6
  <1>8. PICK h : h = SumFun(g, f, D)
    OBVIOUS
  <1>9. ASSUME NEW s \in SUBSET D PROVE g[s] = h[s]
    <2>1. Cardinality(s) <= Cardinality(D)
      BY LessOne
    <2>2. g[s] = SumBody(g, f, s)
      BY <1>7, <2>1 DEF SummedUpTo
    <2> QED
      BY <1>8, <2>2, SumFunAt
  <1>10. ASSUME NEW s \in SUBSET D PROVE SumBody(g, f, s) = SumBody(h, f, s)
    BY <1>2, <1>8, <1>9
  <1>11. SumFun(g, f, D) = SumFun(h, f, D)
    BY <1>10 DEF SumFun
  <1> QED
    BY <1>8, <1>11

\* g gives the sums of f over the subsets of D, whatever the order.
SumsOf(g, f, D) ==
    /\ g[{}] = 0
    /\ \A s \in SUBSET D : g[s] \in Int /\ \A x \in s : g[s] = f[x] + g[s \ {x}]

\* The order in which the fold takes the elements does not matter.
LEMMA SumIs ==
    ASSUME NEW D, IsFiniteSet(D), NEW f \in [D -> Int]
    PROVE  \E g : SumsOf(g, f, D) /\ SumFunction(f) = g[D]
  <1>1. PICK g : g = SumFun(g, f, D) /\ SumFunction(f) = g[D]
    <2>1. \E g : g = SumFun(g, f, D)
      BY SumExists
    <2>2. PICK g : g = CHOOSE h : h = SumFun(h, f, D)
      OBVIOUS
    <2>3. g = SumFun(g, f, D)
      BY <2>1, <2>2
    <2>4. D = DOMAIN f
      OBVIOUS
    <2> QED
      BY <2>2, <2>3, <2>4, SumUnfolds
  <1>2. ASSUME NEW s \in SUBSET D PROVE g[s] = SumBody(g, f, s)
    BY <1>1, SumFunAt
  <1> DEFINE Good(s) == g[s] \in Int /\ \A x \in s : g[s] = f[x] + g[s \ {x}]
  <1>3. g[{}] = 0
    BY <1>2 DEF SumBody
  <1>4. ASSUME NEW s \in SUBSET D, \A r \in SUBSET D : Cardinality(r) < Cardinality(s) => Good(r)
        PROVE  Good(s)
    <2>1. CASE s = {}
      BY <1>3, <2>1
    <2>2. CASE s # {}
      <3>1. PICK a \in s : a = AnyIn(s)
        BY <2>2, AnyOf
      <3>2. g[s] = f[a] + g[s \ {a}]
        BY <1>2, <2>2, <3>1 DEF SumBody
      <3>3. ASSUME NEW x \in s PROVE Good(s \ {x})
        <4>1. s \ {x} \in SUBSET D /\ Cardinality(s \ {x}) < Cardinality(s)
          BY LessOne
        <4> QED
          BY <1>4, <4>1
      <3>4. f[a] \in Int /\ g[s \ {a}] \in Int
        BY <3>3
      <3>5. g[s] \in Int
        BY <3>2, <3>4
      <3>6. ASSUME NEW x \in s, x # a PROVE g[s] = f[x] + g[s \ {x}]
        <4>1. PICK r : r = (s \ {a}) \ {x} /\ r = (s \ {x}) \ {a}
          OBVIOUS
        <4>2. x \in s \ {a} /\ a \in s \ {x}
          BY <3>6
        <4>3. g[s \ {a}] = f[x] + g[r]
          BY <3>3, <4>1, <4>2
        <4>4. g[s \ {x}] = f[a] + g[r]
          BY <3>3, <4>1, <4>2
        <4>5. f[x] \in Int /\ r \in SUBSET D /\ Cardinality(r) < Cardinality(s)
          <5>1. s \ {a} \in SUBSET D /\ Cardinality(s \ {a}) = Cardinality(s) - 1 /\ Cardinality(s) \in Nat
            BY LessOne
          <5>2. PICK q \in SUBSET D : q = s \ {a}
            BY <5>1
          <5>3. q \ {x} \in SUBSET D /\ Cardinality(q \ {x}) = Cardinality(q) - 1
            BY <4>2, <5>2, LessOne
          <5>4. r = q \ {x}
            BY <4>1, <5>2
          <5> QED
            BY <5>1, <5>2, <5>3, <5>4
        <4>6. g[r] \in Int
          BY <1>4, <4>5
        <4> QED
          BY <3>2, <3>4, <4>3, <4>4, <4>5, <4>6
      <3> QED
        BY <3>2, <3>5, <3>6
    <2> QED
      BY <2>1, <2>2
  <1> HIDE DEF Good
  <1>5. PICK S : S = {d \in Nat : \A s \in SUBSET D : Cardinality(s) <= d => Good(s)}
    OBVIOUS
  <1>6. 0 \in S
    <2>1. ASSUME NEW s \in SUBSET D, Cardinality(s) <= 0 PROVE Good(s)
      <3>1. ASSUME NEW r \in SUBSET D PROVE ~(Cardinality(r) < Cardinality(s))
        <4>1. Cardinality(r) \in Nat /\ Cardinality(s) \in Nat
          BY LessOne
        <4> QED
          BY <2>1, <4>1
      <3> QED
        BY <1>4, <3>1
    <2> QED
      BY <1>5, <2>1
  <1>7. ASSUME NEW d \in Nat, d \in S PROVE d + 1 \in S
    <2>1. ASSUME NEW s \in SUBSET D, Cardinality(s) <= d + 1 PROVE Good(s)
      <3>1. ASSUME NEW r \in SUBSET D, Cardinality(r) < Cardinality(s) PROVE Good(r)
        <4>1. Cardinality(r) \in Nat /\ Cardinality(s) \in Nat
          BY LessOne
        <4>2. Cardinality(r) <= d
          BY <2>1, <3>1, <4>1
        <4> QED
          BY <1>5, <1>7, <4>2
      <3> QED
        BY <1>4, <3>1
    <2> QED
      BY <1>5, <2>1
  <1>8. Cardinality(D) \in S
    <2>1. Cardinality(D) \in Nat
      BY FS_CardinalityType
    <2> QED
      BY <1>6, <1>7, <2>1, SetInduction
  <1>9. \A s \in SUBSET D : Good(s)
    BY <1>5, <1>8, LessOne
  <1> QED
    BY <1>1, <1>3, <1>9 DEF Good, SumsOf

\* A bound on every element bounds the sum.
LEMMA SumBounds ==
    ASSUME NEW D, IsFiniteSet(D), NEW f \in [D -> Int], NEW m \in Nat, \A x \in D : f[x] \in 0..m
    PROVE  SumFunction(f) \in 0..(Cardinality(D) * m)
  <1>1. PICK g : SumsOf(g, f, D) /\ SumFunction(f) = g[D]
    BY SumIs
  <1>2. PICK S : S = {d \in Nat : \A s \in SUBSET D : Cardinality(s) = d => g[s] \in 0..(d * m)}
    OBVIOUS
  <1>3. 0 \in S
    <2>1. \A s \in SUBSET D : Cardinality(s) = 0 => g[s] = 0
      BY <1>1, LessOne DEF SumsOf
    <2>2. 0 \in 0..(0 * m)
      OBVIOUS
    <2> QED
      BY <1>2, <2>1, <2>2
  <1>4. ASSUME NEW d \in Nat, d \in S PROVE d + 1 \in S
    <2>1. ASSUME NEW s \in SUBSET D, Cardinality(s) = d + 1 PROVE g[s] \in 0..((d + 1) * m)
      <3>1. s # {}
        BY <2>1, LessOne
      <3>2. PICK x \in s : TRUE
        BY <3>1
      <3>3. s \ {x} \in SUBSET D /\ Cardinality(s \ {x}) = d
        BY <2>1, LessOne
      <3>4. g[s \ {x}] \in 0..(d * m)
        BY <1>2, <1>4, <3>3
      <3>5. g[s] = f[x] + g[s \ {x}] /\ f[x] \in 0..m
        BY <1>1 DEF SumsOf
      <3>6. PICK dm \in Int : dm = d * m /\ (d + 1) * m = dm + m
        OBVIOUS
      <3> QED
        BY <3>4, <3>5, <3>6
    <2> QED
      BY <1>2, <2>1
  <1>5. Cardinality(D) \in S
    <2>1. Cardinality(D) \in Nat
      BY FS_CardinalityType
    <2> QED
      BY <1>3, <1>4, <2>1, SetInduction
  <1> QED
    BY <1>1, <1>2, <1>5

\* A sum of zeros.
LEMMA SumZero ==
    ASSUME NEW D, IsFiniteSet(D), NEW f \in [D -> Int], \A x \in D : f[x] = 0
    PROVE  SumFunction(f) = 0
  <1>1. SumFunction(f) \in 0..(Cardinality(D) * 0)
    BY SumBounds
  <1>2. Cardinality(D) * 0 = 0
    BY FS_CardinalityType
  <1> QED
    BY <1>1, <1>2

\* A sum of integers.
LEMMA SumType == ASSUME NEW D, IsFiniteSet(D), NEW f \in [D -> Int] PROVE SumFunction(f) \in Int
  <1>1. PICK g : SumsOf(g, f, D) /\ SumFunction(f) = g[D]
    BY SumIs
  <1>2. D \in SUBSET D
    OBVIOUS
  <1> QED
    BY <1>1, <1>2 DEF SumsOf

\* When one element changes, the sum changes by as much.
LEMMA SumChange ==
    ASSUME NEW D, IsFiniteSet(D), NEW f \in [D -> Int], NEW h \in [D -> Int], NEW x \in D,
           \A y \in D : y # x => h[y] = f[y]
    PROVE  SumFunction(h) = SumFunction(f) + (h[x] - f[x])
  <1>1. PICK g : SumsOf(g, f, D) /\ SumFunction(f) = g[D]
    BY SumIs
  <1>2. PICK k : SumsOf(k, h, D) /\ SumFunction(h) = k[D]
    BY SumIs
  <1>3. PICK S : S = {d \in Nat : \A s \in SUBSET D : Cardinality(s) = d /\ x \notin s => k[s] = g[s]}
    OBVIOUS
  <1>4. 0 \in S
    <2>1. \A s \in SUBSET D : Cardinality(s) = 0 => k[s] = g[s]
      BY <1>1, <1>2, LessOne DEF SumsOf
    <2> QED
      BY <1>3, <2>1
  <1>5. ASSUME NEW d \in Nat, d \in S PROVE d + 1 \in S
    <2>1. ASSUME NEW s \in SUBSET D, Cardinality(s) = d + 1, x \notin s PROVE k[s] = g[s]
      <3>1. s # {}
        BY <2>1, LessOne
      <3>2. PICK y \in s : y # x
        BY <2>1, <3>1
      <3>3. s \ {y} \in SUBSET D /\ Cardinality(s \ {y}) = d /\ x \notin s \ {y}
        BY <2>1, LessOne
      <3>4. k[s \ {y}] = g[s \ {y}]
        BY <1>3, <1>5, <3>3
      <3>5. k[s] = h[y] + k[s \ {y}] /\ g[s] = f[y] + g[s \ {y}]
        BY <1>1, <1>2 DEF SumsOf
      <3> QED
        BY <3>2, <3>4, <3>5
    <2> QED
      BY <1>3, <2>1
  <1>6. PICK r \in SUBSET D : r = D \ {x}
    OBVIOUS
  <1>7. Cardinality(r) \in S
    <2>1. Cardinality(r) \in Nat
      BY LessOne
    <2> QED
      BY <1>4, <1>5, <2>1, SetInduction
  <1>8. k[r] = g[r]
    BY <1>3, <1>6, <1>7
  <1>9. k[D] = h[x] + k[r] /\ g[D] = f[x] + g[r] /\ g[r] \in Int
    BY <1>1, <1>2, <1>6 DEF SumsOf
  <1>10. h[x] \in Int /\ f[x] \in Int
    OBVIOUS
  <1> QED
    BY <1>1, <1>2, <1>8, <1>9, <1>10

\* Sums of up to two numbers.
LEMMA SumOfFew ==
    /\ SumFunction(<<>>) = 0
    /\ \A a \in Int : SumFunction(<<a>>) = a
    /\ \A a, b \in Int : SumFunction(<<a, b>>) = a + b
  <1>1. SumFunction(<<>>) = 0
    <2>1. <<>> \in [{} -> Int] /\ IsFiniteSet({})
      BY FS_EmptySet
    <2> QED
      BY <2>1, SumZero
  <1>2. ASSUME NEW a \in Int PROVE SumFunction(<<a>>) = a
    <2>1. PICK f \in [{1} -> Int] : f = <<a>> /\ f[1] = a
      <3>1. <<a>> \in Seq(Int) /\ Len(<<a>>) = 1 /\ <<a>>[1] = a
        OBVIOUS
      <3>2. <<a>> \in [1..1 -> Int] /\ 1..1 = {1}
        BY <3>1, LenProperties
      <3> QED
        BY <3>1, <3>2
    <2>2. PICK g : SumsOf(g, f, {1}) /\ SumFunction(f) = g[{1}]
      BY FS_Singleton, SumIs
    <2>3. {1} \ {1} = {} /\ {1} \in SUBSET {1}
      OBVIOUS
    <2>4. g[{1}] = f[1] + g[{1} \ {1}] /\ g[{}] = 0
      BY <2>2, <2>3 DEF SumsOf
    <2> QED
      BY <2>1, <2>2, <2>3, <2>4
  <1>3. ASSUME NEW a \in Int, NEW b \in Int PROVE SumFunction(<<a, b>>) = a + b
    <2>1. PICK f \in [{1, 2} -> Int] : f = <<a, b>> /\ f[1] = a /\ f[2] = b
      <3>1. <<a, b>> \in Seq(Int) /\ Len(<<a, b>>) = 2 /\ <<a, b>>[1] = a /\ <<a, b>>[2] = b
        OBVIOUS
      <3>2. <<a, b>> \in [1..2 -> Int]
        BY <3>1, LenProperties
      <3>3. 1..2 = {1, 2}
        OBVIOUS
      <3> QED
        BY <3>1, <3>2, <3>3
    <2>2. IsFiniteSet({1, 2})
      <3>1. \A i, j \in Int : IsFiniteSet(i..j)
        BY FS_Interval
      <3>2. 1..2 = {1, 2}
        OBVIOUS
      <3>3. 1 \in Int /\ 2 \in Int
        OBVIOUS
      <3>4. IsFiniteSet(1..2)
        BY <3>1, <3>3, Zenon
      <3> QED
        BY <3>2, <3>4
    <2>3. PICK g : SumsOf(g, f, {1, 2}) /\ SumFunction(f) = g[{1, 2}]
      BY <2>2, SumIs
    <2>4. {1, 2} \ {1} = {2} /\ {2} \ {2} = {} /\ {2} \in SUBSET {1, 2} /\ {1, 2} \in SUBSET {1, 2}
      OBVIOUS
    <2>5. g[{1, 2}] = f[1] + g[{1, 2} \ {1}]
      BY <2>3, <2>4 DEF SumsOf
    <2>6. g[{2}] = f[2] + g[{2} \ {2}] /\ g[{}] = 0
      BY <2>3, <2>4 DEF SumsOf
    <2> QED
      BY <2>1, <2>3, <2>4, <2>5, <2>6
  <1> QED
    BY <1>1, <1>2, <1>3
-----------------------------------------------------------------------------
(* Memory accounting.                                                      *)

\* Adding a multiple of d leaves the remainder alone.
LEMMA SameRemainder ==
    ASSUME NEW d \in Nat \ {0}, NEW n \in Nat, NEW m \in Nat, m % d = 0
    PROVE  (n + m) % d = n % d
  <1>1. \A x, k \in Int : ((x % d) + k) % d = (x + k) % d
    BY RemainderOfSum
  <1>2. n \in Int /\ m \in Int /\ n + m = m + n /\ 0 + n = n
    OBVIOUS
  <1> QED
    BY <1>1, <1>2

\* The size with the prefix is rounded as the size.
LEMMA RoundedFacts ==
    ASSUME NEW n \in Nat
    PROVE  Rounded(n) \in Nat /\ Rounded(n + PREFIX_SIZE) = Rounded(n) + PREFIX_SIZE
  <1>1. /\ LONG \in Nat \ {0} /\ PREFIX_SIZE \in Nat /\ PREFIX_SIZE % LONG = 0
    BY MallocAssumption
  <1>2. (n + PREFIX_SIZE) % LONG = n % LONG
    BY <1>1, SameRemainder
  <1>3. PICK r \in Int : r = n % LONG /\ r >= 0 /\ r < LONG
    BY <1>1
  <1> QED
    BY <1>1, <1>2, <1>3 DEF Rounded

MemTypeOK ==
    /\ tf_malloc_thread_safe \in BOOLEAN /\ disciplined \in BOOLEAN
    /\ prefix \in [Ptrs -> ReqSizes \cup {NotAllocated}]
    /\ region \in [Threads -> SUBSET Ptrs]
    /\ freeing \in [Threads -> BOOLEAN]
    /\ DOMAIN todo = Threads /\ DOMAIN reading = Threads

\* Where a call about p can be: its updates, given the size before p and
\* whether it is tf_free.
Updates(us, size, frees) ==
    \/ ~frees /\ us = <<Rounded(size + PREFIX_SIZE)>>
    \/ ~frees /\ us = <<Rounded(size)>>
    \/ ~frees /\ \E old \in ReqSizes : us = <<-Rounded(old), Rounded(size)>>
    \/ frees /\ us = <<-Rounded(size + PREFIX_SIZE)>>

CallsConsistent ==
    /\ \A t \in Threads :
          /\ ~InCall(t) => region[t] = {} /\ ~freeing[t] /\ reading[t] = <<>>
          /\ InCall(t) => \E p \in Ptrs : region[t] = {p} /\ prefix[p] # NotAllocated
                                          /\ Updates(todo[t], prefix[p], freeing[t])
    /\ \A t, u \in Threads : t # u => region[t] \cap region[u] = {}

\* As long as calls overlap only when it is safe.
Exclusive ==
    /\ ~tf_malloc_thread_safe => \A t, u \in Threads : InCall(t) /\ InCall(u) => t = u
    /\ tf_malloc_thread_safe => \A t \in Threads : reading[t] = <<>>
    /\ \A t \in Threads : reading[t] # <<>> => reading[t] = <<used_memory>>

OutstandingAll == [t \in Threads |-> Outstanding(t)]
DueAll == [p \in Ptrs |-> Due(p)]

\* What used_memory has for each region now: held sums up to it.
HeldFor(held, p) ==
    /\ ~Busy(p) => held[p] = Due(p)
    /\ \A t \in Threads : p \in region[t] => held[p] = Due(p) - Outstanding(t)

HeldIn(held, most) ==
    /\ held \in [Ptrs -> 0..most] /\ used_memory = SumFunction(held)
    /\ \A p \in Ptrs : HeldFor(held, p)

\* A size that bounds all regions.
Most(m) ==
    /\ m \in Nat /\ Cardinality(Ptrs) * m <= SIZE_MAX
    /\ \A n \in ReqSizes : Rounded(n) + PREFIX_SIZE <= m

\* The inductive invariant of the accounting.
MemInv ==
    /\ MemTypeOK
    /\ CallsConsistent
    /\ disciplined =>
          /\ Exclusive
          /\ used_memory + SumFunction(OutstandingAll) = SumFunction(DueAll)
          /\ \A m : Most(m) => \E held : HeldIn(held, m)

\* There is such a size.
LEMMA MostExists == \E m : Most(m)
  <1>1. PICK m \in 0..SIZE_MAX :
          Cardinality(Ptrs) * m <= SIZE_MAX /\ \A n \in ReqSizes : Rounded(n + PREFIX_SIZE) <= m
    BY RoomAssumption
  <1>2. \A n \in ReqSizes : n \in Nat
    BY MallocAssumption
  <1>3. \A n \in ReqSizes : Rounded(n) + PREFIX_SIZE <= m
    BY <1>1, <1>2, RoundedFacts
  <1>4. m \in Nat
    BY MallocAssumption
  <1> QED
    BY <1>1, <1>3, <1>4 DEF Most

\* What a call has still to add, by where it is.
LEMMA UpdatesFacts ==
    ASSUME NEW us, NEW size \in ReqSizes, NEW frees \in BOOLEAN, Updates(us, size, frees)
    PROVE  /\ us # <<>> /\ Head(us) \in Int /\ SumFunction(us) \in Int
           /\ SumFunction(Tail(us)) = SumFunction(us) - Head(us)
           /\ Len(us) = 1 => Tail(us) = <<>>
           /\ Len(us) # 1 => Updates(Tail(us), size, frees) /\ ~frees
  <1>1. size \in Nat
    BY MallocAssumption
  <1>2. /\ Rounded(size) \in Nat /\ Rounded(size + PREFIX_SIZE) \in Nat
        /\ \A old \in ReqSizes : Rounded(old) \in Nat
    BY <1>1, MallocAssumption, RoundedFacts
  <1>3. ASSUME NEW a \in Int, us = <<a>>
        PROVE  /\ us # <<>> /\ Head(us) \in Int /\ SumFunction(us) \in Int /\ Len(us) = 1
               /\ SumFunction(Tail(us)) = SumFunction(us) - Head(us) /\ Tail(us) = <<>>
    <2>1. us # <<>> /\ Head(us) = a /\ Tail(us) = <<>> /\ Len(us) = 1
      BY <1>3
    <2>2. SumFunction(us) = a /\ SumFunction(Tail(us)) = 0
      BY <1>3, <2>1, SumOfFew
    <2>3. SumFunction(us) \in Int /\ SumFunction(Tail(us)) = SumFunction(us) - Head(us)
      BY <2>1, <2>2
    <2> QED
      BY <2>1, <2>3
  <1>4. ASSUME NEW a \in Int, NEW b \in Int, us = <<a, b>>
        PROVE  /\ us # <<>> /\ Head(us) \in Int /\ SumFunction(us) \in Int /\ Len(us) = 2
               /\ SumFunction(Tail(us)) = SumFunction(us) - Head(us) /\ Tail(us) = <<b>>
    <2>1. us # <<>> /\ Head(us) = a /\ Tail(us) = <<b>> /\ Len(us) = 2
      BY <1>4
    <2>2. SumFunction(us) = a + b /\ SumFunction(Tail(us)) = b
      BY <1>4, <2>1, SumOfFew
    <2>3. SumFunction(us) \in Int /\ SumFunction(Tail(us)) = SumFunction(us) - Head(us)
      BY <2>1, <2>2
    <2> QED
      BY <2>1, <2>3
  <1>5. CASE us = <<Rounded(size + PREFIX_SIZE)>>
    BY <1>2, <1>3, <1>5
  <1>6. CASE us = <<Rounded(size)>>
    BY <1>2, <1>3, <1>6
  <1>7. CASE us = <<-Rounded(size + PREFIX_SIZE)>>
    BY <1>2, <1>3, <1>7
  <1>8. CASE ~frees /\ \E old \in ReqSizes : us = <<-Rounded(old), Rounded(size)>>
    <2>1. PICK old \in ReqSizes : us = <<-Rounded(old), Rounded(size)>>
      BY <1>8
    <2>2. -Rounded(old) \in Int /\ Rounded(size) \in Int
      BY <1>2
    <2>3. /\ us # <<>> /\ Head(us) \in Int /\ SumFunction(us) \in Int /\ Len(us) = 2
          /\ SumFunction(Tail(us)) = SumFunction(us) - Head(us) /\ Tail(us) = <<Rounded(size)>>
      BY <1>4, <2>1, <2>2
    <2>4. Updates(Tail(us), size, frees)
      BY <1>8, <2>3 DEF Updates
    <2> QED
      BY <1>8, <2>3, <2>4
  <1> QED
    BY <1>5, <1>6, <1>7, <1>8 DEF Updates

\* Sizes are naturals.
LEMMA SizesNat == \A n \in ReqSizes : n \in Nat
  BY MallocAssumption

\* Threads and regions are finitely many.
LEMMA MallocFinite == IsFiniteSet(Threads) /\ IsFiniteSet(Ptrs)
  BY MallocAssumption

\* What the invariant says of one thread.
LEMMA ThreadFacts ==
    ASSUME MemTypeOK, CallsConsistent, NEW t \in Threads
    PROVE  /\ Outstanding(t) \in Int
           /\ ~InCall(t) => Outstanding(t) = 0 /\ region[t] = {} /\ ~freeing[t] /\ reading[t] = <<>>
           /\ InCall(t) => \E p \in Ptrs :
                             /\ region[t] = {p} /\ prefix[p] \in ReqSizes /\ prefix[p] # NotAllocated
                             /\ Updates(todo[t], prefix[p], freeing[t])
  <1>1. CASE ~InCall(t)
    <2>1. todo[t] = <<>> /\ SumFunction(<<>>) = 0
      BY <1>1, SumOfFew DEF InCall
    <2>2. Outstanding(t) = 0
      BY <2>1 DEF Outstanding
    <2> QED
      BY <1>1, <2>2 DEF CallsConsistent
  <1>2. CASE InCall(t)
    <2>1. PICK p \in Ptrs : region[t] = {p} /\ prefix[p] # NotAllocated /\ Updates(todo[t], prefix[p], freeing[t])
      BY <1>2 DEF CallsConsistent
    <2>2. prefix[p] \in ReqSizes /\ freeing[t] \in BOOLEAN
      BY <2>1 DEF MemTypeOK
    <2>3. SumFunction(todo[t]) \in Int
      BY <2>1, <2>2, UpdatesFacts
    <2> QED
      BY <1>2, <2>1, <2>2, <2>3 DEF Outstanding
  <1> QED
    BY <1>1, <1>2

\* What the invariant says of the charge of a region.
LEMMA DueFacts ==
    ASSUME MemTypeOK, NEW p \in Ptrs
    PROVE  /\ Due(p) \in Nat
           /\ prefix[p] = NotAllocated => Due(p) = 0
           /\ Leaving(p) => Due(p) = 0
           /\ prefix[p] # NotAllocated => prefix[p] \in ReqSizes /\ Rounded(prefix[p]) \in Nat
           /\ prefix[p] # NotAllocated /\ ~Leaving(p) => Due(p) = Rounded(prefix[p]) + PREFIX_SIZE
  <1>1. PREFIX_SIZE \in Nat /\ \A n \in ReqSizes : n \in Nat
    BY MallocAssumption
  <1>2. prefix[p] # NotAllocated => prefix[p] \in ReqSizes
    BY DEF MemTypeOK
  <1>3. prefix[p] # NotAllocated => Rounded(prefix[p]) \in Nat
    BY <1>1, <1>2, RoundedFacts
  <1>4. p \in Allocated <=> prefix[p] # NotAllocated
    BY DEF Allocated
  <1> QED
    BY <1>1, <1>2, <1>3, <1>4 DEF Due, Charged

\* The sums are over integers.
LEMMA AllFacts ==
    ASSUME MemTypeOK, CallsConsistent
    PROVE  OutstandingAll \in [Threads -> Int] /\ DueAll \in [Ptrs -> Int]
  BY ThreadFacts, DueFacts DEF OutstandingAll, DueAll

\* g is f with d more at x.
ChangedBy(g, f, D, x, d) == g[x] = f[x] + d /\ \A y \in D : y # x => g[y] = f[y]

\* The same, for a change by d.
LEMMA SumChangedBy ==
    ASSUME NEW D, IsFiniteSet(D), NEW f \in [D -> Int], NEW g \in [D -> Int], NEW x \in D, NEW d \in Int,
           ChangedBy(g, f, D, x, d)
    PROVE  SumFunction(g) = SumFunction(f) + d
  <1>1. g[x] = f[x] + d /\ \A y \in D : y # x => g[y] = f[y]
    BY DEF ChangedBy
  <1>2. SumFunction(g) = SumFunction(f) + (g[x] - f[x])
    BY <1>1, SumChange
  <1>3. f[x] \in Int
    OBVIOUS
  <1> QED
    BY <1>1, <1>2, <1>3

\* Beginning a call: nothing is counted yet, and what p is charged when it is
\* over changes by the updates.
LEMMA BeginStep ==
    ASSUME MemInv, NEW t \in Threads, NEW p \in Ptrs, NEW us, NEW d \in Int, SumFunction(us) = d,
           Begin(t, p, us), ~Busy(p),
           prefix' \in [Ptrs -> ReqSizes \cup {NotAllocated}], \A q \in Ptrs : q # p => prefix'[q] = prefix[q],
           freeing' \in [Threads -> BOOLEAN], \A u \in Threads : u # t => freeing'[u] = freeing[u],
           prefix'[p] # NotAllocated, Updates(us, prefix'[p], freeing'[t]), us # <<>>,
           Due(p)' = Due(p) + d
    PROVE  MemInv'
  <1>1. /\ MemTypeOK /\ CallsConsistent /\ ~InCall(t)
        /\ todo' = [todo EXCEPT ![t] = us] /\ region' = [region EXCEPT ![t] = {p}]
        /\ disciplined' = (disciplined /\ (tf_malloc_thread_safe \/ \A o \in Threads : ~InCall(o)))
        /\ used_memory' = used_memory /\ tf_malloc_thread_safe' = tf_malloc_thread_safe /\ reading' = reading
    BY DEF MemInv, Begin
  <1>2. /\ todo'[t] = us /\ region'[t] = {p}
        /\ \A u \in Threads : u # t => todo'[u] = todo[u] /\ region'[u] = region[u]
    BY <1>1 DEF MemTypeOK
  <1>3. MemTypeOK'
    <2>1. disciplined' \in BOOLEAN
      BY <1>1 DEF MemTypeOK
    <2>2. region' \in [Threads -> SUBSET Ptrs] /\ DOMAIN todo' = Threads
      BY <1>1 DEF MemTypeOK
    <2> QED
      BY <1>1, <2>1, <2>2 DEF MemTypeOK
  <1>4. InCall(t)' /\ \A u \in Threads : u # t => (InCall(u)' <=> InCall(u))
    BY <1>2 DEF InCall
  <1>5. \A u \in Threads : p \notin region[u]
    BY DEF Busy
  <1>6. CallsConsistent'
    <2>1. ASSUME NEW u \in Threads
          PROVE  /\ ~InCall(u)' => region'[u] = {} /\ ~freeing'[u] /\ reading'[u] = <<>>
                 /\ InCall(u)' => \E q \in Ptrs : region'[u] = {q} /\ prefix'[q] # NotAllocated
                                                 /\ Updates(todo'[u], prefix'[q], freeing'[u])
      <3>1. CASE u = t
        BY <1>2, <1>4, <3>1
      <3>2. CASE u # t /\ ~InCall(u)
        BY <1>1, <1>2, <1>4, <3>2 DEF CallsConsistent
      <3>3. CASE u # t /\ InCall(u)
        <4>1. PICK q \in Ptrs : region[u] = {q} /\ prefix[q] # NotAllocated
                                /\ Updates(todo[u], prefix[q], freeing[u])
          BY <1>1, <3>3 DEF CallsConsistent
        <4>2. q # p
          BY <1>5, <4>1
        <4> QED
          BY <1>2, <1>4, <3>3, <4>1, <4>2
      <3> QED
        BY <3>1, <3>2, <3>3
    <2>2. ASSUME NEW u \in Threads, NEW v \in Threads, u # v PROVE region'[u] \cap region'[v] = {}
      BY <1>1, <1>2, <1>5, <2>2 DEF CallsConsistent
    <2> QED
      BY <2>1, <2>2 DEF CallsConsistent
  <1>7. ASSUME NEW q \in Ptrs, q # p
        PROVE  /\ Due(q)' = Due(q) /\ (Busy(q)' <=> Busy(q))
               /\ \A u \in Threads : q \in region'[u] => u # t /\ q \in region[u]
    <2>1. \A u \in Threads : q \in region'[u] <=> q \in region[u]
      BY <1>1, <1>2, <1>7, ThreadFacts
    <2>2. \A u \in Threads : q \in region'[u] => u # t
      BY <1>2, <1>7
    <2>3. Leaving(q)' <=> Leaving(q)
      BY <2>1, <2>2 DEF Leaving
    <2>4. Charged(q)' = Charged(q) /\ (q \in Allocated)' = (q \in Allocated)
      BY <1>7 DEF Charged, Allocated
    <2> QED
      BY <2>1, <2>2, <2>3, <2>4 DEF Due, Busy
  <1>8. Outstanding(t)' = d /\ Outstanding(t) = 0 /\ \A u \in Threads : u # t => Outstanding(u)' = Outstanding(u)
    BY <1>1, <1>2, ThreadFacts DEF Outstanding
  <1>9. Due(p) \in Nat /\ \A u \in Threads : Outstanding(u) \in Int
    BY <1>1, DueFacts, ThreadFacts
  <1>10. ASSUME disciplined' PROVE Exclusive'
    <2>1. Exclusive /\ (tf_malloc_thread_safe \/ \A o \in Threads : ~InCall(o))
      BY <1>1, <1>10 DEF MemInv
    <2>2. ~tf_malloc_thread_safe' => \A u, v \in Threads : InCall(u)' /\ InCall(v)' => u = v
      BY <1>1, <1>4, <2>1
    <2> QED
      BY <1>1, <2>1, <2>2 DEF Exclusive
  <1>11. ASSUME disciplined' PROVE used_memory' + SumFunction(OutstandingAll') = SumFunction(DueAll')
    <2>1. used_memory + SumFunction(OutstandingAll) = SumFunction(DueAll) /\ used_memory \in Int
      <3>1. disciplined
        BY <1>1, <1>11
      <3>2. PICK m, held : m \in Nat /\ HeldIn(held, m)
        BY <3>1, MostExists DEF MemInv, Most
      <3>3. held \in [Ptrs -> Int]
        BY <3>2 DEF HeldIn
      <3>4. used_memory \in Int
        BY <3>2, <3>3, MallocFinite, SumType DEF HeldIn
      <3> QED
        BY <3>1, <3>4 DEF MemInv
    <2>2. PICK out \in [Threads -> Int], due \in [Ptrs -> Int] : out = OutstandingAll /\ due = DueAll
      BY <1>1, AllFacts
    <2>3. PICK out2 \in [Threads -> Int] : out2 = OutstandingAll'
      BY <1>8, <1>9 DEF OutstandingAll
    <2>4. PICK due2 \in [Ptrs -> Int] : due2 = DueAll'
      <3>1. \A q \in Ptrs : Due(q)' \in Int
        BY <1>1, <1>7, <1>9, DueFacts
      <3> QED
        BY <3>1 DEF DueAll
    <2>5. ChangedBy(out2, out, Threads, t, d)
      BY <1>8, <2>2, <2>3 DEF OutstandingAll, ChangedBy
    <2>6. ChangedBy(due2, due, Ptrs, p, d)
      BY <1>7, <2>2, <2>4 DEF DueAll, ChangedBy
    <2>7. PICK n \in Int : n = used_memory /\ n + SumFunction(out) = SumFunction(due)
      BY <2>1, <2>2
    <2>8. n + SumFunction(out2) = SumFunction(due2)
      <3>1. SumFunction(out2) = SumFunction(out) + d
        BY <2>5, MallocFinite, SumChangedBy
      <3>2. SumFunction(due2) = SumFunction(due) + d
        BY <2>6, MallocFinite, SumChangedBy
      <3>3. SumFunction(out) \in Int /\ SumFunction(due) \in Int
        BY MallocFinite, SumType
      <3> QED
        BY <2>7, <3>1, <3>2, <3>3
    <2> QED
      BY <1>1, <2>3, <2>4, <2>7, <2>8
  <1>12. ASSUME disciplined', NEW m, Most(m) PROVE \E held : HeldIn(held, m)'
    <2>1. PICK held : HeldIn(held, m)
      BY <1>1, <1>12 DEF MemInv
    <2>2. held[p] = Due(p)
      BY <2>1 DEF HeldIn, HeldFor
    <2>3. HeldFor(held, p)'
      <3>1. Busy(p)'
        BY <1>2 DEF Busy
      <3>2. ASSUME NEW u \in Threads, p \in region'[u] PROVE held[p] = Due(p)' - Outstanding(u)'
        <4>1. u = t
          BY <1>2, <1>5, <3>2
        <4> QED
          BY <1>8, <1>9, <2>2, <4>1
      <3> QED
        BY <3>1, <3>2 DEF HeldFor
    <2>4. ASSUME NEW q \in Ptrs, q # p PROVE HeldFor(held, q)'
      <3>1. HeldFor(held, q)
        BY <2>1 DEF HeldIn
      <3> QED
        BY <1>7, <1>8, <2>4, <3>1 DEF HeldFor
    <2> QED
      BY <1>1, <2>1, <2>3, <2>4 DEF HeldIn
  <1> QED
    BY <1>3, <1>6, <1>10, <1>11, <1>12 DEF MemInv, Most

\* What is counted for the region of a call after its next update.
LEMMA CountedNext ==
    ASSUME NEW us, NEW size \in ReqSizes, NEW frees \in BOOLEAN, Updates(us, size, frees),
           NEW m, Most(m), NEW due, due = IF frees THEN 0 ELSE Rounded(size) + PREFIX_SIZE
    PROVE  (due - SumFunction(us)) + Head(us) \in 0..m
  <1>1. size \in Nat /\ PREFIX_SIZE \in Nat
    BY MallocAssumption
  <1>2. PICK r \in Nat, s \in Nat : r = Rounded(size) /\ s = r + PREFIX_SIZE /\ s = Rounded(size + PREFIX_SIZE)
    BY <1>1, RoundedFacts
  <1>3. m \in Nat /\ s <= m
    BY <1>2 DEF Most
  <1>4. CASE ~frees /\ us = <<s>>
    <2>1. SumFunction(us) = s /\ Head(us) = s
      BY <1>4, SumOfFew
    <2> QED
      BY <1>2, <1>3, <1>4, <2>1
  <1>5. CASE ~frees /\ us = <<r>>
    <2>1. SumFunction(us) = r /\ Head(us) = r
      BY <1>5, SumOfFew
    <2> QED
      BY <1>2, <1>3, <1>5, <2>1
  <1>6. CASE ~frees /\ \E old \in ReqSizes : us = <<-Rounded(old), r>>
    <2>1. PICK old \in ReqSizes : us = <<-Rounded(old), r>>
      BY <1>6
    <2>2. PICK a \in Int : a = -Rounded(old)
      BY MallocAssumption, RoundedFacts
    <2>3. SumFunction(us) = a + r /\ Head(us) = a
      BY <2>1, <2>2, SumOfFew
    <2> QED
      BY <1>1, <1>2, <1>3, <1>6, <2>3
  <1>7. CASE frees /\ us = <<-s>>
    <2>1. SumFunction(us) = -s /\ Head(us) = -s
      BY <1>7, SumOfFew
    <2> QED
      BY <1>3, <1>7, <2>1
  <1> QED
    BY <1>2, <1>4, <1>5, <1>6, <1>7 DEF Updates

\* An update of a call, by the thread that makes it: used_memory does not
\* leave the range of size_t.
LEMMA StatStep ==
    ASSUME MemInv, NEW t \in Threads, InCall(t), Done(t),
           DOMAIN reading' = Threads, reading'[t] = <<>>, \A u \in Threads : u # t => reading'[u] = reading[u],
           disciplined => /\ used_memory' = Plus(used_memory, Head(todo[t]))
                          /\ \A u \in Threads : reading'[u] = <<>>
    PROVE  MemInv'
  <1>1. /\ MemTypeOK /\ CallsConsistent /\ todo' = [todo EXCEPT ![t] = Tail(@)]
        /\ tf_malloc_thread_safe' = tf_malloc_thread_safe /\ disciplined' = disciplined
    BY DEF MemInv, Done
  <1>2. PICK p \in Ptrs : /\ region[t] = {p} /\ prefix[p] \in ReqSizes /\ prefix[p] # NotAllocated
                          /\ Updates(todo[t], prefix[p], freeing[t])
    BY <1>1, ThreadFacts
  <1>3. PICK us : us = todo[t]
    OBVIOUS
  <1>4. freeing[t] \in BOOLEAN
    BY <1>1 DEF MemTypeOK
  <1>5. /\ Head(us) \in Int /\ SumFunction(us) \in Int
        /\ SumFunction(Tail(us)) = SumFunction(us) - Head(us)
        /\ Len(us) = 1 => Tail(us) = <<>>
        /\ Len(us) # 1 => Updates(Tail(us), prefix[p], freeing[t]) /\ ~freeing[t] /\ Tail(us) # <<>>
    <2>1. Len(us) # 1 => Updates(Tail(us), prefix[p], freeing[t])
      BY <1>2, <1>3, <1>4, UpdatesFacts
    <2>2. Len(us) # 1 => Tail(us) # <<>>
      BY <2>1, <1>2, <1>4, UpdatesFacts
    <2> QED
      BY <1>2, <1>3, <1>4, <2>1, <2>2, UpdatesFacts
  <1>6. todo'[t] = Tail(us) /\ \A u \in Threads : u # t => todo'[u] = todo[u]
    BY <1>1, <1>3 DEF MemTypeOK
  <1>7. /\ region' = IF Len(us) = 1 THEN [region EXCEPT ![t] = {}] ELSE region
        /\ freeing' = IF Len(us) = 1 THEN [freeing EXCEPT ![t] = FALSE] ELSE freeing
        /\ prefix' = IF Len(us) = 1
                     THEN [q \in Ptrs |-> IF freeing[t] /\ q \in region[t] THEN NotAllocated ELSE prefix[q]]
                     ELSE prefix
    BY <1>3 DEF Done
  <1>8. MemTypeOK'
    <2>1. prefix' \in [Ptrs -> ReqSizes \cup {NotAllocated}]
      BY <1>1, <1>7 DEF MemTypeOK
    <2>2. region' \in [Threads -> SUBSET Ptrs] /\ freeing' \in [Threads -> BOOLEAN]
      BY <1>1, <1>7 DEF MemTypeOK
    <2>3. DOMAIN todo' = Threads
      BY <1>1 DEF MemTypeOK
    <2> QED
      BY <1>1, <2>1, <2>2, <2>3 DEF MemTypeOK
  <1>9. \A u \in Threads : u # t => region'[u] = region[u] /\ freeing'[u] = freeing[u] /\ p \notin region[u]
    BY <1>1, <1>2, <1>7 DEF MemTypeOK, CallsConsistent
  <1>10. \A q \in Ptrs : q # p => prefix'[q] = prefix[q]
    BY <1>2, <1>7
  <1>11. /\ Len(us) = 1 => region'[t] = {} /\ ~freeing'[t]
         /\ Len(us) # 1 => region'[t] = {p} /\ ~freeing'[t] /\ prefix'[p] = prefix[p]
         /\ prefix'[p] = IF freeing[t] THEN NotAllocated ELSE prefix[p]
    BY <1>1, <1>2, <1>5, <1>7 DEF MemTypeOK
  <1>12. (InCall(t)' <=> Len(us) # 1) /\ \A u \in Threads : u # t => (InCall(u)' <=> InCall(u))
    BY <1>5, <1>6 DEF InCall
  <1>13. CallsConsistent'
    <2>1. ASSUME NEW u \in Threads
          PROVE  /\ ~InCall(u)' => region'[u] = {} /\ ~freeing'[u] /\ reading'[u] = <<>>
                 /\ InCall(u)' => \E q \in Ptrs : region'[u] = {q} /\ prefix'[q] # NotAllocated
                                                 /\ Updates(todo'[u], prefix'[q], freeing'[u])
      <3>1. CASE u = t /\ Len(us) = 1
        BY <1>11, <1>12, <3>1
      <3>2. CASE u = t /\ Len(us) # 1
        <4>1. region'[t] = {p} /\ prefix'[p] = prefix[p] /\ prefix'[p] # NotAllocated
          BY <1>2, <1>11, <3>2
        <4>2. Updates(Tail(us), prefix[p], FALSE) /\ freeing'[t] = FALSE
          <5>1. freeing[t] = FALSE /\ freeing'[t] \in BOOLEAN /\ ~freeing'[t]
            BY <1>4, <1>5, <1>8, <1>11, <3>2 DEF MemTypeOK
          <5> QED
            BY <1>5, <3>2, <5>1
        <4>3. Updates(todo'[t], prefix'[p], freeing'[t])
          BY <1>6, <4>1, <4>2
        <4> QED
          BY <1>12, <3>2, <4>1, <4>3
      <3>3. CASE u # t /\ ~InCall(u)
        BY <1>1, <1>9, <1>12, <3>3 DEF CallsConsistent
      <3>4. CASE u # t /\ InCall(u)
        <4>1. PICK q \in Ptrs : region[u] = {q} /\ prefix[q] # NotAllocated
                                /\ Updates(todo[u], prefix[q], freeing[u])
          BY <1>1, <3>4 DEF CallsConsistent
        <4>2. q # p
          BY <1>9, <3>4, <4>1
        <4> QED
          BY <1>6, <1>9, <1>10, <1>12, <3>4, <4>1, <4>2
      <3> QED
        BY <3>1, <3>2, <3>3, <3>4
    <2>2. ASSUME NEW u \in Threads, NEW v \in Threads, u # v PROVE region'[u] \cap region'[v] = {}
      <3>1. \A w \in Threads : region'[w] \subseteq region[w]
        BY <1>2, <1>9, <1>11
      <3> QED
        BY <1>1, <2>2, <3>1 DEF CallsConsistent
    <2> QED
      BY <2>1, <2>2 DEF CallsConsistent
  <1>14. ASSUME NEW q \in Ptrs, q # p
         PROVE  /\ Due(q)' = Due(q) /\ (Busy(q)' <=> Busy(q))
                /\ \A u \in Threads : q \in region'[u] => u # t /\ q \in region[u]
    <2>1. \A u \in Threads : q \in region'[u] <=> q \in region[u]
      BY <1>2, <1>9, <1>11, <1>14
    <2>2. \A u \in Threads : q \in region'[u] => u # t
      BY <1>2, <1>11, <1>14, <2>1
    <2>3. Leaving(q)' <=> Leaving(q)
      BY <1>9, <2>1, <2>2 DEF Leaving
    <2>4. Charged(q)' = Charged(q) /\ (q \in Allocated)' = (q \in Allocated)
      BY <1>10, <1>14 DEF Charged, Allocated
    <2> QED
      BY <2>1, <2>2, <2>3, <2>4 DEF Due, Busy
  <1>15. Due(p) = IF freeing[t] THEN 0 ELSE Rounded(prefix[p]) + PREFIX_SIZE
    <2>1. Leaving(p) <=> freeing[t]
      BY <1>2, <1>9 DEF Leaving
    <2> QED
      BY <1>1, <1>2, <2>1, DueFacts
  <1>16. Due(p)' = Due(p)
    <2>1. ~Leaving(p)'
      BY <1>9, <1>11 DEF Leaving
    <2>2. (p \in Allocated)' <=> ~freeing[t]
      BY <1>2, <1>4, <1>11 DEF Allocated
    <2>3. ~freeing[t] => Charged(p)' = Rounded(prefix[p]) + PREFIX_SIZE
      BY <1>11 DEF Charged
    <2> QED
      BY <1>4, <1>15, <2>1, <2>2, <2>3 DEF Due
  <1>17. Outstanding(t) = SumFunction(us) /\ Outstanding(t)' = SumFunction(us) - Head(us)
    BY <1>3, <1>5, <1>6 DEF Outstanding
  <1>18. \A u \in Threads : (u # t => Outstanding(u)' = Outstanding(u)) /\ Outstanding(u) \in Int
    BY <1>1, <1>6, ThreadFacts DEF Outstanding
  <1>19. Due(p) \in Int
    BY <1>1, DueFacts
  \* One more update is counted, within the bound.
  <1>20. ASSUME disciplined, NEW m, Most(m)
         PROVE  used_memory \in Int /\ used_memory' = used_memory + Head(us) /\ \E held : HeldIn(held, m)'
    <2>1. PICK held : HeldIn(held, m)
      BY <1>20 DEF MemInv
    <2>2. held \in [Ptrs -> 0..m] /\ m \in Nat /\ used_memory = SumFunction(held)
      BY <1>20, <2>1 DEF HeldIn, Most
    <2>3. held[p] = Due(p) - SumFunction(us)
      BY <1>2, <1>17, <2>1 DEF HeldIn, HeldFor
    <2>4. held[p] + Head(us) \in 0..m
      BY <1>2, <1>3, <1>4, <1>15, <1>20, <2>3, CountedNext
    <2>5. PICK new \in [Ptrs -> 0..m] : new = [held EXCEPT ![p] = held[p] + Head(us)]
      BY <2>2, <2>4
    <2>6. new[p] = held[p] + Head(us) /\ \A q \in Ptrs : q # p => new[q] = held[q]
      BY <2>2, <2>5
    <2>7. held \in [Ptrs -> Int] /\ new \in [Ptrs -> Int]
      BY <2>2, <2>5
    <2>8. ChangedBy(new, held, Ptrs, p, Head(us))
      BY <2>6 DEF ChangedBy
    <2>9. SumFunction(new) = SumFunction(held) + Head(us) /\ SumFunction(held) \in Int
      BY <1>5, <2>7, <2>8, MallocFinite, SumChangedBy, SumType
    <2>10. SumFunction(new) \in 0..SIZE_MAX
      <3>1. \A q \in Ptrs : new[q] \in 0..m
        BY <2>5
      <3>2. SumFunction(new) \in 0..(Cardinality(Ptrs) * m)
        BY <2>2, <2>7, <3>1, MallocFinite, SumBounds
      <3>3. PICK c \in Nat : c = Cardinality(Ptrs)
        BY MallocFinite, FS_CardinalityType
      <3>4. c * m <= SIZE_MAX /\ c * m \in Int /\ SIZE_MAX \in Nat
        BY <1>20, <2>2, <3>3, MallocAssumption DEF Most
      <3> QED
        BY <3>2, <3>3, <3>4
    <2>11. used_memory' = SumFunction(new)
      <3>1. used_memory' = (SumFunction(held) + Head(us)) % (SIZE_MAX + 1)
        BY <1>3, <1>20, <2>2 DEF Plus
      <3>2. PICK x \in 0..SIZE_MAX : x = SumFunction(new) /\ x = SumFunction(held) + Head(us)
        BY <2>9, <2>10
      <3>3. SIZE_MAX \in Nat
        BY MallocAssumption
      <3>4. x % (SIZE_MAX + 1) = x
        BY <3>3
      <3> QED
        BY <3>1, <3>2, <3>4
    <2>12. HeldFor(new, p)'
      <3>1. ~Busy(p)' => Len(us) = 1
        BY <1>11 DEF Busy
      <3>2. Len(us) = 1 => Outstanding(t)' = 0
        BY <1>5, <1>6, SumOfFew DEF Outstanding
      <3>3. new[p] = Due(p)' - Outstanding(t)'
        BY <1>5, <1>16, <1>17, <1>19, <2>3, <2>6
      <3>4. \A u \in Threads : p \in region'[u] => u = t
        BY <1>9
      <3>5. ~Busy(p)' => new[p] = Due(p)'
        BY <1>16, <1>19, <3>1, <3>2, <3>3
      <3> QED
        BY <3>3, <3>4, <3>5 DEF HeldFor
    <2>13. ASSUME NEW q \in Ptrs, q # p PROVE HeldFor(new, q)'
      <3>1. HeldFor(held, q)
        BY <2>1 DEF HeldIn
      <3> QED
        BY <1>14, <1>18, <2>6, <2>13, <3>1 DEF HeldFor
    <2>14. HeldIn(new, m)'
      BY <2>5, <2>11, <2>12, <2>13 DEF HeldIn
    <2> QED
      BY <2>2, <2>9, <2>11, <2>14
  <1>21. ASSUME disciplined PROVE used_memory' + SumFunction(OutstandingAll') = SumFunction(DueAll')
    <2>1. PICK n \in Int : n = used_memory /\ used_memory' = n + Head(us)
      BY <1>20, <1>21, MostExists
    <2>2. PICK out \in [Threads -> Int] : out = OutstandingAll
      BY <1>1, AllFacts
    <2>3. PICK out2 \in [Threads -> Int] : out2 = OutstandingAll'
      <3>1. SumFunction(us) - Head(us) \in Int
        BY <1>5
      <3>2. \A u \in Threads : Outstanding(u)' \in Int
        BY <1>17, <1>18, <3>1
      <3> QED
        BY <3>2 DEF OutstandingAll
    <2>4. PICK d \in Int : d = -Head(us)
      BY <1>5
    <2>5. ChangedBy(out2, out, Threads, t, d)
      <3>1. out[t] = SumFunction(us) /\ out2[t] = SumFunction(us) - Head(us)
        BY <1>17, <2>2, <2>3 DEF OutstandingAll
      <3>2. out2[t] = out[t] + d
        BY <1>5, <2>4, <3>1
      <3>3. \A u \in Threads : u # t => out2[u] = out[u]
        BY <1>18, <2>2, <2>3 DEF OutstandingAll
      <3> QED
        BY <3>2, <3>3 DEF ChangedBy
    <2>6. SumFunction(out2) = SumFunction(out) + d /\ SumFunction(out) \in Int
      BY <2>5, MallocFinite, SumChangedBy, SumType
    <2>7. DueAll' = DueAll
      BY <1>14, <1>16 DEF DueAll
    <2>8. n + SumFunction(out) = SumFunction(DueAll)
      BY <1>21, <2>1, <2>2 DEF MemInv
    <2>9. PICK a \in Int, h \in Int : a = SumFunction(out) /\ h = Head(us)
      BY <1>5, <2>6
    <2>10. (n + h) + (a + d) = n + a
      BY <2>4, <2>9
    <2> QED
      BY <2>1, <2>3, <2>6, <2>7, <2>8, <2>9, <2>10
  <1>22. ASSUME disciplined PROVE Exclusive'
    <2>1. Exclusive
      BY <1>22 DEF MemInv
    <2>2. \A u \in Threads : InCall(u)' => InCall(u)
      BY <1>12
    <2> QED
      BY <1>1, <1>22, <2>1, <2>2 DEF Exclusive
  <1> QED
    BY <1>1, <1>8, <1>13, <1>20, <1>21, <1>22 DEF MemInv, Most

\* At the start nothing is allocated.
LEMMA MemStart == MemInit => MemInv
  <1> SUFFICES ASSUME MemInit PROVE MemInv
    OBVIOUS
  <1>1. MemTypeOK
    <2>1. NotAllocated \in ReqSizes \cup {NotAllocated}
      OBVIOUS
    <2> QED
      BY <2>1 DEF MemInit, MemTypeOK
  <1>2. CallsConsistent
    BY DEF MemInit, CallsConsistent, InCall
  <1>3. Exclusive
    BY DEF MemInit, Exclusive, InCall
  <1>4. \A t \in Threads : Outstanding(t) = 0
    BY <1>1, <1>2, ThreadFacts DEF MemInit, InCall
  <1>5. \A p \in Ptrs : Due(p) = 0
    BY <1>1, DueFacts DEF MemInit
  <1>6. SumFunction(OutstandingAll) = 0
    <2>1. OutstandingAll \in [Threads -> Int] /\ \A t \in Threads : OutstandingAll[t] = 0
      BY <1>4 DEF OutstandingAll
    <2> QED
      BY <2>1, MallocFinite, SumZero
  <1>7. PICK due \in [Ptrs -> Int] : due = DueAll /\ \A p \in Ptrs : due[p] = 0
    <2>1. DueAll \in [Ptrs -> Int]
      BY <1>1, <1>2, AllFacts
    <2>2. \A p \in Ptrs : DueAll[p] = 0
      BY <1>5 DEF DueAll
    <2> QED
      BY <2>1, <2>2
  <1>8. SumFunction(due) = 0
    BY <1>7, MallocFinite, SumZero
  <1>9. ASSUME NEW m, Most(m) PROVE HeldIn(due, m)
    <2>1. m \in Nat /\ due \in [Ptrs -> 0..m]
      BY <1>7, <1>9 DEF Most
    <2>2. \A p \in Ptrs : HeldFor(due, p)
      <3>1. \A p \in Ptrs, t \in Threads : p \notin region[t]
        BY DEF MemInit
      <3> QED
        BY <1>5, <1>7, <3>1 DEF HeldFor
    <2> QED
      BY <1>8, <2>1, <2>2 DEF HeldIn, MemInit
  <1>10. used_memory + SumFunction(OutstandingAll) = SumFunction(DueAll)
    BY <1>6, <1>7, <1>8 DEF MemInit
  <1> QED
    BY <1>1, <1>2, <1>3, <1>9, <1>10 DEF MemInv

\* tf_alloc: the charge of the region changes by what the update adds.
LEMMA AllocStep ==
    ASSUME MemInv, NEW t \in Threads, NEW size \in ReqSizes, tf_alloc(t, size)
    PROVE  MemInv'
  <1>1. PICK p \in Ptrs \ Allocated :
          Begin(t, p, <<Rounded(size + PREFIX_SIZE)>>) /\ prefix' = [prefix EXCEPT ![p] = size]
    BY DEF tf_alloc
  <1>2. MemTypeOK /\ CallsConsistent /\ freeing' = freeing
    BY DEF MemInv, tf_alloc
  <1>3. size \in Nat /\ size # NotAllocated /\ prefix[p] = NotAllocated
    BY <1>1, MallocAssumption DEF NotAllocated, Allocated
  <1>4. PICK d \in Nat : d = Rounded(size + PREFIX_SIZE) /\ d = Rounded(size) + PREFIX_SIZE
    BY <1>3, RoundedFacts, MallocAssumption
  <1>5. ~Busy(p)
    BY <1>2, <1>3, ThreadFacts DEF Busy
  <1>6. /\ prefix' \in [Ptrs -> ReqSizes \cup {NotAllocated}] /\ prefix'[p] = size
        /\ \A q \in Ptrs : q # p => prefix'[q] = prefix[q]
    BY <1>1, <1>2 DEF MemTypeOK
  <1>7. ~freeing[t] /\ freeing \in [Threads -> BOOLEAN]
    BY <1>1, <1>2, ThreadFacts DEF Begin, MemTypeOK
  <1>8. Due(p)' = Due(p) + d
    <2>1. Due(p) = 0
      BY <1>2, <1>3, DueFacts
    <2>2. ~Leaving(p)'
      <3>1. region' = [region EXCEPT ![t] = {p}]
        BY <1>1 DEF Begin
      <3>2. \A u \in Threads : u # t => p \notin region'[u]
        BY <1>2, <1>5, <3>1 DEF Busy, MemTypeOK
      <3> QED
        BY <1>2, <1>7, <3>2 DEF Leaving
    <2>3. (p \in Allocated)' /\ Charged(p)' = d
      BY <1>3, <1>4, <1>6 DEF Allocated, Charged
    <2> QED
      BY <2>1, <2>2, <2>3 DEF Due
  <1>9. Updates(<<d>>, prefix'[p], freeing'[t])
    BY <1>2, <1>4, <1>6, <1>7 DEF Updates
  <1>10. SumFunction(<<d>>) = d /\ <<d>> # <<>>
    BY SumOfFew
  <1>11. Begin(t, p, <<d>>) /\ prefix'[p] # NotAllocated
    BY <1>1, <1>3, <1>4, <1>6
  <1> QED
    BY <1>2, <1>5, <1>6, <1>7, <1>8, <1>9, <1>10, <1>11, BeginStep

\* tf_realloc: the old size comes off, the new one is added.
LEMMA ReallocStep ==
    ASSUME MemInv, NEW t \in Threads, NEW p \in Ptrs, NEW size \in ReqSizes, tf_realloc(t, p, size)
    PROVE  MemInv'
  <1>1. /\ Begin(t, p, <<-Rounded(prefix[p]), Rounded(size)>>) /\ prefix' = [prefix EXCEPT ![p] = size]
        /\ p \in Allocated /\ ~Busy(p)
    BY DEF tf_realloc
  <1>2. MemTypeOK /\ CallsConsistent /\ freeing' = freeing
    BY DEF MemInv, tf_realloc
  <1>3. size \in Nat /\ size # NotAllocated /\ prefix[p] # NotAllocated /\ prefix[p] \in ReqSizes
    BY <1>1, <1>2, MallocAssumption DEF NotAllocated, Allocated, MemTypeOK
  <1>4. PICK a \in Nat, b \in Nat : a = Rounded(prefix[p]) /\ b = Rounded(size)
    <2>1. prefix[p] \in Nat
      BY <1>3, SizesNat
    <2> QED
      BY <1>3, <2>1, RoundedFacts
  <1>5. PICK d \in Int, e \in Int : d = -a + b /\ e = -a
    OBVIOUS
  <1>6. /\ prefix' \in [Ptrs -> ReqSizes \cup {NotAllocated}] /\ prefix'[p] = size
        /\ \A q \in Ptrs : q # p => prefix'[q] = prefix[q]
    BY <1>1, <1>2 DEF MemTypeOK
  <1>7. ~freeing[t] /\ freeing \in [Threads -> BOOLEAN]
    BY <1>1, <1>2, ThreadFacts DEF Begin, MemTypeOK
  <1>8. Due(p)' = Due(p) + d
    <2>1. ~Leaving(p)
      BY <1>1 DEF Leaving, Busy
    <2>2. Due(p) = a + PREFIX_SIZE /\ PREFIX_SIZE \in Nat
      BY <1>2, <1>3, <1>4, <2>1, DueFacts, MallocAssumption
    <2>3. ~Leaving(p)'
      <3>1. region' = [region EXCEPT ![t] = {p}]
        BY <1>1 DEF Begin
      <3>2. \A u \in Threads : u # t => p \notin region'[u]
        BY <1>1, <1>2, <3>1 DEF Busy, MemTypeOK
      <3> QED
        BY <1>2, <1>7, <3>2 DEF Leaving
    <2>4. (p \in Allocated)' /\ Charged(p)' = b + PREFIX_SIZE
      BY <1>3, <1>4, <1>6 DEF Allocated, Charged
    <2>5. Due(p)' = b + PREFIX_SIZE
      BY <2>3, <2>4 DEF Due
    <2> QED
      BY <1>5, <2>2, <2>5
  <1>9. Updates(<<e, b>>, prefix'[p], freeing'[t])
    BY <1>2, <1>3, <1>4, <1>5, <1>6, <1>7 DEF Updates
  <1>10. SumFunction(<<e, b>>) = d /\ <<e, b>> # <<>>
    BY <1>5, SumOfFew
  <1>11. Begin(t, p, <<e, b>>) /\ prefix'[p] # NotAllocated /\ ~Busy(p)
    BY <1>1, <1>3, <1>4, <1>5, <1>6
  <1> QED
    BY <1>2, <1>6, <1>7, <1>8, <1>9, <1>10, <1>11, BeginStep

\* tf_free: the size and its prefix come off.
LEMMA FreeStep ==
    ASSUME MemInv, NEW t \in Threads, NEW p \in Ptrs, tf_free(t, p)
    PROVE  MemInv'
  <1>1. /\ Begin(t, p, <<-Rounded(prefix[p] + PREFIX_SIZE)>>) /\ prefix' = prefix
        /\ p \in Allocated /\ ~Busy(p) /\ freeing' = [freeing EXCEPT ![t] = TRUE]
    BY DEF tf_free
  <1>2. MemTypeOK /\ CallsConsistent
    BY DEF MemInv
  <1>3. prefix[p] # NotAllocated /\ prefix[p] \in ReqSizes /\ prefix[p] \in Nat
    <2>1. prefix[p] # NotAllocated /\ prefix[p] \in ReqSizes
      BY <1>1, <1>2 DEF Allocated, MemTypeOK
    <2> QED
      BY <2>1, SizesNat
  <1>4. PICK a \in Nat : a = Rounded(prefix[p] + PREFIX_SIZE) /\ a = Rounded(prefix[p]) + PREFIX_SIZE
    BY <1>3, RoundedFacts, MallocAssumption
  <1>5. PICK d \in Int : d = -a
    OBVIOUS
  <1>6. prefix' \in [Ptrs -> ReqSizes \cup {NotAllocated}] /\ prefix'[p] = prefix[p]
    BY <1>1, <1>2 DEF MemTypeOK
  <1>7. /\ freeing' \in [Threads -> BOOLEAN] /\ freeing'[t] = TRUE
        /\ \A u \in Threads : u # t => freeing'[u] = freeing[u]
    BY <1>1, <1>2 DEF MemTypeOK
  <1>8. Due(p)' = Due(p) + d
    <2>1. ~Leaving(p)
      BY <1>1 DEF Leaving, Busy
    <2>2. Due(p) = a
      BY <1>2, <1>3, <1>4, <2>1, DueFacts
    <2>3. Leaving(p)'
      <3>1. region' = [region EXCEPT ![t] = {p}]
        BY <1>1 DEF Begin
      <3>2. p \in region'[t]
        BY <1>2, <3>1 DEF MemTypeOK
      <3> QED
        BY <1>7, <3>2 DEF Leaving
    <2>4. Due(p)' = 0
      BY <2>3 DEF Due
    <2> QED
      BY <1>5, <2>2, <2>4
  <1>9. Updates(<<d>>, prefix'[p], freeing'[t])
    BY <1>4, <1>5, <1>6, <1>7 DEF Updates
  <1>10. SumFunction(<<d>>) = d /\ <<d>> # <<>>
    BY SumOfFew
  <1>11. Begin(t, p, <<d>>) /\ prefix'[p] # NotAllocated /\ ~Busy(p) /\ \A q \in Ptrs : q # p => prefix'[q] = prefix[q]
    BY <1>1, <1>3, <1>4, <1>5, <1>6
  <1> QED
    BY <1>6, <1>7, <1>8, <1>9, <1>10, <1>11, BeginStep

\* Every step preserves the invariant.
LEMMA MemStep == MemInv /\ [MemNext]_memVars => MemInv'
  <1> SUFFICES ASSUME MemInv, [MemNext]_memVars PROVE MemInv'
    OBVIOUS
  <1>1. MemTypeOK /\ CallsConsistent
    BY DEF MemInv
  <1>2. ASSUME NEW t \in Threads, StatAtomic(t) PROVE MemInv'
    <2>1. InCall(t) /\ Done(t) /\ reading' = reading /\ reading[t] = <<>> /\ tf_malloc_thread_safe
      BY <1>2 DEF StatAtomic
    <2>2. disciplined => \A u \in Threads : reading'[u] = <<>>
      BY <2>1 DEF MemInv, Exclusive
    <2>3. used_memory' = Plus(used_memory, Head(todo[t])) /\ DOMAIN reading' = Threads
      BY <1>1, <1>2, <2>1 DEF StatAtomic, MemTypeOK
    <2> QED
      BY <2>1, <2>2, <2>3, StatStep
  <1>3. ASSUME NEW t \in Threads, StatWrite(t) PROVE MemInv'
    <2>1. reading[t] # <<>> /\ Done(t) /\ reading' = [reading EXCEPT ![t] = <<>>]
      BY <1>3 DEF StatWrite
    <2>2. InCall(t)
      BY <1>1, <2>1, ThreadFacts
    <2>3. /\ DOMAIN reading' = Threads /\ reading'[t] = <<>>
          /\ \A u \in Threads : u # t => reading'[u] = reading[u]
      BY <1>1, <2>1 DEF MemTypeOK
    <2>4. ASSUME disciplined
          PROVE  used_memory' = Plus(used_memory, Head(todo[t])) /\ \A u \in Threads : reading'[u] = <<>>
      <3>1. Exclusive
        BY <2>4 DEF MemInv
      <3>2. reading[t] = <<used_memory>> /\ ~tf_malloc_thread_safe
        BY <2>1, <3>1 DEF Exclusive
      <3>3. reading[t][1] = used_memory
        BY <3>2
      <3>4. ASSUME NEW u \in Threads, u # t PROVE reading[u] = <<>>
        <4>1. ~InCall(u)
          BY <2>2, <3>1, <3>2, <3>4 DEF Exclusive
        <4> QED
          BY <1>1, <4>1, ThreadFacts
      <3> QED
        BY <1>3, <2>3, <3>3, <3>4 DEF StatWrite
    <2> QED
      BY <2>1, <2>2, <2>3, <2>4, StatStep
  <1>4. ASSUME NEW t \in Threads, StatRead(t) PROVE MemInv'
    <2>1. /\ InCall(t) /\ ~tf_malloc_thread_safe /\ reading' = [reading EXCEPT ![t] = <<used_memory>>]
          /\ used_memory' = used_memory /\ tf_malloc_thread_safe' = tf_malloc_thread_safe /\ prefix' = prefix
          /\ todo' = todo /\ region' = region /\ freeing' = freeing /\ disciplined' = disciplined
      BY <1>4 DEF StatRead
    <2>2. MemTypeOK'
      BY <1>1, <2>1 DEF MemTypeOK
    <2>3. reading'[t] = <<used_memory>> /\ \A u \in Threads : u # t => reading'[u] = reading[u]
      BY <1>1, <2>1 DEF MemTypeOK
    <2>4. CallsConsistent'
      BY <1>1, <2>1, <2>3 DEF CallsConsistent, InCall
    <2>5. Exclusive => Exclusive'
      BY <2>1, <2>3 DEF Exclusive, InCall
    <2>6. OutstandingAll' = OutstandingAll /\ DueAll' = DueAll
      BY <2>1 DEF OutstandingAll, DueAll, Outstanding, Due, Allocated, Leaving, Charged
    <2>7. \A held, m : HeldIn(held, m) => HeldIn(held, m)'
      BY <2>1 DEF HeldIn, HeldFor, Busy, Outstanding, Due, Allocated, Leaving, Charged
    <2> QED
      BY <2>1, <2>2, <2>4, <2>5, <2>6, <2>7 DEF MemInv, Most
  <1>5. ASSUME tf_malloc_enable_thread_safeness PROVE MemInv'
    <2>1. /\ tf_malloc_thread_safe' = TRUE
          /\ disciplined' = (disciplined /\ (tf_malloc_thread_safe \/ \A o \in Threads : ~InCall(o)))
          /\ used_memory' = used_memory /\ reading' = reading /\ prefix' = prefix
          /\ todo' = todo /\ region' = region /\ freeing' = freeing
      BY <1>5 DEF tf_malloc_enable_thread_safeness
    <2>2. MemTypeOK'
      <3>1. disciplined' \in BOOLEAN
        BY <1>1, <2>1 DEF MemTypeOK
      <3> QED
        BY <1>1, <2>1, <3>1 DEF MemTypeOK
    <2>3. CallsConsistent'
      BY <1>1, <2>1 DEF CallsConsistent, InCall
    <2>4. ASSUME disciplined' PROVE Exclusive'
      <3>1. Exclusive /\ (tf_malloc_thread_safe \/ \A o \in Threads : ~InCall(o))
        BY <2>1, <2>4 DEF MemInv
      <3>2. \A u \in Threads : reading[u] = <<>>
        BY <1>1, <3>1, ThreadFacts DEF Exclusive
      <3> QED
        BY <2>1, <3>2 DEF Exclusive
    <2>5. OutstandingAll' = OutstandingAll /\ DueAll' = DueAll
      BY <2>1 DEF OutstandingAll, DueAll, Outstanding, Due, Allocated, Leaving, Charged
    <2>6. \A held, m : HeldIn(held, m) => HeldIn(held, m)'
      BY <2>1 DEF HeldIn, HeldFor, Busy, Outstanding, Due, Allocated, Leaving, Charged
    <2> QED
      BY <2>1, <2>2, <2>3, <2>4, <2>5, <2>6 DEF MemInv, Most
  <1>6. CASE UNCHANGED memVars
    <2>1. /\ tf_malloc_thread_safe' = tf_malloc_thread_safe /\ disciplined' = disciplined
          /\ used_memory' = used_memory /\ reading' = reading /\ prefix' = prefix
          /\ todo' = todo /\ region' = region /\ freeing' = freeing
      BY <1>6 DEF memVars
    <2>2. MemTypeOK' /\ CallsConsistent'
      BY <1>1, <2>1 DEF MemTypeOK, CallsConsistent, InCall
    <2>3. Exclusive => Exclusive'
      BY <2>1 DEF Exclusive, InCall
    <2>4. OutstandingAll' = OutstandingAll /\ DueAll' = DueAll
      BY <2>1 DEF OutstandingAll, DueAll, Outstanding, Due, Allocated, Leaving, Charged
    <2>5. \A held, m : HeldIn(held, m) => HeldIn(held, m)'
      BY <2>1 DEF HeldIn, HeldFor, Busy, Outstanding, Due, Allocated, Leaving, Charged
    <2> QED
      BY <2>1, <2>2, <2>3, <2>4, <2>5 DEF MemInv, Most
  <1> QED
    BY <1>2, <1>3, <1>4, <1>5, <1>6, AllocStep, ReallocStep, FreeStep DEF MemNext

\* used_memory is exact and never leaves the range of size_t, for any number
\* of threads, regions and sizes, as long as thread safeness was enabled
\* before calls overlapped (tf_malloc.c).
THEOREM MallocAccountingExact == MemSpec => []AccountingExact
  <1>1. MemInv => AccountingExact
    BY DEF MemInv, AccountingExact, OutstandingAll, DueAll
  <1> QED
    BY MemStart, MemStep, <1>1, PTL DEF MemSpec

-----------------------------------------------------------------------------
(* Base64, hexadecimal digits and BCD.                                     *)

\* The greatest element of a set of integers is its maximum.
LEMMA GreatestIsMax ==
    ASSUME NEW S \in SUBSET Int, NEW x \in S, \A y \in S : y <= x
    PROVE  Max(S) = x
<1>1. Max(S) \in S /\ \A y \in S : Max(S) >= y
  BY DEF Max
<1>2. Max(S) \in Int /\ x \in Int
  BY <1>1
<1>3. Max(S) <= x /\ x <= Max(S)
  BY <1>1
<1> QED
  BY ONLY <1>2, <1>3

\* The two halves of a byte, and what HexDigit and Lowered make of them.
LEMMA Halves ==
    ASSUME NEW b \in 0..255
    PROVE  /\ b \div 16 \in 0..15 /\ b % 16 \in 0..15
           /\ ((b \div 16) * 16) + (b % 16) = b
OBVIOUS

\* Digits and letters, in upper and in lower case.
LEMMA HexDigits ==
    ASSUME NEW n \in 0..15
    PROVE  /\ n <= 9 => HexDigit(n) = n + 48 /\ Lowered(HexDigit(n)) = n + 48
           /\ n > 9 => HexDigit(n) = n + 55 /\ Lowered(HexDigit(n)) = n + 87
BY DEF HexDigit, Lowered

\* The bytes that two positions of the digits belong to.
LEMMA Positions ==
    ASSUME NEW n \in Nat \ {0}
    PROVE  /\ ((2 * n) - 1 + 1) \div 2 = n /\ ((2 * n) - 1) % 2 = 1
           /\ ((2 * n) + 1) \div 2 = n /\ (2 * n) % 2 = 0 /\ (2 * n) \div 2 = n
OBVIOUS

\* The byte that a position of the digits belongs to.
LEMMA ByteAt ==
    ASSUME NEW d \in Seq(0..255), NEW i \in 1..(2 * Len(d))
    PROVE  (i + 1) \div 2 \in 1..Len(d) /\ d[(i + 1) \div 2] \in 0..255
<1>1. PICK m \in Nat : m = Len(d)
  OBVIOUS
<1>2. (i + 1) \div 2 \in 1..m
  BY <1>1
<1>3. PICK j \in 1..m : j = (i + 1) \div 2
  BY <1>2
<1>4. d[j] \in 0..255
  BY <1>1
<1> QED
  BY <1>1, <1>3, <1>4

\* The two digits of a byte.
LEMMA DigitsOf ==
    ASSUME NEW d \in Seq(0..255), NEW n \in 1..Len(d)
    PROVE  /\ (2 * n) - 1 \in 1..(2 * Len(d)) /\ 2 * n \in 1..(2 * Len(d))
           /\ ((2 * n) - 1 + 1) \div 2 = n /\ ((2 * n) - 1) % 2 = 1
           /\ ((2 * n) + 1) \div 2 = n /\ (2 * n) % 2 = 0
           /\ d[n] \in 0..255
<1>1. PICK m \in Nat : m = Len(d)
  OBVIOUS
<1>2. (2 * n) - 1 \in 1..(2 * m) /\ 2 * n \in 1..(2 * m) /\ n \in Nat \ {0}
  BY <1>1
<1>3. d[n] \in 0..255
  <2>1. n \in 1..m
    BY <1>1
  <2> QED
    BY <1>1, <2>1
<1> QED
  BY <1>1, <1>2, <1>3, Positions

\* BCD digits and back.
LEMMA BcdSurvives ==
    ASSUME NEW d \in Seq(0..255)
    PROVE  asc_to_bcd(bcd_to_asc(d)) = d
<1> DEFINE a == bcd_to_asc(d)
<1>1. PICK m \in Nat : m = Len(d) /\ DOMAIN d = 1..m
  OBVIOUS
<1>2. DOMAIN a = 1..(2 * m) /\ Len(a) = 2 * m
  <2>1. DOMAIN a = 1..(2 * m) /\ 2 * m \in Nat
    BY <1>1 DEF bcd_to_asc
  <2>2. \E z : a = [i \in 1..(2 * m) |-> z[i]]
    <3>1. a = [i \in 1..(2 * m) |-> a[i]]
      BY <1>1 DEF bcd_to_asc
    <3> QED
      BY <3>1
  <2>3. Len(a) = 2 * m
    <3> HIDE DEF a
    <3>1. PICK z : a = [i \in 1..(2 * m) |-> z[i]]
      BY <2>2
    <3> QED
      BY <2>1, <3>1
  <2> QED
    BY <2>1, <2>3
<1>3. ASSUME NEW n \in 1..m, NEW b \in 0..255, b = d[n]
      PROVE  a[(2 * n) - 1] = 48 + (b \div 16) /\ a[2 * n] = 48 + (b % 16)
  <2>1. /\ (2 * n) - 1 \in 1..(2 * m) /\ 2 * n \in 1..(2 * m)
        /\ ((2 * n) - 1 + 1) \div 2 = n /\ ((2 * n) - 1) % 2 = 1
        /\ ((2 * n) + 1) \div 2 = n /\ (2 * n) % 2 = 0
    BY <1>1, DigitsOf
  <2>2. PICK p \in 1..(2 * m) : p = (2 * n) - 1 /\ (p + 1) \div 2 = n /\ p % 2 = 1
    BY <2>1
  <2>3. PICK q \in 1..(2 * m) : q = 2 * n /\ (q + 1) \div 2 = n /\ q % 2 = 0
    BY <2>1
  <2>4. a[p] = 48 + (b \div 16)
    BY <1>1, <1>3, <2>2 DEF bcd_to_asc
  <2>5. a[q] = 48 + (b % 16)
    BY <1>1, <1>3, <2>3 DEF bcd_to_asc
  <2> HIDE DEF a
  <2> QED
    BY <2>2, <2>3, <2>4, <2>5
<1> HIDE DEF a
<1>4. (Len(a) + 1) \div 2 = m
  <2>1. PICK z \in Nat : z = Len(a) /\ z = 2 * m
    BY <1>2
  <2>2. (z + 1) \div 2 = m
    BY <2>1
  <2> QED
    BY <2>1, <2>2
<1>5. ASSUME NEW n \in 1..m
      PROVE  ((a[(2 * n) - 1] - 48) * 16) + (IF 2 * n > Len(a) THEN 0 ELSE a[2 * n] - 48) = d[n]
  <2>1. PICK b \in 0..255 : b = d[n]
    <3>1. d[n] \in 0..255
      BY <1>1, DigitsOf
    <3> QED
      BY <3>1
  <2>2. PICK hi \in 0..15, lo \in 0..15 : hi = b \div 16 /\ lo = b % 16 /\ b = (hi * 16) + lo
    BY Halves
  <2>3. a[(2 * n) - 1] = 48 + hi /\ a[2 * n] = 48 + lo
    BY <1>3, <2>1, <2>2
  <2>4. PICK p, q : p = a[(2 * n) - 1] /\ q = a[2 * n] /\ p = 48 + hi /\ q = 48 + lo
    BY <2>3
  <2>5. ~(2 * n > Len(a))
    BY <1>2
  <2>6. ((p - 48) * 16) + (q - 48) = b
    BY <2>2, <2>4
  <2>7. (IF 2 * n > Len(a) THEN 0 ELSE a[2 * n] - 48) = q - 48
    BY <2>4, <2>5
  <2> QED
    BY <2>1, <2>4, <2>6, <2>7
<1>6. asc_to_bcd(a) = [n \in 1..m |-> d[n]]
  BY <1>4, <1>5 DEF asc_to_bcd
<1> QED
  BY <1>1, <1>6 DEF a

\* The value of a digit in either case, whatever comes before it.
LEMMA HexValue ==
    ASSUME NEW dsp, NEW i \in Nat \ {0}, NEW n \in 0..15,
           dsp[i] \in {HexDigit(n), Lowered(HexDigit(n))}
    PROVE  (IF dsp[i] <= 57 THEN dsp[i] - 48 ELSE dsp[i] - OffsetAt(dsp, i) + 10) = n
<1>1. CASE n <= 9
  <2>1. dsp[i] = n + 48
    BY <1>1, HexDigits
  <2> QED
    BY <1>1, <2>1
<1>2. CASE n > 9
  <2>1. PICK c \in Nat : c = dsp[i] /\ c \in {n + 55, n + 87}
    BY <1>2, HexDigits
  <2>2. PICK letters : letters = {j \in 1..i : dsp[j] >= 65}
    OBVIOUS
  <2>3. letters \in SUBSET Int /\ i \in letters /\ \A y \in letters : y <= i
    BY <1>2, <2>1, <2>2
  <2>4. Max(letters) = i
    BY <2>3, GreatestIsMax
  <2>5. OffsetAt(dsp, i) = (CASE letters = {} -> 0 [] OTHER -> IF dsp[Max(letters)] >= 97 THEN 97 ELSE 65)
    BY <2>2 DEF OffsetAt
  <2>6. OffsetAt(dsp, i) = (IF c >= 97 THEN 97 ELSE 65)
    BY <2>1, <2>3, <2>4, <2>5
  <2>7. PICK o \in Nat : o = OffsetAt(dsp, i) /\ o = (IF c >= 97 THEN 97 ELSE 65)
    BY <2>6
  <2>8. ~(c <= 57) /\ (c - o) + 10 = n
    BY <1>2, <2>1, <2>7
  <2> QED
    BY <2>1, <2>7, <2>8
<1> QED
  BY <1>1, <1>2

\* The half of a byte that a digit stands for.
Half(d, i) == IF i % 2 = 1 THEN d[(i + 1) \div 2] \div 16 ELSE d[(i + 1) \div 2] % 16

\* The digits that bin_to_asc writes.
LEMMA Digits ==
    ASSUME NEW d \in Seq(0..255)
    PROVE  /\ DOMAIN bin_to_asc(d) = 1..(2 * Len(d))
           /\ \A i \in 1..(2 * Len(d)) : Half(d, i) \in 0..15 /\ bin_to_asc(d)[i] = HexDigit(Half(d, i))
<1>1. PICK m \in Nat : m = Len(d)
  OBVIOUS
<1>2. DOMAIN bin_to_asc(d) = 1..(2 * m)
  BY <1>1 DEF bin_to_asc
<1>3. ASSUME NEW i \in 1..(2 * m) PROVE Half(d, i) \in 0..15 /\ bin_to_asc(d)[i] = HexDigit(Half(d, i))
  <2>1. PICK b \in 0..255 : b = d[(i + 1) \div 2]
    BY <1>1, ByteAt
  <2>2. b \div 16 \in 0..15 /\ b % 16 \in 0..15
    BY Halves
  <2>3. Half(d, i) \in 0..15
    BY <2>1, <2>2 DEF Half
  <2>4. bin_to_asc(d)[i] = HexDigit(Half(d, i))
    BY <1>1 DEF bin_to_asc, Half
  <2> QED
    BY <2>3, <2>4
<1> QED
  BY <1>1, <1>2, <1>3

\* Hexadecimal digits and back, in any case of the letters.
LEMMA HexSurvives ==
    ASSUME NEW d \in Seq(0..255), NEW dsp, DOMAIN dsp = 1..(2 * Len(d)), Len(dsp) = 2 * Len(d),
           \A i \in 1..(2 * Len(d)) : dsp[i] \in {HexDigit(Half(d, i)), Lowered(HexDigit(Half(d, i)))}
    PROVE  asc_to_bin(dsp) = d
<1> DEFINE value(i) == IF dsp[i] <= 57 THEN dsp[i] - 48 ELSE dsp[i] - OffsetAt(dsp, i) + 10
<1>1. PICK m \in Nat : m = Len(d) /\ DOMAIN d = 1..m
  OBVIOUS
<1>2. Len(dsp) \div 2 = m
  <2>1. PICK z \in Nat : z = Len(dsp) /\ z = 2 * m
    BY <1>1
  <2>2. z \div 2 = m
    BY <2>1
  <2> QED
    BY <2>1, <2>2
<1>3. ASSUME NEW i \in 1..(2 * m) PROVE value(i) = Half(d, i)
  <2>1. Half(d, i) \in 0..15
    BY <1>1, Digits
  <2>2. PICK n \in 0..15 : n = Half(d, i)
    BY <2>1
  <2>3. dsp[i] \in {HexDigit(n), Lowered(HexDigit(n))} /\ i \in Nat \ {0}
    BY <1>1, <2>2
  <2>4. value(i) = n
    BY <2>3, HexValue
  <2> QED
    BY <2>2, <2>4
<1>4. ASSUME NEW n \in 1..m
      PROVE  ((value((2 * n) - 1) * 16) + value(2 * n)) % 256 = d[n]
  <2>1. /\ (2 * n) - 1 \in 1..(2 * m) /\ 2 * n \in 1..(2 * m)
        /\ ((2 * n) - 1 + 1) \div 2 = n /\ ((2 * n) - 1) % 2 = 1
        /\ ((2 * n) + 1) \div 2 = n /\ (2 * n) % 2 = 0
        /\ d[n] \in 0..255
    BY <1>1, DigitsOf
  <2>2. PICK p \in 1..(2 * m) : p = (2 * n) - 1 /\ (p + 1) \div 2 = n /\ p % 2 = 1
    BY <2>1
  <2>3. PICK q \in 1..(2 * m) : q = 2 * n /\ (q + 1) \div 2 = n /\ q % 2 = 0
    BY <2>1
  <2>4. PICK b \in 0..255 : b = d[n]
    BY <2>1
  <2>5. PICK hi \in 0..15, lo \in 0..15 : hi = b \div 16 /\ lo = b % 16 /\ b = (hi * 16) + lo
    BY Halves
  <2>6. value(p) = hi
    <3>1. Half(d, p) = hi
      BY <2>2, <2>4, <2>5 DEF Half
    <3> HIDE DEF value
    <3> QED
      BY <1>3, <3>1
  <2>7. value(q) = lo
    <3>1. ~(q % 2 = 1) /\ (q + 1) \div 2 = n
      BY <2>3
    <3>2. Half(d, q) = d[n] % 16
      BY <3>1, Zenon DEF Half
    <3>3. Half(d, q) = lo
      BY <2>4, <2>5, <3>2
    <3> HIDE DEF value
    <3> QED
      BY <1>3, <3>3
  <2> HIDE DEF value
  <2>8. value((2 * n) - 1) = hi /\ value(2 * n) = lo
    BY <2>2, <2>3, <2>6, <2>7
  <2>9. ((hi * 16) + lo) % 256 = b
    BY <2>5
  <2> QED
    BY <2>4, <2>8, <2>9
<1>5. asc_to_bin(dsp) = [n \in 1..m |-> ((value((2 * n) - 1) * 16) + value(2 * n)) % 256]
  BY <1>2 DEF asc_to_bin
<1> HIDE DEF value
<1>6. asc_to_bin(dsp) = [n \in 1..m |-> d[n]]
  BY <1>4, <1>5
<1> QED
  BY <1>1, <1>6


\* The greatest element that the fold of decode_base64 takes first.
LEMMA MaxOf ==
    ASSUME NEW n \in Nat, NEW s \in SUBSET (1..n), s # {}
    PROVE  Max(s) \in s
<1>1. PICK T : T = {n - x : x \in s}
  OBVIOUS
<1>2. T \subseteq Nat /\ T # {}
  <2>1. ASSUME NEW x \in s PROVE n - x \in Nat
    OBVIOUS
  <2>2. T \subseteq Nat
    BY <1>1, <2>1
  <2>3. T # {}
    BY <1>1
  <2> QED
    BY <2>2, <2>3
<1>3. PICK t \in T : \A y \in T : t <= y
  BY <1>2, LeastOf
<1>4. PICK x \in s : t = n - x
  BY <1>1, <1>3
<1>5. ASSUME NEW y \in s PROVE y <= x
  <2>1. n - y \in T
    BY <1>1
  <2>2. n - x <= n - y /\ x \in Int /\ y \in Int
    BY <1>3, <1>4, <2>1
  <2> QED
    BY <2>2
<1>6. s \in SUBSET Int
  OBVIOUS
<1>7. Max(s) = x
  BY <1>5, <1>6, GreatestIsMax
<1> QED
  BY <1>7

\* The state of decode_base64.
Decoded(out, part, quad, end) == [out |-> out, part |-> part, quad |-> quad, end |-> end]

\* One step of the fold of decode_base64, and the function it defines.
DecBody(g, str, s) ==
    IF s = {} THEN Decoded(<<>>, 0, 0, FALSE)
    ELSE DecodeChar(str, g[s \ {Max(s)}], [i \in DOMAIN str |-> i][Max(s)])
DecFun(g, str, D) == [s \in SUBSET D |-> DecBody(g, str, s)]

\* What the fold of the library stands for.
LEMMA DecodeUnfolds ==
    ASSUME NEW str, NEW D, D = DOMAIN str
    PROVE  decode_base64(str) = (CHOOSE g : g = DecFun(g, str, D))[D].out
<1>1. DOMAIN [i \in DOMAIN str |-> i] = D
  OBVIOUS
<1> QED
  BY <1>1 DEF decode_base64, FoldLeft, MapThenFoldSet, DecFun, DecBody, Decoded

\* The step, subset by subset.
LEMMA DecFunAt ==
    ASSUME NEW str, NEW D, NEW g, NEW h, h = DecFun(g, str, D), NEW s \in SUBSET D
    PROVE  h[s] = DecBody(g, str, s)
  BY DEF DecFun

\* The positions of a string of length n, and a finite set.
IsSpan(D, n) == D = 1..n

DecodedUpTo(g, str, D, d) == \A s \in SUBSET D : Cardinality(s) <= d => g[s] = DecBody(g, str, s)

\* The fold is defined.
LEMMA DecodeExists ==
    ASSUME NEW n \in Nat, NEW D, IsSpan(D, n), NEW str
    PROVE  \E g : g = DecFun(g, str, D)
  <1>0. IsFiniteSet(D) /\ Cardinality(D) \in Nat
    BY FS_Interval, FS_CardinalityType DEF IsSpan
  <1>1. PICK S : S = {d \in Nat : \E g : DecodedUpTo(g, str, D, d)}
    OBVIOUS
  <1>2. ASSUME NEW g, NEW h, NEW s \in SUBSET D,
               \A r \in SUBSET D : Cardinality(r) < Cardinality(s) => g[r] = h[r]
        PROVE  DecBody(g, str, s) = DecBody(h, str, s)
    <2>1. CASE s = {}
      BY <2>1 DEF DecBody
    <2>2. CASE s # {}
      <3>1. Max(s) \in s
        BY <2>2, MaxOf DEF IsSpan
      <3>2. s \ {Max(s)} \in SUBSET D /\ Cardinality(s \ {Max(s)}) < Cardinality(s)
        BY <1>0, <3>1, LessOne
      <3>3. g[s \ {Max(s)}] = h[s \ {Max(s)}]
        BY <1>2, <3>2
      <3> QED
        BY <3>3 DEF DecBody
    <2> QED
      BY <2>1, <2>2
  <1>3. ASSUME NEW g, NEW h, h = DecFun(g, str, D), NEW d \in Nat, DecodedUpTo(g, str, D, d)
        PROVE  DecodedUpTo(h, str, D, d + 1)
    <2> SUFFICES ASSUME NEW s \in SUBSET D, Cardinality(s) <= d + 1
                 PROVE  h[s] = DecBody(h, str, s)
      BY DEF DecodedUpTo
    <2>1. h[s] = DecBody(g, str, s)
      BY <1>3, DecFunAt
    <2>2. ASSUME NEW r \in SUBSET D, Cardinality(r) < Cardinality(s) PROVE g[r] = h[r]
      <3>1. h[r] = DecBody(g, str, r)
        BY <1>3, DecFunAt
      <3>2. Cardinality(r) \in Nat /\ Cardinality(s) \in Nat
        BY <1>0, LessOne
      <3>3. Cardinality(r) <= d
        BY <2>2, <3>2
      <3>4. g[r] = DecBody(g, str, r)
        BY <1>3, <3>3 DEF DecodedUpTo
      <3> QED
        BY <3>1, <3>4
    <2>3. DecBody(g, str, s) = DecBody(h, str, s)
      BY <1>2, <2>2
    <2> QED
      BY <2>1, <2>3
  <1>4. 0 \in S
    <2>1. PICK h : h = DecFun(0, str, D)
      OBVIOUS
    <2>2. DecodedUpTo(h, str, D, 0)
      <3> SUFFICES ASSUME NEW s \in SUBSET D, Cardinality(s) <= 0
                   PROVE  h[s] = DecBody(h, str, s)
        BY DEF DecodedUpTo
      <3>1. h[s] = DecBody(0, str, s)
        BY <2>1, DecFunAt
      <3>2. s = {}
        BY <1>0, LessOne
      <3> QED
        BY <3>1, <3>2 DEF DecBody
    <2> QED
      BY <1>1, <2>2
  <1>5. ASSUME NEW d \in Nat, d \in S PROVE d + 1 \in S
    <2>1. PICK g : DecodedUpTo(g, str, D, d)
      BY <1>1, <1>5
    <2>2. PICK h : h = DecFun(g, str, D)
      OBVIOUS
    <2>3. DecodedUpTo(h, str, D, d + 1)
      BY <1>3, <2>1, <2>2
    <2> QED
      BY <1>1, <2>3
  <1>6. Cardinality(D) \in S
    BY <1>0, <1>4, <1>5, SetInduction
  <1>7. PICK g : DecodedUpTo(g, str, D, Cardinality(D))
    BY <1>1, <1>6
  <1>8. PICK h : h = DecFun(g, str, D)
    OBVIOUS
  <1>9. ASSUME NEW s \in SUBSET D PROVE g[s] = h[s]
    <2>1. Cardinality(s) <= Cardinality(D)
      BY <1>0, LessOne
    <2>2. g[s] = DecBody(g, str, s)
      BY <1>7, <2>1 DEF DecodedUpTo
    <2> QED
      BY <1>8, <2>2, DecFunAt
  <1>10. ASSUME NEW s \in SUBSET D PROVE DecBody(g, str, s) = DecBody(h, str, s)
    BY <1>2, <1>9
  <1>11. DecFun(g, str, D) = DecFun(h, str, D)
    BY <1>10 DEF DecFun
  <1> QED
    BY <1>8, <1>11

\* decode_base64 takes the characters one after the other.
LEMMA DecodeRuns ==
    ASSUME NEW n \in Nat, NEW str, DOMAIN str = 1..n
    PROVE  \E st : /\ st[0] = Decoded(<<>>, 0, 0, FALSE)
                   /\ \A k \in 1..n : st[k] = DecodeChar(str, st[k - 1], k)
                   /\ decode_base64(str) = st[n].out
<1>1. PICK D : IsSpan(D, n) /\ D = DOMAIN str
  BY DEF IsSpan
<1>2. PICK g : g = DecFun(g, str, D) /\ decode_base64(str) = g[D].out
  <2>1. \E g : g = DecFun(g, str, D)
    BY <1>1, DecodeExists
  <2>2. PICK g : g = CHOOSE h : h = DecFun(h, str, D)
    OBVIOUS
  <2>3. g = DecFun(g, str, D)
    BY <2>1, <2>2
  <2> QED
    BY <1>1, <2>2, <2>3, DecodeUnfolds
<1>3. PICK st : st = [k \in 0..n |-> g[1..k]]
  OBVIOUS
<1>4. st[0] = Decoded(<<>>, 0, 0, FALSE)
  <2>1. g[{}] = DecBody(g, str, {})
    BY <1>2, DecFunAt
  <2>2. 1..0 = {} /\ 0 \in 0..n
    OBVIOUS
  <2>3. st[0] = g[{}]
    BY <1>3, <2>2
  <2> QED
    BY <2>1, <2>3 DEF DecBody
<1>5. ASSUME NEW k \in 1..n PROVE st[k] = DecodeChar(str, st[k - 1], k)
  <2>1. PICK s : s = 1..k
    OBVIOUS
  <2>2. s # {} /\ s \in SUBSET Int /\ k \in s /\ \A y \in s : y <= k
    BY <2>1
  <2>9. s \in SUBSET D
    BY <1>1, <2>1 DEF IsSpan
  <2>3. Max(s) = k
    BY <2>2, GreatestIsMax
  <2>4. g[s] = DecBody(g, str, s)
    BY <1>2, <2>9, DecFunAt
  <2>5. s \ {k} = 1..(k - 1)
    BY <2>1
  <2>6. [i \in DOMAIN str |-> i][k] = k
    OBVIOUS
  <2>7. g[s] = DecodeChar(str, g[1..(k - 1)], k)
    BY <2>2, <2>3, <2>4, <2>5, <2>6 DEF DecBody
  <2>8. st[k] = g[s] /\ st[k - 1] = g[1..(k - 1)]
    BY <1>3, <2>1
  <2> QED
    BY <2>7, <2>8
<1>6. st[n] = g[D]
  BY <1>1, <1>3 DEF IsSpan
<1> QED
  BY <1>2, <1>4, <1>5, <1>6


\* What DecodeChar changes of the state.
Put3(s, out, part, quad) == [s EXCEPT !.out = out, !.part = part, !.quad = quad]
Put2(s, part, quad) == [s EXCEPT !.part = part, !.quad = quad]
Put1(s, end) == [s EXCEPT !.end = end]

\* The fields of the state.
LEMMA Fields ==
    ASSUME NEW out, NEW part, NEW quad, NEW end, NEW r, r = Decoded(out, part, quad, end)
    PROVE  /\ r = [f \in {"out", "part", "quad", "end"} |-> r[f]]
           /\ r.out = out /\ r.part = part /\ r.quad = quad /\ r.end = end
BY DEF Decoded

\* The state after a byte is complete.
LEMMA PutAll ==
    ASSUME NEW out, NEW part, NEW quad, NEW end, NEW o, NEW p, NEW q
    PROVE  Put3(Decoded(out, part, quad, end), o, p, q) = Decoded(o, p, q, end)
<1>1. PICK s, r : s = Decoded(out, part, quad, end) /\ r = Decoded(o, p, q, end)
  OBVIOUS
<1>2. /\ s = [f \in {"out", "part", "quad", "end"} |-> s[f]]
      /\ s.out = out /\ s.part = part /\ s.quad = quad /\ s.end = end
  BY <1>1, Fields
<1>3. /\ r = [f \in {"out", "part", "quad", "end"} |-> r[f]]
      /\ r.out = o /\ r.part = p /\ r.quad = q /\ r.end = end
  BY <1>1, Fields
<1>4. [s EXCEPT !.out = o, !.part = p, !.quad = q] = r
  BY ONLY <1>2, <1>3
<1> QED
  BY <1>1, <1>4 DEF Put3

\* The state after the first character of a group.
LEMMA PutTwo ==
    ASSUME NEW out, NEW part, NEW quad, NEW end, NEW p, NEW q
    PROVE  Put2(Decoded(out, part, quad, end), p, q) = Decoded(out, p, q, end)
<1>1. PICK s, r : s = Decoded(out, part, quad, end) /\ r = Decoded(out, p, q, end)
  OBVIOUS
<1>2. /\ s = [f \in {"out", "part", "quad", "end"} |-> s[f]]
      /\ s.out = out /\ s.part = part /\ s.quad = quad /\ s.end = end
  BY <1>1, Fields
<1>3. /\ r = [f \in {"out", "part", "quad", "end"} |-> r[f]]
      /\ r.out = out /\ r.part = p /\ r.quad = q /\ r.end = end
  BY <1>1, Fields
<1>4. [s EXCEPT !.part = p, !.quad = q] = r
  BY ONLY <1>2, <1>3
<1> QED
  BY <1>1, <1>4 DEF Put2

\* The state after the end.
LEMMA PutEnd ==
    ASSUME NEW out, NEW part, NEW quad, NEW end, NEW e
    PROVE  Put1(Decoded(out, part, quad, end), e) = Decoded(out, part, quad, e)
BY DEF Put1, Decoded

\* The state before and after the end of the text.
More(out, part, quad) == Decoded(out, part, quad, FALSE)
Ended(out, part, quad) == Decoded(out, part, quad, TRUE)

\* The four characters of a group.
LEMMA DecodeFirst ==
    ASSUME NEW str, NEW i, NEW v, v = str[i], v \in 0..63, NEW out, NEW part
    PROVE  DecodeChar(str, More(out, part, 0), i)
               = More(out, v * 4, 1)
<1>1. PICK s : s = Decoded(out, part, 0, FALSE)
  OBVIOUS
<1>2. s.end = FALSE /\ s.quad = 0 /\ s.part = part /\ s.out = out
  BY <1>1 DEF Decoded
<1>3. ~(v > PAD) /\ v # EOS /\ v # PAD /\ v < EOS
  BY DEF PAD, EOS
<1>4. DecodeChar(str, s, i) = Put2(s, v * 4, 1)
  BY <1>2, <1>3 DEF DecodeChar, Put2
<1>5. Put2(s, v * 4, 1) = Decoded(out, v * 4, 1, FALSE)
  <2>1. PICK f : f = FALSE
    OBVIOUS
  <2>2. Put2(Decoded(out, part, 0, f), v * 4, 1) = Decoded(out, v * 4, 1, f)
    BY PutTwo
  <2> QED
    BY ONLY <1>1, <2>1, <2>2, Zenon
<1> QED
  BY ONLY <1>1, <1>4, <1>5, Zenon DEF More

\* The second completes the first byte.
LEMMA DecodeSecond ==
    ASSUME NEW str, NEW i, NEW v, v = str[i], v \in 0..63, NEW out, NEW part
    PROVE  DecodeChar(str, More(out, part, 1), i)
               = More(Append(out, part + (v \div 16)), (v % 16) * 16, 2)
<1>1. PICK s : s = Decoded(out, part, 1, FALSE)
  OBVIOUS
<1>2. s.end = FALSE /\ s.quad = 1 /\ s.part = part /\ s.out = out
  BY <1>1 DEF Decoded
<1>3. ~(v > PAD) /\ v # EOS /\ v # PAD /\ v < EOS
  BY DEF PAD, EOS
<1>4. DecodeChar(str, s, i) = Put3(s, Append(out, part + (v \div 16)), (v % 16) * 16, 2)
  BY <1>2, <1>3 DEF DecodeChar, Put3
<1>5. Put3(s, Append(out, part + (v \div 16)), (v % 16) * 16, 2) = Decoded(Append(out, part + (v \div 16)), (v % 16) * 16, 2, FALSE)
  <2>1. PICK f : f = FALSE
    OBVIOUS
  <2>2. Put3(Decoded(out, part, 1, f), Append(out, part + (v \div 16)), (v % 16) * 16, 2) = Decoded(Append(out, part + (v \div 16)), (v % 16) * 16, 2, f)
    BY PutAll
  <2> QED
    BY ONLY <1>1, <2>1, <2>2, Zenon
<1> QED
  BY ONLY <1>1, <1>4, <1>5, Zenon DEF More

\* The third completes the second byte.
LEMMA DecodeThird ==
    ASSUME NEW str, NEW i, NEW v, v = str[i], v \in 0..63, NEW out, NEW part
    PROVE  DecodeChar(str, More(out, part, 2), i)
               = More(Append(out, part + (v \div 4)), (v % 4) * 64, 3)
<1>1. PICK s : s = Decoded(out, part, 2, FALSE)
  OBVIOUS
<1>2. s.end = FALSE /\ s.quad = 2 /\ s.part = part /\ s.out = out
  BY <1>1 DEF Decoded
<1>3. ~(v > PAD) /\ v # EOS /\ v # PAD /\ v < EOS
  BY DEF PAD, EOS
<1>4. DecodeChar(str, s, i) = Put3(s, Append(out, part + (v \div 4)), (v % 4) * 64, 3)
  BY <1>2, <1>3 DEF DecodeChar, Put3
<1>5. Put3(s, Append(out, part + (v \div 4)), (v % 4) * 64, 3) = Decoded(Append(out, part + (v \div 4)), (v % 4) * 64, 3, FALSE)
  <2>1. PICK f : f = FALSE
    OBVIOUS
  <2>2. Put3(Decoded(out, part, 2, f), Append(out, part + (v \div 4)), (v % 4) * 64, 3) = Decoded(Append(out, part + (v \div 4)), (v % 4) * 64, 3, f)
    BY PutAll
  <2> QED
    BY ONLY <1>1, <2>1, <2>2, Zenon
<1> QED
  BY ONLY <1>1, <1>4, <1>5, Zenon DEF More

\* The fourth completes the third byte.
LEMMA DecodeFourth ==
    ASSUME NEW str, NEW i, NEW v, v = str[i], v \in 0..63, NEW out, NEW part
    PROVE  DecodeChar(str, More(out, part, 3), i)
               = More(Append(out, part + v), 0, 0)
<1>1. PICK s : s = Decoded(out, part, 3, FALSE)
  OBVIOUS
<1>2. s.end = FALSE /\ s.quad = 3 /\ s.part = part /\ s.out = out
  BY <1>1 DEF Decoded
<1>3. ~(v > PAD) /\ v # EOS /\ v # PAD /\ v < EOS
  BY DEF PAD, EOS
<1>4. DecodeChar(str, s, i) = Put3(s, Append(out, part + v), 0, 0)
  BY <1>2, <1>3 DEF DecodeChar, Put3
<1>5. Put3(s, Append(out, part + v), 0, 0) = Decoded(Append(out, part + v), 0, 0, FALSE)
  <2>1. PICK f : f = FALSE
    OBVIOUS
  <2>2. Put3(Decoded(out, part, 3, f), Append(out, part + v), 0, 0) = Decoded(Append(out, part + v), 0, 0, f)
    BY PutAll
  <2> QED
    BY ONLY <1>1, <2>1, <2>2, Zenon
<1> QED
  BY ONLY <1>1, <1>4, <1>5, Zenon DEF More

\* The characters that end the text, and those after the end.
LEMMA DecodeEnds ==
    ASSUME NEW str, NEW i, NEW out, NEW part, NEW quad
    PROVE  /\ str[i] = EOS => DecodeChar(str, More(out, part, quad), i) = Ended(out, part, quad)
           /\ DecodeChar(str, Ended(out, part, quad), i) = Ended(out, part, quad)
           /\ str[i] = PAD /\ quad = 3 =>
                 DecodeChar(str, More(out, part, quad), i) = Ended(out, part, quad)
           /\ str[i] = PAD /\ str[i + 1] = PAD /\ quad = 2 =>
                 DecodeChar(str, More(out, part, quad), i) = Ended(out, part, quad)
<1>1. DecodeChar(str, Decoded(out, part, quad, TRUE), i) = Decoded(out, part, quad, TRUE)
  BY DEF DecodeChar, Decoded
<1>2. PICK s : s = Decoded(out, part, quad, FALSE)
  OBVIOUS
<1>3. s.end = FALSE /\ s.quad = quad
  BY <1>2 DEF Decoded
<1>4. Put1(s, TRUE) = Decoded(out, part, quad, TRUE)
  <2>1. PICK e, f : e = TRUE /\ f = FALSE
    OBVIOUS
  <2>2. Put1(Decoded(out, part, quad, f), e) = Decoded(out, part, quad, e)
    BY PutEnd
  <2> QED
    BY ONLY <1>2, <2>1, <2>2, Zenon
<1>5. ASSUME str[i] = EOS PROVE DecodeChar(str, s, i) = Put1(s, TRUE)
  BY <1>3, <1>5 DEF DecodeChar, PAD, EOS, Put1
<1>6. ASSUME str[i] = PAD, quad = 3 \/ (quad = 2 /\ str[i + 1] = PAD)
      PROVE  DecodeChar(str, s, i) = Put1(s, TRUE)
  <2>1. DecodeChar(str, s, i) = [s EXCEPT !.end = (s.quad = 3 \/ (s.quad = 2 /\ str[i + 1] = PAD))]
    BY <1>3, <1>6 DEF DecodeChar, PAD, EOS
  <2>2. (s.quad = 3 \/ (s.quad = 2 /\ str[i + 1] = PAD)) = TRUE
    BY <1>3, <1>6
  <2> QED
    BY <2>1, <2>2, Zenon DEF Put1
<1> QED
  BY <1>1, <1>2, <1>4, <1>5, <1>6, Zenon DEF More, Ended

\* The characters for three bytes and for the last two.
Chars3(a, b, c, v1, v2, v3, v4) ==
    /\ v1 = a \div 4 /\ v2 = ((a % 4) * 16) + (b \div 16)
    /\ v3 = ((b % 16) * 4) + (c \div 64) /\ v4 = c % 64
Chars2(a, b, v1, v2, v3) == v1 = a \div 4 /\ v2 = ((a % 4) * 16) + (b \div 16) /\ v3 = (b % 16) * 4

Bytes3(a, b, c, v1, v2, v3, v4) ==
    /\ v1 \in 0..63 /\ v2 \in 0..63 /\ v3 \in 0..63 /\ v4 \in 0..63
    /\ (v1 * 4) + (v2 \div 16) = a
    /\ ((v2 % 16) * 16) + (v3 \div 4) = b
    /\ ((v3 % 4) * 64) + v4 = c
Bytes2(a, b, v1, v2, v3) ==
    /\ v1 \in 0..63 /\ v2 \in 0..63 /\ v3 \in 0..63
    /\ (v1 * 4) + (v2 \div 16) = a
    /\ ((v2 % 16) * 16) + (v3 \div 4) = b

\* They are below 64, and the bytes come back from them.
LEMMA ThreeBytes ==
    ASSUME NEW a \in 0..255, NEW b \in 0..255, NEW c \in 0..255, NEW v1, NEW v2, NEW v3, NEW v4,
           Chars3(a, b, c, v1, v2, v3, v4)
    PROVE  Bytes3(a, b, c, v1, v2, v3, v4)
<1>1. PICK ah \in 0..63, al \in 0..3 : ah = a \div 4 /\ al = a % 4 /\ a = (4 * ah) + al
  OBVIOUS
<1>2. PICK bh \in 0..15, bl \in 0..15 : bh = b \div 16 /\ bl = b % 16 /\ b = (16 * bh) + bl
  OBVIOUS
<1>3. PICK ch \in 0..3, cl \in 0..63 : ch = c \div 64 /\ cl = c % 64 /\ c = (64 * ch) + cl
  OBVIOUS
<1>4. v1 = ah /\ v2 = (al * 16) + bh /\ v3 = (bl * 4) + ch /\ v4 = cl
  BY <1>1, <1>2, <1>3 DEF Chars3
<1>5. v2 \in 0..63 /\ v2 \div 16 = al /\ v2 % 16 = bh
  BY ONLY <1>4, al \in 0..3, bh \in 0..15
<1>6. v3 \in 0..63 /\ v3 \div 4 = bl /\ v3 % 4 = ch
  BY ONLY <1>4, bl \in 0..15, ch \in 0..3
<1> QED
  BY ONLY <1>1, <1>2, <1>3, <1>4, <1>5, <1>6 DEF Bytes3

\* So do the last two bytes.
LEMMA TwoBytes ==
    ASSUME NEW a \in 0..255, NEW b \in 0..255, NEW v1, NEW v2, NEW v3, Chars2(a, b, v1, v2, v3)
    PROVE  Bytes2(a, b, v1, v2, v3)
<1>1. PICK ah \in 0..63, al \in 0..3 : ah = a \div 4 /\ al = a % 4 /\ a = (4 * ah) + al
  OBVIOUS
<1>2. PICK bh \in 0..15, bl \in 0..15 : bh = b \div 16 /\ bl = b % 16 /\ b = (16 * bh) + bl
  OBVIOUS
<1>3. v1 = ah /\ v2 = (al * 16) + bh /\ v3 = bl * 4
  BY <1>1, <1>2 DEF Chars2
<1>4. v2 \in 0..63 /\ v2 \div 16 = al /\ v2 % 16 = bh
  BY ONLY <1>3, al \in 0..3, bh \in 0..15
<1>5. v3 \in 0..63 /\ v3 \div 4 = bl
  BY ONLY <1>3, bl \in 0..15
<1> QED
  BY ONLY <1>1, <1>2, <1>3, <1>4, <1>5 DEF Bytes2

\* st are the states of decode_base64 on the first n characters of str.
Runs(st, str, n) ==
    /\ st[0] = More(<<>>, 0, 0)
    /\ \A k \in 1..n : st[k] = DecodeChar(str, st[k - 1], k)

\* One character more.
LEMMA RunStep ==
    ASSUME NEW n \in Nat, NEW str, NEW st, Runs(st, str, n), NEW k \in Nat, k + 1 <= n
    PROVE  st[k + 1] = DecodeChar(str, st[k], k + 1)
<1>1. k + 1 \in 1..n /\ (k + 1) - 1 = k
  OBVIOUS
<1>2. PICK j \in 1..n : j = k + 1 /\ j - 1 = k
  BY <1>1
<1>3. st[j] = DecodeChar(str, st[j - 1], j)
  BY <1>2 DEF Runs
<1> QED
  BY <1>2, <1>3

\* The characters after the first k are those for three bytes, the last byte,
\* or the last two.
GroupAt(str, k, a, b, c) == Chars3(a, b, c, str[k + 1], str[k + 2], str[k + 3], str[k + 4])
OneAt(str, k, a) == str[k + 1] = a \div 4 /\ str[k + 2] = (a % 4) * 16 /\ str[k + 3] = PAD /\ str[k + 4] = PAD
TwoAt(str, k, a, b) == Chars2(a, b, str[k + 1], str[k + 2], str[k + 3]) /\ str[k + 4] = PAD

\* The state st[k] is at the start of a group and has o as its bytes.
StartAt(st, k, o) == st[k] = More(o, 0, 0)

GroupRead(n, str, st, k, o, a, b, c) ==
    /\ n \in Nat /\ Runs(st, str, n) /\ k \in Nat /\ k + 4 <= n
    /\ StartAt(st, k, o) /\ GroupAt(str, k, a, b, c)
    /\ a \in 0..255 /\ b \in 0..255 /\ c \in 0..255

\* Four characters give three bytes.
LEMMA GroupRuns ==
    ASSUME NEW n, NEW str, NEW st, NEW k, NEW o, NEW a, NEW b, NEW c, GroupRead(n, str, st, k, o, a, b, c)
    PROVE  StartAt(st, k + 4, Append(Append(Append(o, a), b), c))
<1>0. /\ n \in Nat /\ Runs(st, str, n) /\ k \in Nat /\ k + 4 <= n
      /\ StartAt(st, k, o) /\ GroupAt(str, k, a, b, c)
      /\ a \in 0..255 /\ b \in 0..255 /\ c \in 0..255
  BY DEF GroupRead
<1> USE <1>0
<1>1. PICK v1 \in 0..63, v2 \in 0..63, v3 \in 0..63, v4 \in 0..63 :
          /\ v1 = str[k + 1] /\ v2 = str[k + 2] /\ v3 = str[k + 3] /\ v4 = str[k + 4]
          /\ (v1 * 4) + (v2 \div 16) = a
          /\ ((v2 % 16) * 16) + (v3 \div 4) = b
          /\ ((v3 % 4) * 64) + v4 = c
  <2>1. PICK v1, v2, v3, v4 :
            v1 = str[k + 1] /\ v2 = str[k + 2] /\ v3 = str[k + 3] /\ v4 = str[k + 4]
    OBVIOUS
  <2>2. Chars3(a, b, c, v1, v2, v3, v4)
    BY <2>1 DEF GroupAt
  <2>3. Bytes3(a, b, c, v1, v2, v3, v4)
    BY <2>2, ThreeBytes
  <2> QED
    BY ONLY <2>1, <2>3 DEF Bytes3
<1>2. PICK k1 \in Nat, k2 \in Nat, k3 \in Nat, k4 \in Nat :
          /\ k1 = k + 1 /\ k2 = k1 + 1 /\ k3 = k2 + 1 /\ k4 = k3 + 1
          /\ k2 = k + 2 /\ k3 = k + 3 /\ k4 = k + 4
          /\ k1 <= n /\ k2 <= n /\ k3 <= n /\ k4 <= n
  OBVIOUS
<1>3. v1 = str[k1] /\ v2 = str[k2] /\ v3 = str[k3] /\ v4 = str[k4]
  BY <1>1, <1>2
<1>4. st[k1] = More(o, v1 * 4, 1)
  <2>1. st[k1] = DecodeChar(str, st[k], k1)
    BY <1>2, RunStep
  <2>2. DecodeChar(str, More(o, 0, 0), k1) = More(o, v1 * 4, 1)
    BY <1>3, DecodeFirst
  <2> QED
    BY <2>1, <2>2 DEF StartAt
<1>5. st[k2] = More(Append(o, a), (v2 % 16) * 16, 2)
  <2>1. st[k2] = DecodeChar(str, st[k1], k2)
    BY <1>2, RunStep
  <2>2. PICK p : p = v1 * 4 /\ a = p + (v2 \div 16)
    BY <1>1
  <2>3. DecodeChar(str, More(o, p, 1), k2) = More(Append(o, p + (v2 \div 16)), (v2 % 16) * 16, 2)
    BY <1>3, DecodeSecond
  <2> QED
    BY <1>4, <2>1, <2>2, <2>3
<1>6. st[k3] = More(Append(Append(o, a), b), (v3 % 4) * 64, 3)
  <2>1. st[k3] = DecodeChar(str, st[k2], k3)
    BY <1>2, RunStep
  <2>2. PICK p, q : p = (v2 % 16) * 16 /\ b = p + (v3 \div 4) /\ q = Append(o, a)
    BY <1>1
  <2>3. DecodeChar(str, More(q, p, 2), k3) = More(Append(q, p + (v3 \div 4)), (v3 % 4) * 64, 3)
    BY <1>3, DecodeThird
  <2> QED
    BY <1>5, <2>1, <2>2, <2>3
<1>7. st[k4] = More(Append(Append(Append(o, a), b), c), 0, 0)
  <2>1. st[k4] = DecodeChar(str, st[k3], k4)
    BY <1>2, RunStep
  <2>2. PICK p, q : p = (v3 % 4) * 64 /\ c = p + v4 /\ q = Append(Append(o, a), b)
    BY <1>1
  <2>3. DecodeChar(str, More(q, p, 3), k4) = More(Append(q, p + v4), 0, 0)
    BY <1>3, DecodeFourth
  <2> QED
    BY <1>6, <2>1, <2>2, <2>3
<1> QED
  BY <1>2, <1>7 DEF StartAt

\* The end without a remainder.
LEMMA EndRuns ==
    ASSUME NEW n \in Nat, NEW str, NEW st, Runs(st, str, n), NEW k \in Nat, n = k + 1, NEW o,
           StartAt(st, k, o), str[k + 1] = EOS
    PROVE  st[n].out = o
<1>1. st[k + 1] = DecodeChar(str, st[k], k + 1)
  BY RunStep
<1>2. DecodeChar(str, More(o, 0, 0), k + 1) = Ended(o, 0, 0)
  BY DecodeEnds
<1>3. Ended(o, 0, 0).out = o
  BY DEF Ended, Decoded
<1> QED
  BY <1>1, <1>2, <1>3 DEF StartAt

\* The end after one byte.
OneRead(n, str, st, k, o, a) ==
    /\ n \in Nat /\ Runs(st, str, n) /\ k \in Nat /\ n = k + 5
    /\ StartAt(st, k, o) /\ OneAt(str, k, a) /\ a \in 0..255

\* Four characters give one byte, the text ends at the first padding.
LEMMA OneRuns ==
    ASSUME NEW n, NEW str, NEW st, NEW k, NEW o, NEW a, OneRead(n, str, st, k, o, a)
    PROVE  st[n].out = Append(o, a)
<1>0. /\ n \in Nat /\ Runs(st, str, n) /\ k \in Nat /\ n = k + 5
      /\ StartAt(st, k, o) /\ OneAt(str, k, a) /\ a \in 0..255
  BY DEF OneRead
<1> USE <1>0
<1>1. PICK v1 \in 0..63, v2 \in 0..63 :
          /\ v1 = str[k + 1] /\ v2 = str[k + 2]
          /\ (v1 * 4) + (v2 \div 16) = a
  <2>1. a \div 4 \in 0..63 /\ (a % 4) * 16 \in 0..63 /\ ((a \div 4) * 4) + (((a % 4) * 16) \div 16) = a
    OBVIOUS
  <2> QED
    BY <2>1 DEF OneAt
<1>2. PICK k1 \in Nat, k2 \in Nat, k3 \in Nat, k4 \in Nat :
          /\ k1 = k + 1 /\ k2 = k1 + 1 /\ k3 = k2 + 1 /\ k4 = k3 + 1 /\ n = k4 + 1
          /\ k2 = k + 2 /\ k3 = k + 3 /\ k4 = k + 4
          /\ k1 <= n /\ k2 <= n /\ k3 <= n /\ k4 <= n
  OBVIOUS
<1>3. v1 = str[k1] /\ v2 = str[k2] /\ str[k3] = PAD /\ str[k3 + 1] = PAD
  BY <1>1, <1>2 DEF OneAt
<1>4. st[k1] = More(o, v1 * 4, 1)
  <2>1. st[k1] = DecodeChar(str, st[k], k1)
    BY <1>2, RunStep
  <2>2. DecodeChar(str, More(o, 0, 0), k1) = More(o, v1 * 4, 1)
    BY <1>3, DecodeFirst
  <2> QED
    BY <2>1, <2>2 DEF StartAt
<1>5. PICK r, q : q = Append(o, a) /\ st[k2] = More(q, r, 2)
  <2>1. st[k2] = DecodeChar(str, st[k1], k2)
    BY <1>2, RunStep
  <2>2. PICK p : p = v1 * 4 /\ a = p + (v2 \div 16)
    BY <1>1
  <2>3. DecodeChar(str, More(o, p, 1), k2) = More(Append(o, p + (v2 \div 16)), (v2 % 16) * 16, 2)
    BY <1>3, DecodeSecond
  <2>4. st[k2] = More(Append(o, a), (v2 % 16) * 16, 2)
    BY <1>4, <2>1, <2>2, <2>3
  <2> QED
    BY <2>4
<1>6. st[k3] = Ended(q, r, 2)
  <2>1. st[k3] = DecodeChar(str, st[k2], k3)
    BY <1>2, RunStep
  <2>2. DecodeChar(str, More(q, r, 2), k3) = Ended(q, r, 2)
    BY <1>3, DecodeEnds
  <2> QED
    BY <1>5, <2>1, <2>2
<1>7. st[k4] = Ended(q, r, 2)
  <2>1. st[k4] = DecodeChar(str, st[k3], k4)
    BY <1>2, RunStep
  <2>2. DecodeChar(str, Ended(q, r, 2), k4) = Ended(q, r, 2)
    BY DecodeEnds
  <2> QED
    BY <1>6, <2>1, <2>2
<1>8. st[n] = Ended(q, r, 2)
  <2>1. st[n] = DecodeChar(str, st[k4], n)
    BY <1>2, RunStep
  <2>2. DecodeChar(str, Ended(q, r, 2), n) = Ended(q, r, 2)
    BY DecodeEnds
  <2> QED
    BY <1>7, <2>1, <2>2
<1>9. Ended(q, r, 2).out = q
  BY DEF Ended, Decoded
<1> QED
  BY <1>5, <1>8, <1>9

\* The end after two bytes.
TwoRead(n, str, st, k, o, a, b) ==
    /\ n \in Nat /\ Runs(st, str, n) /\ k \in Nat /\ n = k + 5
    /\ StartAt(st, k, o) /\ TwoAt(str, k, a, b) /\ a \in 0..255 /\ b \in 0..255

\* Four characters give two bytes, the text ends at the padding.
LEMMA TwoRuns ==
    ASSUME NEW n, NEW str, NEW st, NEW k, NEW o, NEW a, NEW b, TwoRead(n, str, st, k, o, a, b)
    PROVE  st[n].out = Append(Append(o, a), b)
<1>0. /\ n \in Nat /\ Runs(st, str, n) /\ k \in Nat /\ n = k + 5
      /\ StartAt(st, k, o) /\ TwoAt(str, k, a, b) /\ a \in 0..255 /\ b \in 0..255
  BY DEF TwoRead
<1> USE <1>0
<1>1. PICK v1 \in 0..63, v2 \in 0..63, v3 \in 0..63 :
          /\ v1 = str[k + 1] /\ v2 = str[k + 2] /\ v3 = str[k + 3]
          /\ (v1 * 4) + (v2 \div 16) = a
          /\ ((v2 % 16) * 16) + (v3 \div 4) = b
  <2>1. PICK v1, v2, v3 : v1 = str[k + 1] /\ v2 = str[k + 2] /\ v3 = str[k + 3]
    OBVIOUS
  <2>2. Chars2(a, b, v1, v2, v3)
    BY <2>1 DEF TwoAt
  <2>3. Bytes2(a, b, v1, v2, v3)
    BY <2>2, TwoBytes
  <2> QED
    BY ONLY <2>1, <2>3 DEF Bytes2
<1>2. PICK k1 \in Nat, k2 \in Nat, k3 \in Nat, k4 \in Nat :
          /\ k1 = k + 1 /\ k2 = k1 + 1 /\ k3 = k2 + 1 /\ k4 = k3 + 1 /\ n = k4 + 1
          /\ k2 = k + 2 /\ k3 = k + 3 /\ k4 = k + 4
          /\ k1 <= n /\ k2 <= n /\ k3 <= n /\ k4 <= n
  OBVIOUS
<1>3. v1 = str[k1] /\ v2 = str[k2] /\ v3 = str[k3] /\ str[k4] = PAD
  BY <1>1, <1>2 DEF TwoAt
<1>4. st[k1] = More(o, v1 * 4, 1)
  <2>1. st[k1] = DecodeChar(str, st[k], k1)
    BY <1>2, RunStep
  <2>2. DecodeChar(str, More(o, 0, 0), k1) = More(o, v1 * 4, 1)
    BY <1>3, DecodeFirst
  <2> QED
    BY <2>1, <2>2 DEF StartAt
<1>5. st[k2] = More(Append(o, a), (v2 % 16) * 16, 2)
  <2>1. st[k2] = DecodeChar(str, st[k1], k2)
    BY <1>2, RunStep
  <2>2. PICK p : p = v1 * 4 /\ a = p + (v2 \div 16)
    BY <1>1
  <2>3. DecodeChar(str, More(o, p, 1), k2) = More(Append(o, p + (v2 \div 16)), (v2 % 16) * 16, 2)
    BY <1>3, DecodeSecond
  <2> QED
    BY <1>4, <2>1, <2>2, <2>3
<1>6. PICK r, q : q = Append(Append(o, a), b) /\ st[k3] = More(q, r, 3)
  <2>1. st[k3] = DecodeChar(str, st[k2], k3)
    BY <1>2, RunStep
  <2>2. PICK p, q : p = (v2 % 16) * 16 /\ b = p + (v3 \div 4) /\ q = Append(o, a)
    BY <1>1
  <2>3. DecodeChar(str, More(q, p, 2), k3) = More(Append(q, p + (v3 \div 4)), (v3 % 4) * 64, 3)
    BY <1>3, DecodeThird
  <2>4. st[k3] = More(Append(Append(o, a), b), (v3 % 4) * 64, 3)
    BY <1>5, <2>1, <2>2, <2>3
  <2> QED
    BY <2>4
<1>7. st[k4] = Ended(q, r, 3)
  <2>1. st[k4] = DecodeChar(str, st[k3], k4)
    BY <1>2, RunStep
  <2>2. DecodeChar(str, More(q, r, 3), k4) = Ended(q, r, 3)
    BY <1>3, DecodeEnds
  <2> QED
    BY <1>6, <2>1, <2>2
<1>8. st[n] = Ended(q, r, 3)
  <2>1. st[n] = DecodeChar(str, st[k4], n)
    BY <1>2, RunStep
  <2>2. DecodeChar(str, Ended(q, r, 3), n) = Ended(q, r, 3)
    BY DecodeEnds
  <2> QED
    BY <1>7, <2>1, <2>2
<1>9. Ended(q, r, 3).out = q
  BY DEF Ended, Decoded
<1> QED
  BY <1>6, <1>8, <1>9

\* The characters of the n-th group, of a position, and of the first groups.
Four(d, n) == outputbase64(d, (3 * n) - 2)
Code(d, k) == Four(d, (k + 3) \div 4)[k - (4 * ((k + 3) \div 4)) + 4]
Block(d, n) == [k \in 1..(4 * n) |-> Code(d, k)]

\* A group holds three bytes.
IsFour(d, n) ==
    \E a \in 0..255, b \in 0..255, c \in 0..255, v1 \in 0..63, v2 \in 0..63, v3 \in 0..63, v4 \in 0..63 :
        /\ a = d[(3 * n) - 2] /\ b = d[(3 * n) - 1] /\ c = d[3 * n]
        /\ Four(d, n) = <<v1, v2, v3, v4>>
        /\ Chars3(a, b, c, v1, v2, v3, v4)

\* What outputbase64 writes.
LEMMA FourIs ==
    ASSUME NEW d \in Seq(0..255), NEW n \in Nat \ {0}, 3 * n <= Len(d)
    PROVE  IsFour(d, n)
<1>1. PICK m \in Nat : m = Len(d)
  OBVIOUS
<1>2. PICK i \in 1..m, j \in 1..m, l \in 1..m :
          i = (3 * n) - 2 /\ j = (3 * n) - 1 /\ l = 3 * n /\ j = i + 1 /\ l = i + 2
  BY <1>1
<1>3. d[i] \in 0..255 /\ d[j] \in 0..255 /\ d[l] \in 0..255
  BY <1>1
<1>4. PICK a \in 0..255, b \in 0..255, c \in 0..255 : a = d[i] /\ b = d[j] /\ c = d[l]
  BY <1>3
<1>5. PICK v1, v2, v3, v4 :
          /\ v1 = a \div 4 /\ v2 = ((a % 4) * 16) + (b \div 16)
          /\ v3 = ((b % 16) * 4) + (c \div 64) /\ v4 = c % 64
  OBVIOUS
<1>6. Chars3(a, b, c, v1, v2, v3, v4)
  BY <1>5 DEF Chars3
<1>7. Bytes3(a, b, c, v1, v2, v3, v4)
  BY ONLY <1>6, a \in 0..255, b \in 0..255, c \in 0..255, ThreeBytes
<1>8. v1 \in 0..63 /\ v2 \in 0..63 /\ v3 \in 0..63 /\ v4 \in 0..63
  BY ONLY <1>7 DEF Bytes3
<1>9. Four(d, n) = outputbase64(d, i)
  BY <1>2 DEF Four
<1>10. outputbase64(d, i) = <<v1, v2, v3, v4>>
  <2>1. outputbase64(d, i) = <<d[i] \div 4, ((d[i] % 4) * 16) + (d[j] \div 16),
                               ((d[j] % 16) * 4) + (d[l] \div 64), d[l] % 64>>
    BY <1>2 DEF outputbase64
  <2> QED
    BY <1>4, <1>5, <2>1
<1> QED
  BY <1>2, <1>4, <1>6, <1>8, <1>9, <1>10 DEF IsFour

\* The position of a character in its group.
LEMMA CodeAt ==
    ASSUME NEW d, NEW n \in Nat \ {0}, NEW j \in 1..4, NEW k, k = (4 * n) - 4 + j
    PROVE  Code(d, k) = Four(d, n)[j]
<1>1. (k + 3) \div 4 = n
  OBVIOUS
<1>2. k - (4 * n) + 4 = j
  OBVIOUS
<1> QED
  BY <1>1, <1>2 DEF Code

\* A sequence is the concatenation of two others if its elements are theirs.
Joins(r, s, t, m, n) ==
    /\ r = [k \in 1..(m + n) |-> r[k]]
    /\ \A k \in 1..m : r[k] = s[k]
    /\ \A k \in 1..n : r[m + k] = t[k]

\* The sequence with these elements is the only one.
LEMMA Concatenation ==
    ASSUME NEW S, NEW s \in Seq(S), NEW t \in Seq(S), NEW m \in Nat, NEW n \in Nat, Len(s) = m, Len(t) = n,
           NEW r, Joins(r, s, t, m, n)
    PROVE  s \o t = r
<1>1. /\ s \o t \in Seq(S) /\ Len(s \o t) = Len(s) + Len(t)
      /\ \A i \in 1..(Len(s) + Len(t)) : (s \o t)[i] = IF i <= Len(s) THEN s[i] ELSE t[i - Len(s)]
  BY ConcatProperties
<1>2. PICK v : v = s \o t
  OBVIOUS
<1>3. v \in Seq(S) /\ Len(v) = m + n
  BY <1>1, <1>2
<1>4. v = [k \in 1..(m + n) |-> v[k]]
  BY ONLY <1>3
<1>5. ASSUME NEW k \in 1..(m + n) PROVE r[k] = v[k]
  <2>1. v[k] = IF k <= m THEN s[k] ELSE t[k - m]
    BY <1>1, <1>2
  <2>2. CASE k <= m
    <3>1. k \in 1..m
      BY <2>2
    <3> QED
      BY <2>1, <2>2, <3>1 DEF Joins
  <2>3. CASE ~(k <= m)
    <3>1. PICK j \in 1..n : j = k - m /\ k = m + j
      BY <2>3
    <3>2. r[m + j] = t[j]
      BY DEF Joins
    <3>3. v[k] = t[j]
      BY <2>1, <2>3, <3>1
    <3> QED
      BY <3>1, <3>2, <3>3
  <2> QED
    BY <2>2, <2>3
<1>6. r = [k \in 1..(m + n) |-> v[k]]
  BY ONLY <1>5, Joins(r, s, t, m, n) DEF Joins
<1> QED
  BY ONLY <1>2, <1>4, <1>6

\* The first groups are sequences of characters, one group longer each.
LEMMA BlockStep ==
    ASSUME NEW d \in Seq(0..255), NEW n \in Nat \ {0}, 3 * n <= Len(d), Block(d, n - 1) \in Seq(0..63)
    PROVE  /\ Four(d, n) \in Seq(0..63)
           /\ Block(d, n - 1) \o Four(d, n) = Block(d, n)
           /\ Block(d, n) \in Seq(0..63)
<1>1. \E v1 \in 0..63, v2 \in 0..63, v3 \in 0..63, v4 \in 0..63 : Four(d, n) = <<v1, v2, v3, v4>>
  <2>1. IsFour(d, n)
    BY FourIs
  <2>2. PICK a \in 0..255, b \in 0..255, c \in 0..255, v1 \in 0..63, v2 \in 0..63, v3 \in 0..63, v4 \in 0..63 :
            /\ a = d[(3 * n) - 2] /\ b = d[(3 * n) - 1] /\ c = d[3 * n]
            /\ Four(d, n) = <<v1, v2, v3, v4>>
            /\ Chars3(a, b, c, v1, v2, v3, v4)
    BY ONLY <2>1, Zenon DEF IsFour
  <2> QED
    BY ONLY <2>2
<1>2. PICK t : t = Four(d, n)
  OBVIOUS
<1>3. t \in Seq(0..63) /\ Len(t) = 4
  <2>1. PICK v1 \in 0..63, v2 \in 0..63, v3 \in 0..63, v4 \in 0..63 : t = <<v1, v2, v3, v4>>
    BY <1>1, <1>2
  <2> QED
    BY ONLY <2>1
<1>4. PICK s : s = Block(d, n - 1)
  OBVIOUS
<1>5. PICK m \in Nat : m = 4 * (n - 1) /\ m + 4 = 4 * n /\ m = (4 * n) - 4
  OBVIOUS
<1>6. s = [k \in 1..m |-> Code(d, k)] /\ s \in Seq(0..63)
  BY <1>4, <1>5 DEF Block
<1>7. Len(s) = m
  BY <1>6
<1>8. PICK r : r = Block(d, n)
  OBVIOUS
<1>9. r = [k \in 1..(m + 4) |-> Code(d, k)]
  BY <1>5, <1>8 DEF Block
<1>10. r = [k \in 1..(m + 4) |-> r[k]] /\ \A k \in 1..m : r[k] = s[k]
  BY <1>6, <1>9
<1>11. ASSUME NEW j \in 1..4 PROVE r[m + j] = t[j]
  <2>1. Code(d, m + j) = Four(d, n)[j]
    <3>1. PICK k : k = m + j /\ k = (4 * n) - 4 + j
      BY <1>5
    <3> QED
      BY <3>1, CodeAt
  <2>2. m + j \in 1..(m + 4)
    OBVIOUS
  <2> QED
    BY <1>2, <1>9, <2>1, <2>2
<1>12. Joins(r, s, t, m, 4)
  BY <1>10, <1>11 DEF Joins
<1>13. s \o t = r
  <2>1. PICK four \in Nat : four = 4
    OBVIOUS
  <2>2. Joins(r, s, t, m, four) /\ Len(t) = four
    BY <1>3, <1>12, <2>1
  <2> QED
    BY ONLY <1>3, <1>6, <1>7, <2>2, m \in Nat, four \in Nat, Concatenation
<1>14. r \in Seq(0..63)
  BY ONLY <1>3, <1>6, <1>13, ConcatProperties
<1> QED
  BY ONLY <1>2, <1>3, <1>4, <1>8, <1>13, <1>14


\* The recursive function behind FlattenSeq.
FlatFun(g, seqs, n) == [i \in 1..n |-> IF i = 1 THEN seqs[i] ELSE g[i - 1] \o seqs[i]]

\* What FlattenSeq of the library stands for.
LEMMA FlattenUnfolds ==
    ASSUME NEW seqs, NEW n \in Nat \ {0}, Len(seqs) = n
    PROVE  FlattenSeq(seqs) = (CHOOSE g : g = FlatFun(g, seqs, n))[n]
BY DEF FlattenSeq, FlatFun

\* Every prefix of the groups is a sequence of characters.
LEMMA Blocks ==
    ASSUME NEW d \in Seq(0..255)
    PROVE  /\ Block(d, 0) = <<>>
           /\ \A n \in Nat : 3 * n <= Len(d) => Block(d, n) \in Seq(0..63)
<1>1. PICK S : S = {n \in Nat : 3 * n <= Len(d) => Block(d, n) \in Seq(0..63)}
  OBVIOUS
<1>2. Block(d, 0) = <<>>
  <2>1. Block(d, 0) = [k \in 1..0 |-> Code(d, k)]
    BY DEF Block
  <2> QED
    BY <2>1
<1>3. 0 \in S
  <2>1. <<>> \in Seq(0..63)
    OBVIOUS
  <2> QED
    BY <1>1, <1>2, <2>1
<1>4. ASSUME NEW n \in Nat, n \in S PROVE n + 1 \in S
  <2> SUFFICES ASSUME 3 * (n + 1) <= Len(d) PROVE Block(d, n + 1) \in Seq(0..63)
    BY <1>1
  <2>1. PICK m \in Nat \ {0} : m = n + 1 /\ n = m - 1 /\ 3 * m <= Len(d)
    OBVIOUS
  <2>2. 3 * n <= Len(d)
    OBVIOUS
  <2>3. Block(d, m - 1) \in Seq(0..63)
    BY <1>1, <1>4, <2>1, <2>2
  <2>4. Block(d, m) \in Seq(0..63)
    BY <2>1, <2>3, BlockStep
  <2> QED
    BY <2>1, <2>4
<1>5. \A n \in Nat : n \in S
  BY <1>3, <1>4, SetInduction
<1> QED
  BY <1>1, <1>2, <1>5

\* What FlattenSeq makes of the groups.
LEMMA FlattenIs ==
    ASSUME NEW d \in Seq(0..255), NEW T \in Nat \ {0}, 3 * T <= Len(d),
           NEW seqs, seqs = [n \in 1..T |-> Four(d, n)]
    PROVE  FlattenSeq(seqs) = Block(d, T)
<1>1. Len(seqs) = T
  OBVIOUS
<1>2. ASSUME NEW n \in 1..T
      PROVE  seqs[n] = Four(d, n) /\ Block(d, n - 1) \o seqs[n] = Block(d, n) /\ Block(d, n - 1) \in Seq(0..63)
                /\ seqs[n] \in Seq(0..63)
  <2>1. n \in Nat \ {0} /\ 3 * n <= Len(d)
    OBVIOUS
  <2>2. PICK m \in Nat : m = n - 1 /\ 3 * m <= Len(d)
    OBVIOUS
  <2>3. Block(d, m) \in Seq(0..63)
    BY <2>2, Blocks
  <2>4. Block(d, n - 1) \in Seq(0..63)
    BY <2>2, <2>3
  <2>5. Four(d, n) \in Seq(0..63) /\ Block(d, n - 1) \o Four(d, n) = Block(d, n)
    BY <2>1, <2>4, BlockStep
  <2> QED
    BY <2>4, <2>5
<1>3. Block(d, 1) = seqs[1]
  <2>1. PICK one \in 1..T : one = 1 /\ one - 1 = 0
    OBVIOUS
  <2>2. Block(d, one - 1) \o seqs[one] = Block(d, one) /\ seqs[one] \in Seq(0..63)
    BY <1>2
  <2>3. Block(d, one - 1) = <<>>
    BY <2>1, Blocks
  <2>4. PICK t : t = seqs[one]
    OBVIOUS
  <2>5. <<>> \o t = t
    BY ONLY <2>2, <2>4, ConcatEmptySeq
  <2> QED
    BY <2>1, <2>2, <2>3, <2>4, <2>5
<1>4. \E g : g = FlatFun(g, seqs, T)
  <2>1. PICK g : g = [i \in 1..T |-> Block(d, i)]
    OBVIOUS
  <2>2. ASSUME NEW i \in 1..T PROVE Block(d, i) = IF i = 1 THEN seqs[i] ELSE g[i - 1] \o seqs[i]
    <3>1. CASE i = 1
      BY <1>3, <3>1
    <3>2. CASE i # 1
      <4>1. PICK j \in 1..T : j = i - 1
        BY <3>2
      <4>2. g[j] = Block(d, j)
        BY <2>1
      <4>3. g[i - 1] = Block(d, i - 1)
        BY <4>1, <4>2
      <4> QED
        BY <1>2, <3>2, <4>3
    <3> QED
      BY <3>1, <3>2
  <2>3. g = FlatFun(g, seqs, T)
    BY <2>1, <2>2 DEF FlatFun
  <2> QED
    BY <2>3
<1>5. PICK g : g = FlatFun(g, seqs, T) /\ FlattenSeq(seqs) = g[T]
  <2>1. PICK g : g = CHOOSE h : h = FlatFun(h, seqs, T)
    OBVIOUS
  <2>2. g = FlatFun(g, seqs, T)
    BY <1>4, <2>1
  <2>3. FlattenSeq(seqs) = g[T]
    BY <1>1, <2>1, FlattenUnfolds
  <2> QED
    BY <2>2, <2>3
<1>6. PICK S : S = {n \in Nat : n + 1 <= T => g[n + 1] = Block(d, n + 1)}
  OBVIOUS
<1>7. ASSUME NEW i \in 1..T PROVE g[i] = IF i = 1 THEN seqs[i] ELSE g[i - 1] \o seqs[i]
  BY <1>5 DEF FlatFun
<1>8. 0 \in S
  <2>1. PICK one \in 1..T : one = 1 /\ one = 0 + 1
    OBVIOUS
  <2>2. g[one] = Block(d, one)
    BY <1>3, <1>7, <2>1
  <2> QED
    BY <1>6, <2>1, <2>2
<1>9. ASSUME NEW n \in Nat, n \in S PROVE n + 1 \in S
  <2> SUFFICES ASSUME (n + 1) + 1 <= T PROVE g[(n + 1) + 1] = Block(d, (n + 1) + 1)
    BY <1>6
  <2>1. PICK i \in 1..T, j \in 1..T : j = n + 1 /\ i = (n + 1) + 1 /\ j = i - 1 /\ i # 1
    OBVIOUS
  <2>2. g[j] = Block(d, j)
    BY <1>6, <1>9, <2>1
  <2>3. g[i] = g[i - 1] \o seqs[i]
    BY <1>7, <2>1
  <2>4. Block(d, i - 1) \o seqs[i] = Block(d, i)
    BY <1>2
  <2>5. g[i] = Block(d, i)
    BY <2>1, <2>2, <2>3, <2>4
  <2> QED
    BY <2>1, <2>5
<1>10. PICK n \in Nat : n + 1 = T
  <2>1. T - 1 \in Nat /\ (T - 1) + 1 = T
    OBVIOUS
  <2> QED
    BY <2>1
<1>11. n \in S
  BY <1>8, <1>9, SetInduction
<1>12. g[T] = Block(d, T)
  BY <1>6, <1>10, <1>11
<1> QED
  BY <1>5, <1>12


\* Appending the next byte to the first ones.
LEMMA OneByteMore ==
    ASSUME NEW S, NEW d \in Seq(S), NEW k \in Nat, k + 1 <= Len(d)
    PROVE  Append(SubSeq(d, 1, k), d[k + 1]) = SubSeq(d, 1, k + 1)
OBVIOUS

\* decode_base64 on the groups gives the bytes they were written from.
LEMMA GroupsDecode ==
    ASSUME NEW d \in Seq(0..255), NEW T \in Nat, 3 * T <= Len(d), NEW n \in Nat, 4 * T <= n,
           NEW str, NEW st, Runs(st, str, n), \A k \in 1..(4 * T) : str[k] = Code(d, k)
    PROVE  st[4 * T] = More(SubSeq(d, 1, 3 * T), 0, 0)
<1>1. PICK S : S = {m \in Nat : m <= T => st[4 * m] = More(SubSeq(d, 1, 3 * m), 0, 0)}
  OBVIOUS
<1>2. 0 \in S
  <2>1. st[0] = More(<<>>, 0, 0)
    BY DEF Runs
  <2>2. SubSeq(d, 1, 0) = <<>>
    OBVIOUS
  <2>3. PICK z \in Nat : z = 0 /\ 4 * z = 0 /\ 3 * z = 0
    OBVIOUS
  <2>4. st[4 * z] = More(SubSeq(d, 1, 3 * z), 0, 0)
    BY <2>1, <2>2, <2>3
  <2>5. z \in S
    BY <1>1, <2>4
  <2> QED
    BY <2>3, <2>5
<1>3. ASSUME NEW m \in Nat, m \in S PROVE m + 1 \in S
  <2> SUFFICES ASSUME m + 1 <= T PROVE st[4 * (m + 1)] = More(SubSeq(d, 1, 3 * (m + 1)), 0, 0)
    BY <1>1
  <2>1. PICK k \in Nat, p \in Nat, i \in Nat \ {0} :
            /\ k = 4 * m /\ p = 3 * m /\ i = m + 1 /\ k + 4 = 4 * i /\ p + 3 = 3 * i /\ k = (4 * i) - 4
            /\ k + 4 <= 4 * T /\ k + 4 <= n /\ p + 3 <= Len(d)
    OBVIOUS
  <2>2. PICK o : o = SubSeq(d, 1, p)
    OBVIOUS
  <2>3. StartAt(st, k, o)
    BY <1>1, <1>3, <2>1, <2>2 DEF StartAt
  <2>4. IsFour(d, i)
    BY <2>1, FourIs
  <2>5. PICK a \in 0..255, b \in 0..255, c \in 0..255, v1 \in 0..63, v2 \in 0..63, v3 \in 0..63, v4 \in 0..63 :
            /\ a = d[(3 * i) - 2] /\ b = d[(3 * i) - 1] /\ c = d[3 * i]
            /\ Four(d, i) = <<v1, v2, v3, v4>>
            /\ Chars3(a, b, c, v1, v2, v3, v4)
    BY ONLY <2>4, Zenon DEF IsFour
  <2>6. ASSUME NEW j \in 1..4 PROVE str[k + j] = Four(d, i)[j]
    <3>1. PICK l : l = k + j /\ l = (4 * i) - 4 + j /\ l \in 1..(4 * T)
      BY <2>1
    <3>2. str[l] = Code(d, l)
      BY <3>1
    <3>3. Code(d, l) = Four(d, i)[j]
      BY <3>1, CodeAt
    <3> QED
      BY <3>1, <3>2, <3>3
  <2>7. str[k + 1] = v1 /\ str[k + 2] = v2 /\ str[k + 3] = v3 /\ str[k + 4] = v4
    <3>1. PICK t : t = Four(d, i) /\ t = <<v1, v2, v3, v4>>
      BY <2>5
    <3>2. t[1] = v1 /\ t[2] = v2 /\ t[3] = v3 /\ t[4] = v4
      BY ONLY <3>1
    <3>3. str[k + 1] = t[1] /\ str[k + 2] = t[2] /\ str[k + 3] = t[3] /\ str[k + 4] = t[4]
      BY ONLY <2>6, <3>1
    <3> QED
      BY ONLY <3>2, <3>3
  <2>8. GroupAt(str, k, a, b, c)
    BY ONLY <2>5, <2>7, Zenon DEF GroupAt
  <2>9. StartAt(st, k + 4, Append(Append(Append(o, a), b), c))
    <3>1. k + 4 <= n
      BY <2>1
    <3>2. GroupRead(n, str, st, k, o, a, b, c)
      BY ONLY n \in Nat, Runs(st, str, n), k \in Nat, <3>1, <2>3, <2>8,
              a \in 0..255, b \in 0..255, c \in 0..255 DEF GroupRead
    <3> QED
      BY ONLY <3>2, GroupRuns
  <2>10. Append(Append(Append(o, a), b), c) = SubSeq(d, 1, p + 3)
    <3>1. a = d[p + 1] /\ b = d[p + 2] /\ c = d[p + 3]
      BY <2>1, <2>5
    <3>2. Append(o, a) = SubSeq(d, 1, p + 1)
      BY <2>1, <2>2, <3>1, OneByteMore
    <3>3. Append(SubSeq(d, 1, p + 1), b) = SubSeq(d, 1, p + 2)
      <4>1. PICK q \in Nat : q = p + 1 /\ q + 1 = p + 2 /\ q + 1 <= Len(d)
        BY <2>1
      <4> QED
        BY <3>1, <4>1, OneByteMore
    <3>4. Append(SubSeq(d, 1, p + 2), c) = SubSeq(d, 1, p + 3)
      <4>1. PICK q \in Nat : q = p + 2 /\ q + 1 = p + 3 /\ q + 1 <= Len(d)
        BY <2>1
      <4> QED
        BY <3>1, <4>1, OneByteMore
    <3> QED
      BY <3>2, <3>3, <3>4
  <2> QED
    BY <2>1, <2>9, <2>10 DEF StartAt
<1>4. T \in S
  BY <1>2, <1>3, SetInduction
<1> QED
  BY <1>1, <1>4


\* What encode_base64 writes.
LEMMA Encodes ==
    ASSUME NEW d \in Seq(0..255), Len(d) > 3, NEW T \in Nat, T = Len(d) \div 3
    PROVE  encode_base64(d) = Block(d, T) \o Remainder(d, (3 * T) + 1)
<1>1. PICK m \in Nat : m = Len(d)
  OBVIOUS
<1>2. T \in Nat \ {0} /\ 3 * T <= Len(d) /\ ~(Len(d) <= 3)
  BY <1>1
<1>3. PICK seqs : seqs = [n \in 1..T |-> outputbase64(d, (3 * n) - 2)]
  OBVIOUS
<1>4. encode_base64(d) = FlattenSeq(seqs) \o Remainder(d, (3 * T) + 1)
  BY <1>2, <1>3 DEF encode_base64
<1>5. seqs = [n \in 1..T |-> Four(d, n)]
  BY <1>3 DEF Four
<1>6. FlattenSeq(seqs) = Block(d, T)
  BY <1>2, <1>5, FlattenIs
<1> QED
  BY <1>4, <1>6

\* The text that is decoded: the groups, what is left, and the end.
IsEncoded(str, d, T, t, n) ==
    /\ n \in Nat /\ DOMAIN str = 1..n /\ n = (4 * T) + Len(t) + 1
    /\ \A k \in 1..(4 * T) : str[k] = Code(d, k)
    /\ \A k \in 1..Len(t) : str[(4 * T) + k] = t[k]
    /\ str[n] = EOS

\* The groups and what is left, and the length they have.
LEMMA Texts ==
    ASSUME NEW d \in Seq(0..255), NEW T \in Nat, 3 * T <= Len(d), NEW t \in Seq(0..97)
    PROVE  /\ Len(Block(d, T) \o t) = (4 * T) + Len(t)
           /\ \E n : IsEncoded(Append(Block(d, T) \o t, EOS), d, T, t, n)
<1>1. PICK s : s = Block(d, T)
  OBVIOUS
<1>2. s \in Seq(0..63)
  BY <1>1, Blocks
<1>3. s \in Seq(0..97)
  BY ONLY <1>2
<1>4. PICK m \in Nat : m = 4 * T
  OBVIOUS
<1>5. s = [k \in 1..m |-> Code(d, k)]
  BY <1>1, <1>4 DEF Block
<1>6. Len(s) = m /\ \A k \in 1..m : s[k] = Code(d, k)
  BY ONLY <1>5, m \in Nat
<1>7. PICK l \in Nat : l = Len(t)
  OBVIOUS
<1>8. PICK w : w = s \o t
  OBVIOUS
<1>9. /\ w \in Seq(0..97) /\ Len(w) = m + l
      /\ \A i \in 1..(m + l) : w[i] = IF i <= m THEN s[i] ELSE t[i - m]
  <2>1. /\ s \o t \in Seq(0..97) /\ Len(s \o t) = Len(s) + Len(t)
        /\ \A i \in 1..(Len(s) + Len(t)) : (s \o t)[i] = IF i <= Len(s) THEN s[i] ELSE t[i - Len(s)]
    BY <1>3, ConcatProperties
  <2> QED
    BY ONLY <1>6, <1>7, <1>8, <2>1
<1>10. PICK str : str = Append(w, EOS)
  OBVIOUS
<1>11. PICK n \in Nat : n = (m + l) + 1
  OBVIOUS
<1>12. DOMAIN str = 1..n /\ str[n] = EOS /\ \A i \in 1..(m + l) : str[i] = w[i]
  BY ONLY <1>9, <1>10, <1>11, m \in Nat, l \in Nat
<1>13. ASSUME NEW k \in 1..m PROVE str[k] = Code(d, k)
  <2>1. k \in 1..(m + l) /\ k <= m
    OBVIOUS
  <2> QED
    BY <1>6, <1>9, <1>12, <2>1
<1>14. ASSUME NEW k \in 1..l PROVE str[m + k] = t[k]
  <2>1. PICK i \in 1..(m + l) : i = m + k /\ ~(i <= m) /\ k = i - m
    OBVIOUS
  <2> QED
    BY <1>9, <1>12, <2>1
<1>15. IsEncoded(str, d, T, t, n)
  BY <1>4, <1>7, <1>11, <1>12, <1>13, <1>14 DEF IsEncoded
<1>16. Len(s \o t) = (4 * T) + Len(t)
  BY <1>4, <1>7, <1>8, <1>9
<1> QED
  BY <1>1, <1>8, <1>10, <1>15, <1>16


\* decode_base64 is at the start of the remainder after the groups.
Reads(st, str, n, k, o) == Runs(st, str, n) /\ StartAt(st, k, o) /\ decode_base64(str) = st[n].out

\* It has the bytes of the groups then.
LEMMA Decodes ==
    ASSUME NEW d \in Seq(0..255), NEW T \in Nat, 3 * T <= Len(d), NEW t \in Seq(0..97),
           NEW str, NEW n, IsEncoded(str, d, T, t, n)
    PROVE  \E st : Reads(st, str, n, 4 * T, SubSeq(d, 1, 3 * T))
<1>1. PICK l \in Nat : l = Len(t)
  OBVIOUS
<1>2. n \in Nat /\ DOMAIN str = 1..n /\ 4 * T <= n /\ \A k \in 1..(4 * T) : str[k] = Code(d, k)
  BY <1>1 DEF IsEncoded
<1>3. PICK st : /\ st[0] = Decoded(<<>>, 0, 0, FALSE)
                /\ \A k \in 1..n : st[k] = DecodeChar(str, st[k - 1], k)
                /\ decode_base64(str) = st[n].out
  BY <1>2, DecodeRuns
<1>4. Runs(st, str, n)
  <2>1. st[0] = More(<<>>, 0, 0)
    BY ONLY <1>3, Zenon DEF More
  <2>2. \A k \in 1..n : st[k] = DecodeChar(str, st[k - 1], k)
    BY ONLY <1>3, Zenon
  <2> QED
    BY ONLY <2>1, <2>2, Zenon DEF Runs
<1>5. st[4 * T] = More(SubSeq(d, 1, 3 * T), 0, 0)
  BY <1>2, <1>4, GroupsDecode
<1>6. decode_base64(str) = st[n].out
  BY ONLY <1>3, Zenon
<1>7. Reads(st, str, n, 4 * T, SubSeq(d, 1, 3 * T))
  BY ONLY <1>4, <1>5, <1>6, Zenon DEF Reads, StartAt
<1> QED
  BY ONLY <1>7, Zenon

\* The whole of a sequence.
LEMMA Whole ==
    ASSUME NEW S, NEW d \in Seq(S), NEW q, q = Len(d)
    PROVE  SubSeq(d, 1, q) = d
OBVIOUS

\* Base64 and back, and the length that is returned.
LEMMA Base64Survives ==
    ASSUME NEW d \in Seq(0..255), Len(d) > 3
    PROVE  /\ decode_base64(Append(encode_base64(d), EOS)) = d
           /\ Len(encode_base64(d)) <= EncodedLen(d)
<1>1. PICK m \in Nat : m = Len(d)
  OBVIOUS
<1>2. PICK T \in Nat, R \in 0..2 : T = m \div 3 /\ m = (3 * T) + R /\ 3 * T <= m
  BY <1>1
<1>3. T = Len(d) \div 3 /\ 3 * T <= Len(d)
  BY <1>1, <1>2
<1>4. PICK t : t = Remainder(d, (3 * T) + 1)
  OBVIOUS
<1>5. PICK enc : enc = encode_base64(d) /\ enc = Block(d, T) \o t
  <2>1. encode_base64(d) = Block(d, T) \o Remainder(d, (3 * T) + 1)
    BY <1>3, Encodes
  <2> QED
    BY ONLY <1>4, <2>1
<1>6. PICK k \in Nat, p \in Nat : k = 4 * T /\ p = 3 * T /\ m = p + R
  BY <1>2
<1>7. PICK o : o = SubSeq(d, 1, p)
  OBVIOUS
<1>8. EncodedLen(d) = k + 4
  BY <1>1, <1>3, <1>6 DEF EncodedLen
<1>9. t = Remainder(d, p + 1) /\ Len(d) - (p + 1) + 1 = R
  BY <1>1, <1>4, <1>6
<1>10. ASSUME t \in Seq(0..97)
       PROVE  /\ Len(enc) = k + Len(t)
              /\ \E str, n, st : /\ str = Append(enc, EOS) /\ IsEncoded(str, d, T, t, n)
                                 /\ Reads(st, str, n, k, o)
  <2>1. /\ Len(Block(d, T) \o t) = (4 * T) + Len(t)
        /\ \E n : IsEncoded(Append(Block(d, T) \o t, EOS), d, T, t, n)
    BY <1>3, <1>10, Texts
  <2>2. PICK str, n : str = Append(enc, EOS) /\ IsEncoded(str, d, T, t, n)
    BY ONLY <1>5, <2>1
  <2>3. \E st : Reads(st, str, n, 4 * T, SubSeq(d, 1, 3 * T))
    BY <1>3, <1>10, <2>2, Decodes
  <2>4. PICK st : Reads(st, str, n, k, o)
    BY ONLY <1>6, <1>7, <2>3
  <2>5. Len(enc) = k + Len(t)
    BY ONLY <1>5, <1>6, <2>1
  <2> QED
    BY ONLY <2>2, <2>4, <2>5, Zenon
<1>11. CASE R = 0
  <2>1. t = <<>>
    BY <1>9, <1>11 DEF Remainder
  <2>2. t \in Seq(0..97) /\ Len(t) = 0
    BY ONLY <2>1
  <2>3. PICK str, n, st : str = Append(enc, EOS) /\ IsEncoded(str, d, T, t, n) /\ Reads(st, str, n, k, o)
    BY <1>10, <2>2
  <2>4. n \in Nat /\ n = k + 1 /\ str[k + 1] = EOS
    BY <1>6, <2>2, <2>3 DEF IsEncoded
  <2>5. Runs(st, str, n) /\ StartAt(st, k, o) /\ decode_base64(str) = st[n].out
    BY <2>3 DEF Reads
  <2>6. st[n].out = o
    BY <2>4, <2>5, EndRuns
  <2>7. o = d
    <3>1. p = Len(d)
      BY <1>1, <1>6, <1>11
    <3> QED
      BY <1>7, <3>1, Whole
  <2>8. Len(enc) <= EncodedLen(d)
    BY <1>8, <1>10, <2>2
  <2> QED
    BY ONLY <1>5, <2>3, <2>5, <2>6, <2>7, <2>8
<1>12. CASE R = 1
  <2>1. PICK a \in 0..255 : a = d[p + 1]
    <3>1. PICK i \in 1..m : i = p + 1
      BY <1>6, <1>12
    <3>2. d[i] \in 0..255
      BY <1>1
    <3> QED
      BY <3>1, <3>2
  <2>2. t = <<a \div 4, (a % 4) * 16, PAD, PAD>>
    BY <1>9, <1>12, <2>1 DEF Remainder
  <2>3. PICK v1 \in 0..97, v2 \in 0..97, v3 \in 0..97 :
            v1 = a \div 4 /\ v2 = (a % 4) * 16 /\ v3 = PAD /\ t = <<v1, v2, v3, v3>>
    <3>1. a \div 4 \in 0..97 /\ (a % 4) * 16 \in 0..97 /\ PAD \in 0..97
      BY ONLY a \in 0..255 DEF PAD
    <3> QED
      BY ONLY <2>2, <3>1
  <2>4. t \in Seq(0..97) /\ Len(t) = 4 /\ t[1] = v1 /\ t[2] = v2 /\ t[3] = v3 /\ t[4] = v3
    BY ONLY <2>3
  <2>5. PICK str, n, st : str = Append(enc, EOS) /\ IsEncoded(str, d, T, t, n) /\ Reads(st, str, n, k, o)
    BY <1>10, <2>4
  <2>6. n \in Nat /\ n = k + 5 /\ \A j \in 1..4 : str[k + j] = t[j]
    BY <1>6, <2>4, <2>5 DEF IsEncoded
  <2>7. Runs(st, str, n) /\ StartAt(st, k, o) /\ decode_base64(str) = st[n].out
    BY <2>5 DEF Reads
  <2>8. OneAt(str, k, a)
    <3>1. str[k + 1] = t[1] /\ str[k + 2] = t[2] /\ str[k + 3] = t[3] /\ str[k + 4] = t[4]
      BY ONLY <2>6
    <3>2. str[k + 1] = v1 /\ str[k + 2] = v2 /\ str[k + 3] = v3 /\ str[k + 4] = v3
      BY ONLY <2>4, <3>1
    <3> QED
      BY ONLY <2>3, <3>2, Zenon DEF OneAt
  <2>9. st[n].out = Append(o, a)
    <3>1. OneRead(n, str, st, k, o, a)
      BY ONLY k \in Nat, <2>6, <2>7, <2>8, a \in 0..255 DEF OneRead
    <3> QED
      BY ONLY <3>1, OneRuns
  <2>10. Append(o, a) = d
    <3>1. Append(SubSeq(d, 1, p), d[p + 1]) = SubSeq(d, 1, p + 1)
      BY <1>1, <1>6, <1>12, OneByteMore
    <3>2. SubSeq(d, 1, p + 1) = d
      <4>1. PICK q : q = p + 1 /\ q = Len(d)
        BY <1>1, <1>6, <1>12
      <4> QED
        BY <4>1, Whole
    <3> QED
      BY ONLY <1>7, <2>1, <3>1, <3>2
  <2>11. Len(enc) <= EncodedLen(d)
    BY <1>8, <1>10, <2>4
  <2> QED
    BY ONLY <1>5, <2>5, <2>7, <2>9, <2>10, <2>11
<1>13. CASE R = 2
  <2>1. PICK a \in 0..255, b \in 0..255 : a = d[p + 1] /\ b = d[p + 2]
    <3>1. PICK i \in 1..m, j \in 1..m : i = p + 1 /\ j = p + 2
      BY <1>6, <1>13
    <3>2. d[i] \in 0..255 /\ d[j] \in 0..255
      BY <1>1
    <3> QED
      BY <3>1, <3>2
  <2>2. t = <<a \div 4, ((a % 4) * 16) + (b \div 16), (b % 16) * 4, PAD>>
    <3>1. PICK i \in Nat : i = p + 1 /\ i + 1 = p + 2
      OBVIOUS
    <3>2. t = Remainder(d, i) /\ Len(d) - i + 1 = 2 /\ d[i] = a /\ d[i + 1] = b
      BY <1>9, <1>13, <2>1, <3>1
    <3>3. Len(d) - i + 1 = 2
      BY ONLY <3>2
    <3>4. Remainder(d, i)
              = <<d[i] \div 4, ((d[i] % 4) * 16) + (d[i + 1] \div 16), (d[i + 1] % 16) * 4, PAD>>
      BY ONLY <3>3 DEF Remainder
    <3> QED
      BY ONLY <3>2, <3>4
  <2>3. PICK v1 \in 0..97, v2 \in 0..97, v3 \in 0..97, v4 \in 0..97 :
            Chars2(a, b, v1, v2, v3) /\ v4 = PAD /\ t = <<v1, v2, v3, v4>>
    <3>1. PICK v1, v2, v3, v4 : /\ v1 = a \div 4 /\ v2 = ((a % 4) * 16) + (b \div 16) /\ v3 = (b % 16) * 4
                                /\ v4 = PAD /\ t = <<v1, v2, v3, v4>>
      BY <2>2
    <3>2. Chars2(a, b, v1, v2, v3) /\ v4 = PAD /\ t = <<v1, v2, v3, v4>>
      BY ONLY <3>1 DEF Chars2
    <3>3. Bytes2(a, b, v1, v2, v3)
      BY ONLY <3>2, a \in 0..255, b \in 0..255, TwoBytes
    <3>4. v1 \in 0..97 /\ v2 \in 0..97 /\ v3 \in 0..97 /\ v4 \in 0..97
      BY ONLY <3>2, <3>3 DEF Bytes2, PAD
    <3> QED
      BY ONLY <3>2, <3>4
  <2>4. t \in Seq(0..97) /\ Len(t) = 4 /\ t[1] = v1 /\ t[2] = v2 /\ t[3] = v3 /\ t[4] = v4
    BY ONLY <2>3
  <2>5. PICK str, n, st : str = Append(enc, EOS) /\ IsEncoded(str, d, T, t, n) /\ Reads(st, str, n, k, o)
    BY <1>10, <2>4
  <2>6. n \in Nat /\ n = k + 5 /\ \A j \in 1..4 : str[k + j] = t[j]
    BY <1>6, <2>4, <2>5 DEF IsEncoded
  <2>7. Runs(st, str, n) /\ StartAt(st, k, o) /\ decode_base64(str) = st[n].out
    BY <2>5 DEF Reads
  <2>8. TwoAt(str, k, a, b)
    <3>1. str[k + 1] = t[1] /\ str[k + 2] = t[2] /\ str[k + 3] = t[3] /\ str[k + 4] = t[4]
      BY ONLY <2>6
    <3>2. str[k + 1] = v1 /\ str[k + 2] = v2 /\ str[k + 3] = v3 /\ str[k + 4] = v4
      BY ONLY <2>4, <3>1
    <3> QED
      BY ONLY <2>3, <3>2, Zenon DEF TwoAt
  <2>9. st[n].out = Append(Append(o, a), b)
    <3>1. TwoRead(n, str, st, k, o, a, b)
      BY ONLY k \in Nat, <2>6, <2>7, <2>8, a \in 0..255, b \in 0..255 DEF TwoRead
    <3> QED
      BY ONLY <3>1, TwoRuns
  <2>10. Append(Append(o, a), b) = d
    <3>1. Append(SubSeq(d, 1, p), d[p + 1]) = SubSeq(d, 1, p + 1)
      BY <1>1, <1>6, <1>13, OneByteMore
    <3>2. Append(SubSeq(d, 1, p + 1), d[p + 2]) = SubSeq(d, 1, p + 2)
      <4>1. PICK q \in Nat : q = p + 1 /\ q + 1 = p + 2 /\ q + 1 <= Len(d)
        BY <1>1, <1>6, <1>13
      <4> QED
        BY <4>1, OneByteMore
    <3>3. SubSeq(d, 1, p + 2) = d
      <4>1. PICK q : q = p + 2 /\ q = Len(d)
        BY <1>1, <1>6, <1>13
      <4> QED
        BY <4>1, Whole
    <3> QED
      BY ONLY <1>7, <2>1, <3>1, <3>2, <3>3
  <2>11. Len(enc) <= EncodedLen(d)
    BY <1>8, <1>10, <2>4
  <2> QED
    BY ONLY <1>5, <2>5, <2>7, <2>9, <2>10, <2>11
<1> QED
  BY <1>11, <1>12, <1>13


\* The bytes of the array.
BytesOK == data \in Seq(0..255)

\* The digits in any mixture of cases are digits of the same bytes.
IsMixed(dsp, digits, d, lower) ==
    /\ digits = bin_to_asc(d)
    /\ dsp = [i \in DOMAIN digits |-> IF i % 3 \in lower THEN Lowered(digits[i]) ELSE digits[i]]

\* asc_to_bin does not depend on the case.
LEMMA MixedCase ==
    ASSUME NEW d \in Seq(0..255), NEW lower \in SUBSET {0, 1, 2}, NEW digits,
           NEW dsp, IsMixed(dsp, digits, d, lower)
    PROVE  asc_to_bin(dsp) = d
<1>1. PICK m \in Nat : m = 2 * Len(d)
  OBVIOUS
<1>2. DOMAIN digits = 1..m /\ \A i \in 1..m : digits[i] = HexDigit(Half(d, i))
  BY <1>1, Digits DEF IsMixed
<1>3. DOMAIN dsp = 1..m /\ dsp = [i \in 1..m |-> dsp[i]]
  BY <1>2 DEF IsMixed
<1>4. Len(dsp) = m
  BY ONLY <1>3, m \in Nat
<1>5. ASSUME NEW i \in 1..m PROVE dsp[i] \in {HexDigit(Half(d, i)), Lowered(HexDigit(Half(d, i)))}
  BY <1>2 DEF IsMixed
<1> QED
  BY <1>1, <1>3, <1>4, <1>5, HexSurvives

\* They stay bytes.
LEMMA BytesOKHolds == CodecSpec => []BytesOK
<1>1. CodecInit => BytesOK
  <2>1. <<>> \in Seq(0..255)
    OBVIOUS
  <2> QED
    BY <2>1 DEF CodecInit, BytesOK
<1>2. BytesOK /\ [CodecNext]_codecVars => BytesOK'
  <2> SUFFICES ASSUME BytesOK, [CodecNext]_codecVars PROVE BytesOK'
    OBVIOUS
  <2>1. CASE PutElement
    BY <2>1 DEF PutElement, BytesOK
  <2>2. CASE PutByte
    <3>1. PICK byte \in ByteValues : data' = Append(data, byte)
      BY <2>2 DEF PutByte
    <3>2. byte \in 0..255
      BY CodecAssumption DEF CodecAssumption
    <3> QED
      BY <3>1, <3>2 DEF BytesOK
  <2>3. CASE StartOver
    <3>1. <<>> \in Seq(0..255)
      OBVIOUS
    <3> QED
      BY <2>3, <3>1 DEF StartOver, BytesOK
  <2>4. CASE UNCHANGED codecVars
    BY <2>4 DEF codecVars, BytesOK
  <2> QED
    BY <2>1, <2>2, <2>3, <2>4 DEF CodecNext
<1> QED
  BY <1>1, <1>2, PTL DEF CodecSpec

\* Whatever bytes are encoded, in any number: Base64 from four bytes on gives
\* them back and fits into the length that encode_base64 returns, asc_to_bin
\* reads the digits of bin_to_asc in any mixture of cases, and asc_to_bcd
\* undoes bcd_to_asc (base64.c:42-149, tf_util.c:436-519).
THEOREM EncodedBytesSurvive == CodecSpec => []BytesSurvive
<1>1. BytesOK => BytesSurvive
  <2> SUFFICES ASSUME BytesOK PROVE BytesSurvive
    OBVIOUS
  <2>1. PICK d \in Seq(0..255) : d = data
    BY DEF BytesOK
  <2>2. ASSUME Len(d) > 3
        PROVE  /\ decode_base64(Append(encode_base64(d), EOS)) = d
               /\ Len(encode_base64(d)) <= EncodedLen(d)
    BY <2>2, Base64Survives
  <2>3. PICK digits : digits = bin_to_asc(d)
    OBVIOUS
  <2>4. ASSUME NEW lower \in SUBSET {0, 1, 2}
        PROVE  asc_to_bin([i \in DOMAIN digits |-> IF i % 3 \in lower THEN Lowered(digits[i]) ELSE digits[i]]) = d
    <3>1. PICK dsp : dsp = [i \in DOMAIN digits |-> IF i % 3 \in lower THEN Lowered(digits[i]) ELSE digits[i]]
      OBVIOUS
    <3>2. asc_to_bin(dsp) = d
      <4>1. IsMixed(dsp, digits, d, lower)
        BY <2>3, <3>1 DEF IsMixed
      <4> QED
        BY <4>1, MixedCase
    <3> QED
      BY <3>1, <3>2
  <2>5. asc_to_bcd(bcd_to_asc(d)) = d
    BY BcdSurvives
  <2> QED
    BY ONLY <2>1, <2>2, <2>3, <2>4, <2>5, Zenon DEF BytesSurvive
<1> QED
  BY <1>1, BytesOKHolds, PTL
=============================================================================
