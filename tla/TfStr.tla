------------------------------- MODULE TfStr --------------------------------
(***************************************************************************)
(* The extensible strings of tflib (tflib/tf_string.c).  What is in a      *)
(* string is left out; its size, the allocation it believes it has and the *)
(* region it really has are kept.  size and asize are __u32, but lengths   *)
(* pass through int on their way: strlen's result is cut to an int, which  *)
(* is negative from 2^31 on, and a negative int is a huge size_t to        *)
(* memcpy, tf_alloc and tf_realloc.  Doubling asize may wrap around.       *)
(***************************************************************************)
EXTENDS Integers

CONSTANTS
    Xstrs,          \* strings in use by the program
    U32,            \* 2^32
    INT_MAX,        \* 2^31 - 1
    TF_STR_UNIT,
    MaxLength       \* longest character string in memory

ASSUME StrAssumption ==
    /\ INT_MAX \in Nat
    /\ U32 = 2 * INT_MAX + 2
    /\ TF_STR_UNIT \in 1..INT_MAX
    /\ MaxLength \in Nat

VARIABLES
    xstr,       \* TF_STR_ST of each string, cap being the size of *ptr, 0 if deleted
    regions,    \* size of the regions the program got from tf_strtomalloc, 0 if none
    ended,      \* how the process ended: by a write outside a region, or abort()
    beyond      \* a history variable: a call was made beyond what the ints hold

strVars == <<xstr, regions, ended, beyond>>

NoXstr  == [size |-> 0, asize |-> 0, cap |-> 0]
Ints    == 0..INT_MAX
Lengths == 0..MaxLength
Exists(x) == xstr[x].cap > 0
Alive == ended = "no"
AtLeastUnit(n) == IF n > TF_STR_UNIT THEN n ELSE TF_STR_UNIT

\* Conversion to int, and the sum of two ints as the build computes it.
ToInt(n) == IF n % U32 <= INT_MAX THEN n % U32 ELSE (n % U32) - U32

StrInit ==
    /\ xstr = [x \in Xstrs |-> NoXstr]
    /\ regions = [x \in Xstrs |-> 0]
    /\ ended = "no"
    /\ beyond = FALSE
-----------------------------------------------------------------------------
\* The string becomes s.  The call writes n bytes from offset at of its
\* region, a negative n being larger than any region.
Fill(x, s, at, n) ==
    /\ xstr' = [xstr EXCEPT ![x] = s]
    /\ ended' = IF n >= 0 /\ at + n <= s.cap THEN ended ELSE "overrun"
    /\ regions' = regions

New(x, size, asize) ==
    /\ Alive /\ ~Exists(x)
    /\ xstr' = [xstr EXCEPT ![x] = [size |-> size, asize |-> asize, cap |-> asize]]
    /\ UNCHANGED <<regions, ended, beyond>>

tf_strnew(x) == New(x, 0, TF_STR_UNIT)

tf_strnew2(x, len) ==
    /\ Alive /\ ~Exists(x)
    /\ LET size  == ToInt(len)
           asize == AtLeastUnit(ToInt(size + 1))
       IN  Fill(x, [size |-> size % U32, asize |-> asize, cap |-> asize], 0, ToInt(size + 1))
    /\ beyond' = (beyond \/ len >= INT_MAX)

\* asiz is asserted not to be negative.
tf_strnew3(x, asiz) == New(x, 0, AtLeastUnit(asiz))

\* max compares as __u32; a negative asize is more than the host has, but for
\* the last values, to which tf_alloc adds its prefix.
tf_strdup(x, y) ==
    /\ Alive /\ Exists(x) /\ ~Exists(y)
    /\ LET asize == AtLeastUnit((xstr[x].size + 1) % U32)
       IN  \/ /\ asize <= INT_MAX
              /\ Fill(y, [size |-> xstr[x].size, asize |-> asize, cap |-> asize],
                       0, (xstr[x].size + 1) % U32)
              /\ beyond' = (beyond \/ xstr[x].size + 1 >= U32)
           \/ /\ asize > INT_MAX
              /\ ended' \in {"abort", "overrun"}
              /\ beyond' = TRUE
              /\ UNCHANGED <<xstr, regions>>

tf_strdel(x) ==
    /\ Alive /\ Exists(x)
    /\ xstr' = [xstr EXCEPT ![x] = NoXstr]
    /\ UNCHANGED <<regions, ended, beyond>>

\* Mutant of Enlarged: doubled once, without looking at nsize.
Doubled(x, nsize) ==
    LET twice == (2 * x.asize) % U32
    IN  IF x.asize >= nsize THEN x ELSE [size |-> x.size, asize |-> twice, cap |-> twice]

\* asize is compared with nsize as __u32.  The loop is left after one round:
\* either doubling was enough, or asize becomes nsize.
Enlarged(x, nsize) ==
    LET twice == (2 * x.asize) % U32
        asize == IF twice < nsize THEN nsize ELSE twice
    IN  IF x.asize >= nsize THEN x ELSE [size |-> x.size, asize |-> asize, cap |-> asize]

\* size + n bytes and a zero are asked for, as many as a __u32 can say.
Extended(s, n) ==
    LET e == Enlarged(s, (s.size + n + 1) % U32)
    IN  [size |-> (s.size + n) % U32, asize |-> e.asize, cap |-> e.cap]

\* size is asserted not to be negative.
tf_strcat(x, size) ==
    /\ Alive /\ Exists(x)
    /\ Fill(x, Extended(xstr[x], size), xstr[x].size, size + 1)
    /\ beyond' = (beyond \/ xstr[x].size + size + 1 >= U32)

tf_strcat2(x, len) ==
    /\ Alive /\ Exists(x)
    /\ Fill(x, Extended(xstr[x], len), xstr[x].size, ToInt(ToInt(len) + 1))
    /\ beyond' = (beyond \/ len >= INT_MAX \/ xstr[x].size + len + 1 >= U32)

\* What a conversion or a character of the format appends, unless it is a
\* string: the text of a number, which fits tbuf (4 * TFNUMBUFSIZ bytes), or
\* the characters of '@' and '?', some of them escaped, some dropped.
Piece == {n \in Ints : n <= 128}

\* tf_strprintf goes on with the next piece.
tf_vstrprintf(x) ==
    \/ \E n \in Piece : tf_strcat(x, n)
    \/ \E n \in Lengths : tf_strcat2(x, n)

tf_strclear(x) ==
    /\ Alive /\ Exists(x)
    /\ xstr' = [xstr EXCEPT ![x].size = 0]
    /\ UNCHANGED <<regions, ended, beyond>>

tf_strtomalloc(x) ==
    /\ Alive /\ Exists(x)
    /\ regions[x] = 0
    /\ regions' = [regions EXCEPT ![x] = xstr[x].cap]
    /\ xstr' = [xstr EXCEPT ![x] = NoXstr]
    /\ UNCHANGED <<ended, beyond>>

\* The zero at the end is not counted in asize.  Adding it to INT_MAX asks
\* for more than the host has.
tf_strfrommalloc(x, size) ==
    /\ Alive /\ ~Exists(x)
    /\ size <= regions[x]
    /\ regions[x] > 0
    /\ \/ /\ size < INT_MAX
          /\ xstr' = [xstr EXCEPT ![x] = [size |-> size, asize |-> size, cap |-> size + 1]]
          /\ regions' = [regions EXCEPT ![x] = 0]
          /\ UNCHANGED <<ended, beyond>>
       \/ /\ size = INT_MAX
          /\ ended' = "abort"
          /\ beyond' = TRUE
          /\ UNCHANGED <<xstr, regions>>

\* The process has ended.
StrEnded == ~Alive /\ UNCHANGED strVars

StrNext ==
    \/ StrEnded
    \/ \E x \in Xstrs :
        \/ tf_strnew(x) \/ tf_strdel(x) \/ tf_strclear(x)
        \/ tf_vstrprintf(x) \/ tf_strtomalloc(x)
        \/ \E n \in Lengths : tf_strnew2(x, n) \/ tf_strcat2(x, n)
        \/ \E n \in Ints : tf_strnew3(x, n) \/ tf_strcat(x, n) \/ tf_strfrommalloc(x, n)
        \/ \E y \in Xstrs : tf_strdup(x, y)

StrSpec == StrInit /\ [][StrNext]_strVars
-----------------------------------------------------------------------------
(* Correctness.                                                            *)

\* Each function writes the bytes of the string and a zero after them: after
\* any mix of appending, clearing, copying and taking over regions, and even
\* when doubling asize wraps around, both are within the region, asize never
\* promises more than it holds and no allocation is of a negative size.  The
\* program has to see to it that a character string it passes, or a string it
\* copies or takes over, is shorter than INT_MAX and that no string grows to
\* U32 - 1 bytes: the code checks neither (tf_string.c:22, 48, 65, 81, 259).
\* Strings longer than INT_MAX that tf_strcat builds piece by piece are right.
StringWithinRegion ==
    ~beyond =>
        /\ Alive
        /\ \A x \in Xstrs : Exists(x) =>
              /\ xstr[x].size < xstr[x].cap
              /\ xstr[x].asize <= xstr[x].cap
=============================================================================
