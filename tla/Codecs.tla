------------------------------- MODULE Codecs -------------------------------
(***************************************************************************)
(* The encodings of tflib: lists dumped into byte arrays with variable     *)
(* length numbers (tf_list.c, tf_util.h), lists joined into text and split *)
(* again (tf_util.c, tf_file.c), bytes as Base64 (expert/base64.c), as     *)
(* hexadecimal digits and as BCD (tf_util.c).  A caller builds a list or a *)
(* byte array step by step; each can be encoded and decoded at any time.   *)
(* A character of Base64 is the value that BASE642BIN gives it, other      *)
(* characters are their ASCII codes.                                       *)
(***************************************************************************)
EXTENDS Integers, SequencesExt, FiniteSetsExt

CONSTANTS
    VBASE,              \* digits of a variable length number are below it: 128
    INT,                \* sizeof(int)
    Elements,           \* elements of lists: sequences of signed bytes
    ByteValues,         \* unsigned bytes
    MaxElements, MaxBytesIn     \* bounds on the data

ASSUME CodecAssumption ==
    /\ VBASE \in Nat \ {0, 1} /\ INT \in Nat \ {0}
    /\ ByteValues \subseteq 0..255

VARIABLES
    elements,   \* a list
    data        \* a byte array

codecVars == <<elements, data>>

CodecInit == elements = <<>> /\ data = <<>>
-----------------------------------------------------------------------------
(* Lists.                                                                  *)

\* The digits from the lowest on; all but the last are stored as -digit - 1.
TFSETVNUMBUF[n \in Nat] ==
    IF n < VBASE THEN <<n>> ELSE <<-(n % VBASE) - 1>> \o TFSETVNUMBUF[n \div VBASE]

\* The position after the number at rp, and the number.
VNumEnd(buf, rp) == 1 + Min({i \in rp..Len(buf) : buf[i] >= 0})

TFREADVNUMBUF(buf, rp) ==
    LET last == VNumEnd(buf, rp) - 1
        digit(i) == IF i = last THEN buf[i] ELSE -(buf[i] + 1)
    IN  FoldSet(LAMBDA i, num : num + (digit(i) * (VBASE ^ (i - rp))), 0, rp..last)

DumpSize(l) == FoldLeft(LAMBDA n, e : n + Len(e) + INT, 1, l)

tf_list_dump(l) == FoldLeft(LAMBDA buf, e : buf \o TFSETVNUMBUF[Len(e)] \o e, <<>>, l)

tf_list_load(buf) ==
    LET from[rp \in 1..(Len(buf) + 1)] ==
            IF rp > Len(buf) THEN <<>>
            ELSE LET start == VNumEnd(buf, rp)
                     next  == start + TFREADVNUMBUF(buf, rp)
                 IN  <<SubSeq(buf, start, next - 1)>> \o from[next]
    IN  from[1]

tf_strjoin(l, delim) ==
    FoldLeft(LAMBDA str, i : str \o (IF i > 1 THEN <<delim>> ELSE <<>>) \o l[i],
             <<>>, [i \in DOMAIN l |-> i])

\* Every delimiter ends a string, and so does the end.
Cut(str, delims) ==
    LET cuts == {i \in DOMAIN str : str[i] \in delims}
        from(i) == Max({j \in cuts : j < i} \cup {0}) + 1
    IN  [n \in 1..(Cardinality(cuts) + 1) |->
            LET stop == CHOOSE i \in cuts \cup {Len(str) + 1} :
                            Cardinality({j \in cuts : j < i}) = n - 1
            IN  SubSeq(str, from(stop), stop - 1)]

\* Mutant of tf_strsplit: empty strings are skipped, as strtok does.
SplitSkipsEmpty(str, delims) == SelectSeq(Cut(str, delims), LAMBDA s : s # <<>>)

tf_strsplit(str, delims) == Cut(str, delims)

TAB == 9
CR == 13
LF == 10

tf_readlines(text) == Cut(SelectSeq(text, LAMBDA c : c # CR), {LF})
-----------------------------------------------------------------------------
(* Byte arrays.                                                            *)

PAD == 97       \* '='
EOS == 96       \* the end of a string

outputbase64(d, i) ==
    <<d[i] \div 4,
      ((d[i] % 4) * 16) + (d[i + 1] \div 16),
      ((d[i + 1] % 16) * 4) + (d[i + 2] \div 64),
      d[i + 2] % 64>>

\* The last one or two bytes, if the length is not a multiple of 3.
Remainder(d, i) ==
    CASE Len(d) - i + 1 = 2 -> <<d[i] \div 4, ((d[i] % 4) * 16) + (d[i + 1] \div 16), (d[i + 1] % 16) * 4, PAD>>
      [] Len(d) - i + 1 = 1 -> <<d[i] \div 4, (d[i] % 4) * 16, PAD, PAD>>
      [] OTHER -> <<>>

\* What is written: nothing for three bytes and less.
encode_base64(d) ==
    LET triples == Len(d) \div 3
    IN  IF Len(d) <= 3 THEN <<>>
        ELSE FlattenSeq([n \in 1..triples |-> outputbase64(d, (3 * n) - 2)])
             \o Remainder(d, (3 * triples) + 1)

\* The length that is returned counts four characters for the remainder
\* even if there is none.
EncodedLen(d) == IF Len(d) <= 3 THEN 0 ELSE (4 * (Len(d) \div 3)) + 4

\* One character of decode_base64: out are the bytes that are complete, part
\* is the next one, quad the position in the group of four.
DecodeChar(str, s, i) ==
    LET value == str[i]
        put(byte, part) == [s EXCEPT !.out = Append(@, s.part + byte), !.part = part,
                                     !.quad = (s.quad + 1) % 4]
    IN  CASE s.end \/ value > PAD -> s
          [] ~s.end /\ value = EOS -> [s EXCEPT !.end = TRUE]
          [] ~s.end /\ value = PAD ->
                [s EXCEPT !.end = s.quad = 3 \/ (s.quad = 2 /\ str[i + 1] = PAD)]
          [] ~s.end /\ value < EOS ->
                CASE s.quad = 0 -> [s EXCEPT !.part = value * 4, !.quad = 1]
                  [] s.quad = 1 -> put(value \div 16, (value % 16) * 16)
                  [] s.quad = 2 -> put(value \div 4, (value % 4) * 64)
                  [] s.quad = 3 -> put(value, 0)

decode_base64(str) ==
    FoldLeft(LAMBDA s, i : DecodeChar(str, s, i),
             [out |-> <<>>, part |-> 0, quad |-> 0, end |-> FALSE], [i \in DOMAIN str |-> i]).out

HexDigit(n) == IF n > 9 THEN n + 65 - 10 ELSE n + 48
Lowered(c) == IF c >= 65 THEN c + 32 ELSE c

bin_to_asc(hex) ==
    [i \in 1..(2 * Len(hex)) |->
        LET byte == hex[(i + 1) \div 2] IN HexDigit(IF i % 2 = 1 THEN byte \div 16 ELSE byte % 16)]

\* Mutant of OffsetAt: the case of the letters is looked up at the first
\* digit of a byte only.
OffsetAtEven(dsp, i) ==
    LET letters == {j \in 1..i : dsp[j] >= 65 /\ j % 2 = 1}
    IN  CASE letters = {} -> 0 [] OTHER -> IF dsp[Max(letters)] >= 97 THEN 97 ELSE 65

\* The offset in asc_to_bin is that of the last letter so far.
OffsetAt(dsp, i) ==
    LET letters == {j \in 1..i : dsp[j] >= 65}
    IN  CASE letters = {} -> 0 [] OTHER -> IF dsp[Max(letters)] >= 97 THEN 97 ELSE 65

asc_to_bin(dsp) ==
    LET value(i) == IF dsp[i] <= 57 THEN dsp[i] - 48 ELSE dsp[i] - OffsetAt(dsp, i) + 10
    IN  [n \in 1..(Len(dsp) \div 2) |-> ((value((2 * n) - 1) * 16) + value(2 * n)) % 256]

bcd_to_asc(src) ==
    [i \in 1..(2 * Len(src)) |->
        48 + (IF i % 2 = 1 THEN src[(i + 1) \div 2] \div 16 ELSE src[(i + 1) \div 2] % 16)]

\* A missing last digit is 0.
asc_to_bcd(src) ==
    [n \in 1..((Len(src) + 1) \div 2) |->
        ((src[(2 * n) - 1] - 48) * 16) + (IF 2 * n > Len(src) THEN 0 ELSE src[2 * n] - 48)]
-----------------------------------------------------------------------------
PutElement ==
    /\ data = <<>> /\ Len(elements) < MaxElements
    /\ \E e \in Elements : elements' = Append(elements, e)
    /\ data' = data

PutByte ==
    /\ elements = <<>> /\ Len(data) < MaxBytesIn
    /\ \E byte \in ByteValues : data' = Append(data, byte)
    /\ elements' = elements

StartOver == elements' = <<>> /\ data' = <<>>

CodecNext == PutElement \/ PutByte \/ StartOver

CodecSpec == CodecInit /\ [][CodecNext]_codecVars
-----------------------------------------------------------------------------
(* Correctness.                                                            *)

\* Text that can be joined and split: the caller's elements hold neither the
\* delimiters nor the byte 0, at which strings end.
IsText(l) == \A i \in DOMAIN l : \A c \in ToSet(l[i]) : c \notin {0, TAB, LF, CR}

\* A list is what tf_list_load makes of its dump, if the dump fits into the
\* buffer that tf_list_dump allocates, with sizeof(int) bytes per number and
\* one more.  Each element so large that its size takes a byte more may use
\* that one up: the dump of n such elements, no matter what else is in the
\* list, is written at most n - 1 bytes beyond the buffer, so that one does no
\* harm (tf_list.c:292-346).  A list of text that is not empty is also what
\* tf_strsplit makes of it joined, and tf_readlines of the file with its
\* elements as lines, separated by LF or by CR LF; if the last line is ended
\* as well, tf_readlines adds an empty element (tf_util.c:151-185,
\* tf_file.c:85-111).
ListsSurvive ==
    LET dump  == tf_list_dump(elements)
        large == {i \in DOMAIN elements : Len(elements[i]) >= VBASE ^ INT}
        withCR == [i \in DOMAIN elements |-> elements[i] \o <<CR>>]
    IN  /\ Len(dump) <= DumpSize(elements) + Cardinality(large) - 1
        /\ Len(dump) <= DumpSize(elements) => tf_list_load(dump) = elements
        /\ elements # <<>> /\ IsText(elements) =>
              /\ tf_strsplit(tf_strjoin(elements, TAB), {TAB, LF}) = elements
              /\ \A lines \in {elements, withCR} :
                    /\ tf_readlines(tf_strjoin(lines, LF)) = elements
                    /\ tf_readlines(Append(tf_strjoin(lines, LF), LF)) = Append(elements, <<>>)

\* Decoding gives the bytes back: Base64 from four bytes on, in a buffer that
\* was cleared, written within the length that is returned; hexadecimal
\* digits in either case, even changing within a byte; and BCD
\* (base64.c:42-149, tf_util.c:436-519).
BytesSurvive ==
    LET digits == bin_to_asc(data)
    IN  /\ Len(data) > 3 =>
              /\ decode_base64(Append(encode_base64(data), EOS)) = data
              /\ Len(encode_base64(data)) <= EncodedLen(data)
        /\ \A lower \in SUBSET {0, 1, 2} :
              asc_to_bin([i \in DOMAIN digits |-> IF i % 3 \in lower THEN Lowered(digits[i]) ELSE digits[i]])
                  = data
        /\ asc_to_bcd(bcd_to_asc(data)) = data
=============================================================================
