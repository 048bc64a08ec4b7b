----------------------------- MODULE Md5Stream ------------------------------
(***************************************************************************)
(* How MD5Update and MD5Final (tflib/expert/md5.c) cut a message that      *)
(* comes in pieces of any length into the blocks given to MD5Transform.    *)
(* The compression function and the order of the bytes in a word are left  *)
(* out: the digest is that of the blocks.  Byte i of the message is i.     *)
(***************************************************************************)
EXTENDS Integers, Sequences

CONSTANTS
    BLOCK,      \* 64
    LENGTH,     \* 8, the bytes for the length at the end of the last block
    WORD,       \* 2^32
    MaxBytes    \* bound: length of a message

ASSUME MdAssumption ==
    /\ LENGTH \in Nat /\ LENGTH % 2 = 0
    /\ BLOCK \in Nat /\ LENGTH < BLOCK
    /\ WORD \in Nat \ {0} /\ WORD % (8 * BLOCK) = 0
    /\ MaxBytes \in Nat

VARIABLES
    ctx,        \* bits[0], bits[1] and in of MD5Context
    blocks,     \* the blocks given to MD5Transform so far
    msgLen,     \* history: bytes of the message so far
    final       \* MD5Final was called

mdVars == <<ctx, blocks, msgLen, final>>

PadByte == "0x80"
Cells == 1..BLOCK

MD5Init ==
    /\ ctx = [lo |-> 0, hi |-> 0, in |-> [i \in Cells |-> 0]]
    /\ blocks = <<>>
    /\ msgLen = 0
    /\ final = FALSE
-----------------------------------------------------------------------------
\* The 64-bit count of bits, in two words.
Counted(c, len) ==
    LET sum == (c.lo + ((8 * len) % WORD)) % WORD
    IN  [c EXCEPT !.lo = sum,
                  !.hi = (@ + (IF sum < c.lo THEN 1 ELSE 0) + ((8 * len) \div WORD)) % WORD]

\* Bytes in the buffer.
Buffered(c) == (c.lo \div 8) % BLOCK

\* memcpy(in + at, s, Len(s))
Put(in, at, s) ==
    [i \in Cells |-> IF i \in (at + 1)..(at + Len(s)) THEN s[i - at] ELSE in[i]]

\* The next len bytes: they complete the block in the buffer, if any, are
\* transformed in whole blocks, and what remains is left in the buffer,
\* over the last block transformed.
MD5Update(len) ==
    LET t == Buffered(ctx)
        buf == [i \in 1..len |-> msgLen + i]
        all == [i \in 1..t |-> ctx.in[i]] \o buf
        n == Len(all) \div BLOCK
        block(k) == SubSeq(all, (k - 1) * BLOCK + 1, k * BLOCK)
        last == IF n = 0 THEN ctx.in ELSE block(n)
        rest == SubSeq(all, n * BLOCK + 1, Len(all))
    IN  /\ ~final
        /\ blocks' = blocks \o [k \in 1..n |-> block(k)]
        /\ ctx' = [Counted(ctx, len) EXCEPT !.in = Put(last, 0, rest)]
        /\ msgLen' = msgLen + len
        /\ final' = final

Zeros(n) == [i \in 1..n |-> 0]

\* The two words of the length, least significant first.
LengthField(lo, hi) == [i \in 1..LENGTH |-> IF 2 * i <= LENGTH THEN <<lo, i>> ELSE <<hi, i>>]

\* Mutant of NeedsTwoBlocks: off by one.
NeedsTwoBlocksEarly(room) == room <= LENGTH

\* The padding byte leaves too little room for the length.
NeedsTwoBlocks(room) == room < LENGTH

MD5Final ==
    LET count == Buffered(ctx)
        room == BLOCK - 1 - count
        padded == Put(ctx.in, count, <<PadByte>>)
        first == Put(padded, count + 1, Zeros(IF NeedsTwoBlocks(room) THEN room ELSE room - LENGTH))
        second == IF NeedsTwoBlocks(room) THEN Put(first, 0, Zeros(BLOCK - LENGTH)) ELSE first
        last == Put(second, BLOCK - LENGTH, LengthField(ctx.lo, ctx.hi))
    IN  /\ ~final
        /\ blocks' = blocks \o (IF NeedsTwoBlocks(room) THEN <<first>> ELSE <<>>) \o <<last>>
        /\ ctx' = [ctx EXCEPT !.in = last]
        /\ final' = TRUE
        /\ UNCHANGED msgLen

\* The context is initialized again for another message.
Again ==
    /\ final
    /\ ctx' = [ctx EXCEPT !.lo = 0, !.hi = 0]
    /\ blocks' = <<>>
    /\ msgLen' = 0
    /\ final' = FALSE

MdNext ==
    \/ \E len \in 0..(MaxBytes - msgLen) : MD5Update(len)
    \/ MD5Final
    \/ Again

MdSpec == MD5Init /\ [][MdNext]_mdVars
-----------------------------------------------------------------------------
(* Correctness.                                                            *)

\* The bytes of the blocks, in order.
Stream == [i \in 1..(BLOCK * Len(blocks)) |->
              blocks[((i - 1) \div BLOCK) + 1][((i - 1) % BLOCK) + 1]]

\* RFC 1321, 3.1 and 3.2: the message, the bit 1, zeros up to LENGTH bytes
\* before the end of a block, and its length in bits.
Padded ==
    LET zeros == (2 * BLOCK - LENGTH - 1 - (msgLen % BLOCK)) % BLOCK
    IN  [i \in 1..msgLen |-> i] \o <<PadByte>> \o Zeros(zeros)
          \o LengthField((8 * msgLen) % WORD, ((8 * msgLen) \div WORD) % WORD)

\* "pad to 64-byte boundary with the bit pattern 1 0* (64-bit count of bits
\* processed, MSB-first)" (md5.c:93-94): what is transformed is the padded
\* message, and hence depends on the message alone, not on how it came.  The
\* count is that of RFC 1321, with the low-order word first, as lines 128-129
\* write it, and not MSB-first as the comment says.
TransformsPaddedMessage == final => Stream = Padded
=============================================================================
