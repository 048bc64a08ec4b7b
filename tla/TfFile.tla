------------------------------- MODULE TfFile -------------------------------
(***************************************************************************)
(* Whole-file input and output (tflib/tf_file.c) over read and write calls *)
(* that transfer less than asked for, are interrupted or fail, while       *)
(* another process may append to the file that is read.  The byte at       *)
(* position i of that file, and of a caller's buffer, is i.                *)
(***************************************************************************)
EXTENDS Integers, SequencesExt, FiniteSetsExt

CONSTANTS
    TFIOBUFSIZ,     \* bytes per read of tf_copyfile
    MaxSize         \* bound on the size of a file

ASSUME FileAssumption == TFIOBUFSIZ \in Nat \ {0} /\ MaxSize \in Nat

VARIABLES
    size,       \* bytes in the file that is read
    dest,       \* contents of the file that is written
    call,       \* the call in progress, "none" if there is none
    last,       \* the call that was made last
    pos,        \* offset of the descriptor that is read
    out,        \* bytes that tf_write has still to write
    got,        \* bytes in the caller's buffer
    asked,      \* bytes the caller's buffer has room for
    result,     \* what the last call returned
    size0       \* history: the size at the start of the call

fileVars == <<size, dest, call, last, pos, out, got, asked, result, size0>>

Readers == {"read", "readfile", "readstdin"}

Bytes(from, to) == [i \in 1..(to - from) |-> from + i]

FileInit ==
    /\ size = 0 /\ dest = <<>> /\ call = "none" /\ last = "none" /\ pos = 0
    /\ out = <<>> /\ got = <<>> /\ asked = 0 /\ result = FALSE /\ size0 = 0
-----------------------------------------------------------------------------
Start(name) ==
    /\ call = "none"
    /\ call' = name /\ last' = name
    /\ result' = FALSE
    /\ size0' = size
    /\ UNCHANGED size

Return(ok) == call' = "none" /\ result' = ok

\* The destination is truncated before anything is read.
tf_copyfile ==
    /\ Start("copy")
    /\ dest' = <<>> /\ out' = <<>> /\ pos' = 0
    /\ UNCHANGED <<got, asked>>

\* The data is written by tf_write; a call with no data writes nothing.
tf_writefile(n) ==
    /\ Start("write")
    /\ dest' = <<>> /\ out' = Bytes(0, n) /\ asked' = n
    /\ UNCHANGED <<pos, got>>

tf_read(from, n) ==
    /\ Start("read")
    /\ pos' = from /\ got' = <<>> /\ asked' = n
    /\ UNCHANGED <<dest, out>>

\* fstat tells how much to allocate and to read; a limit of 0 is no limit.
\* Without a path the standard input is read into a string that grows, up to
\* INT_MAX bytes.
tf_readfile(limit, path) ==
    /\ Start(IF path THEN "readfile" ELSE "readstdin")
    /\ pos' = 0 /\ got' = <<>>
    /\ asked' = CASE limit > 0 /\ path -> Min({size, limit})
                  [] limit = 0 /\ path -> size
                  [] limit > 0 /\ ~path -> limit
                  [] limit = 0 /\ ~path -> MaxSize
    /\ UNCHANGED <<dest, out>>

\* One read of tf_copyfile that is not interrupted; at the end of the file
\* both are closed, which may fail.
CopyRead ==
    /\ call = "copy" /\ out = <<>>
    /\ \/ \E n \in 1..Min({TFIOBUFSIZ, size - pos}) :
             /\ out' = Bytes(pos, pos + n)
             /\ pos' = pos + n
             /\ UNCHANGED <<call, result>>
       \/ pos >= size /\ \E ok \in BOOLEAN : Return(ok) /\ UNCHANGED <<out, pos>>
       \/ Return(FALSE) /\ UNCHANGED <<out, pos>>
    /\ UNCHANGED <<size, dest, last, got, asked, size0>>

\* Mutant of WriteSome: a write that was cut short is taken for a whole one.
WriteOnce ==
    /\ call \in {"copy", "write"} /\ (call = "copy" => out # <<>>)
    /\ \E n \in 0..Len(out) : dest' = dest \o SubSeq(out, 1, n)
    /\ out' = <<>>
    /\ IF call = "write" THEN Return(TRUE) ELSE UNCHANGED <<call, result>>
    /\ UNCHANGED <<size, last, pos, got, asked, size0>>

\* One write of tf_write that is not interrupted; the last one of
\* tf_writefile is followed by close.
WriteSome ==
    /\ call \in {"copy", "write"} /\ (call = "copy" => out # <<>>)
    /\ \/ \E n \in 0..Len(out) :
             /\ dest' = dest \o SubSeq(out, 1, n)
             /\ out' = SubSeq(out, n + 1, Len(out))
             /\ \/ out' = <<>> /\ call = "write" /\ \E ok \in BOOLEAN : Return(ok)
                \/ (out' # <<>> \/ call = "copy") /\ UNCHANGED <<call, result>>
       \/ Return(FALSE) /\ UNCHANGED <<dest, out>>
    /\ UNCHANGED <<size, last, pos, got, asked, size0>>

\* read puts some of what is there into the rest of the buffer.
ReadSome ==
    /\ call \in Readers
    /\ \E n \in 1..Min({asked - Len(got), size - pos}) :
          /\ got' = got \o Bytes(pos, pos + n)
          /\ pos' = pos + n
          /\ IF call = "read" /\ Len(got') = asked THEN Return(TRUE) ELSE UNCHANGED <<call, result>>
    /\ UNCHANGED <<size, dest, last, out, asked, size0>>

\* read finds nothing, is interrupted or fails, which tf_readfile takes for
\* the end of the file.  In tf_read an interruption falls into the case of
\* the end of the file.
ReadEnds ==
    /\ call \in Readers
    /\ \/ Return(call # "read" \/ asked = Len(got))
       \/ call = "read" /\ Return(FALSE)
    /\ UNCHANGED <<size, dest, last, pos, out, got, asked, size0>>

\* External: another process appends to the file.
Appended ==
    /\ size < MaxSize
    /\ size' = size + 1
    /\ UNCHANGED <<dest, call, last, pos, out, got, asked, result, size0>>

FileNext ==
    \/ tf_copyfile \/ CopyRead \/ WriteSome
    \/ \E n \in 0..MaxSize : tf_writefile(n) \/ \E path \in BOOLEAN : tf_readfile(n, path)
    \/ \E from \in 0..size, n \in 0..MaxSize : tf_read(from, n)
    \/ ReadSome \/ ReadEnds
    \/ Appended

FileSpec == FileInit /\ [][FileNext]_fileVars
-----------------------------------------------------------------------------
(* Correctness.                                                            *)

\* A call that returns true has done all of it, however the transfers were
\* cut: the copy holds at least what the source held when the call began,
\* and nothing else; the file written is the data; tf_read has filled the
\* buffer with consecutive bytes; what tf_readfile returns is a prefix of the
\* file, if not all of it.  No call writes beyond the buffer, of
\* which tf_readfile knows the size from an fstat that is outdated when the
\* file grows (tf_file.c:49-82, 114-154, 199-231).
TransfersWhole ==
    /\ call = "none" /\ result =>
          CASE last = "copy" -> Len(dest) >= size0 /\ dest = Bytes(0, Len(dest))
            [] last = "write" -> dest = Bytes(0, asked)
            [] last = "read" -> got = Bytes(pos - asked, pos)
            [] last \in {"readfile", "readstdin"} -> got = Bytes(0, Len(got))
    /\ Len(got) <= asked \/ last \notin Readers
    /\ last = "readfile" => asked <= size0
=============================================================================
