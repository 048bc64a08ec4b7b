------------------------------ MODULE NacRelay ------------------------------
(***************************************************************************)
(* The socketpair between the threads of tfnac: wait_response_thread       *)
(* writes each response as a length of two bytes and its data with two     *)
(* calls of tfnet_write, message_response_handler of the event loop reads  *)
(* them with two calls of tfnet_read (tfnac/main.c, tflib/tf_socket.c).    *)
(* The sockets block; read and write transfer part of what was asked, or   *)
(* are interrupted by a signal (sa_flags = 0), and a call that was         *)
(* interrupted too often gives up in the middle of what it transfers.      *)
(***************************************************************************)
EXTENDS Integers, Sequences

CONSTANTS
    DataLens,       \* bound: lengths of responses
    SocketBuffer,   \* bytes the socketpair holds
    Retries,        \* 20, the interruptions a call survives
    MaxAhead        \* bound: responses in the socketpair

ASSUME RelayAssumption ==
    /\ DataLens \subseteq Nat \ {0}
    /\ SocketBuffer \in Nat \ {0} /\ Retries \in Nat /\ MaxAhead \in Nat

VARIABLES
    pipe,       \* bytes written and not read
    writer,     \* the thread: its response, what its call of tfnet_write has left
    reader,     \* the handler: what its call of tfnet_read wants and has got
    sent,       \* history: the responses the handler has not taken, until gaveUp
    taken,      \* history: the response and what the handler just took for it
    gaveUp      \* history: some call gave up

relayVars == <<pipe, writer, reader, sent, taken, gaveUp>>

\* The bytes of a response of len bytes, numbered by parity.
Header(len)   == <<[len |-> len, byte |-> 1], [len |-> len, byte |-> 2]>>
Payload(n, len) == [i \in 1..len |-> [number |-> n, byte |-> i]]

AtRest == [in |-> "none", msg |-> [number |-> 0, len |-> 0], left |-> <<>>, loop |-> 0]
Asleep == [in |-> "none", want |-> 0, got |-> <<>>, loop |-> 0]

RelayInit ==
    /\ pipe = <<>>
    /\ writer = AtRest
    /\ reader = Asleep
    /\ sent = <<>>
    /\ taken = <<>>
    /\ gaveUp = FALSE
-----------------------------------------------------------------------------
(* wait_response_thread.                                                   *)

Relay(len) ==
    LET msg == [number |-> 1 - writer.msg.number, len |-> len]
    IN  /\ writer.in = "none"
        /\ Len(sent) < MaxAhead
        /\ writer' = [in |-> "length", msg |-> msg, left |-> Header(len), loop |-> 0]
        /\ sent' = IF gaveUp THEN sent ELSE Append(sent, msg)
        /\ UNCHANGED <<pipe, reader, taken, gaveUp>>

\* The result of tfnet_write is not looked at: whatever it is, the data
\* follow the length.
AfterWrite ==
    IF writer.in = "length"
    THEN [writer EXCEPT !.in = "data", !.loop = 0,
                        !.left = Payload(writer.msg.number, writer.msg.len)]
    ELSE [writer EXCEPT !.in = "none", !.left = <<>>, !.loop = 0]

\* write accepts n bytes; tfnet_write returns when there are none left.
Write(n) ==
    /\ writer.in # "none"
    /\ n <= Len(writer.left) /\ Len(pipe) + n <= SocketBuffer
    /\ pipe' = pipe \o SubSeq(writer.left, 1, n)
    /\ writer' = IF n = Len(writer.left) THEN AfterWrite
                 ELSE [writer EXCEPT !.left = SubSeq(@, n + 1, Len(@))]
    /\ UNCHANGED <<reader, sent, taken, gaveUp>>

\* Mutant of WriteInterrupted: the loop starts again with the whole buffer.
WriteStartsOver ==
    /\ writer.in = "length"
    /\ writer.loop < Retries
    /\ writer' = [writer EXCEPT !.loop = @ + 1, !.left = Header(writer.msg.len)]
    /\ UNCHANGED <<pipe, reader, sent, taken, gaveUp>>

WriteInterrupted ==
    /\ writer.in # "none"
    /\ IF writer.loop < Retries
       THEN gaveUp' = gaveUp /\ writer' = [writer EXCEPT !.loop = @ + 1]
       ELSE gaveUp' = TRUE /\ writer' = AfterWrite
    /\ sent' = IF gaveUp' THEN <<>> ELSE sent
    /\ UNCHANGED <<pipe, reader, taken>>
-----------------------------------------------------------------------------
(* message_response_handler.                                               *)

\* The loop calls it when there is something to read.
Handle ==
    /\ reader.in = "none"
    /\ pipe # <<>>
    /\ reader' = [in |-> "length", want |-> 2, got |-> <<>>, loop |-> 0]
    /\ taken' = <<>>
    /\ UNCHANGED <<pipe, writer, sent, gaveUp>>

\* The length in two bytes, which is any if they are not a header.
LengthIn(bytes) ==
    {len \in DataLens : Header(len) = bytes \/ \A l \in DataLens : Header(l) # bytes}

\* The handler has a whole response; it is compared with the one sent.
Take(bytes) ==
    /\ reader' = Asleep
    /\ sent' = IF sent = <<>> THEN sent ELSE Tail(sent)
    /\ taken' = IF sent = <<>> THEN <<>> ELSE <<sent[1], bytes>>

\* read returns n bytes; tfnet_read returns when it has them all.
Read(n) ==
    LET got == reader.got \o SubSeq(pipe, 1, n)
    IN  /\ reader.in # "none"
        /\ n <= Len(pipe) /\ n <= reader.want - Len(reader.got)
        /\ pipe' = SubSeq(pipe, n + 1, Len(pipe))
        /\ \/ /\ Len(got) < reader.want
              /\ reader' = [reader EXCEPT !.got = got]
              /\ UNCHANGED <<sent, taken>>
           \/ /\ Len(got) = reader.want /\ reader.in = "length"
              /\ \E len \in LengthIn(got) :
                    reader' = [in |-> "data", want |-> len, got |-> <<>>, loop |-> 0]
              /\ UNCHANGED <<sent, taken>>
           \/ /\ Len(got) = reader.want /\ reader.in = "data"
              /\ Take(got)
        /\ UNCHANGED <<writer, gaveUp>>

\* Mutant of ReadInterrupted: the call gives up at the first interruption.
ReadGivesUpAtOnce ==
    /\ reader.in # "none"
    /\ reader' = Asleep
    /\ UNCHANGED <<pipe, writer, sent, taken, gaveUp>>

\* When tfnet_read gives up, what it has read is lost.
ReadInterrupted ==
    /\ reader.in # "none"
    /\ IF reader.loop < Retries
       THEN gaveUp' = gaveUp /\ reader' = [reader EXCEPT !.loop = @ + 1]
       ELSE gaveUp' = TRUE /\ reader' = Asleep
    /\ sent' = IF gaveUp' THEN <<>> ELSE sent
    /\ UNCHANGED <<pipe, writer, taken>>

RelayNext ==
    \/ \E len \in DataLens : Relay(len)
    \/ \E n \in 1..SocketBuffer : Write(n) \/ Read(n)
    \/ Handle
    \/ WriteInterrupted \/ ReadInterrupted

RelaySpec == RelayInit /\ [][RelayNext]_relayVars
-----------------------------------------------------------------------------
(* Correctness.                                                            *)

\* Unless a call gives up, the handler takes the responses the thread sent,
\* whole and in order, wherever reads, writes and signals cut the stream.
ResponsesTakenWhole ==
    ~gaveUp /\ taken # <<>> => taken[2] = Payload(taken[1].number, taken[1].len)

\* The handler blocks the event loop in tfnet_read only while the thread is
\* busy writing the rest of the same response, and then the thread has room
\* to write it: neither waits for the other.
LoopWaitsForWriterOnly ==
    ~gaveUp /\ reader.in # "none" /\ pipe = <<>> =>
        writer.in # "none" /\ Len(sent) = 1
=============================================================================
