--------------------------- MODULE NacQuitProofs ----------------------------
(***************************************************************************)
(* The threads of tfnac, in two parts that share no state: its start and   *)
(* end, for any number of starts and signals and any size of the queue;    *)
(* the relay of responses over the socketpair, for responses and socket    *)
(* buffers of any size.                                                    *)
(***************************************************************************)
EXTENDS NacQuit, NacRelay, SequenceTheorems, TLAPS

-----------------------------------------------------------------------------
(* Start and end.                                                          *)

\* What the three properties rest on: which objects exist in which phase of
\* main, and that the thread stops and the handler runs only once quitting is
\* set.
Phases ==
    /\ pc \notin {"down", "signals"} => process_mgr # "null"
    /\ pc \in Running => el = "live"
    /\ thread \in {"stopping", "done"} => quitting
    /\ sig # "none" => quitting

QuitInv == TypeOK /\ Phases

\* What is in mq_data while a request is prepared in it.
RequestWhole ==
    /\ pc \in {"filling", "filled"} => mq_data.data = "request"
    /\ pc = "filled" => mq_data.msg_type = "request"

\* The handler writes to mq_data once at most: no request is damaged before
\* that, and afterwards only the one that was being prepared then.
Damage ==
    /\ ~quitting \/ sig \in {"stop", "fill"} => damaged = 0 /\ RequestWhole
    /\ ~RequestWhole => damaged = 0
    /\ damaged <= 1
-----------------------------------------------------------------------------
LEMMA QuitInit == Init => QuitInv
  <1> SUFFICES ASSUME Init PROVE QuitInv
    OBVIOUS
  <1>1. inq \in Seq(Messages) /\ Len(inq) <= QueueCap
    BY QuitAssumption DEF Init
  <1>2. boots \in 0..MaxBoots /\ signals \in 0..MaxSignals
    BY QuitAssumption DEF Init
  <1>3. TypeOK
    BY <1>1, <1>2 DEF Init, TypeOK, PCs
  <1>4. Phases
    BY DEF Init, Phases, Running, AeMain
  <1> QED
    BY <1>3, <1>4 DEF QuitInv

\* Taking a message out of the queue.
LEMMA ReceivedType ==
    ASSUME TypeOK, NEW k \in 1..Len(inq), Received(k)
    PROVE  inq' \in Seq(Messages) /\ Len(inq') <= QueueCap
  <1>1. Len(inq) \in Nat /\ Len(inq) - 1 \in Nat /\ inq \in Seq(Messages)
    BY DEF TypeOK
  <1>2. \A i \in 1..(Len(inq) - 1) : inq[i] \in Messages /\ inq[i + 1] \in Messages
    BY <1>1
  <1>3. inq' \in [1..(Len(inq) - 1) -> Messages]
    BY <1>2 DEF Received
  <1>4. inq' \in Seq(Messages)
    BY <1>1, <1>3, SeqDef
  <1>5. Len(inq') = Len(inq) - 1
    BY <1>1, <1>3, <1>4
  <1> QED
    BY <1>1, <1>4, <1>5, QuitAssumption DEF TypeOK

LEMMA AppendType ==
    ASSUME TypeOK, NEW m \in Messages, Len(inq) < QueueCap, inq' = Append(inq, m)
    PROVE  inq' \in Seq(Messages) /\ Len(inq') <= QueueCap
  BY QuitAssumption DEF TypeOK

LEMMA KilledInv ==
    ASSUME QuitInv, Killed, UNCHANGED uaf, signals' \in 0..MaxSignals
    PROVE  QuitInv'
  BY DEF QuitInv, TypeOK, Phases, Killed, PCs, Running, AeMain, Alive
-----------------------------------------------------------------------------
LEMMA MainInv == QuitInv /\ (Start \/ Main) => QuitInv'
  <1> SUFFICES ASSUME QuitInv, Start \/ Main PROVE QuitInv'
    OBVIOUS
  <1> USE DEF QuitInv, Phases, PCs, Running, AeMain, MainStep
  <1>1. CASE Start
    <2>1. TypeOK'
      BY <1>1, QuitAssumption DEF Start, TypeOK
    <2>2. Phases'
      BY <1>1 DEF Start
    <2> QED
      BY <2>1, <2>2
  <1>2. CASE Allocate \/ InitializeFails \/ RunConsole
    <2>1. TypeOK'
      <3>1. CASE Allocate
        BY <3>1 DEF Allocate, TypeOK
      <3>2. CASE InitializeFails
        BY <3>2 DEF InitializeFails, TypeOK
      <3>3. CASE RunConsole
        BY <3>3 DEF RunConsole, TypeOK
      <3> QED
        BY <1>2, <3>1, <3>2, <3>3
    <2>2. Phases'
      BY <1>2 DEF Allocate, InitializeFails, RunConsole
    <2> QED
      BY <2>1, <2>2
  <1>3. CASE CreateLoop \/ NoServer \/ ListenFails \/ ServerFails
    <2>1. TypeOK'
      <3>1. CASE CreateLoop
        BY <3>1 DEF CreateLoop, TypeOK
      <3>2. CASE NoServer
        BY <3>2 DEF NoServer, TypeOK
      <3>3. CASE ListenFails
        BY <3>3 DEF ListenFails, TypeOK
      <3>4. CASE ServerFails
        BY <3>4 DEF ServerFails, TypeOK
      <3> QED
        BY <1>3, <3>1, <3>2, <3>3, <3>4
    <2>2. Phases'
      BY <1>3 DEF CreateLoop, NoServer, ListenFails, ServerFails
    <2> QED
      BY <2>1, <2>2
  <1> USE DEF TypeOK
  <1>4. CASE CheckQuitting \/ SocketpairFails
    <2>1. CASE CheckQuitting
      BY <2>1 DEF CheckQuitting
    <2>2. CASE SocketpairFails
      BY <2>2 DEF SocketpairFails
    <2> QED
      BY <1>4, <2>1, <2>2
  <1>5. CASE CreateThread
    BY <1>5 DEF CreateThread, tf_create_thread, Alive
  <1>6. CASE RegisterWithoutLoop \/ Exit
    BY <1>6, KilledInv DEF RegisterWithoutLoop, Exit
  <1>7. CASE EnterAeMain \/ TestStop \/ ProcessEvents
    BY <1>7 DEF EnterAeMain, TestStop, ProcessEvents
  <1>8. CASE FillRequest \/ FillRequestType \/ SendRequest \/ CloseSockets
    BY <1>8 DEF FillRequest, FillRequestType, SendRequest, CloseSockets
  <1>9. CASE aeDeleteEventLoop
    <2>1. CASE Killed
      BY <1>9, <2>1, KilledInv DEF aeDeleteEventLoop
    <2>2. CASE ~Killed
      BY <1>9, <2>2 DEF aeDeleteEventLoop
    <2> QED
      BY <2>1, <2>2
  <1>10. CASE FreeProcessMgr
    BY <1>10 DEF FreeProcessMgr
  <1> QED
    BY <1>1, <1>2, <1>3, <1>4, <1>5, <1>6, <1>7, <1>8, <1>9, <1>10 DEF Main

LEMMA ThreadInv == QuitInv /\ Thread => QuitInv'
  <1> SUFFICES ASSUME QuitInv, Thread PROVE QuitInv'
    OBVIOUS
  <1> USE DEF QuitInv, Phases, ThreadStep, Alive
  <1>1. CASE ThreadStarts \/ ThreadTests
    <2>1. TypeOK'
      BY <1>1 DEF ThreadStarts, ThreadTests, Used, TypeOK
    <2>2. Phases'
      BY <1>1 DEF ThreadStarts, ThreadTests
    <2> QED
      BY <2>1, <2>2
  <1>2. CASE ThreadReceives
    <2>1. PICK k \in 1..Len(inq) :
             Received(k) /\ ThreadStep("recv", IF inq[k] = "quit" THEN "test" ELSE "write")
      BY <1>2 DEF ThreadReceives
    <2>2. inq' \in Seq(Messages) /\ Len(inq') <= QueueCap
      BY <2>1, ReceivedType
    <2> QED
      BY <1>2, <2>1, <2>2 DEF ThreadReceives, TypeOK
  <1>3. CASE ThreadWrites \/ ThreadStops
    <2>1. TypeOK'
      BY <1>3 DEF ThreadWrites, ThreadStops, Used, TypeOK
    <2>2. Phases'
      BY <1>3 DEF ThreadWrites, ThreadStops
    <2> QED
      BY <2>1, <2>2
  <1> QED
    BY <1>1, <1>2, <1>3 DEF Thread

LEMMA HandlerInv == QuitInv /\ Handler => QuitInv'
  <1> SUFFICES ASSUME QuitInv, Handler PROVE QuitInv'
    OBVIOUS
  <1>1. CASE aeStop
    <2>1. CASE el = "null"
      BY <1>1, <2>1, KilledInv DEF aeStop, QuitInv, TypeOK
    <2>2. CASE el # "null"
      BY <1>1, <2>2 DEF aeStop, QuitInv, TypeOK, Phases
    <2> QED
      BY <2>1, <2>2
  <1>2. CASE FillQuitMessage
    BY <1>2 DEF FillQuitMessage, Used, QuitInv, TypeOK, Phases
  <1>3. CASE SendQuitMessage
    <2> DEFINE m == IF mq_data.msg_type = "quit" THEN "quit" ELSE "other"
    <2>1. m \in Messages
      BY DEF Messages
    <2>2. inq' \in Seq(Messages) /\ Len(inq') <= QueueCap
      BY <1>3, <2>1, AppendType DEF SendQuitMessage, QuitInv, TypeOK
    <2> QED
      BY <1>3, <2>2 DEF SendQuitMessage, Used, QuitInv, TypeOK, Phases
  <1> QED
    BY <1>1, <1>2, <1>3 DEF Handler

LEMMA SignalInv ==
    ASSUME QuitInv, NEW t \in {"main", "thread"},
           SignalTooEarly(t) \/ SignalIgnored(t) \/ SignalQuits(t)
    PROVE  QuitInv'
  <1>1. signals' \in 0..MaxSignals
    BY QuitAssumption DEF SignalTooEarly, SignalIgnored, SignalQuits, Deliverable, QuitInv, TypeOK
  <1>2. CASE SignalTooEarly(t)
    BY <1>1, <1>2, KilledInv DEF SignalTooEarly
  <1>3. CASE SignalIgnored(t)
    BY <1>1, <1>3 DEF SignalIgnored, Interrupted, Used, QuitInv, TypeOK, Phases, Alive
  <1>4. CASE SignalQuits(t)
    BY <1>1, <1>4 DEF SignalQuits, Interrupted, Used, QuitInv, TypeOK, Phases, Alive
  <1> QED
    BY <1>2, <1>3, <1>4

LEMMA DeviceInv ==
    ASSUME QuitInv, OthersReceive \/ \E m \in {"response", "other"} : DeviceSends(m)
    PROVE  QuitInv'
  <1>1. inq' \in Seq(Messages) /\ Len(inq') <= QueueCap
    <2>1. CASE OthersReceive
      BY <2>1, QuitAssumption DEF OthersReceive, QuitInv, TypeOK
    <2>2. ASSUME NEW m \in {"response", "other"}, DeviceSends(m)
          PROVE  inq' \in Seq(Messages) /\ Len(inq') <= QueueCap
      BY <2>2, AppendType DEF DeviceSends, QuitInv, Messages
    <2> QED
      BY <2>1, <2>2
  <1>2. UNCHANGED <<pc, process_mgr, el, stop, quitting, mq_exit, mq_data, damaged,
                    thread, sig, sigOn, boots, signals, uaf>>
    BY DEF OthersReceive, DeviceSends
  <1> QED
    BY <1>1, <1>2 DEF QuitInv, TypeOK, Phases

LEMMA QuitStep == QuitInv /\ [Next]_vars => QuitInv'
  <1> SUFFICES ASSUME QuitInv, [Next]_vars PROVE QuitInv'
    OBVIOUS
  <1>1. CASE UNCHANGED vars
    BY <1>1 DEF vars, QuitInv, TypeOK, Phases
  <1> QED
    BY <1>1, MainInv, ThreadInv, HandlerInv, SignalInv, DeviceInv DEF Next
-----------------------------------------------------------------------------
\* Type correctness; in particular the queue never exceeds its capacity.
THEOREM QuitTypeCorrect == Spec => []TypeOK
  <1>1. QuitInv => TypeOK
    BY DEF QuitInv
  <1> QED
    BY <1>1, QuitInit, QuitStep, PTL DEF Spec

\* Messages left over in the queue never end the response thread of a
\* service that nobody asked to quit, however many starts there were.
THEOREM QuitResponsesServed == Spec => []ResponsesServed
  <1>1. QuitInv => ResponsesServed
    BY DEF QuitInv, Phases, ResponsesServed
  <1> QED
    BY <1>1, QuitInit, QuitStep, PTL DEF Spec

\* Steps that leave the buffer and the counter alone, and do not begin or end
\* a request or a handler.
LEMMA NothingDamaged ==
    ASSUME Damage, UNCHANGED <<mq_data, damaged>>, quitting => quitting',
           pc' = pc \/ pc' \notin {"filling", "filled"},
           sig' = sig \/ sig' \notin {"stop", "fill"}
    PROVE  Damage'
  BY DEF Damage, RequestWhole

\* A process that has ended has sent nothing.
LEMMA KilledNothing == ASSUME Killed PROVE Damage'
  BY DEF Killed, Damage, RequestWhole

LEMMA DamageStep == QuitInv /\ Damage /\ [Next]_vars => Damage'
  <1> SUFFICES ASSUME QuitInv, Damage, [Next]_vars PROVE Damage'
    OBVIOUS
  <1>1. CASE UNCHANGED vars
    BY <1>1, NothingDamaged DEF vars
  <1>2. CASE FillRequest
    BY <1>2 DEF FillRequest, MainStep, Damage, RequestWhole, QuitInv, TypeOK
  <1>3. CASE FillRequestType
    BY <1>3 DEF FillRequestType, MainStep, Damage, RequestWhole, QuitInv, TypeOK
  <1>4. CASE SendRequest
    BY <1>4 DEF SendRequest, MainStep, Damage, RequestWhole, QuitInv, TypeOK
  <1>5. CASE Start
    BY <1>5, NothingDamaged DEF Start
  <1>6. CASE \/ Allocate \/ InitializeFails \/ RunConsole \/ CreateLoop \/ NoServer
             \/ ListenFails \/ ServerFails \/ CheckQuitting \/ SocketpairFails
    BY <1>6, NothingDamaged
       DEF Allocate, InitializeFails, RunConsole, CreateLoop, NoServer, ListenFails,
           ServerFails, CheckQuitting, SocketpairFails, MainStep
  <1>7. CASE \/ CreateThread \/ EnterAeMain \/ TestStop \/ ProcessEvents \/ CloseSockets
             \/ FreeProcessMgr
    BY <1>7, NothingDamaged
       DEF CreateThread, EnterAeMain, TestStop, ProcessEvents, CloseSockets,
           FreeProcessMgr, MainStep
  <1>8. CASE RegisterWithoutLoop \/ Exit
    BY <1>8, KilledNothing DEF RegisterWithoutLoop, Exit
  <1>9. CASE aeDeleteEventLoop
    BY <1>9, KilledNothing, NothingDamaged DEF aeDeleteEventLoop
  <1>10. CASE Thread
    BY <1>10, NothingDamaged DEF Thread, ThreadStarts, ThreadTests, ThreadReceives,
       ThreadWrites, ThreadStops
  <1>11. CASE aeStop
    <2>1. CASE Killed
      BY <2>1, KilledNothing
    <2>2. CASE ~Killed
      BY <1>11, <2>2 DEF aeStop, Damage, RequestWhole
    <2> QED
      BY <2>1, <2>2
  <1>12. CASE FillQuitMessage
    BY <1>12 DEF FillQuitMessage, Damage, RequestWhole, QuitInv, Phases
  <1>13. CASE SendQuitMessage
    BY <1>13, NothingDamaged DEF SendQuitMessage
  <1>14. ASSUME NEW t \in {"main", "thread"},
                SignalTooEarly(t) \/ SignalIgnored(t) \/ SignalQuits(t)
         PROVE  Damage'
    <2>1. CASE SignalTooEarly(t)
      BY <2>1, KilledNothing DEF SignalTooEarly
    <2>2. CASE SignalIgnored(t)
      BY <2>2, NothingDamaged DEF SignalIgnored
    <2>3. CASE SignalQuits(t)
      BY <2>3 DEF SignalQuits, Damage, RequestWhole
    <2> QED
      BY <1>14, <2>1, <2>2, <2>3
  <1>15. CASE OthersReceive \/ \E m \in {"response", "other"} : DeviceSends(m)
    BY <1>15, NothingDamaged DEF OthersReceive, DeviceSends
  <1> QED
    BY <1>1, <1>2, <1>3, <1>4, <1>5, <1>6, <1>7, <1>8, <1>9, <1>10, <1>11, <1>12, <1>13,
       <1>14, <1>15 DEF Next, Main, Handler

\* However many signals come and wherever the handler runs, it damages at
\* most one request of a process, and none of one that nobody told to quit.
THEOREM QuitOneRequestDamaged == Spec => []OneRequestDamaged
  <1>1. Init => Damage
    BY DEF Init, Damage, RequestWhole
  <1>2. QuitInv /\ Damage => OneRequestDamaged
    BY DEF QuitInv, TypeOK, Damage, OneRequestDamaged
  <1> QED
    BY <1>1, <1>2, QuitInit, QuitStep, DamageStep, PTL DEF Spec

\* No signal and no step of main ends a process whose loop runs otherwise
\* than through the end of main.
THEOREM QuitLoopNeverCrashes == Spec => LoopNeverCrashes
  <1>1. QuitInv /\ [Next]_vars => [(pc \in Running) => (pc' # "down")]_vars
    <2> SUFFICES ASSUME QuitInv, Next, pc \in Running PROVE pc' # "down"
      OBVIOUS
    <2> USE DEF QuitInv, Phases, Running, AeMain
    <2>1. CASE Start \/ Main
      BY <2>1 DEF Start, Main, MainStep, Allocate, InitializeFails, RunConsole, CreateLoop,
                  NoServer, ListenFails, ServerFails, CheckQuitting, SocketpairFails, CreateThread,
                  RegisterWithoutLoop, EnterAeMain, TestStop, ProcessEvents, FillRequest,
                  FillRequestType, SendRequest, CloseSockets, aeDeleteEventLoop, FreeProcessMgr, Exit
    <2>2. CASE Thread
      BY <2>2 DEF Thread, ThreadStarts, ThreadTests, ThreadReceives, ThreadWrites, ThreadStops
    <2>3. CASE Handler
      BY <2>3 DEF Handler, aeStop, FillQuitMessage, SendQuitMessage
    <2>4. ASSUME NEW t \in {"main", "thread"},
                 SignalTooEarly(t) \/ SignalIgnored(t) \/ SignalQuits(t)
          PROVE  pc' # "down"
      BY <2>4 DEF SignalTooEarly, SignalIgnored, SignalQuits
    <2>5. CASE OthersReceive \/ \E m \in {"response", "other"} : DeviceSends(m)
      BY <2>5 DEF OthersReceive, DeviceSends
    <2> QED
      BY <2>1, <2>2, <2>3, <2>4, <2>5 DEF Next
  <1> QED
    BY <1>1, QuitInit, QuitStep, PTL DEF Spec, LoopNeverCrashes
-----------------------------------------------------------------------------
(* The response relay.                                                     *)

RelayBytes == [len : Nat, byte : Nat] \cup [number : {0, 1}, byte : Nat]
Responses == [number : {0, 1}, len : DataLens]

\* Byte j of a response, its length included.
ResponseByte(m, j) == IF j <= 2 THEN [len |-> m.len, byte |-> j]
                      ELSE [number |-> m.number, byte |-> j - 2]

\* What the thread still writes of its response.
Coming(w) == w.left \o (IF w.in = "length" THEN Payload(w.msg.number, w.msg.len) ELSE <<>>)

\* All bytes between the two threads, from those the handler has got to those
\* not yet written.
InFlight(r, p, w) == (r.got \o p) \o Coming(w)

\* The bytes are those of the responses, one after the other: response i
\* follows byte ends[i - 1].  The first may begin before the first byte, and
\* what precedes it was read already.
FramedBy(bytes, msgs, ends) ==
    /\ ends \in [0..Len(msgs) -> Int]
    /\ ends[Len(msgs)] = Len(bytes)
    /\ \A i \in 1..Len(msgs) : ends[i] = ends[i - 1] + (2 + msgs[i].len)
    /\ \A i, k \in 0..Len(msgs) : i < k => ends[i] < ends[k]
    /\ \A i \in 1..Len(msgs) : \A j \in 1..(2 + msgs[i].len) :
          ends[i - 1] + j >= 1 => bytes[ends[i - 1] + j] = ResponseByte(msgs[i], j)

\* The length of the first response was read already.
FirstAt(r) == IF r.in = "data" THEN -2 ELSE 0

WriterType == [in : {"none", "length", "data"}, msg : [number : {0, 1}, len : Nat],
               left : Seq(RelayBytes), loop : Nat]
ReaderType == [in : {"none", "length", "data"}, want : Nat,
               got : Seq(RelayBytes), loop : Nat]

RelayTypeOK ==
    /\ pipe \in Seq(RelayBytes)
    /\ writer \in WriterType
    /\ reader \in ReaderType
    /\ sent \in Seq(Responses)

\* The thread has something left of the last response, or nothing.
WriterConsistent(w, s) ==
    /\ w.in = "none" => w.left = <<>>
    /\ w.in # "none" => w.left # <<>> /\ s # <<>> /\ s[Len(s)] = w.msg
    /\ w.in = "length" => Len(w.left) <= 2
    /\ w.in = "data" => Len(w.left) <= w.msg.len

\* The handler wants more than it has got of the first response.
ReaderConsistent(r, s) ==
    /\ r.in = "none" => r.got = <<>>
    /\ r.in # "none" => s # <<>> /\ Len(r.got) < r.want
    /\ r.in = "length" => r.want = 2
    /\ r.in = "data" => r.want = s[1].len

\* The bytes between the threads are the responses the handler has not taken.
Framed(r, p, w, s) == \E ends : FramedBy(InFlight(r, p, w), s, ends) /\ ends[0] = FirstAt(r)

\* Until a call gives up.
RelayGood ==
    /\ RelayTypeOK
    /\ WriterConsistent(writer, sent)
    /\ ReaderConsistent(reader, sent)
    /\ Framed(reader, pipe, writer, sent)

\* The inductive invariant of the relay.
RelayInv ==
    /\ gaveUp \in BOOLEAN
    /\ ~gaveUp => RelayGood
    /\ ResponsesTakenWhole

\* Concatenation as an operator the provers do not take apart.
Cat(s, t) == s \o t

LEMMA CatAssociative ==
    \A S : \A x, y, z \in Seq(S) : Cat(Cat(x, y), z) = Cat(x, Cat(y, z))
BY DEF Cat

LEMMA CatType == \A S : \A x, y \in Seq(S) : Cat(x, y) \in Seq(S)
BY DEF Cat

\* Moving the first n elements of t to the end of s leaves their
\* concatenation as it is.
LEMMA CutMoves ==
    ASSUME NEW S, NEW s \in Seq(S), NEW t \in Seq(S), NEW n \in 0..Len(t)
    PROVE  /\ SubSeq(t, 1, n) \in Seq(S) /\ Len(SubSeq(t, 1, n)) = n
           /\ SubSeq(t, n + 1, Len(t)) \in Seq(S)
           /\ Len(SubSeq(t, n + 1, Len(t))) = Len(t) - n
           /\ Cat(Cat(s, SubSeq(t, 1, n)), SubSeq(t, n + 1, Len(t))) = Cat(s, t)
<1>1. /\ Len(t) \in Nat /\ n \in Nat
      /\ \A i \in 1..Len(t) : t[i] \in S
  BY LenProperties, ElementOfSeq
<1>2. /\ SubSeq(t, 1, n) \in Seq(S) /\ Len(SubSeq(t, 1, n)) = n
      /\ SubSeq(t, n + 1, Len(t)) \in Seq(S)
      /\ Len(SubSeq(t, n + 1, Len(t))) = Len(t) - n
  BY <1>1, SubSeqProperties
<1>3. SubSeq(t, 1, n) \o SubSeq(t, n + 1, Len(t)) = SubSeq(t, 1, Len(t))
  <2>1. 1 \in 1..(Len(t) + 1) /\ n \in (1 - 1)..Len(t) /\ Len(t) \in n..Len(t)
    BY <1>1
  <2> QED BY <2>1, ConcatAdjacentSubSeq, Zenon
<1>4. SubSeq(t, 1, Len(t)) = t
  BY SubSeqFull
<1>5. (s \o SubSeq(t, 1, n)) \o SubSeq(t, n + 1, Len(t))
        = s \o (SubSeq(t, 1, n) \o SubSeq(t, n + 1, Len(t)))
  <2>1. PICK u \in Seq(S), v \in Seq(S) : u = SubSeq(t, 1, n) /\ v = SubSeq(t, n + 1, Len(t))
    BY <1>2
  <2>2. (s \o u) \o v = s \o (u \o v)
    OBVIOUS
  <2> QED BY <2>1, <2>2
<1>6. Cat(Cat(s, SubSeq(t, 1, n)), SubSeq(t, n + 1, Len(t))) = Cat(s, t)
  BY <1>3, <1>4, <1>5 DEF Cat
<1> QED BY <1>2, <1>6

\* The bytes of a response are its header and its payload.
LEMMA ResponseBytes ==
    ASSUME NEW m \in [number : {0, 1}, len : Nat]
    PROVE  /\ Header(m.len) \in Seq(RelayBytes) /\ Len(Header(m.len)) = 2
           /\ Payload(m.number, m.len) \in Seq(RelayBytes)
           /\ Len(Payload(m.number, m.len)) = m.len
           /\ Header(m.len) \o Payload(m.number, m.len) \in Seq(RelayBytes)
           /\ Len(Header(m.len) \o Payload(m.number, m.len)) = 2 + m.len
           /\ \A j \in 1..(2 + m.len) :
                 (Header(m.len) \o Payload(m.number, m.len))[j] = ResponseByte(m, j)
           /\ \A j \in 1..m.len : Payload(m.number, m.len)[j] = ResponseByte(m, 2 + j)
           /\ \A j \in 1..2 : Header(m.len)[j] = ResponseByte(m, j)
<1> DEFINE H == Header(m.len)  P == Payload(m.number, m.len)
<1>0. m.len \in Nat /\ m.number \in {0, 1}
  OBVIOUS
<1>1. H \in Seq(RelayBytes) /\ Len(H) = 2 /\ \A j \in 1..2 : H[j] = ResponseByte(m, j)
  BY <1>0 DEF Header, RelayBytes, ResponseByte
<1>2. P \in [1..m.len -> RelayBytes]
  BY <1>0 DEF Payload, RelayBytes
<1>3. P \in Seq(RelayBytes) /\ Len(P) = m.len
  BY <1>0, <1>2
<1>4. \A j \in 1..m.len : P[j] = ResponseByte(m, 2 + j)
  <2>1. SUFFICES ASSUME NEW j \in 1..m.len PROVE P[j] = ResponseByte(m, 2 + j)
    OBVIOUS
  <2>2. j \in Nat /\ ~(2 + j <= 2) /\ (2 + j) - 2 = j
    BY <1>0
  <2> QED BY <2>2, <1>0 DEF Payload, ResponseByte
<1> HIDE DEF H, P
<1>5. /\ H \o P \in Seq(RelayBytes) /\ Len(H \o P) = 2 + m.len
      /\ \A j \in 1..(2 + m.len) : (H \o P)[j] = IF j <= 2 THEN H[j] ELSE P[j - 2]
  <2>1. PICK a \in Seq(RelayBytes), b \in Seq(RelayBytes) : a = H /\ b = P
    BY <1>1, <1>3
  <2>2. Len(a) = 2 /\ Len(b) = m.len
    BY <2>1, <1>1, <1>3
  <2>3. /\ a \o b \in Seq(RelayBytes) /\ Len(a \o b) = Len(a) + Len(b)
        /\ \A j \in 1..(Len(a) + Len(b)) : (a \o b)[j] = IF j <= Len(a) THEN a[j] ELSE b[j - Len(a)]
    BY ConcatProperties, Zenon
  <2>4. /\ a \o b \in Seq(RelayBytes) /\ Len(a \o b) = 2 + m.len
        /\ \A j \in 1..(2 + m.len) : (a \o b)[j] = IF j <= 2 THEN a[j] ELSE b[j - 2]
    BY <2>2, <2>3, <1>0
  <2> QED BY <2>1, <2>4, Zenon
<1>6. \A j \in 1..(2 + m.len) : (H \o P)[j] = ResponseByte(m, j)
  <2>1. SUFFICES ASSUME NEW j \in 1..(2 + m.len) PROVE (H \o P)[j] = ResponseByte(m, j)
    OBVIOUS
  <2>2. CASE j <= 2
    BY <2>2, <1>1, <1>5, <1>0
  <2>3. CASE ~(j <= 2)
    <3>1. j - 2 \in 1..m.len /\ 2 + (j - 2) = j
      BY <2>3, <1>0
    <3>2. P[j - 2] = ResponseByte(m, 2 + (j - 2))
      BY <3>1, <1>4
    <3> QED BY <2>3, <1>5, <3>1, <3>2
  <2> QED BY <2>2, <2>3
<1> QED BY <1>1, <1>3, <1>4, <1>5, <1>6 DEF H, P

\* The bytes are those of the response m.
IsResponse(bytes, m) ==
    /\ Len(bytes) = 2 + m.len
    /\ \A j \in 1..(2 + m.len) : bytes[j] = ResponseByte(m, j)

\* The parts of FramedBy, for responses and bytes of the right type.
LEMMA FramedParts ==
    ASSUME NEW bytes \in Seq(RelayBytes), NEW msgs \in Seq(Responses), NEW ends,
           FramedBy(bytes, msgs, ends)
    PROVE  /\ Len(msgs) \in Nat /\ Len(bytes) \in Nat
           /\ \A i \in 0..Len(msgs) : ends[i] \in Int /\ ends[i] <= Len(bytes)
           /\ \A i \in 1..Len(msgs) : msgs[i] \in Responses /\ msgs[i].len \in Nat \ {0}
<1>1. Len(msgs) \in Nat /\ Len(bytes) \in Nat
  BY LenProperties
<1>2. \A i \in 1..Len(msgs) : msgs[i] \in Responses
  BY ElementOfSeq
<1>3. \A r \in Responses : r.len \in Nat \ {0}
  BY RelayAssumption DEF Responses
<1>4. \A i \in 0..Len(msgs) : ends[i] \in Int
  BY DEF FramedBy
<1>5. ASSUME NEW i \in 0..Len(msgs) PROVE ends[i] <= Len(bytes)
  <2>1. ends[Len(msgs)] = Len(bytes)
    BY DEF FramedBy
  <2>2. i < Len(msgs) => ends[i] < ends[Len(msgs)]
    BY <1>1 DEF FramedBy
  <2>3. i = Len(msgs) \/ i < Len(msgs)
    BY <1>1
  <2> QED BY <1>1, <1>4, <2>1, <2>2, <2>3
<1> QED BY <1>1, <1>2, <1>3, <1>4, <1>5

\* A response written behind the others.
LEMMA FramedAppend ==
    ASSUME NEW bytes \in Seq(RelayBytes), NEW msgs \in Seq(Responses), NEW ends,
           FramedBy(bytes, msgs, ends), NEW m \in Responses, NEW more \in Seq(RelayBytes),
           IsResponse(more, m)
    PROVE  \E e : FramedBy(bytes \o more, Append(msgs, m), e) /\ e[0] = ends[0]
<1> DEFINE N == Len(msgs)
           e == [i \in 0..(N + 1) |-> IF i <= N THEN ends[i] ELSE ends[N] + (2 + m.len)]
           ms == Append(msgs, m)
           bs == bytes \o more
<1>1. N \in Nat /\ Len(bytes) \in Nat /\ Len(more) \in Nat /\ m.len \in Nat
  BY LenProperties, RelayAssumption DEF Responses, IsResponse
<1>2. /\ ms \in Seq(Responses) /\ Len(ms) = N + 1
      /\ \A i \in 1..N : ms[i] = msgs[i]
      /\ ms[N + 1] = m
  BY AppendProperties
<1>3. /\ Len(bs) = Len(bytes) + (2 + m.len)
      /\ \A i \in 1..(Len(bytes) + (2 + m.len)) :
            bs[i] = IF i <= Len(bytes) THEN bytes[i] ELSE more[i - Len(bytes)]
  BY ConcatProperties DEF IsResponse
<1>4. ends \in [0..N -> Int] /\ ends[N] = Len(bytes)
  BY DEF FramedBy
<1>a. \A i \in 1..N : ends[i] = ends[i - 1] + (2 + msgs[i].len)
  BY DEF FramedBy
<1>b. \A i, k \in 0..N : i < k => ends[i] < ends[k]
  BY DEF FramedBy
<1>c. \A i \in 1..N : \A j \in 1..(2 + msgs[i].len) :
        ends[i - 1] + j >= 1 => bytes[ends[i - 1] + j] = ResponseByte(msgs[i], j)
  BY DEF FramedBy
<1>d. \A i \in 0..N : ends[i] \in Int /\ ends[i] <= Len(bytes)
  BY FramedParts
<1>5. \A i \in 1..N : msgs[i].len \in Nat
  BY FramedParts
<1> HIDE DEF ms, bs, N
<1>6. /\ e \in [0..(N + 1) -> Int]
      /\ \A i \in 0..N : e[i] = ends[i]
      /\ e[N + 1] = ends[N] + (2 + m.len)
  BY <1>1, <1>4
<1> HIDE DEF e
<1>7. e[N + 1] = Len(bs)
  BY <1>3, <1>4, <1>6
<1>8. \A i \in 1..(N + 1) : e[i] = e[i - 1] + (2 + ms[i].len)
  <2>1. SUFFICES ASSUME NEW i \in 1..(N + 1) PROVE e[i] = e[i - 1] + (2 + ms[i].len)
    OBVIOUS
  <2>2. CASE i = N + 1
    BY <2>2, <1>1, <1>2, <1>6
  <2>3. CASE i \in 1..N
    <3>1. i - 1 \in 0..N /\ i \in 0..N
      BY <2>3, <1>1
    <3> QED BY <2>3, <3>1, <1>2, <1>a, <1>6
  <2> QED BY <2>2, <2>3, <1>1
<1>9. \A i, k \in 0..(N + 1) : i < k => e[i] < e[k]
  <2>1. SUFFICES ASSUME NEW i \in 0..(N + 1), NEW k \in 0..(N + 1), i < k PROVE e[i] < e[k]
    OBVIOUS
  <2>2. CASE k \in 0..N
    <3>1. i \in 0..N
      BY <2>1, <2>2, <1>1
    <3> QED BY <2>1, <2>2, <3>1, <1>b, <1>6
  <2>3. CASE k = N + 1
    <3>1. i \in 0..N
      BY <2>1, <2>3, <1>1
    <3>2. ends[i] \in Int /\ ends[i] <= Len(bytes)
      BY <3>1, <1>d
    <3>3. e[i] = ends[i] /\ e[k] = Len(bytes) + (2 + m.len)
      BY <3>1, <2>3, <1>4, <1>6
    <3> QED BY <3>2, <3>3, <1>1
  <2> QED BY <2>2, <2>3, <1>1
<1>10. ASSUME NEW i \in 1..(N + 1), NEW j \in 1..(2 + ms[i].len), e[i - 1] + j >= 1
       PROVE  bs[e[i - 1] + j] = ResponseByte(ms[i], j)
  <2>1. CASE i = N + 1
    <3>1. e[i - 1] = Len(bytes) /\ ms[i] = m
      <4>1. i - 1 = N /\ N \in 0..N
        BY <2>1, <1>1
      <4> QED BY <4>1, <2>1, <1>2, <1>4, <1>6
    <3>2. Len(bytes) + j \in 1..(Len(bytes) + (2 + m.len)) /\ j \in 1..(2 + m.len)
          /\ ~(Len(bytes) + j <= Len(bytes)) /\ (Len(bytes) + j) - Len(bytes) = j
      BY <3>1, <1>10, <1>1
    <3>3. bs[Len(bytes) + j] = more[j]
      BY <3>2, <1>3
    <3> QED BY <3>1, <3>2, <3>3 DEF IsResponse
  <2>2. CASE i \in 1..N
    <3>0. i - 1 \in 0..N /\ i \in 0..N
      BY <2>2, <1>1
    <3>1. e[i - 1] = ends[i - 1] /\ ms[i] = msgs[i]
      BY <2>2, <3>0, <1>2, <1>6
    <3>2. j \in 1..(2 + msgs[i].len) /\ ends[i - 1] + j >= 1
      BY <3>1, <1>10
    <3>3. bytes[ends[i - 1] + j] = ResponseByte(msgs[i], j)
      BY <3>2, <2>2, <1>c
    <3>4. /\ msgs[i].len \in Nat /\ ends[i - 1] \in Int /\ ends[i] <= Len(bytes)
          /\ ends[i] = ends[i - 1] + (2 + msgs[i].len)
      BY <3>0, <2>2, <1>5, <1>d, <1>a
    <3>5. ends[i - 1] + j \in 1..(Len(bytes) + (2 + m.len)) /\ ends[i - 1] + j <= Len(bytes)
      <4>1. PICK x \in Int, y \in Nat : x = ends[i - 1] /\ y = msgs[i].len
        BY <3>4
      <4>2. x + (2 + y) <= Len(bytes) /\ x + j >= 1 /\ j \in 1..(2 + y)
        BY <4>1, <3>2, <3>4
      <4>3. x + j \in 1..(Len(bytes) + (2 + m.len)) /\ x + j <= Len(bytes)
        BY <4>2, <1>1
      <4> QED BY <4>1, <4>3
    <3> QED BY <3>1, <3>3, <3>5, <1>3
  <2> QED BY <2>1, <2>2, <1>1
<1>11. FramedBy(bs, ms, e)
  BY <1>2, <1>6, <1>7, <1>8, <1>9, <1>10 DEF FramedBy
<1>12. e[0] = ends[0]
  BY <1>1, <1>6
<1> QED BY <1>11, <1>12 DEF bs, ms

\* The first n bytes read away.
LEMMA FramedDrop ==
    ASSUME NEW bytes \in Seq(RelayBytes), NEW msgs \in Seq(Responses), NEW ends,
           FramedBy(bytes, msgs, ends), NEW n \in 0..Len(bytes)
    PROVE  \E e : FramedBy(SubSeq(bytes, n + 1, Len(bytes)), msgs, e)
                    /\ \A i \in 0..Len(msgs) : e[i] = ends[i] - n
<1> DEFINE N == Len(msgs)
           e == [i \in 0..N |-> ends[i] - n]
           bs == SubSeq(bytes, n + 1, Len(bytes))
<1>1. N \in Nat /\ Len(bytes) \in Nat /\ n \in Nat
  BY LenProperties
<1>2. /\ Len(bs) = Len(bytes) - n
      /\ \A i \in 1..(Len(bytes) - n) : bs[i] = bytes[n + i]
  <2>1. \A i \in (n + 1)..Len(bytes) : bytes[i] \in RelayBytes
    BY <1>1, ElementOfSeq
  <2>2. Len(bs) = Len(bytes) - n
    BY <2>1, <1>1, SubSeqProperties
  <2>3. \A i \in 1..(Len(bytes) - n) : bs[i] = bytes[n + i]
    BY <1>1
  <2> QED BY <2>2, <2>3
<1>4. ends \in [0..N -> Int] /\ ends[N] = Len(bytes)
  BY DEF FramedBy
<1>a. \A i \in 1..N : ends[i] = ends[i - 1] + (2 + msgs[i].len)
  BY DEF FramedBy
<1>b. \A i, k \in 0..N : i < k => ends[i] < ends[k]
  BY DEF FramedBy
<1>c. \A i \in 1..N : \A j \in 1..(2 + msgs[i].len) :
        ends[i - 1] + j >= 1 => bytes[ends[i - 1] + j] = ResponseByte(msgs[i], j)
  BY DEF FramedBy
<1>d. \A i \in 0..N : ends[i] \in Int /\ ends[i] <= Len(bytes)
  BY FramedParts
<1>5. \A i \in 1..N : msgs[i].len \in Nat
  BY FramedParts
<1> HIDE DEF bs, N
<1>6. e \in [0..N -> Int] /\ \A i \in 0..N : e[i] = ends[i] - n
  BY <1>1, <1>4
<1> HIDE DEF e
<1>7. e[N] = Len(bs)
  <2>1. N \in 0..N
    BY <1>1
  <2> QED BY <2>1, <1>2, <1>4, <1>6
<1>8. \A i \in 1..N : e[i] = e[i - 1] + (2 + msgs[i].len)
  <2>1. SUFFICES ASSUME NEW i \in 1..N PROVE e[i] = e[i - 1] + (2 + msgs[i].len)
    OBVIOUS
  <2>2. i - 1 \in 0..N /\ i \in 0..N
    BY <1>1
  <2>3. ends[i] \in Int /\ ends[i - 1] \in Int /\ msgs[i].len \in Nat
    BY <2>2, <1>d, <1>5
  <2>4. ends[i] = ends[i - 1] + (2 + msgs[i].len)
    BY <1>a
  <2>5. e[i] = ends[i] - n /\ e[i - 1] = ends[i - 1] - n
    BY <2>2, <1>6
  <2>6. PICK x \in Int, y \in Nat : x = ends[i - 1] /\ y = msgs[i].len
    BY <2>3
  <2>7. (x + (2 + y)) - n = (x - n) + (2 + y)
    BY <1>1
  <2> QED BY <2>4, <2>5, <2>6, <2>7
<1>9. \A i, k \in 0..N : i < k => e[i] < e[k]
  <2>1. SUFFICES ASSUME NEW i \in 0..N, NEW k \in 0..N, i < k PROVE e[i] < e[k]
    OBVIOUS
  <2>2. ends[i] \in Int /\ ends[k] \in Int /\ ends[i] < ends[k]
    BY <2>1, <1>b, <1>d
  <2> QED BY <2>2, <1>1, <1>6
<1>10. ASSUME NEW i \in 1..N, NEW j \in 1..(2 + msgs[i].len), e[i - 1] + j >= 1
       PROVE  bs[e[i - 1] + j] = ResponseByte(msgs[i], j)
  <2>0. i - 1 \in 0..N /\ i \in 0..N
    BY <1>1
  <2>1. /\ msgs[i].len \in Nat /\ ends[i - 1] \in Int /\ ends[i] <= Len(bytes)
        /\ ends[i] = ends[i - 1] + (2 + msgs[i].len)
    BY <2>0, <1>5, <1>a, <1>d
  <2>2. e[i - 1] = ends[i - 1] - n
    BY <2>0, <1>6
  <2>3. ends[i - 1] + j >= 1 /\ e[i - 1] + j \in 1..(Len(bytes) - n)
        /\ n + (e[i - 1] + j) = ends[i - 1] + j
    <3>1. PICK x \in Int, y \in Nat : x = ends[i - 1] /\ y = msgs[i].len
      BY <2>1
    <3>2. x + (2 + y) <= Len(bytes) /\ (x - n) + j >= 1 /\ j \in 1..(2 + y)
      BY <3>1, <2>1, <2>2, <1>10
    <3>3. x + j >= 1 /\ (x - n) + j \in 1..(Len(bytes) - n) /\ n + ((x - n) + j) = x + j
      BY <3>2, <1>1
    <3> QED BY <3>1, <3>3, <2>2
  <2>4. bytes[ends[i - 1] + j] = ResponseByte(msgs[i], j)
    BY <2>3, <1>c
  <2> QED BY <2>3, <2>4, <1>2
<1>11. FramedBy(bs, msgs, e)
  BY <1>6, <1>7, <1>8, <1>9, <1>10 DEF FramedBy, N
<1> QED BY <1>11, <1>6 DEF bs, N

\* The first response taken, none of whose bytes is left.
LEMMA FramedTail ==
    ASSUME NEW bytes \in Seq(RelayBytes), NEW msgs \in Seq(Responses), NEW ends,
           FramedBy(bytes, msgs, ends), msgs # <<>>
    PROVE  \E e : FramedBy(bytes, Tail(msgs), e) /\ e[0] = ends[1]
<1> DEFINE N == Len(msgs)
           ms == Tail(msgs)
           e == [i \in 0..(N - 1) |-> ends[i + 1]]
<1>1. N \in Nat \ {0} /\ Len(bytes) \in Nat
  BY LenProperties, EmptySeq
<1>2. /\ Len(ms) = N - 1
      /\ \A i \in 1..(N - 1) : ms[i] = msgs[i + 1]
  BY HeadTailProperties
<1>4. ends \in [0..N -> Int] /\ ends[N] = Len(bytes)
  BY DEF FramedBy
<1>a. \A i \in 1..N : ends[i] = ends[i - 1] + (2 + msgs[i].len)
  BY DEF FramedBy
<1>b. \A i, k \in 0..N : i < k => ends[i] < ends[k]
  BY DEF FramedBy
<1>c. \A i \in 1..N : \A j \in 1..(2 + msgs[i].len) :
        ends[i - 1] + j >= 1 => bytes[ends[i - 1] + j] = ResponseByte(msgs[i], j)
  BY DEF FramedBy
<1> HIDE DEF ms, N
<1>6. e \in [0..(N - 1) -> Int] /\ \A i \in 0..(N - 1) : e[i] = ends[i + 1]
  BY <1>1, <1>4
<1> HIDE DEF e
<1>7. e[N - 1] = Len(bytes)
  BY <1>1, <1>4, <1>6
<1>8. \A i \in 1..(N - 1) : e[i] = e[i - 1] + (2 + ms[i].len)
  <2>1. SUFFICES ASSUME NEW i \in 1..(N - 1) PROVE e[i] = e[i - 1] + (2 + ms[i].len)
    OBVIOUS
  <2>2. i \in 0..(N - 1) /\ i - 1 \in 0..(N - 1) /\ (i - 1) + 1 = i /\ i + 1 \in 1..N
        /\ (i + 1) - 1 = i
    BY <1>1
  <2> QED BY <2>2, <1>2, <1>a, <1>6
<1>9. \A i, k \in 0..(N - 1) : i < k => e[i] < e[k]
  <2>1. SUFFICES ASSUME NEW i \in 0..(N - 1), NEW k \in 0..(N - 1), i < k PROVE e[i] < e[k]
    OBVIOUS
  <2>2. i + 1 \in 0..N /\ k + 1 \in 0..N /\ i + 1 < k + 1
    BY <2>1, <1>1
  <2>3. ends[i + 1] < ends[k + 1]
    BY <2>2, <1>b
  <2> QED BY <2>3, <1>6
<1>10. ASSUME NEW i \in 1..(N - 1), NEW j \in 1..(2 + ms[i].len), e[i - 1] + j >= 1
       PROVE  bytes[e[i - 1] + j] = ResponseByte(ms[i], j)
  <2>2. i - 1 \in 0..(N - 1) /\ (i - 1) + 1 = i /\ i + 1 \in 1..N /\ (i + 1) - 1 = i
    BY <1>1
  <2>3. e[i - 1] = ends[i] /\ ms[i] = msgs[i + 1]
    BY <2>2, <1>2, <1>6
  <2> QED BY <2>2, <2>3, <1>c, <1>10
<1>11. FramedBy(bytes, ms, e)
  BY <1>2, <1>6, <1>7, <1>8, <1>9, <1>10 DEF FramedBy
<1>12. e[0] = ends[1]
  BY <1>1, <1>6
<1> QED BY <1>11, <1>12 DEF ms

\* What the thread still writes is a sequence of bytes.
LEMMA ComingType ==
    ASSUME NEW w \in WriterType
    PROVE  /\ Coming(w) \in Seq(RelayBytes) /\ w.left \in Seq(RelayBytes)
           /\ w.in = "length" => Coming(w) = w.left \o Payload(w.msg.number, w.msg.len)
           /\ w.in # "length" => Coming(w) = w.left
           /\ Len(Coming(w)) = Len(w.left) + (IF w.in = "length" THEN w.msg.len ELSE 0)
           /\ Len(w.left) \in Nat /\ w.msg.len \in Nat
<1>1. w.left \in Seq(RelayBytes) /\ w.msg \in [number : {0, 1}, len : Nat] /\ w.msg.len \in Nat
  BY DEF WriterType
<1>2. PICK P \in Seq(RelayBytes) : P = Payload(w.msg.number, w.msg.len) /\ Len(P) = w.msg.len
  BY <1>1, ResponseBytes
<1>3. PICK L \in Seq(RelayBytes) : L = w.left
  BY <1>1
<1>4. L \o P \in Seq(RelayBytes) /\ L \o <<>> = L /\ Len(L \o P) = Len(L) + Len(P) /\ Len(L) \in Nat
  OBVIOUS
<1>5. CASE w.in = "length"
  <2>1. Coming(w) = L \o P
    BY <1>5, <1>2, <1>3 DEF Coming
  <2> QED BY <2>1, <1>1, <1>2, <1>3, <1>4, <1>5
<1>6. CASE w.in # "length"
  <2>1. Coming(w) = L
    BY <1>6, <1>3, <1>4 DEF Coming
  <2>2. Len(L) = Len(L) + 0
    BY <1>4
  <2> QED BY <2>1, <2>2, <1>1, <1>3, <1>4, <1>6
<1> QED BY <1>5, <1>6

\* What is behind the first sequence of a concatenation.
LEMMA BehindFirst ==
    ASSUME NEW S, NEW s \in Seq(S), NEW t \in Seq(S)
    PROVE  SubSeq(s \o t, Len(s) + 1, Len(s \o t)) = t
<1>1. /\ Len(s) \in Nat /\ Len(t) \in Nat
      /\ s \o t \in Seq(S) /\ Len(s \o t) = Len(s) + Len(t)
      /\ \A i \in 1..Len(t) : (s \o t)[Len(s) + i] = t[i]
  OBVIOUS
<1>2. PICK q \in Seq(S) : q = s \o t
  BY <1>1
<1>3. \A i \in (Len(s) + 1)..Len(q) : q[i] \in S
  BY <1>1, <1>2
<1>4. PICK b \in Seq(S) : b = SubSeq(q, Len(s) + 1, Len(q))
  BY <1>1, <1>2, <1>3, SubSeqProperties
<1>5. Len(b) = Len(t)
  BY <1>1, <1>2, <1>3, <1>4, SubSeqProperties
<1>6. \A i \in 1..Len(t) : b[i] = t[i]
  <2>1. SUFFICES ASSUME NEW i \in 1..Len(t) PROVE b[i] = t[i]
    OBVIOUS
  <2>2. b[i] = q[Len(s) + i]
    BY <1>1, <1>2, <1>4
  <2> QED BY <2>2, <1>1, <1>2
<1>7. b = t
  BY <1>5, <1>6, SeqEqual
<1> QED BY <1>2, <1>4, <1>7

\* Initially nothing was sent.
LEMMA RelayInvInit == RelayInit => RelayInv
<1> SUFFICES ASSUME RelayInit PROVE RelayInv
  OBVIOUS
<1> USE DEF RelayInit
<1>1. gaveUp \in BOOLEAN /\ ResponsesTakenWhole
  BY DEF ResponsesTakenWhole
<1>2. RelayTypeOK
  <2>1. <<>> \in Seq(RelayBytes) /\ <<>> \in Seq(Responses)
    OBVIOUS
  <2>2. AtRest \in WriterType /\ Asleep \in ReaderType
    BY <2>1 DEF AtRest, Asleep, WriterType, ReaderType
  <2> QED BY <2>1, <2>2 DEF RelayTypeOK
<1>3. WriterConsistent(writer, sent) /\ ReaderConsistent(reader, sent)
  BY DEF WriterConsistent, ReaderConsistent, AtRest, Asleep
<1>4. InFlight(reader, pipe, writer) = <<>>
  <2>1. reader.got = <<>> /\ Coming(writer) = <<>> \o <<>>
    BY DEF Asleep, AtRest, Coming
  <2> QED BY <2>1 DEF InFlight
<1>5. FramedBy(<<>>, <<>>, [i \in 0..0 |-> 0])
  <2>1. Len(<<>>) = 0 /\ 1..0 = {} /\ 0..0 = {0}
    OBVIOUS
  <2> QED BY <2>1 DEF FramedBy
<1>6. FirstAt(reader) = 0
  BY DEF FirstAt, Asleep
<1>7. Framed(reader, pipe, writer, sent)
  BY <1>4, <1>5, <1>6 DEF Framed
<1> QED BY <1>1, <1>2, <1>3, <1>7 DEF RelayInv, RelayGood

\* The header and the data of another response are to come.
LEMMA RelayStep ==
    ASSUME RelayGood, NEW len \in DataLens, Relay(len), ~gaveUp
    PROVE  RelayGood'
<1> DEFINE m == [number |-> 1 - writer.msg.number, len |-> len]
           more == Header(len) \o Payload(m.number, len)
<1>1. /\ pipe \in Seq(RelayBytes) /\ writer \in WriterType /\ reader \in ReaderType
      /\ sent \in Seq(Responses)
  BY DEF RelayGood, RelayTypeOK
<1>2. m \in Responses /\ m \in [number : {0, 1}, len : Nat] /\ m.len = len
  BY <1>1, RelayAssumption DEF WriterType, Responses
<1>3. /\ writer' = [in |-> "length", msg |-> m, left |-> Header(len), loop |-> 0]
      /\ sent' = Append(sent, m) /\ pipe' = pipe /\ reader' = reader
      /\ writer.in = "none"
  BY DEF Relay
<1> HIDE DEF m
<1>4. /\ Header(len) \in Seq(RelayBytes) /\ Len(Header(len)) = 2
      /\ more \in Seq(RelayBytes)
      /\ IsResponse(more, m)
  BY <1>2, ResponseBytes DEF IsResponse
<1>5. writer' \in WriterType
  BY <1>2, <1>3, <1>4 DEF WriterType
<1>6. /\ sent' \in Seq(Responses) /\ sent' # <<>> /\ Len(sent') = Len(sent) + 1
      /\ \A i \in 1..Len(sent) : sent'[i] = sent[i]
      /\ sent'[Len(sent')] = m /\ Len(sent) \in Nat
  BY <1>1, <1>2, <1>3, AppendProperties, LenProperties
<1>7. RelayTypeOK'
  BY <1>1, <1>3, <1>5, <1>6 DEF RelayTypeOK
<1>8. WriterConsistent(writer, sent)'
  <2>1. writer'.in = "length" /\ writer'.left = Header(len) /\ writer'.msg = m
    BY <1>3
  <2>2. Header(len) # <<>>
    BY DEF Header
  <2>3. WriterConsistent(writer', sent')
    BY <2>1, <2>2, <1>4, <1>6 DEF WriterConsistent
  <2> QED BY <2>3
<1>9. ReaderConsistent(reader, sent)'
  <2>1. ReaderConsistent(reader, sent)
    BY DEF RelayGood
  <2>2. sent # <<>> => sent'[1] = sent[1]
    BY <1>1, <1>6
  <2>3. reader.in \in {"none", "length", "data"}
    BY <1>1 DEF ReaderType
  <2>4. ReaderConsistent(reader, sent')
    BY <2>1, <2>2, <2>3, <1>6 DEF ReaderConsistent
  <2> QED BY <2>4, <1>3
<1>10. Framed(reader, pipe, writer, sent)'
  <2>1. Coming(writer) = <<>>
    <3>1. writer.left = <<>>
      BY <1>3 DEF RelayGood, WriterConsistent
    <3> QED BY <3>1, <1>3 DEF Coming
  <2>2. Coming(writer') = more
    BY <1>2, <1>3 DEF Coming
  <2>3. PICK q \in Seq(RelayBytes) : q = reader.got \o pipe
    <3>1. PICK g \in Seq(RelayBytes) : g = reader.got
      BY <1>1 DEF ReaderType
    <3>2. g \o pipe \in Seq(RelayBytes)
      BY <1>1
    <3> QED BY <3>1, <3>2
  <2>4. InFlight(reader, pipe, writer) = q
    <3>1. q \o <<>> = q
      OBVIOUS
    <3> QED BY <2>1, <2>3, <3>1 DEF InFlight
  <2>5. PICK ends : FramedBy(q, sent, ends) /\ ends[0] = FirstAt(reader)
    BY <2>4 DEF RelayGood, Framed
  <2> HIDE DEF more
  <2>6. PICK e : FramedBy(q \o more, Append(sent, m), e) /\ e[0] = ends[0]
    BY <1>1, <1>2, <1>4, <2>5, FramedAppend
  <2>7. InFlight(reader', pipe', writer') = q \o more
    BY <1>3, <2>2, <2>3 DEF InFlight
  <2>8. Framed(reader', pipe', writer', sent')
    BY <1>3, <2>5, <2>6, <2>7 DEF Framed
  <2> QED BY <2>8
<1> QED BY <1>7, <1>8, <1>9, <1>10 DEF RelayGood

\* Bytes that move from the call of tfnet_write to the socketpair.
LEMMA WrittenInFlight ==
    ASSUME NEW r \in ReaderType, NEW p \in Seq(RelayBytes), NEW w, NEW v \in WriterType,
           NEW a \in Seq(RelayBytes), Coming(w) = Cat(a, Coming(v)), NEW q, q = Cat(p, a)
    PROVE  InFlight(r, q, v) = InFlight(r, p, w)
<1>1. PICK g \in Seq(RelayBytes) : g = r.got
  BY DEF ReaderType
<1>2. PICK c \in Seq(RelayBytes) : c = Coming(v)
  BY ComingType
<1>3. (g \o (p \o a)) \o c = (g \o p) \o (a \o c)
  <2>1. PICK x \in Seq(RelayBytes) : x = Cat(g, p)
    BY CatType
  <2>2. Cat(g, Cat(p, a)) = Cat(x, a)
    BY <2>1, CatAssociative
  <2>3. Cat(Cat(x, a), c) = Cat(x, Cat(a, c))
    BY CatAssociative
  <2>4. Cat(Cat(g, Cat(p, a)), c) = Cat(Cat(g, p), Cat(a, c))
    BY <2>1, <2>2, <2>3
  <2> QED BY <2>4 DEF Cat
<1> QED BY <1>1, <1>2, <1>3 DEF InFlight, Cat

\* A write, or the end of a call of tfnet_write, leaves the bytes in flight
\* as they are: what the call has no more is in the socketpair.
LEMMA WriteStep ==
    ASSUME RelayGood, NEW n \in 1..SocketBuffer, Write(n)
    PROVE  RelayGood'
<1>1. /\ pipe \in Seq(RelayBytes) /\ writer \in WriterType /\ reader \in ReaderType
      /\ sent \in Seq(Responses)
  BY DEF RelayGood, RelayTypeOK
<1>2. WriterConsistent(writer, sent) /\ ReaderConsistent(reader, sent)
  BY DEF RelayGood
<1>3. /\ reader' = reader /\ sent' = sent /\ writer.in # "none"
      /\ pipe' = pipe \o SubSeq(writer.left, 1, n)
      /\ writer' = IF n = Len(writer.left) THEN AfterWrite
                   ELSE [writer EXCEPT !.left = SubSeq(@, n + 1, Len(@))]
      /\ n <= Len(writer.left)
  BY DEF Write
<1>4. PICK L \in Seq(RelayBytes) : L = writer.left
  BY <1>1 DEF WriterType
<1>5. n \in Nat \ {0} /\ Len(L) \in Nat /\ n \in 0..Len(L)
  BY <1>3, <1>4, LenProperties, RelayAssumption
<1>6. PICK A \in Seq(RelayBytes), B \in Seq(RelayBytes) :
        /\ A = SubSeq(L, 1, n) /\ B = SubSeq(L, n + 1, Len(L))
        /\ Len(B) = Len(L) - n /\ A \o B = L
  <2>1. SubSeq(L, 1, n) \in Seq(RelayBytes) /\ SubSeq(L, n + 1, Len(L)) \in Seq(RelayBytes)
        /\ Len(SubSeq(L, n + 1, Len(L))) = Len(L) - n
        /\ Cat(Cat(<<>>, SubSeq(L, 1, n)), SubSeq(L, n + 1, Len(L))) = Cat(<<>>, L)
    <3>1. PICK s \in Seq(RelayBytes) : s = <<>>
      <4>1. <<>> \in Seq(RelayBytes)
        OBVIOUS
      <4> QED BY <4>1
    <3>2. SubSeq(L, 1, n) \in Seq(RelayBytes) /\ SubSeq(L, n + 1, Len(L)) \in Seq(RelayBytes)
          /\ Len(SubSeq(L, n + 1, Len(L))) = Len(L) - n
          /\ Cat(Cat(s, SubSeq(L, 1, n)), SubSeq(L, n + 1, Len(L))) = Cat(s, L)
      BY <1>5, CutMoves
    <3> QED BY <3>1, <3>2
  <2>2. PICK A \in Seq(RelayBytes), B \in Seq(RelayBytes) :
          A = SubSeq(L, 1, n) /\ B = SubSeq(L, n + 1, Len(L))
    BY <2>1
  <2>3. <<>> \o A = A /\ <<>> \o L = L
    OBVIOUS
  <2> QED BY <2>1, <2>2, <2>3 DEF Cat
<1>7. PICK m \in [number : {0, 1}, len : Nat], P \in Seq(RelayBytes) :
        m = writer.msg /\ P = Payload(m.number, m.len) /\ Len(P) = m.len
  <2>1. writer.msg \in [number : {0, 1}, len : Nat]
    BY <1>1 DEF WriterType
  <2> QED BY <2>1, ResponseBytes
<1>8. sent # <<>> /\ sent[Len(sent)] = m /\ m.len \in Nat \ {0}
  <2>1. sent # <<>> /\ sent[Len(sent)] = m
    BY <1>2, <1>3, <1>7 DEF WriterConsistent
  <2>2. sent[Len(sent)] \in Responses
    BY <1>1, <2>1
  <2> QED BY <2>1, <2>2, RelayAssumption DEF Responses
<1> DEFINE Goal == /\ writer' \in WriterType /\ WriterConsistent(writer', sent)
                   /\ Coming(writer) = A \o Coming(writer')
<1>9. ASSUME n # Len(L) PROVE Goal
  <2>1. /\ writer' = [writer EXCEPT !.left = B]
        /\ writer'.in = writer.in /\ writer'.msg = m /\ writer'.left = B
    BY <1>1, <1>3, <1>4, <1>6, <1>7, <1>9 DEF WriterType
  <2>2. writer' \in WriterType
    BY <1>1, <2>1 DEF WriterType
  <2>3. B # <<>> /\ Len(B) <= Len(L)
    <3>0. PICK k \in Nat : k = Len(L)
      BY <1>5
    <3>a. Len(B) = k - n /\ n \in 0..k /\ n # k /\ n # 0
      BY <3>0, <1>5, <1>6, <1>9
    <3>b. k - n # 0 /\ k - n <= k
      BY <3>a
    <3>1. Len(B) # 0 /\ Len(B) <= Len(L)
      BY <3>0, <3>a, <3>b
    <3>2. B = <<>> => Len(B) = 0
      OBVIOUS
    <3> QED BY <3>1, <3>2
  <2>4. WriterConsistent(writer', sent)
    <3>1. writer.in = "length" => Len(B) <= 2
      BY <1>2, <1>4, <1>5, <1>6, <2>3 DEF WriterConsistent
    <3>2. writer.in = "data" => Len(B) <= m.len
      BY <1>2, <1>4, <1>5, <1>6, <1>7, <1>8, <2>3 DEF WriterConsistent
    <3> QED BY <3>1, <3>2, <2>1, <2>3, <1>3, <1>8 DEF WriterConsistent
  <2>5. Coming(writer) = A \o Coming(writer')
    <3>1. PICK E \in Seq(RelayBytes) :
            E = IF writer.in = "length" THEN P ELSE <<>>
      <4>1. <<>> \in Seq(RelayBytes)
        OBVIOUS
      <4> QED BY <4>1
    <3>2. Coming(writer) = L \o E
      BY <3>1, <1>4, <1>7 DEF Coming
    <3>3. Coming(writer') = B \o E
      BY <3>1, <2>1, <1>7 DEF Coming
    <3>4. (A \o B) \o E = A \o (B \o E)
      OBVIOUS
    <3> QED BY <3>2, <3>3, <3>4, <1>6
  <2> QED BY <2>2, <2>4, <2>5
<1>10. ASSUME n = Len(L), writer.in = "length" PROVE Goal
  <2>1. writer' = [writer EXCEPT !.in = "data", !.loop = 0, !.left = P]
    BY <1>3, <1>4, <1>7, <1>10 DEF AfterWrite
  <2>2. writer' \in WriterType /\ writer'.in = "data" /\ writer'.msg = m /\ writer'.left = P
    BY <1>1, <1>7, <2>1 DEF WriterType
  <2>3. P # <<>>
    BY <1>7, <1>8
  <2>4. WriterConsistent(writer', sent)
    BY <1>7, <1>8, <2>2, <2>3 DEF WriterConsistent
  <2>5. A = L
    BY <1>6, <1>10
  <2>6. Coming(writer) = L \o P
    BY <1>4, <1>7, <1>10 DEF Coming
  <2>7. Coming(writer') = P
    <3>1. P \o <<>> = P
      OBVIOUS
    <3> QED BY <2>2, <3>1 DEF Coming
  <2> QED BY <2>2, <2>4, <2>5, <2>6, <2>7
<1>11. ASSUME n = Len(L), writer.in = "data" PROVE Goal
  <2>1. writer' = [writer EXCEPT !.in = "none", !.left = <<>>, !.loop = 0]
    BY <1>3, <1>4, <1>11 DEF AfterWrite
  <2>2. writer' \in WriterType /\ writer'.in = "none" /\ writer'.left = <<>>
    <3>1. <<>> \in Seq(RelayBytes)
      OBVIOUS
    <3> QED BY <1>1, <2>1, <3>1 DEF WriterType
  <2>4. WriterConsistent(writer', sent)
    BY <2>2 DEF WriterConsistent
  <2>5. A = L
    BY <1>6, <1>11
  <2>6. Coming(writer) = L
    <3>1. L \o <<>> = L
      OBVIOUS
    <3> QED BY <3>1, <1>4, <1>11 DEF Coming
  <2>7. Coming(writer') = <<>>
    BY <2>2 DEF Coming
  <2>8. L \o <<>> = L
    OBVIOUS
  <2> QED BY <2>2, <2>4, <2>5, <2>6, <2>7, <2>8
<1>12. Goal
  <2>1. writer.in = "length" \/ writer.in = "data"
    BY <1>1, <1>3 DEF WriterType
  <2> QED BY <2>1, <1>9, <1>10, <1>11
<1>13. InFlight(reader', pipe', writer') = InFlight(reader, pipe, writer)
  <2>1. pipe' = Cat(pipe, A)
    BY <1>3, <1>4, <1>6 DEF Cat
  <2>2. Coming(writer) = A \o Coming(writer') /\ writer' \in WriterType
    BY <1>12
  <2>3. PICK w \in WriterType : w = writer'
    BY <2>2
  <2>4. Coming(writer) = Cat(A, Coming(w))
    BY <2>2, <2>3 DEF Cat
  <2>5. InFlight(reader, pipe', w) = InFlight(reader, pipe, writer)
    BY <1>1, <2>1, <2>4, WrittenInFlight
  <2> QED BY <1>3, <2>3, <2>5
<1>14. pipe' \in Seq(RelayBytes)
  <2>1. pipe \o A \in Seq(RelayBytes)
    BY <1>1
  <2> QED BY <2>1, <1>3, <1>4, <1>6
<1>15. RelayTypeOK'
  BY <1>1, <1>3, <1>12, <1>14 DEF RelayTypeOK
<1>16. Framed(reader, pipe, writer, sent)'
  <2>1. Framed(reader', pipe', writer', sent')
    BY <1>3, <1>13 DEF RelayGood, Framed
  <2> QED BY <2>1
<1>17. WriterConsistent(writer, sent)' /\ ReaderConsistent(reader, sent)'
  <2>1. WriterConsistent(writer', sent') /\ ReaderConsistent(reader', sent')
    BY <1>2, <1>3, <1>12
  <2> QED BY <2>1
<1> QED BY <1>15, <1>16, <1>17 DEF RelayGood

\* The bytes in flight are a sequence of bytes, and how many they are.
LEMMA InFlightType ==
    ASSUME NEW r \in ReaderType, NEW p \in Seq(RelayBytes), NEW w \in WriterType
    PROVE  /\ InFlight(r, p, w) \in Seq(RelayBytes)
           /\ Len(InFlight(r, p, w)) = (Len(r.got) + Len(p)) + Len(Coming(w))
           /\ Len(r.got) \in Nat /\ Len(p) \in Nat /\ Len(Coming(w)) \in Nat
<1>1. PICK g \in Seq(RelayBytes) : g = r.got
  BY DEF ReaderType
<1>2. PICK c \in Seq(RelayBytes) : c = Coming(w)
  BY ComingType
<1>3. PICK q \in Seq(RelayBytes) : q = g \o p /\ Len(q) = Len(g) + Len(p)
  BY ConcatProperties
<1>4. q \o c \in Seq(RelayBytes) /\ Len(q \o c) = Len(q) + Len(c)
  OBVIOUS
<1>5. InFlight(r, p, w) = q \o c
  BY <1>1, <1>2, <1>3 DEF InFlight
<1>6. Len(g) \in Nat /\ Len(p) \in Nat /\ Len(c) \in Nat
  OBVIOUS
<1> QED BY <1>1, <1>2, <1>3, <1>4, <1>5, <1>6

\* Bytes read move from the socketpair to the call of tfnet_read.
LEMMA ReadInFlight ==
    ASSUME NEW r \in ReaderType, NEW p \in Seq(RelayBytes), NEW w \in WriterType,
           NEW n \in 0..Len(p), NEW s \in ReaderType, s.got = r.got \o SubSeq(p, 1, n)
    PROVE  /\ SubSeq(p, n + 1, Len(p)) \in Seq(RelayBytes)
           /\ InFlight(s, SubSeq(p, n + 1, Len(p)), w) = InFlight(r, p, w)
<1>1. PICK g \in Seq(RelayBytes) : g = r.got
  BY DEF ReaderType
<1>2. Cat(Cat(g, SubSeq(p, 1, n)), SubSeq(p, n + 1, Len(p))) = Cat(g, p)
      /\ SubSeq(p, n + 1, Len(p)) \in Seq(RelayBytes)
  BY CutMoves
<1> QED BY <1>1, <1>2 DEF InFlight, Cat

\* Bytes that tfnet_read returned are in flight no more.
LEMMA GotInFlight ==
    ASSUME NEW r \in ReaderType, NEW p \in Seq(RelayBytes), NEW w \in WriterType,
           NEW s \in ReaderType, s.got = <<>>
    PROVE  /\ InFlight(s, p, w) = SubSeq(InFlight(r, p, w), Len(r.got) + 1, Len(InFlight(r, p, w)))
           /\ \A i \in 1..Len(r.got) : InFlight(r, p, w)[i] = r.got[i]
<1>1. PICK g \in Seq(RelayBytes) : g = r.got
  BY DEF ReaderType
<1>2. PICK c \in Seq(RelayBytes) : c = Coming(w)
  BY ComingType
<1>3. PICK t \in Seq(RelayBytes) : t = Cat(p, c)
  BY CatType
<1>4. InFlight(r, p, w) = Cat(g, t)
  <2>1. InFlight(r, p, w) = Cat(Cat(g, p), c)
    BY <1>1, <1>2 DEF InFlight, Cat
  <2>2. Cat(Cat(g, p), c) = Cat(g, t)
    BY <1>3, CatAssociative
  <2> QED BY <2>1, <2>2
<1>5. InFlight(s, p, w) = t
  <2>1. <<>> \o p = p
    OBVIOUS
  <2>2. InFlight(s, p, w) = p \o c
    BY <1>2, <2>1 DEF InFlight
  <2> QED BY <2>2, <1>3 DEF Cat
<1>6. SubSeq(g \o t, Len(g) + 1, Len(g \o t)) = t
  BY BehindFirst
<1>7. \A i \in 1..Len(g) : (g \o t)[i] = g[i]
  OBVIOUS
<1> QED BY <1>1, <1>4, <1>5, <1>6, <1>7 DEF Cat

\* The handler is called when a response is on its way.
LEMMA HandleStep ==
    ASSUME RelayGood, Handle
    PROVE  RelayGood'
<1>1. /\ pipe \in Seq(RelayBytes) /\ writer \in WriterType /\ reader \in ReaderType
      /\ sent \in Seq(Responses)
  BY DEF RelayGood, RelayTypeOK
<1>2. /\ reader' = [in |-> "length", want |-> 2, got |-> <<>>, loop |-> 0]
      /\ pipe' = pipe /\ writer' = writer /\ sent' = sent
      /\ reader.in = "none" /\ pipe # <<>>
  BY DEF Handle
<1>3. reader' \in ReaderType /\ reader'.got = <<>> /\ reader'.in = "length" /\ reader'.want = 2
  <2>1. <<>> \in Seq(RelayBytes)
    OBVIOUS
  <2> QED BY <1>2, <2>1 DEF ReaderType
<1>4. reader.got = <<>>
  BY <1>2 DEF RelayGood, ReaderConsistent
<1>5. InFlight(reader', pipe', writer') = InFlight(reader, pipe, writer)
  BY <1>2, <1>3, <1>4 DEF InFlight
<1>6. FirstAt(reader') = 0 /\ FirstAt(reader) = 0
  BY <1>2, <1>3 DEF FirstAt
<1>7. PICK ends : FramedBy(InFlight(reader, pipe, writer), sent, ends) /\ ends[0] = 0
  BY <1>6 DEF RelayGood, Framed
<1>8. Framed(reader', pipe', writer', sent')
  BY <1>2, <1>5, <1>6, <1>7 DEF Framed
<1>9. sent # <<>>
  <2>1. SUFFICES ASSUME sent = <<>> PROVE FALSE
    OBVIOUS
  <2>2. Len(sent) = 0
    BY <2>1
  <2>3. ends[0] = Len(InFlight(reader, pipe, writer))
    BY <2>2, <1>7 DEF FramedBy
  <2>4. Len(pipe) \in Nat \ {0}
    BY <1>1, <1>2, EmptySeq
  <2>5. /\ Len(InFlight(reader, pipe, writer)) = (Len(reader.got) + Len(pipe)) + Len(Coming(writer))
        /\ Len(reader.got) \in Nat /\ Len(Coming(writer)) \in Nat
    BY <1>1, InFlightType
  <2> QED BY <2>3, <2>4, <2>5, <1>7
<1>10. ReaderConsistent(reader', sent')
  <2>1. Len(<<>>) = 0
    OBVIOUS
  <2> QED BY <1>2, <1>3, <1>9, <2>1 DEF ReaderConsistent
<1>11. WriterConsistent(writer', sent')
  BY <1>2 DEF RelayGood
<1>12. RelayTypeOK'
  BY <1>1, <1>2, <1>3 DEF RelayTypeOK
<1> QED BY <1>8, <1>10, <1>11, <1>12 DEF RelayGood

\* An interruption that the call survives changes its count only.
LEMMA InterruptedStep ==
    ASSUME RelayGood, WriteInterrupted \/ ReadInterrupted, ~gaveUp'
    PROVE  RelayGood'
<1>1. /\ pipe \in Seq(RelayBytes) /\ writer \in WriterType /\ reader \in ReaderType
      /\ sent \in Seq(Responses)
  BY DEF RelayGood, RelayTypeOK
<1>2. pipe' = pipe /\ sent' = sent
  BY DEF WriteInterrupted, ReadInterrupted
<1>3. /\ writer' \in WriterType /\ writer'.in = writer.in /\ writer'.msg = writer.msg
      /\ writer'.left = writer.left
  BY <1>1 DEF WriteInterrupted, ReadInterrupted, WriterType
<1>4. /\ reader' \in ReaderType /\ reader'.in = reader.in /\ reader'.want = reader.want
      /\ reader'.got = reader.got
  BY <1>1 DEF WriteInterrupted, ReadInterrupted, ReaderType
<1>5. RelayTypeOK'
  BY <1>1, <1>2, <1>3, <1>4 DEF RelayTypeOK
<1>6. WriterConsistent(writer', sent')
  <2>1. WriterConsistent(writer, sent)
    BY DEF RelayGood
  <2> QED BY <2>1, <1>2, <1>3 DEF WriterConsistent
<1>7. ReaderConsistent(reader', sent')
  <2>1. ReaderConsistent(reader, sent)
    BY DEF RelayGood
  <2> QED BY <2>1, <1>2, <1>4 DEF ReaderConsistent
<1>8. Framed(reader', pipe', writer', sent')
  <2>1. InFlight(reader', pipe', writer') = InFlight(reader, pipe, writer)
    BY <1>2, <1>3, <1>4 DEF InFlight, Coming
  <2>2. FirstAt(reader') = FirstAt(reader)
    BY <1>4 DEF FirstAt
  <2> QED BY <2>1, <2>2, <1>2 DEF Framed, RelayGood
<1> QED BY <1>5, <1>6, <1>7, <1>8 DEF RelayGood

\* A header is that of one length only.
LEMMA HeaderOf ==
    ASSUME NEW bytes, NEW l \in DataLens, Header(l) = bytes, NEW k \in LengthIn(bytes)
    PROVE  k = l
<1>1. k \in DataLens /\ (Header(k) = bytes \/ \A j \in DataLens : Header(j) # bytes)
  BY DEF LengthIn
<1>2. Header(k)[1] = Header(l)[1]
  BY <1>1
<1>3. Header(k)[1].len = k /\ Header(l)[1].len = l
  BY DEF Header
<1> QED BY <1>2, <1>3

\* Reads cut the stream where it suits them, and yet the handler gets each
\* length and each data of the response it belongs to.
LEMMA ReadStep ==
    ASSUME RelayGood, NEW n \in 1..SocketBuffer, Read(n)
    PROVE  /\ RelayGood'
           /\ taken' = taken \/ (taken' # <<>> => taken'[2] = Payload(taken'[1].number, taken'[1].len))
<1>1. /\ pipe \in Seq(RelayBytes) /\ writer \in WriterType /\ reader \in ReaderType
      /\ sent \in Seq(Responses)
  BY DEF RelayGood, RelayTypeOK
<1>2. WriterConsistent(writer, sent) /\ ReaderConsistent(reader, sent)
  BY DEF RelayGood
<1> DEFINE q == SubSeq(pipe, n + 1, Len(pipe))
           got == reader.got \o SubSeq(pipe, 1, n)
           r == [reader EXCEPT !.got = got]
<1>3. /\ reader.in # "none" /\ n <= Len(pipe) /\ pipe' = q /\ writer' = writer
      /\ n <= reader.want - Len(reader.got)
  BY DEF Read
<1>4. n \in 0..Len(pipe) /\ n \in Nat \ {0}
  BY <1>1, <1>3, RelayAssumption
<1>5. got \in Seq(RelayBytes)
  <2>1. PICK g \in Seq(RelayBytes), h \in Seq(RelayBytes) : g = reader.got /\ h = SubSeq(pipe, 1, n)
    <3>1. SubSeq(pipe, 1, n) \in Seq(RelayBytes)
      BY <1>1, <1>4, CutMoves
    <3> QED BY <1>1, <3>1 DEF ReaderType
  <2>2. g \o h \in Seq(RelayBytes)
    OBVIOUS
  <2> QED BY <2>1, <2>2
<1>6. r \in ReaderType /\ r.in = reader.in /\ r.want = reader.want /\ r.got = got
  <2> HIDE DEF got
  <2> QED BY <1>1, <1>5 DEF ReaderType
<1>7. q \in Seq(RelayBytes) /\ InFlight(r, q, writer) = InFlight(reader, pipe, writer)
  <2> HIDE DEF r
  <2> QED BY <1>1, <1>4, <1>6, ReadInFlight
<1> HIDE DEF q, r, got
<1>8. PICK ends : FramedBy(InFlight(r, q, writer), sent, ends) /\ ends[0] = FirstAt(reader)
  BY <1>7 DEF RelayGood, Framed
<1>9. sent # <<>> /\ Len(sent) \in Nat \ {0}
  BY <1>1, <1>2, <1>3, EmptySeq DEF ReaderConsistent
<1>10. PICK m \in Responses : m = sent[1] /\ m.len \in Nat \ {0} /\ m.len \in DataLens
  <2>1. sent[1] \in Responses
    BY <1>1, <1>9
  <2> QED BY <2>1, RelayAssumption DEF Responses
<1>11. PICK fl \in Seq(RelayBytes) : fl = InFlight(r, q, writer)
  BY <1>1, <1>6, <1>7, InFlightType
<1>12. /\ Len(fl) = (Len(got) + Len(q)) + Len(Coming(writer))
       /\ Len(got) \in Nat /\ Len(q) \in Nat /\ Len(Coming(writer)) \in Nat
  BY <1>1, <1>6, <1>7, <1>11, InFlightType
<1>13. \A j \in 1..(2 + m.len) : ends[0] + j >= 1 => fl[ends[0] + j] = ResponseByte(m, j)
  <2>1. 1 \in 1..Len(sent) /\ 1 - 1 = 0
    BY <1>9
  <2> QED BY <2>1, <1>8, <1>10, <1>11 DEF FramedBy
<1>14. ASSUME NEW s \in ReaderType, s.got = <<>>
       PROVE  /\ InFlight(s, q, writer) = SubSeq(fl, Len(got) + 1, Len(fl))
              /\ \A i \in 1..Len(got) : fl[i] = got[i]
  BY <1>1, <1>6, <1>7, <1>11, <1>14, GotInFlight
<1>15. Asleep \in ReaderType /\ Asleep.got = <<>> /\ Asleep.in = "none"
  <2>1. <<>> \in Seq(RelayBytes)
    OBVIOUS
  <2> QED BY <2>1 DEF Asleep, ReaderType
<1>16. \A i \in 1..Len(got) : fl[i] = got[i]
  BY <1>14, <1>15
<1>17. Len(got) \in 0..Len(fl)
  BY <1>12
<1> DEFINE Cont == Len(got) < reader.want /\ reader' = r /\ sent' = sent /\ taken' = taken
           GotLength == /\ Len(got) = reader.want /\ reader.in = "length"
                        /\ \E len \in LengthIn(got) :
                              reader' = [in |-> "data", want |-> len, got |-> <<>>, loop |-> 0]
                        /\ sent' = sent /\ taken' = taken
           GotData == Len(got) = reader.want /\ reader.in = "data" /\ Take(got)
           Goal == /\ RelayGood'
                   /\ taken' = taken \/ (taken' # <<>> => taken'[2] = Payload(taken'[1].number, taken'[1].len))
<1>18. Cont \/ GotLength \/ GotData
  BY DEF Read, r, got
<1>19. ASSUME Cont PROVE Goal
  <2>1. RelayTypeOK'
    BY <1>1, <1>3, <1>6, <1>7, <1>19 DEF RelayTypeOK
  <2>2. WriterConsistent(writer', sent')
    BY <1>2, <1>3, <1>19
  <2>3. ReaderConsistent(reader', sent')
    BY <1>2, <1>3, <1>6, <1>19 DEF ReaderConsistent
  <2>4. Framed(reader', pipe', writer', sent')
    <3>1. FirstAt(r) = FirstAt(reader)
      BY <1>6 DEF FirstAt
    <3> QED BY <1>3, <1>8, <1>19, <3>1 DEF Framed
  <2> QED BY <2>1, <2>2, <2>3, <2>4, <1>19 DEF RelayGood
<1>20. ASSUME GotLength PROVE Goal
  <2>1. reader.want = 2 /\ Len(got) = 2 /\ ends[0] = 0
    BY <1>2, <1>8, <1>20 DEF ReaderConsistent, FirstAt
  <2>2. got = Header(m.len)
    <3>1. m \in [number : {0, 1}, len : Nat]
      BY <1>10, RelayAssumption DEF Responses
    <3>2. PICK h \in Seq(RelayBytes) : h = Header(m.len) /\ Len(h) = 2
            /\ \A j \in 1..2 : h[j] = ResponseByte(m, j)
      BY <3>1, ResponseBytes
    <3>3. ASSUME NEW j \in 1..2 PROVE got[j] = h[j]
      <4>1. j \in 1..(2 + m.len) /\ 0 + j >= 1 /\ 0 + j = j
        BY <1>10
      <4>2. fl[j] = ResponseByte(m, j)
        BY <4>1, <2>1, <1>13
      <4> QED BY <4>2, <2>1, <3>2, <1>16
    <3>4. got = h
      BY <3>2, <3>3, <2>1, <1>5, SeqEqual
    <3> QED BY <3>2, <3>4
  <2>3. reader' = [in |-> "data", want |-> m.len, got |-> <<>>, loop |-> 0]
    <3>1. PICK len \in LengthIn(got) :
            reader' = [in |-> "data", want |-> len, got |-> <<>>, loop |-> 0]
      BY <1>20
    <3>2. len = m.len
      BY <2>2, <1>10, HeaderOf
    <3> QED BY <3>1, <3>2
  <2>4. /\ reader' \in ReaderType /\ reader'.got = <<>> /\ reader'.in = "data"
        /\ reader'.want = m.len
    <3>1. <<>> \in Seq(RelayBytes)
      OBVIOUS
    <3> QED BY <2>3, <3>1, <1>10 DEF ReaderType
  <2>5. RelayTypeOK'
    BY <1>1, <1>3, <1>7, <1>20, <2>4 DEF RelayTypeOK
  <2>6. WriterConsistent(writer', sent')
    BY <1>2, <1>3, <1>20
  <2>7. ReaderConsistent(reader', sent')
    <3>1. Len(<<>>) = 0 /\ 0 < m.len
      BY <1>10
    <3> QED BY <3>1, <1>9, <1>10, <1>20, <2>4 DEF ReaderConsistent
  <2>8. Framed(reader', pipe', writer', sent')
    <3>1. PICK s \in ReaderType : s = reader' /\ s.got = <<>> /\ s.in = "data"
      BY <2>4
    <3>2. InFlight(s, q, writer) = SubSeq(fl, Len(got) + 1, Len(fl))
      BY <3>1, <1>14
    <3>3. PICK e : /\ FramedBy(SubSeq(fl, Len(got) + 1, Len(fl)), sent, e)
                   /\ \A i \in 0..Len(sent) : e[i] = ends[i] - Len(got)
      BY <1>1, <1>8, <1>11, <1>17, FramedDrop
    <3>4. e[0] = -2
      BY <3>3, <2>1, <1>9
    <3>5. FirstAt(s) = -2
      BY <3>1 DEF FirstAt
    <3>6. Framed(s, q, writer, sent)
      BY <3>2, <3>3, <3>4, <3>5 DEF Framed
    <3> QED BY <3>1, <3>6, <1>3, <1>20
  <2> QED BY <2>5, <2>6, <2>7, <2>8, <1>20 DEF RelayGood
<1>21. ASSUME GotData PROVE Goal
  <2>1. Len(got) = m.len /\ ends[0] = -2 /\ reader.in = "data"
    BY <1>2, <1>8, <1>10, <1>21 DEF ReaderConsistent, FirstAt
  <2>2. got = Payload(m.number, m.len)
    <3>1. m \in [number : {0, 1}, len : Nat]
      BY <1>10, RelayAssumption DEF Responses
    <3>2. PICK h \in Seq(RelayBytes) : h = Payload(m.number, m.len) /\ Len(h) = m.len
            /\ \A j \in 1..m.len : h[j] = ResponseByte(m, 2 + j)
      BY <3>1, ResponseBytes
    <3>3. ASSUME NEW j \in 1..m.len PROVE got[j] = h[j]
      <4>1. 2 + j \in 1..(2 + m.len) /\ (-2) + (2 + j) >= 1 /\ (-2) + (2 + j) = j
        BY <1>10
      <4>2. fl[j] = ResponseByte(m, 2 + j)
        BY <4>1, <2>1, <1>13
      <4> QED BY <4>2, <2>1, <3>2, <1>16
    <3>4. got = h
      BY <3>2, <3>3, <2>1, <1>5, SeqEqual
    <3> QED BY <3>2, <3>4
  <2>3. reader' = Asleep /\ sent' = Tail(sent) /\ taken' = <<m, got>>
    BY <1>9, <1>10, <1>21 DEF Take
  <2>4. /\ sent' \in Seq(Responses) /\ Len(sent') = Len(sent) - 1
        /\ \A i \in 1..(Len(sent) - 1) : sent'[i] = sent[i + 1]
    BY <1>1, <1>9, <2>3, HeadTailProperties
  <2>5. RelayTypeOK'
    BY <1>1, <1>3, <1>7, <1>15, <2>3, <2>4 DEF RelayTypeOK
  <2>6. ReaderConsistent(reader', sent')
    BY <1>15, <2>3 DEF ReaderConsistent
  <2>7. ends[1] = m.len /\ ends[Len(sent)] = Len(fl)
    <3>1. 1 \in 1..Len(sent) /\ 1 - 1 = 0
      BY <1>9
    <3>2. ends[1] = ends[0] + (2 + m.len) /\ ends[Len(sent)] = Len(fl)
      BY <3>1, <1>8, <1>10, <1>11 DEF FramedBy
    <3> QED BY <3>2, <2>1, <1>10
  <2>8. WriterConsistent(writer', sent')
    <3>1. ASSUME writer.in # "none"
          PROVE  sent' # <<>> /\ sent'[Len(sent')] = sent[Len(sent)]
      <4>1. Len(writer.left) \in Nat \ {0}
        BY <3>1, <1>1, <1>2, EmptySeq DEF WriterConsistent, WriterType
      <4>2. Len(Coming(writer)) > 0
        <5>1. PICK x \in Nat \ {0}, y \in Nat : x = Len(writer.left) /\ y = writer.msg.len
          BY <4>1, <1>1, ComingType
        <5>2. Len(Coming(writer)) = x + (IF writer.in = "length" THEN y ELSE 0)
          BY <5>1, <1>1, ComingType
        <5> QED BY <5>2
      <4>3. Len(sent) # 1
        <5>1. PICK x \in Nat, y \in Nat, z \in Nat :
                x = Len(got) /\ y = Len(q) /\ z = Len(Coming(writer)) /\ z > 0
          BY <4>2, <1>12
        <5>2. (x + y) + z # x
          BY <5>1
        <5> QED BY <5>1, <5>2, <1>12, <2>1, <2>7
      <4>4. Len(sent) - 1 \in 1..(Len(sent) - 1) /\ (Len(sent) - 1) + 1 = Len(sent)
        <5>1. PICK N \in Nat \ {0} : N = Len(sent)
          BY <1>9
        <5>2. N # 1 => N - 1 \in 1..(N - 1) /\ (N - 1) + 1 = N
          OBVIOUS
        <5> QED BY <4>3, <5>1, <5>2
      <4>5. Len(sent') # 0
        BY <4>3, <1>9, <2>4
      <4>6. sent' # <<>>
        BY <4>5
      <4> QED BY <4>4, <4>6, <2>4
    <3>2. CASE writer.in = "none"
      BY <3>2, <1>2, <1>3 DEF WriterConsistent
    <3>3. CASE writer.in # "none"
      BY <3>1, <3>3, <1>2, <1>3 DEF WriterConsistent
    <3> QED BY <3>2, <3>3
  <2>9. Framed(reader', pipe', writer', sent')
    <3>1. InFlight(Asleep, q, writer) = SubSeq(fl, Len(got) + 1, Len(fl))
      BY <1>14, <1>15
    <3>2. PICK bs \in Seq(RelayBytes) : bs = SubSeq(fl, Len(got) + 1, Len(fl))
      BY <1>1, <1>7, <1>15, <3>1, InFlightType
    <3>3. PICK d : FramedBy(bs, sent, d) /\ \A i \in 0..Len(sent) : d[i] = ends[i] - Len(got)
      BY <1>1, <1>8, <1>11, <1>17, <3>2, FramedDrop
    <3>4. PICK e : FramedBy(bs, Tail(sent), e) /\ e[0] = d[1]
      BY <1>1, <1>9, <3>3, FramedTail
    <3>5. d[1] = 0
      <4>1. 1 \in 0..Len(sent) /\ m.len - m.len = 0
        BY <1>9, <1>10
      <4> QED BY <4>1, <3>3, <2>1, <2>7
    <3>6. FirstAt(Asleep) = 0
      BY <1>15 DEF FirstAt
    <3>7. Framed(Asleep, q, writer, Tail(sent))
      BY <3>1, <3>2, <3>4, <3>5, <3>6 DEF Framed
    <3> QED BY <3>7, <1>3, <2>3
  <2>10. taken'[1] = m /\ taken'[2] = got
    BY <2>3
  <2>11. taken'[2] = Payload(taken'[1].number, taken'[1].len)
    BY <2>2, <2>10
  <2> QED BY <2>5, <2>6, <2>8, <2>9, <2>11 DEF RelayGood
<1> QED BY <1>18, <1>19, <1>20, <1>21

\* Once a call gave up, nothing is said; until then, each action keeps the
\* bytes in flight the responses that were not taken.
LEMMA RelayInvStep == RelayInv /\ [RelayNext]_relayVars => RelayInv'
<1> SUFFICES ASSUME RelayInv, [RelayNext]_relayVars
             PROVE  RelayInv'
  OBVIOUS
<1>1. gaveUp' \in BOOLEAN /\ (gaveUp => gaveUp')
  BY DEF RelayInv, RelayNext, Relay, Write, Read, Handle, WriteInterrupted, ReadInterrupted, relayVars
<1>2. CASE gaveUp'
  BY <1>1, <1>2 DEF RelayInv, ResponsesTakenWhole
<1>3. CASE ~gaveUp'
  <2>1. ~gaveUp /\ RelayGood /\ ResponsesTakenWhole
    BY <1>1, <1>3 DEF RelayInv
  <2> DEFINE Whole == taken' # <<>> => taken'[2] = Payload(taken'[1].number, taken'[1].len)
  <2>2. taken' = taken => Whole
    BY <2>1 DEF ResponsesTakenWhole
  <2>3. SUFFICES RelayGood' /\ Whole
    BY <1>1, <1>3 DEF RelayInv, ResponsesTakenWhole
  <2>4. CASE \E len \in DataLens : Relay(len)
    <3>1. PICK len \in DataLens : Relay(len)
      BY <2>4
    <3>2. taken' = taken
      BY <3>1 DEF Relay
    <3> QED BY <3>1, <3>2, <2>1, <2>2, RelayStep
  <2>5. CASE \E n \in 1..SocketBuffer : Write(n)
    <3>1. PICK n \in 1..SocketBuffer : Write(n)
      BY <2>5
    <3>2. taken' = taken
      BY <3>1 DEF Write
    <3> QED BY <3>1, <3>2, <2>1, <2>2, WriteStep
  <2>6. CASE \E n \in 1..SocketBuffer : Read(n)
    <3>1. PICK n \in 1..SocketBuffer : Read(n)
      BY <2>6
    <3> HIDE DEF Whole
    <3>2. RelayGood' /\ (taken' = taken \/ Whole)
      BY <3>1, <2>1, ReadStep DEF Whole
    <3> QED BY <3>2, <2>2
  <2>7. CASE Handle
    <3>1. taken' = <<>>
      BY <2>7 DEF Handle
    <3> QED BY <3>1, <2>1, <2>7, HandleStep
  <2>8. CASE WriteInterrupted \/ ReadInterrupted
    <3>1. taken' = taken
      BY <2>8 DEF WriteInterrupted, ReadInterrupted
    <3> QED BY <3>1, <1>3, <2>1, <2>2, <2>8, InterruptedStep
  <2>9. CASE UNCHANGED relayVars
    <3>1. /\ pipe' = pipe /\ writer' = writer /\ reader' = reader /\ sent' = sent
          /\ taken' = taken
      BY <2>9 DEF relayVars
    <3> QED BY <3>1, <2>1, <2>2 DEF RelayGood, RelayTypeOK
  <2> QED BY <2>4, <2>5, <2>6, <2>7, <2>8, <2>9 DEF RelayNext
<1> QED BY <1>1, <1>2, <1>3

\* With nothing to read, what the handler waits for is with the thread, and
\* it is the only response on its way.
LEMMA WaitsForWriter == RelayInv => LoopWaitsForWriterOnly
<1> SUFFICES ASSUME RelayInv, ~gaveUp, reader.in # "none", pipe = <<>>
             PROVE  writer.in # "none" /\ Len(sent) = 1
  BY DEF LoopWaitsForWriterOnly
<1>1. /\ pipe \in Seq(RelayBytes) /\ writer \in WriterType /\ reader \in ReaderType
      /\ sent \in Seq(Responses)
  BY DEF RelayInv, RelayGood, RelayTypeOK
<1>2. WriterConsistent(writer, sent) /\ ReaderConsistent(reader, sent)
  BY DEF RelayInv, RelayGood
<1>3. PICK fl \in Seq(RelayBytes) : fl = InFlight(reader, pipe, writer)
  BY <1>1, InFlightType
<1>4. PICK ends : FramedBy(fl, sent, ends) /\ ends[0] = FirstAt(reader)
  BY <1>3 DEF RelayInv, RelayGood, Framed
<1>5. PICK g \in Nat : g = Len(reader.got)
  BY <1>1, InFlightType
<1>6. PICK c \in Nat : c = Len(Coming(writer))
  BY <1>1, InFlightType
<1>7. Len(fl) = g + c
  <2>1. Len(fl) = (g + Len(pipe)) + c /\ Len(pipe) = 0
    BY <1>1, <1>3, <1>5, <1>6, InFlightType
  <2> QED BY <2>1
<1>8. PICK N \in Nat \ {0} : N = Len(sent)
  BY <1>1, <1>2, EmptySeq DEF ReaderConsistent
<1>9. \A i \in 1..N : sent[i].len \in Nat \ {0}
  BY <1>1, <1>4, <1>8, FramedParts
<1>10. PICK l \in Nat \ {0}, k \in Nat \ {0} : l = sent[1].len /\ k = sent[N].len
  BY <1>8, <1>9
<1>11. PICK a \in Int, b \in Int, z \in Int, y \in Int :
         a = ends[0] /\ b = ends[1] /\ y = ends[N - 1] /\ z = ends[N]
  <2>1. 0 \in 0..N /\ 1 \in 0..N /\ N \in 0..N /\ N - 1 \in 0..N
    BY <1>8
  <2> QED BY <2>1, <1>1, <1>4, <1>8, FramedParts
<1>12. b = a + (2 + l) /\ z = y + (2 + k) /\ z = g + c
  <2>1. \A i \in 1..N : ends[i] = ends[i - 1] + (2 + sent[i].len)
    BY <1>4, <1>8 DEF FramedBy
  <2>2. 1 \in 1..N /\ N \in 1..N /\ 1 - 1 = 0
    BY <1>8
  <2>3. ends[N] = Len(fl)
    BY <1>4, <1>8 DEF FramedBy
  <2> QED BY <2>1, <2>2, <2>3, <1>7, <1>10, <1>11
<1>13. g < b
  <2>1. reader.in = "length" \/ reader.in = "data"
    BY <1>1 DEF ReaderType
  <2>2. CASE reader.in = "length"
    <3>1. g < 2
      BY <2>2, <1>2, <1>5 DEF ReaderConsistent
    <3>2. a = 0
      BY <2>2, <1>4, <1>11 DEF FirstAt
    <3> QED BY <3>1, <3>2, <1>12
  <2>3. CASE reader.in = "data"
    <3>1. g < l
      BY <2>3, <1>2, <1>5, <1>10 DEF ReaderConsistent
    <3>2. a = -2
      BY <2>3, <1>4, <1>11 DEF FirstAt
    <3> QED BY <3>1, <3>2, <1>12
  <2> QED BY <2>1, <2>2, <2>3
<1>14. b <= z /\ (N # 1 => b <= y)
  <2>1. \A i, j \in 0..N : i < j => ends[i] < ends[j]
    BY <1>4, <1>8 DEF FramedBy
  <2>2. N # 1 => 1 < N /\ (1 < N - 1 \/ 1 = N - 1)
    BY <1>8
  <2>3. 1 \in 0..N /\ N \in 0..N /\ N - 1 \in 0..N
    BY <1>8
  <2>4. N # 1 => ends[1] < ends[N]
    BY <2>1, <2>2, <2>3
  <2>5. N # 1 => ends[1] < ends[N - 1] \/ ends[1] = ends[N - 1]
    <3>1. PICK x \in 0..N : x = N - 1
      BY <2>3
    <3>2. 1 < x => ends[1] < ends[x]
      BY <2>1, <2>3
    <3> QED BY <2>2, <3>1, <3>2
  <2>6. CASE N = 1
    BY <2>6, <1>11
  <2>7. CASE N # 1
    BY <2>4, <2>5, <2>7, <1>11
  <2> QED BY <2>6, <2>7
<1>15. writer.in # "none"
  <2>1. SUFFICES ASSUME writer.in = "none" PROVE FALSE
    OBVIOUS
  <2>2. writer.left = <<>> /\ Len(writer.left) = 0
    BY <2>1, <1>2 DEF WriterConsistent
  <2>3. c = 0
    BY <2>1, <2>2, <1>1, <1>6, ComingType
  <2> QED BY <2>3, <1>12, <1>13, <1>14
<1>16. c <= 2 + k
  <2>1. writer.msg = sent[N] /\ writer.msg.len = k
    BY <1>2, <1>8, <1>10, <1>15 DEF WriterConsistent
  <2>2. writer.in = "length" \/ writer.in = "data"
    BY <1>1, <1>15 DEF WriterType
  <2>3. PICK x \in Nat : x = Len(writer.left)
    BY <1>1, ComingType
  <2>4. c = x + (IF writer.in = "length" THEN k ELSE 0)
    BY <2>1, <2>3, <1>1, <1>6, ComingType
  <2>5. CASE writer.in = "length"
    <3>1. x <= 2
      BY <2>5, <2>3, <1>2 DEF WriterConsistent
    <3> QED BY <3>1, <2>4, <2>5
  <2>6. CASE writer.in = "data"
    <3>1. x <= k
      BY <2>1, <2>3, <2>6, <1>2 DEF WriterConsistent
    <3>2. c = x + 0
      BY <2>4, <2>6
    <3> QED BY <3>1, <3>2
  <2> QED BY <2>2, <2>5, <2>6
<1>17. y <= g
  BY <1>12, <1>16
<1>18. N = 1
  BY <1>13, <1>14, <1>17
<1> QED BY <1>8, <1>15, <1>18

\* message_response_handler takes each response of wait_response_thread
\* whole, for responses and socket buffers of any size and any number of
\* interruptions survived: as long as no call gives up.
THEOREM RelayTakesWhole == RelaySpec => []ResponsesTakenWhole
<1>1. RelayInv => ResponsesTakenWhole
  BY DEF RelayInv
<1> QED BY RelayInvInit, RelayInvStep, <1>1, PTL DEF RelaySpec

\* message_response_handler, blocked in tfnet_read, waits for
\* wait_response_thread, which is busy writing the rest of that response
\* into an empty socketpair: the two never wait for each other.
THEOREM RelayWaits == RelaySpec => []LoopWaitsForWriterOnly
BY RelayInvInit, RelayInvStep, WaitsForWriter, PTL DEF RelaySpec
=============================================================================
