------------------------------ MODULE NacQuit -------------------------------
(***************************************************************************)
(* How tfnac starts and stops (tfnac/main.c): main, the event loop, the    *)
(* thread that waits for responses and the handler of SIGTERM, SIGINT and  *)
(* SIGQUIT.  The handler is installed before anything else exists, and     *)
(* the kernel runs it on either thread, at any point, in between or at the *)
(* same time as everything else.  The queue of responses and of quit       *)
(* messages belongs to the kernel and is there when the next process       *)
(* starts.                                                                 *)
(*                                                                         *)
(* The handler's test and setting of quitting are one step: a second       *)
(* signal in between would only repeat what the first does.                *)
(***************************************************************************)
EXTENDS Integers, Sequences

CONSTANTS
    QueueCap,     \* messages that fit in device_in_queue
    MaxBoots,     \* bound: how often the service is started
    MaxSignals    \* bound: signals sent

ASSUME QuitAssumption == QueueCap \in Nat /\ MaxBoots \in Nat /\ MaxSignals \in Nat

VARIABLES
    pc,           \* where main is
    process_mgr,  \* "null", "live" or "freed"
    el,           \* process_mgr->el: "null", "live" or "freed"
    stop,         \* process_mgr->el->stop
    quitting,
    mq_exit,
    mq_data,      \* process_mgr->mq_data: what its data and its type were filled with
    thread,       \* where wait_response_thread is
    sig, sigOn,   \* where the signal handler is, and on which thread it runs
    inq,          \* device_in_queue
    boots, signals,
    uaf,          \* auxiliary: who has used memory after it was freed
    damaged       \* auxiliary: requests the process sent other than it filled them

vars == <<pc, process_mgr, el, stop, quitting, mq_exit, mq_data, thread, sig, sigOn,
          inq, boots, signals, uaf, damaged>>

AeMain   == {"test", "events", "filling", "filled"}
Running  == {"spawned", "left"} \cup AeMain
PCs      == {"down", "signals", "boot", "created", "checked", "unloop", "cleanup", "freed"}
            \cup Running
Alive    == {"start", "test", "recv", "write", "stopping"}
Messages == {"quit", "response", "other"}   \* "other": not for this service

\* A use of process_mgr.
Used(who) == uaf' = IF process_mgr = "freed" THEN uaf \cup {who} ELSE uaf

Init ==
    /\ pc = "down"
    /\ process_mgr = "null" /\ el = "null"
    /\ stop = FALSE /\ quitting = FALSE /\ mq_exit = FALSE
    /\ mq_data = [data |-> "none", msg_type |-> "none"]
    /\ thread = "none"
    /\ sig = "none" /\ sigOn = "main"
    /\ inq = <<>>
    /\ boots = 0
    /\ signals = 0
    /\ uaf = {} /\ damaged = 0

\* exit, or a signal that kills: both threads are gone.
Killed ==
    /\ pc' = "down"
    /\ process_mgr' = "null" /\ el' = "null"
    /\ stop' = FALSE /\ quitting' = FALSE /\ mq_exit' = FALSE
    /\ mq_data' = [data |-> "none", msg_type |-> "none"] /\ damaged' = 0
    /\ thread' = "none"
    /\ sig' = "none" /\ sigOn' = "main"
    /\ UNCHANGED <<inq, boots>>
-----------------------------------------------------------------------------
(* main.                                                                   *)

MainRuns == sig = "none" \/ sigOn = "thread"

MainStep(from, to) == MainRuns /\ pc = from /\ pc' = to

Start ==
    /\ pc = "down"
    /\ boots < MaxBoots
    /\ pc' = "signals"
    /\ boots' = boots + 1
    /\ UNCHANGED <<process_mgr, el, stop, quitting, mq_exit, mq_data, damaged, thread, sig,
                   sigOn, inq, signals, uaf>>

Allocate ==
    /\ MainStep("signals", "boot")
    /\ process_mgr' = "live"
    /\ UNCHANGED <<el, stop, quitting, mq_exit, mq_data, damaged, thread, sig, sigOn, inq,
                   boots, signals, uaf>>

\* No configuration file given, or initialize fails.
InitializeFails ==
    /\ MainStep("boot", "freed")
    /\ process_mgr' = "freed"
    /\ UNCHANGED <<el, stop, quitting, mq_exit, mq_data, damaged, thread, sig, sigOn, inq,
                   boots, signals, uaf>>

RunConsole ==
    /\ MainStep("boot", "cleanup")
    /\ UNCHANGED <<process_mgr, el, stop, quitting, mq_exit, mq_data, damaged, thread, sig,
                   sigOn, inq, boots, signals, uaf>>

CreateLoop ==
    /\ MainStep("boot", "created")
    /\ el' = "live"
    /\ stop' = FALSE
    /\ UNCHANGED <<process_mgr, quitting, mq_exit, mq_data, damaged, thread, sig, sigOn,
                   inq, boots, signals, uaf>>

\* server_port is 0: no event loop is created.
NoServer ==
    /\ MainStep("boot", "created")
    /\ UNCHANGED <<process_mgr, el, stop, quitting, mq_exit, mq_data, damaged, thread, sig,
                   sigOn, inq, boots, signals, uaf>>

\* tfnet_tcp_server2 fails: there is no socket, or it cannot be bound.
ListenFails ==
    /\ MainStep("boot", "created")
    /\ quitting' = TRUE
    /\ UNCHANGED <<process_mgr, el, stop, mq_exit, mq_data, damaged, thread, sig, sigOn,
                   inq, boots, signals, uaf>>

\* The loop fails, or (afterwards) the file event of the listening socket.
ServerFails ==
    /\ MainStep("boot", "created")
    /\ el' \in {"null", "freed"}
    /\ quitting' = TRUE
    /\ UNCHANGED <<process_mgr, stop, mq_exit, mq_data, damaged, thread, sig, sigOn, inq,
                   boots, signals, uaf>>

CheckQuitting ==
    /\ MainStep("created", IF quitting THEN "cleanup" ELSE "checked")
    /\ UNCHANGED <<process_mgr, el, stop, quitting, mq_exit, mq_data, damaged, thread, sig,
                   sigOn, inq, boots, signals, uaf>>

\* socketpair fails, or the registration of its file event.
SocketpairFails ==
    /\ MainStep("checked", "unloop")
    /\ quitting' = TRUE
    /\ UNCHANGED <<process_mgr, el, stop, mq_exit, mq_data, damaged, thread, sig, sigOn,
                   inq, boots, signals, uaf>>

\* The limit on threads, or pthread_create, may refuse it.
tf_create_thread == thread' \in {"start", "none"}

\* Mutant of CreateThread: it does not matter whether there is a loop.
CreateThreadAnyway ==
    /\ MainStep("checked", "spawned")
    /\ tf_create_thread
    /\ UNCHANGED <<process_mgr, el, stop, quitting, mq_exit, mq_data, damaged, sig, sigOn,
                   inq, boots, signals, uaf>>

\* The socketpair is registered with the loop, the timer and the thread are
\* created; nobody looks whether the thread was.
CreateThread ==
    /\ MainStep("checked", "spawned")
    /\ el = "live"
    /\ tf_create_thread
    /\ UNCHANGED <<process_mgr, el, stop, quitting, mq_exit, mq_data, damaged, sig, sigOn,
                   inq, boots, signals, uaf>>

\* aeCreateFileEvent with el = NULL.
RegisterWithoutLoop ==
    /\ MainRuns
    /\ pc = "checked"
    /\ el = "null"
    /\ Killed
    /\ UNCHANGED <<signals, uaf>>

EnterAeMain ==
    /\ MainStep("spawned", "test")
    /\ stop' = FALSE
    /\ UNCHANGED <<process_mgr, el, quitting, mq_exit, mq_data, damaged, thread, sig, sigOn,
                   inq, boots, signals, uaf>>

TestStop ==
    /\ MainStep("test", IF stop THEN "left" ELSE "events")
    /\ UNCHANGED <<process_mgr, el, stop, quitting, mq_exit, mq_data, damaged, thread, sig,
                   sigOn, inq, boots, signals, uaf>>

\* Mutant of ProcessEvents: stop is cleared in every iteration.
ProcessEventsClears ==
    /\ MainStep("events", "test")
    /\ stop' = FALSE
    /\ UNCHANGED <<process_mgr, el, quitting, mq_exit, mq_data, damaged, thread, sig, sigOn,
                   inq, boots, signals, uaf>>

\* An iteration in which no request arrives.  The life cycle timer ends
\* every sleep.
ProcessEvents ==
    /\ MainStep("events", "test")
    /\ UNCHANGED <<process_mgr, el, stop, quitting, mq_exit, mq_data, damaged, thread, sig,
                   sigOn, inq, boots, signals, uaf>>

\* peer_request_handler fills mq_data and then its type, ...
FillRequest ==
    /\ MainStep("events", "filling")
    /\ mq_data' = [mq_data EXCEPT !.data = "request"]
    /\ UNCHANGED <<process_mgr, el, stop, quitting, mq_exit, damaged, thread, sig, sigOn,
                   inq, boots, signals, uaf>>

FillRequestType ==
    /\ MainStep("filling", "filled")
    /\ mq_data' = [mq_data EXCEPT !.msg_type = "request"]
    /\ UNCHANGED <<process_mgr, el, stop, quitting, mq_exit, damaged, thread, sig, sigOn,
                   inq, boots, signals, uaf>>

\* ... and sends what is there then.
SendRequest ==
    /\ MainStep("filled", "test")
    /\ damaged' = IF mq_data.data = "request" /\ mq_data.msg_type = "request"
                  THEN damaged ELSE damaged + 1
    /\ UNCHANGED <<process_mgr, el, stop, quitting, mq_exit, mq_data, thread, sig, sigOn,
                   inq, boots, signals, uaf>>

CloseSockets ==
    /\ MainStep("left", "unloop")
    /\ UNCHANGED <<process_mgr, el, stop, quitting, mq_exit, mq_data, damaged, thread, sig,
                   sigOn, inq, boots, signals, uaf>>

aeDeleteEventLoop ==
    /\ MainRuns
    /\ pc = "unloop"
    /\ \/ /\ el = "null"
          /\ Killed
       \/ /\ el # "null"
          /\ pc' = "cleanup"
          /\ el' = "freed"
          /\ UNCHANGED <<process_mgr, stop, quitting, mq_exit, mq_data, damaged, thread,
                         sig, sigOn, inq, boots>>
    /\ UNCHANGED <<signals, uaf>>

\* Nobody waits for the thread.
FreeProcessMgr ==
    /\ MainStep("cleanup", "freed")
    /\ process_mgr' = "freed"
    /\ UNCHANGED <<el, stop, quitting, mq_exit, mq_data, damaged, thread, sig, sigOn, inq,
                   boots, signals, uaf>>

Exit ==
    /\ MainRuns
    /\ pc = "freed"
    /\ Killed
    /\ UNCHANGED <<signals, uaf>>
-----------------------------------------------------------------------------
(* wait_response_thread.                                                   *)

ThreadRuns == sig = "none" \/ sigOn = "main"

ThreadStep(from, to) == ThreadRuns /\ thread = from /\ thread' = to

ThreadStarts ==
    /\ ThreadStep("start", "test")
    /\ mq_exit' = FALSE
    /\ Used("thread")
    /\ UNCHANGED <<pc, process_mgr, el, stop, quitting, mq_data, damaged, sig, sigOn, inq,
                   boots, signals>>

ThreadTests ==
    /\ ThreadStep("test", IF quitting THEN "stopping" ELSE "recv")
    /\ Used("thread")
    /\ UNCHANGED <<pc, process_mgr, el, stop, quitting, mq_exit, mq_data, damaged, sig,
                   sigOn, inq, boots, signals>>

Own(m) == m # "other"

\* msgrcv takes the first message of the service's type.
Received(k) ==
    /\ Own(inq[k])
    /\ \A i \in 1..(k - 1) : ~Own(inq[i])
    /\ inq' = [i \in 1..(Len(inq) - 1) |-> IF i < k THEN inq[i] ELSE inq[i + 1]]

\* Mutant of ThreadReceives: a quit message ends the loop.
ThreadObeys ==
    /\ \E k \in 1..Len(inq) :
          /\ Received(k)
          /\ ThreadStep("recv", IF inq[k] = "quit" THEN "stopping" ELSE "write")
    /\ UNCHANGED <<pc, process_mgr, el, stop, quitting, mq_exit, mq_data, damaged, sig,
                   sigOn, boots, signals, uaf>>

\* A quit message has no other effect than to end the wait.
ThreadReceives ==
    /\ \E k \in 1..Len(inq) :
          /\ Received(k)
          /\ ThreadStep("recv", IF inq[k] = "quit" THEN "test" ELSE "write")
    /\ UNCHANGED <<pc, process_mgr, el, stop, quitting, mq_exit, mq_data, damaged, sig,
                   sigOn, boots, signals, uaf>>

ThreadWrites ==
    /\ ThreadStep("write", "test")
    /\ Used("thread")
    /\ UNCHANGED <<pc, process_mgr, el, stop, quitting, mq_exit, mq_data, damaged, sig,
                   sigOn, inq, boots, signals>>

ThreadStops ==
    /\ ThreadStep("stopping", "done")
    /\ mq_exit' = TRUE
    /\ Used("thread")
    /\ UNCHANGED <<pc, process_mgr, el, stop, quitting, mq_data, damaged, sig, sigOn, inq,
                   boots, signals>>
-----------------------------------------------------------------------------
(* signal_handler and safe_quit, on thread t.                              *)

\* External: the kernel delivers a signal.
Deliverable(t) ==
    /\ pc # "down"
    /\ sig = "none"
    /\ t = "thread" => thread \in Alive
    /\ signals < MaxSignals
    /\ signals' = signals + 1

\* A signal ends a wait for messages.
Interrupted(t) ==
    thread' = IF t = "thread" /\ thread = "recv" THEN "test" ELSE thread

SignalTooEarly(t) ==
    /\ Deliverable(t)
    /\ process_mgr = "null"
    /\ Killed
    /\ UNCHANGED uaf

SignalIgnored(t) ==
    /\ Deliverable(t)
    /\ process_mgr # "null"
    /\ quitting
    /\ Interrupted(t)
    /\ Used("handler")
    /\ UNCHANGED <<pc, process_mgr, el, stop, quitting, mq_exit, mq_data, damaged, sig,
                   sigOn, inq, boots>>

\* Mutant of SignalQuits: quitting is not set.
SignalForgets(t) ==
    /\ Deliverable(t)
    /\ process_mgr # "null"
    /\ ~quitting
    /\ sig' = "stop" /\ sigOn' = t
    /\ Interrupted(t)
    /\ Used("handler")
    /\ UNCHANGED <<pc, process_mgr, el, stop, quitting, mq_exit, mq_data, damaged, inq,
                   boots>>

SignalQuits(t) ==
    /\ Deliverable(t)
    /\ process_mgr # "null"
    /\ ~quitting
    /\ quitting' = TRUE
    /\ sig' = "stop" /\ sigOn' = t
    /\ Interrupted(t)
    /\ Used("handler")
    /\ UNCHANGED <<pc, process_mgr, el, stop, mq_exit, mq_data, damaged, inq, boots>>

aeStop ==
    /\ sig = "stop"
    /\ \/ /\ el = "null"
          /\ Killed
          /\ uaf' = uaf
       \/ /\ el # "null"
          /\ stop' = TRUE
          /\ sig' = "fill"
          /\ uaf' = IF "freed" \in {process_mgr, el} THEN uaf \cup {"handler"} ELSE uaf
          /\ UNCHANGED <<pc, process_mgr, el, quitting, mq_exit, mq_data, damaged, thread,
                         sigOn, inq, boots>>
    /\ UNCHANGED signals

FillQuitMessage ==
    /\ sig = "fill"
    /\ IF mq_exit THEN sig' = "none" /\ mq_data' = mq_data
                  ELSE sig' = "send" /\ mq_data' = [data |-> "quit", msg_type |-> "quit"]
    /\ Used("handler")
    /\ UNCHANGED <<pc, process_mgr, el, stop, quitting, mq_exit, damaged, thread, sigOn,
                   inq, boots, signals>>

\* The message is lost if the queue is full, and is somebody else's if main
\* has given mq_data the type of a request in the meantime; its four bytes are
\* not looked at (main.c:272).
SendQuitMessage ==
    /\ sig = "send"
    /\ sig' = "none"
    /\ inq' = IF Len(inq) < QueueCap
              THEN Append(inq, IF mq_data.msg_type = "quit" THEN "quit" ELSE "other")
              ELSE inq
    /\ Used("handler")
    /\ UNCHANGED <<pc, process_mgr, el, stop, quitting, mq_exit, mq_data, damaged, thread,
                   sigOn, boots, signals>>
-----------------------------------------------------------------------------
(* External: the other users of the queue.                                 *)

DeviceSends(m) ==
    /\ Len(inq) < QueueCap
    /\ inq' = Append(inq, m)
    /\ UNCHANGED <<pc, process_mgr, el, stop, quitting, mq_exit, mq_data, damaged, thread,
                   sig, sigOn, boots, signals, uaf>>

OthersReceive ==
    /\ inq # <<>>
    /\ Head(inq) = "other"
    /\ inq' = Tail(inq)
    /\ UNCHANGED <<pc, process_mgr, el, stop, quitting, mq_exit, mq_data, damaged, thread,
                   sig, sigOn, boots, signals, uaf>>
-----------------------------------------------------------------------------
Main ==
    \/ Allocate \/ InitializeFails \/ RunConsole
    \/ CreateLoop \/ NoServer \/ ListenFails \/ ServerFails \/ CheckQuitting
    \/ SocketpairFails \/ CreateThread \/ RegisterWithoutLoop
    \/ EnterAeMain \/ TestStop \/ ProcessEvents \/ FillRequest
    \/ FillRequestType \/ SendRequest
    \/ CloseSockets \/ aeDeleteEventLoop \/ FreeProcessMgr \/ Exit

Thread == ThreadStarts \/ ThreadTests \/ ThreadReceives \/ ThreadWrites \/ ThreadStops

Handler == aeStop \/ FillQuitMessage \/ SendQuitMessage

Next ==
    \/ Start \/ Main \/ Thread \/ Handler
    \/ \E t \in {"main", "thread"} : SignalTooEarly(t) \/ SignalIgnored(t) \/ SignalQuits(t)
    \/ \E m \in {"response", "other"} : DeviceSends(m)
    \/ OthersReceive

Spec == Init /\ [][Next]_vars

\* Both threads, and a handler on one of them, are scheduled.
FairSpec == Spec /\ WF_vars(Main) /\ WF_vars(Thread) /\ WF_vars(Handler)
-----------------------------------------------------------------------------
(* Correctness.                                                            *)

TypeOK ==
    /\ pc \in PCs
    /\ process_mgr \in {"null", "live", "freed"}
    /\ el \in {"null", "live", "freed"}
    /\ stop \in BOOLEAN /\ quitting \in BOOLEAN /\ mq_exit \in BOOLEAN
    /\ mq_data \in [data : {"none", "request", "quit"}, msg_type : {"none", "request", "quit"}]
    /\ thread \in Alive \cup {"none", "done"}
    /\ sig \in {"none", "stop", "fill", "send"}
    /\ sigOn \in {"main", "thread"}
    /\ inq \in Seq(Messages)
    /\ Len(inq) <= QueueCap
    /\ boots \in 0..MaxBoots
    /\ signals \in 0..MaxSignals
    /\ uaf \subseteq {"thread", "handler"}
    /\ damaged \in Nat

\* A quit message that an earlier process left in the queue does not stop the
\* responses of a later one: as long as nobody asks it to quit, the thread
\* of a running service goes on.
ResponsesServed ==
    (pc \in Running /\ ~quitting) => thread \notin {"stopping", "done"}

\* The handler writes its quit message into the buffer in which
\* peer_request_handler prepares a request (main.c:82-83, 208-222).  It may
\* damage one request of a process that is told to quit, but never a second
\* one, however many signals come and on whichever thread, and none of a
\* process that nobody told to quit.
OneRequestDamaged == damaged = 0 \/ (damaged = 1 /\ quitting)

\* A signal kills a process that is still starting (process_mgr or el is
\* NULL), but not one whose loop runs.
LoopNeverCrashes == [][(pc \in Running) => (pc' # "down")]_vars

\* A signal that comes when aeMain is running ends the process.
SignalEndsLoop == (sig = "stop" /\ pc \in AeMain) ~> pc = "down"

\* "SIGTERM quitting... ..." (main.c:24): a process that says so ends.
QuittingEnds == quitting ~> pc = "down"

\* "Safe quit message received!" (main.c:273): the thread that the message
\* wakes has ended before main frees what it uses.
ThreadQuitsSafely == "thread" \notin uaf
=============================================================================
