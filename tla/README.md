# tflib and tfnac: a verification project

`tflib` is a C library for network services: an event loop (`ae`), strings,
lists, memory accounting, a rate limiter, sockets, System V queues and shared
memory, threads, logging, configuration files and some digests. `tfnac` is a
service built on it: it accepts TCP clients, gives each a slot of a table in
shared memory, forwards their requests to a device process over a message
queue, and writes back the responses that come on another queue.

This directory holds TLA+ models of the parts that carry the logic, TLC
configurations that check them on small instances, and TLAPS proofs of the
properties that matter most. `PROJECT.json` lists the components, the runs,
the source lines each definition stands for, the hazards and the theorems.

    tlc -config MCAeTimers.cfg MCAeTimers       # one run
    tlapm AeTimersProofs.tla                    # the proofs of one module

Contents: [1 the system](#1-the-system), [2 modules and code](#2-modules-and-code),
[3 runs and bounds](#3-runs-and-bounds), [4 fairness](#4-fairness),
[5 proofs](#5-proofs), [6 where code and documentation
disagree](#6-where-code-and-documentation-disagree), [7 what is left
out](#7-what-is-left-out), [8 plan](#8-plan).

## 1 The system

| component | state | operations | what makes it correct |
|---|---|---|---|
| `ae` time events (`ae.c`) | linked list of timers, next id, `lastTime`, the wall clock | create, delete, modify; the pass of `processTimeEvents`; the sleep before a poll | ids stay unique and ordered, no timer is lost, run early or skipped although callbacks change the list under the scan; a clock set back fires all |
| `ae` file events (`ae.c`, `ae_epoll.c`) | table of handlers per descriptor, `maxfd`, the batch of fired events, the kernel's interest list | create, delete, poll, dispatch | table, `maxfd` and kernel agree; no fired event is missed although handlers change the table |
| other back ends (`ae_evport.c`, `ae_select.c`, `ae_kqueue.c`) | pending and associated descriptors; descriptor sets; kernel filters | add, delete, poll | each is the level-triggered poller that `ae.c` expects; they lead to calls of the same functions, kqueue to one call per event |
| `tfnac` peer table (`main.c`, `config.c`) | slots in shared memory, queues, descriptors, connection count | start, accept, request, response, life cycle, close, crash | slots own their descriptors, idle times belong to connections, responses find their asker, over restarts that keep the table |
| `tfnac` start, shutdown, signals (`main.c`) | `process_mgr`, `el`, `stop`, `quitting`, the shared message buffer, the response thread | the steps of `main`, of the thread and of the handler | at most one request of a process told to quit is damaged and none of another, a loop does not crash, a signal ends the process |
| response relay (`main.c`, `tf_socket.c`) | a socketpair as a stream of bytes | two writes, two reads, with partial transfers and retries | responses cross whole, until a call gives up |
| lists (`tf_list.c`) | array of nodes, heap regions | all | sequences of strings; every region has one owner |
| dynamic strings (`tf_string.c`) | size, `asize`, region | all | nothing is written beyond a region, as long as lengths fit an `int` |
| rate limiter (`tf_util.c`) | window start, count, time it went bad | new, reset, check, add | bursts are bounded, the penalty is served |
| memory accounting (`tf_malloc.c`) | `used_memory`, size prefixes | allocate, reallocate, free, enable thread safeness | the count is exact once thread safeness is enabled |
| MD5 streaming (`expert/md5.c`) | bit count, buffer | init, update, final | the blocks are the padded message, however it is cut |
| threads (`tf_thread.c`) | `thread_inited`, the limit and count of threads, a mutex and a condition variable | init, create, lock, trylock, unlock, wait, signal, destroy | one thread at a time in a section, although locking does nothing before initialisation; no thread is counted that was not created |
| configuration files (`tf_conf_file.c`) | groups, their lists of pairs, the current group | create, find, get, destroy | a lookup finds what the file says, but for lines that the parser misreads in known ways |
| files (`tf_file.c`) | an offset, bytes still to write, a buffer | copy, write, read, read a file | success means the whole transfer, no write beyond a buffer |
| encodings (`tf_list.c`, `tf_util.c`, `tf_file.c`, `expert/base64.c`) | none | dump and load, join, split and lines, Base64, hexadecimal digits, BCD | decoding gives back what was encoded; what is written fits, or exceeds the buffer by a known number of bytes |
| sockets (`tf_socket.c`) | descriptors, calls in progress | connect, listen, accept, set nonblocking | every open descriptor has one owner, or was forgotten by one of two error paths |

Interactions. `tfnac` runs one event loop: the listening socket, the clients
and one end of a socketpair are file events, the life cycle is a time event.
A second thread blocks on the message queue and writes what it receives to the
other end of the socketpair, so that responses are handled on the loop's
thread. The signal handler runs on either thread and touches `stop`,
`quitting`, the message buffer and the queue. The slot table and the queues
belong to the kernel and outlive the process.

What is hard. Callbacks and handlers change the very list or table that is
being scanned; descriptors are reused within a batch; the shared table
survives crashes at any point, with descriptors of a process that is gone;
signals arrive anywhere between two steps; the thread is never joined;
times, sizes and counters are split, doubled and decremented by hand in fixed
widths; reads and writes are partial and interrupted. `hazards` in
`PROJECT.json` lists each at its line with the properties about it.

## 2 Modules and code

Definitions keep the names of the functions they model. A definition whose
comment starts with "Mutant of" is a plausible mistake in that function; it is
used by no specification and only serves to show that a property is sensitive.

**`AeTimers`** The list head is the first element of a sequence; a timer is its
id, its time as seconds and milliseconds (the split, carry and comparison of
the code are kept) and, for the properties, the plain due time. One iteration
of `aeProcessEvents` is `PollAndWait` or `PollDontWait` (with the sleep
computed from the nearest timer), `Wake`, `BeginPass` (clock skew test,
`maxId`), then `SkipTimer` and `CallTimeProc` along the list, and `EndPass`.
While a callback runs (`InApplication`) it may create, delete and modify
timers; when it returns, the timer is deleted or rearmed and the scan restarts
from the head. `Tick` and `SetClock` are the wall clock. A callback that
deletes its own timer and still returns a period makes the code write to freed
memory; the model stops there (`TimeProcReturnsToFreedTimer`, state `Undefined`), nothing
is claimed about such programs.

**`AeFiles`** The table, `maxfd`, and the kernel's interest list per open
*file*, so that closing a descriptor drops the interest and a new file on the
same number starts without. `aeApiPoll` returns any batch the kernel may
return, in any order; `CallReader`, `CallWriter` and their complements dispatch
it, and each handler may do anything to the table and to descriptors.

**`AePoll`, `AeEvport`, `AeBackends`** `AePoll` states what `ae.c` needs of a
back end. `AeEvport` models the event port, whose associations end when they
fire, and implements `AePoll` under the mapping that takes the table's mask as
the interest. A descriptor may also have failed (`Fail`): it is then reported for no event and
becomes pending all the same. `AeBackends` extends it with select and kqueue in lockstep: one
program, three builds, compared at every poll. It adds the functions that are
registered (`proc`), and `Calls` counts how often `ae.c` calls a function for a batch: once
per entry at most, because of the comparison in `ae.c:370`, but kqueue's batch has an entry per event.

**`NacPeers`** Each handler is one action, from its first check to its last
assignment, with one action per outcome (`AcceptWithoutSlot`,
`AcceptNotRegistered`, ...). `open` and `registered` are the descriptors and
events of the process; `conn`, `idle`, `bootActive`, `leaked` and `unfinished` are history
for the properties. `Die` ends the process in any state, `DieInAccept` in
the middle of `accept_tcp_handler`. `session_timer` and `connections` are
unsigned words of `U16` values. The device process is external.

**`NacQuit`** The steps of `main` (including its failures), of the thread and of the
handler at the granularity at which they can interfere. A request is prepared in the
shared `mq_data` in two steps (`FillRequest`, `FillRequestType`) and then sent, and the handler may write its
quit message to it before, between and after them. `uaf` records who used
`process_mgr` after it was freed, `damaged` how many requests of this process were sent with something else in them.

**`NacRelay`** The socketpair byte by byte, `tfnet_write` and `tfnet_read` with
partial transfers and at most `Retries` interruptions per call.

**`TfList`, `StringLists`** `TfList` models the array, `memmove` and the heap
and implements `StringLists`, in which lists are sequences. An insertion at index `num`
appends in both, which is what the code does and not what `tf_list.h` says. **`TfStr`** keeps
sizes and drops contents. Lengths go through `int` where the code sends them (`ToInt`): a
negative one allocates the unit and copies far too much. The process then ends (`ended`), and `beyond` records that a length, or a sum of
them, was beyond what the integers of the code hold. **`TfRate`** is the limiter with a client that
checks before it counts; `events` is the history of what it let through. **`TfMalloc`** has one step per access to
`used_memory` when thread safeness is off. **`Md5Stream`** stops at the
compression function.

**`TfThread`** Several threads use one mutex and one condition variable, and
create each other; creating is a test, `pthread_create` and an increment that
reads and writes, because `nthreads` is not protected. Threads end (`ThreadEnd`) without being taken off the count;
`created` counts those created in all. `early` records a
first `tf_init_threads` while the section was in use, after which nothing is
claimed until the program is started again (`Restarted`).

**`ConfFile`** A line is a sequence of tokens, so that the order in which
`parse_line` trims, tests, cuts and skips is kept without characters. The
author of a file means headers, pairs or nothing (`Meanings`) and has several
ways to write each (`HeaderWritings`, `PairWritings`), those with a flaw that `parse_line` misreads included: a blank
behind the name in brackets, a blank and a comment behind a name or a value. `cfg_create` takes one line at a time.
`groups` holds copies of groups, as `tf_list_push` copies them, which share
the list of pairs with the group that `cfg_create` goes on filling.

**`TfFile`** One step per system call that was not interrupted, each of which
transfers any part of what was asked for, ends or fails, while another process
may append; a reader that is interrupted or fails ends like one at the end of the file. The byte at position `i` is `i`, so that a gap, a repetition or a
reordering shows.

**`Codecs`** Pure functions as operators, folds and recursive functions, over
a list or an array that grows step by step. Lines may be separated by LF or CR LF, with or
without one at the end; a dump may be larger than its buffer. `VBASE` stands for 128 and `INT` for
`sizeof(int)`, so that numbers with more digits than the buffer allows for are met.

**`TfSocket`** The functions that make a socket are grouped by what they do
(`CallKinds`), one step per system call, each of which may fail, with several
threads that compete for descriptors. `lost` records the descriptors that an error path forgets.

`MCTfLib` explores the eleven modules of the library, which share no state, in
one run: a variable `part`, fixed in the initial state, says which of them moves.

## 3 Runs and bounds

| run | shows | bounds |
|---|---|---|
| `timers` | no timer lost, early, skipped or fed into its own pass; skew fires all; sleep is exact | second of 2 ms, 3 seconds, 3 timers, 1 clock change, delays {0,3}, period 1 |
| `timers_delay`, `timers_loop` | findings, section 6 | as above, smaller |
| `files` | table, `maxfd` and kernel agree; no fired event is missed | table of 2, descriptors 0..2, 3 files, 2 handlers (symmetric) |
| `files_reuse` | finding | as above |
| `backends` | event port invariants, refinement of `AePoll`, the three call the same functions, kqueue once per event | 2 descriptors (symmetric), 2 functions (symmetric), port batch 1, kevent room 3 |
| `peers` | slots, descriptors, count and idle times agree over restarts; responses go astray or are lost only after their asker left; idle peers leave | 2 slots, 3 descriptors, words of 4 values, 3 connections, 2 starts, queues of 1, lengths {7, 4079, 4080}, timeouts {0,2} |
| `peers_slot0` | finding | as above, 4 connections |
| `quit` | leftover quit messages do no harm, at most one request of a process told to quit is damaged, no crash of the loop, a signal ends the process | queue of 2, 2 starts, 3 signals |
| `quit_lost`, `quit_free` | findings | 1 start, 1 signal |
| `library` | lists, strings, limiter, accounting, MD5, relay, threads, configuration, files, encodings, sockets | see below |

Why they are enough. *timers*: a second of 2 ms makes every carry and borrow
happen; a delay of 3 spans a second boundary, 0 is due at once; three timers
are needed for a callback to change the list on both sides of the scan.
*files*: descriptor 2 is outside the table, so the range error is met; three
files allow a descriptor to be reused twice. *backends*: the event port's
batch of 1 leaves ready descriptors behind; kqueue's 3 entries do not hold the 4 there can be.
*peers*: the lengths are the smallest with a body, and the two around the limit of
`ipc_write_queue`; words of 4 values make `connections` and `session_timer`
wrap; 2 starts give stale tables. *quit*: two starts leave a message for the
second process. *library*: lists of two handles over a string and a prefix of
it, three regions, unit 2, at most 3 elements, so that the array grows and
the heap is exhausted; two strings with sizes modulo 6, an `int` up to 2, unit 2 and lengths up
to 7, so that doubling wraps and lengths become negative and come around again; totals {1,3}, windows {1,3} and waits 1..4 on both sides of
each other, times 5..13; two threads, two regions, sizes 0..2, words of 2;
MD5 with blocks of 8, length fields of 2 and words of 64, messages up to 34
bytes, so that the bit count overflows its low word and the padding needs one or
two blocks; responses of 1 and 2 bytes over a socket that holds 2; three
threads, a default limit of 2 and limits {1,3} given later, and 4 threads created in all, so that some are created in place of
those that ended; three group names of which two differ in case, two keys, a true and a
false value, files of up to 4 lines, which is a group opened twice with a pair in each part; an I/O buffer of 2
and files of up to 3 bytes, so that a copy takes two rounds; numbers to base 2
with `INT` 2 and elements of 0 to 4 bytes, lists of up to 3, so that sizes have one, two
and three digits, and a dump may hold no, one or several large elements; bytes {0, 77, 255} and arrays of up to 7, which covers each
remainder of Base64 after two whole groups; two callers and three descriptors,
so that one of them runs out. As the parts are independent, the same two
model values are the lists, strings, threads and configuration keys, and are interchangeable in each.

`peers` and `quit` do not check deadlock: starts, connections and signals are
bounded, and a system that has used them up stops. Elsewhere every state has a
successor.

Type correctness, `IdsDescend` of the timers and `NeverAborts` of the event port
are parts of inductive invariants and are proved (section 5), not run.

Properties are defined at the end of each module with a comment each; those of
two runs deserve a remark. `ConnectionsAccounted`: `connections` is *not* the
number of active slots but differs from it by exactly the slots that were
stale at the start, modulo the word. `BurstBounded`: in any period of the
window's length at most `2 * total - 1` events pass, which is attained, and
only if the wait is no shorter than the window.

## 4 Fairness

* `peers`: `WF(life_cycle_handler)`. The timer is rearmed by every call, and a
  pass skips no expired timer (`NoDueTimerSkipped`), so that while the process
  runs the handler is called again and again. Nothing is assumed of clients,
  the device or the network.
* `quit`: `WF(Main)`, `WF(Thread)`, `WF(Handler)`. The operating system
  schedules both threads and lets a handler that was entered finish. No
  signal is assumed to arrive. Under the same assumption `quit_lost` finds
  that the process does not end.
* `timers_loop`: `WF(Pass)`. A pass that has begun is executed; nothing in it blocks.

The other runs check safety only.

## 5 Proofs

All theorems hold for every value of the constants allowed by the named
assumptions, and TLC evaluates these assumptions in the runs.

**`AeTimersProofs`** (`TimersAssumption`: a second has at least one millisecond,
delays and periods are naturals). Type correctness is inductive by itself.
`ListInv`, which adds `IdsDescend` and `NoTimerLost`, is: deleting finds at most one timer
because ids are unique, and ids are unique because each is below
`timeEventNextId`. `CohortInv` relates `maxId` to the timers that existed when
the pass began and gives `HandlersDoNotFeedPass`. `ScanInv` says that the part of the list
behind the scan held nothing expired at `scanMin`, the lowest clock seen since the
scan left the head (the clock may be set back while it runs), and gives
`NoDueTimerSkipped`. `SkewInv` says
that a timer still owed a call in a forced pass has time zero, which the clock is past, and lies ahead of the
scan, and gives `SkewFiresAll`. `DueInv` says that, as long as nobody has set the clock, no pass has seen it go back and every
timer is armed for the time it is due; with the lemmas that seconds and milliseconds are added
(`AddMillisecondsAdds`) and compared (`SoonerIsLess`) as plain milliseconds it gives `NeverEarly`. `SleepBounded`
needs no more than types: there is a nearest timer (`NearestType`), and borrow and clamps give the time left
to it (`SleepIsLeft`).

**`AeFilesProofs`** (`FilesAssumption`: the table has an entry, descriptors reach at least its end).
`FilesInv` is types, `MaxfdIsHighest`, `KernelMatchesTable` and `BatchInv`. That the loop of `aeDeleteFileEvent`
finds the highest one left uses well-founded induction. `BatchInv` says where what the batch still
owes can be: at the entry being served or behind it, with descriptors that are distinct; and that a
reader called for an entry whose writer is owed is still the registered one, so that the comparison of
`ae.c` that keeps one function from being called twice skips no other. It gives `NoFiredEventMissed`.

**`AeBackendsProofs`** (`EvportAssumption`: finitely many descriptors, a batch of at least 1;
`BackendsAssumption`: the room of `kevent` is a natural).
`EvportInv` is types, `EitherKernelOrPending` (the documented invariant of
`ae_evport.c:35-39`) and `NeverAborts`; the last two need each other.
`RestoredIsMask` says that restoring the pending associations gives back the table, from
which each step is a step of `AePoll`: `EvportImplementsPoller`. `CopiesInv` adds the copies of
select (equal to the table) and kqueue (no smaller: a partly refused registration leaves a filter
behind). `BackEndsAgree` is then counted out: a function is called for an entry if it is among those the table has for the
entry's events (`CalledFor`), a batch with one entry per descriptor calls it once (`OneEntryOneCall`, for `SelectCalls` and
`EvportCalls`), and the entries of kqueue's batch that lead to a call are as many as the ready events it is registered for (`KqueueCalls`).

**`NacPeersProofs`** (`PeersAssumption`: at least one slot, ids offset by at least 1, words of at least two values,
finitely many positive descriptors). `TableInv` is types, the three properties
`ConnectionsAccounted`, `SlotsOwnTheirFds`, `IdleTimeBounded`, and what they need of each other:
before the loop runs there are no connections (`NothingBefore`), a connection is on one descriptor and in one slot
(`OneConnection`), a registered descriptor leads to its slot (`HandlersFindTheirSlot`), and ids are those
of the slots (`IdsAssigned`). `QueuesInv` says of every message in the three queues that its asker is known and, if
still connected, sits in the slot the id names; it gives the two properties of responses. The
remainders are handled by lemmas on `%`, for any width of the counters.

**`NacQuitProofs`** (`QuitAssumption`: the bounds are naturals). `QuitInv` adds `Phases` to the types: which objects
exist in which phase, and that a stopping thread, a running handler and an
overwritten request each imply `quitting`. It gives `ResponsesServed` and
`LoopNeverCrashes`. `Damage` adds the count: no request was damaged before `quitting`, and none after it unless it was being
prepared or sent when the handler wrote, since the loop stops after the handler that
prepared it; this gives `OneRequestDamaged`. The relay (`RelayAssumption`: responses and the buffer of the socketpair are not empty) has its theorems here too: `RelayInv` says that
the bytes in the socket, together with what the two ends hold of a response begun, are exactly the bytes of the responses
in `sent`, cut at the positions where each ends (`Framed`), and that each end is where its call says it is
(`WriterConsistent`, `ReaderConsistent`). It gives `ResponsesTakenWhole` and `LoopWaitsForWriterOnly`.

**`TfLibProofs`** (`ListAssumption`: strings are sequences, finitely many regions, a unit of at least 1).
`ListInv` says that the nodes in use lie within the array, that each points to a region which holds its string
and a zero, that no two nodes, lists or the caller own the same region, and that a region is
allocated exactly when it is owned. From it come `StringsFit`, `EachRegionOwnedOnce` (the count of
owners of a region is one if it is allocated and zero if not) and `ListsImplementSequences`: every step of `TfList` is a step of
`StringLists` on the sequences read from array and heap, or leaves them alone. The key
lemmas say what moving nodes (`Moved`), growing the array and overwriting a region do to what is read from
them. `ListSearchesAgree` needs only that the nodes in use lie within the array: the recursive function of `tf_list_bsearch` exists
(`SearchExists`), and by induction on the size of the range it returns an index of the string if there is one
(`SearchFinds`).

**`TfUtilProofs`** (`StrAssumption`: the word is that of the `int`, unsigned, and the unit is a positive `int`; `RateAssumption`: totals and windows are positive, and the
clock starts beyond any window, as `time(0)` does). `StrInv` says of every string that its size is below
its region and `asize` not above it; `EnlargedFits` is the lemma that growing yields enough
room even when doubling wraps around. It is claimed as long as not `beyond`: `WordHolds` and `IntHolds` say that
until then the conversions change nothing, and the lemmas on the functions say that each call keeps within these limits or sets `beyond`. It gives `StringWithinRegion`. For the limiter, `LimiterInv` says
that it is bad exactly when the total is reached, and good when an event is let through;
`PenaltyInv`, that it stays bad until the wait is over, which gives `PenaltyServed`. `BurstInv`
divides the recent events into those of the window, of which there are at most `count`, and those before it, of
which there are at most `total - 1` because a window that reached the total is followed by a wait as long as the events are recent.
It gives `BurstBounded`. For MD5 (`MdAssumption`: a block is longer than the length field, and a word counts whole blocks before it wraps around), `MdInv` says that the blocks transformed so far and the
bytes in the buffer are together the message, and that the two counters are its length in bits modulo their width; `Md5Padding` adds what
`MD5Final` appends. For the memory accounting (`MallocAssumption`; `RoomAssumption`: all regions at their largest
size fit the address space together), `MemInv` adds to the property that each call knows the regions it
works on and that no two work on the same, and a function of what `used_memory` holds for each region now, of which none is negative or above
the largest size. Their sum is `used_memory`, so that neither a sum nor a difference wraps around, which gives `MallocAccountingExact`.

**`TfSystemProofs`** (`ThreadAssumption`: the first thread is one of finitely many threads, limits are naturals;
`SocketAssumption`: descriptors are naturals; `FileAssumption`: the I/O buffer is not empty; `WordsAssumption`: no word of a
configuration file is a separator or `group`, and values write true and yes in one case).
`ThreadInv` adds to `MutexesProtect` where threads can be and the types of the mutex and the
two flags; the property is otherwise inductive by itself, since it says both that at most one thread
is inside and that the mutex is locked exactly then. It holds for any set of
threads, with `early` as the only condition on the program. `CountInv` gives
`NeverRefusedEarly`: the value a thread is about to write is less than the number of threads created in all,
whatever it overwrites and whoever has ended. `SocketInv` adds to `DescriptorsOwned` how far a call has come with its
socket. `FileInv` says that what was transferred and what is still in the buffer are two
consecutive pieces of the file; it gives `TransfersWhole`. For configuration files the lemmas `HeaderWritten`, `PairWritten` and
`NothingWritten` say what `parse_line` makes of every writing of a line, a misread one included: a header with a flaw gives a name that differs
from every name without one, a value with a flaw keeps its blank. `CfgInv` says that groups keep their own lists and their names
differ in more than case, that pairs go to the group of the last header, that every header has its group, and that the
first entry of a key in a list is from the first line that gives it; it gives `LookupsAgree`.

Recursive functions and the folds of the library, over which the provers have no induction, are handled
in two steps. That a function satisfying the recursion exists is shown by building it, and what it computes by
induction over a set of naturals (`SetInduction`, from the well-foundedness of the naturals in the form of the library's `WFMin`).
The sums of `AccountingExact` (`SumExists`, `SumIs`), the binary search, and the groups and the fold of Base64
are treated this way. For Base64 `FlattenIs` says which characters `encode_base64` writes, `DecodeRuns` that
`decode_base64` takes them one after the other, and `GroupsDecode`, by induction over the groups, that after each group
it holds exactly the bytes written so far with nothing pending; the one or two bytes that are left are `OneRuns` and `TwoRuns`.
The only assumption is that the array holds bytes.

Only model-checked, and why:

* the liveness properties (`IdlePeersLeave`, `SignalEndsLoop`), which are out of the prover's reach;
* `ListsSurvive` (`Codecs`): variable length numbers are sums of powers of `VBASE`, and the provers know nothing of
  exponents.

## 6 Where code and documentation disagree

Each has a run whose property states what the text says and that TLC refutes.

* `timers_delay` (`ae.c:339`): seconds and microseconds of the sleep are
  clamped separately after the borrow, so an overdue timer can delay itself by up to a second.
* `timers_loop` (`ae.c:281`): a callback that returns 0 is called for ever in
  one pass. `cycle_step` of the configuration may be 0.
* `files_reuse` (`ae.c:365`): an event of a closed connection reaches the
  connection that got the same descriptor during the batch.
* `peers_slot0` (`main.c:103`): the connection in slot 0 never gets a response.
* `quit_lost` (`ae.c:407`): a signal just before `aeMain` clears `stop` is lost, and later
  ones are ignored.
* `quit_free` (`main.c:391`): `process_mgr` is freed under the response thread.

Seen while modelling, without a run of their own. What is marked *modelled* is part of the
models and of the conditions or the wording of the properties named.

Event loop.

* A self-deleting timer that returns a period is used after it was freed (`ae.c:281`; *modelled*, `TimeProcReturnsToFreedTimer`).
* kqueue reports a descriptor once per event, and the comparison of `ae.c:370`
  looks only within an entry, so that a function registered for both events is
  called twice; with select and event ports it is called once (*modelled*, `BackEndsAgree`).

Service.

* One request may be sent with the handler's quit message in it, or with parts of
  both, in a process that was told to quit (`main.c:82-84`, `208-227`; *modelled*, `OneRequestDamaged`).
* A signal before `process_mgr` or `el` exist, or in a process without a server, dereferences NULL
  (`main.c:302`; *modelled*: the process is killed; `LoopNeverCrashes` begins when the loop runs).
* A table whose creator died before `init_peers` keeps all ids 0, so that responses are lost (`config.c:24`; *modelled*, `unfinished` in `LostOnlyAfterClose`).
* Slots left active by an earlier process hold descriptors that mean something else or nothing until they time out;
  `SlotsOwnTheirFds` claims nothing of descriptors while there are any (`config.c:59`).
* An accepted descriptor leaks when the table is full (`main.c:157`; *modelled*, `leaked`).
* Lengths from 4080 on pass the range check of `peer_request_handler` and are refused by `ipc_write_queue` (*modelled*).
* A read or write of the socketpair that was interrupted too often gives up in the middle of a response, and the
  stream is out of step for good (`tf_socket.c:317`; *modelled*, `gaveUp`).

Lists and strings.

* `tf_list_insert` and `tf_list_insert2` at index `num` append, although `tf_list.h:122` and `130` promise no effect
  (`tf_list.c:160`, `180`; *modelled*, `StringLists` follows the code).
* From 2^31 bytes on, the length of a character string is a negative `int`: `tf_strnew2` allocates the
  unit and copies a huge size, `tf_strcat2` likewise, and copying or taking over such
  a string aborts or overruns; sums that reach 2^32 - 1 wrap, as `tf_strcat` does not look at them (`tf_string.c:22`, `48`, `65`, `81`, `259`; *modelled*, `beyond`).
* Of n elements of 2^28 bytes or more in a list, `tf_list_dump` writes up to n - 1 bytes beyond its buffer (*modelled*, `ListsSurvive`).
* `tf_readlines` returns an empty element behind a final LF (*modelled*, `ListsSurvive`).

Threads and memory.

* `nthreads` is never decremented (`tf_thread.c:32`), so that a program whose threads are short is refused for good once as many as the
  limit were created; and since a new thread may create another before its creator has counted it, more threads than the limit can
  be created, although line 16 reports that no more can (*modelled*; `NeverRefusedEarly` claims only that the count is
  never ahead of the threads created).
* `tf_cond_wait` before `tf_init_threads`, or a first `tf_init_threads` while a section is in use, lets two threads in or leaves
  the mutex locked for good (*modelled*, `early` and `Restarted`).
* `used_memory` loses updates when calls overlap before thread safeness is enabled, or are in progress then (*modelled*, `disciplined`
  in `AccountingExact`); `tfnac`, which has two threads, never enables it.

Files, configuration, encodings.

* `tf_readfile` says "Read whole data" (`tf_file.h:31`) but takes a failing or interrupted read for the end of the file
  (`tf_file.c:74`), so that a prefix is all it is sure to return; `tf_read` fails on an interruption. `tf_writefile` and `tf_copyfile` that fail leave a
  truncated file behind. `tf_copyfile` onto the same file empties it. (The first three are *modelled*, `TransfersWhole`.)
* A value followed by a blank and a comment keeps the blank, so that `reload = true # c`
  reads as false; `group = a # c` and `[a ]` change the name of the group (`tf_conf_file.c:15-44`; *modelled*, the flaws of `LookupsAgree`). A key that
  starts with "group" is taken for a header, and a name of `MAX_FILENAME_LEN` characters or more is never found (not modelled).
* `encode_base64` writes nothing for three bytes or less and returns a length 4
  too large for multiples of 3 (*modelled*).
* The comment of `MD5Final` calls the bit count "MSB-first" (`md5.c:93-94`); lines 128-129 write the low-order word first,
  as RFC 1321 has it (*modelled*, `TransformsPaddedMessage` states the latter). `memset(ctx, 0, sizeof(ctx))` clears only as much as a pointer takes.
* A socket stays open when `SO_REUSEADDR` or `O_NONBLOCK` cannot be set (*modelled*, `lost`).
* `tf_util.h` declares `tf_rate_new` where `tf_util.c` defines `rate_new`, which leaves three fields uninitialised (*modelled*: any values);
  `tf_rate_add` without a check forgives the penalty when the window ends.

## 7 What is left out

Within modelled components: SIGUSR1 and SIGUSR2, which change the log level;
running out of memory, which aborts; stale descriptors of an old table that
happen to equal the listening or the epoll descriptor; the MD5 compression
function and byte order; the variants of `tf_malloc.c` for tcmalloc and for
platforms without atomic operations; `tf_rate_left` and other pure queries; the text of
formatted strings, of which only the length matters; group names cut at
`MAX_FILENAME_LEN` and the conversion of numbers in `tf_conf_file.c`;
`tf_sleep` and creating and destroying condition variables; socket options,
address conversion and byte order in `tf_socket.c`; creating keys of System V objects; the two tables of
Base64, which are taken to be inverse.

Not modelled: locks, directories and paths of `tf_file.c` and `tf_system.c`
(single system calls, or walks over what they return, without state of their
own); `tf_log.c` (formatting and output of text); parsing numbers, dates and
wildcards of `tf_util.c` (wording and layout of text); `d3des.c` (third-party cipher);
`tf_hash.c` (not built) and `tf_smqueue.h` (unused); `console.c` (empty); the
configuration headers.

## 8 Plan

Done, in this order: the event loop (timers, files, back ends), the peer
table, start and shutdown, the library parts that keep state, the first
proofs, then threads, configuration files, whole-file transfers, encodings and
sockets; then proofs of the peer table, file events, back ends, lists with their
refinement, limiter, threads, sockets and file transfers. What is left of the
system is text, single system calls or third-party code (section 7).

The last proofs were those of the relay, MD5 padding, memory accounting, the binary search, configuration files, and
Base64, hexadecimal digits and BCD. What is only model-checked is listed at the end of section 5.
