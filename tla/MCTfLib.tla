------------------------------- MODULE MCTfLib ------------------------------
(***************************************************************************)
(* The parts of the library other than the event loop, each explored for   *)
(* itself, as they share no state: which one is chosen in the initial      *)
(* state.                                                                  *)
(***************************************************************************)
EXTENDS TfList, TfStr, TfRate, TfMalloc, Md5Stream, NacRelay, TfThread,
        ConfFile, TfFile, Codecs, TfSocket, TLC
CONSTANTS a, b, main

VARIABLE part

Parts == {"list", "string", "rate", "malloc", "md5", "relay", "thread", "conf",
          "file", "codec", "socket"}

\* The two lists, strings, threads and keys of the parts are interchangeable.
MCPair == {a, b}
Symmetry == Permutations(MCPair)

\* One string is a prefix of the other; three regions, so that the heap can
\* be exhausted.
MCStrings == {<<1>>, <<1, 1>>}
MCRegions == 1..3

\* Sizes that fill the words they are rounded to, and that do not.
MCReqSizes == {0, 1, 2}
MCPtrs == 1..2

\* A total of one, where every event is the last; waits shorter than, equal
\* to and longer than the window.
MCTotals == {1, 3}
MCWindows == {1, 3}
MCWaits == {1, 2, 3, 4}

\* Of three threads one is the first; the other two may be created.
MCTids == MCPair \cup {main}
MCLimits == {1, 3}

\* With its length a response is longer than the socketpair holds.
MCDataLens == {1, 2}

\* Groups that differ in case, values that are and are not true.
MCGroupNames == {"g", "G", "h"}
MCValues == {"YES", "no"}
MCLowerOf == [G |-> "g", YES |-> "yes"]

\* Elements with sizes of one, two and three digits, and two that are not text.
MCElements == {[i \in 1..n |-> fill] : n \in 0..4, fill \in {1, -2}} \cup {<<0>>, <<1, LF>>}
MCByteValues == {0, 77, 255}

MCFds == 3..5

libVars == <<vars, strVars, rateVars, memVars, mdVars, relayVars, thrVars,
             cfgVars, fileVars, codecVars, sockVars, part>>

LibInit ==
    /\ part \in Parts
    /\ Init /\ StrInit /\ RateInit /\ MemInit
    /\ MD5Init /\ RelayInit /\ ThreadInit /\ CfgInit
    /\ FileInit /\ CodecInit /\ SocketInit

LibNext ==
    /\ \/ /\ part = "list" /\ Next
          /\ UNCHANGED <<strVars, rateVars, memVars, mdVars, relayVars,
                         thrVars, cfgVars, fileVars, codecVars, sockVars>>
       \/ /\ part = "string" /\ StrNext
          /\ UNCHANGED <<vars, rateVars, memVars, mdVars, relayVars, thrVars,
                         cfgVars, fileVars, codecVars, sockVars>>
       \/ /\ part = "rate" /\ RateNext
          /\ UNCHANGED <<vars, strVars, memVars, mdVars, relayVars, thrVars,
                         cfgVars, fileVars, codecVars, sockVars>>
       \/ /\ part = "malloc" /\ MemNext
          /\ UNCHANGED <<vars, strVars, rateVars, mdVars, relayVars, thrVars,
                         cfgVars, fileVars, codecVars, sockVars>>
       \/ /\ part = "md5" /\ MdNext
          /\ UNCHANGED <<vars, strVars, rateVars, memVars, relayVars, thrVars,
                         cfgVars, fileVars, codecVars, sockVars>>
       \/ /\ part = "relay" /\ RelayNext
          /\ UNCHANGED <<vars, strVars, rateVars, memVars, mdVars, thrVars,
                         cfgVars, fileVars, codecVars, sockVars>>
       \/ /\ part = "thread" /\ ThreadNext
          /\ UNCHANGED <<vars, strVars, rateVars, memVars, mdVars, relayVars,
                         cfgVars, fileVars, codecVars, sockVars>>
       \/ /\ part = "conf" /\ CfgNext
          /\ UNCHANGED <<vars, strVars, rateVars, memVars, mdVars, relayVars,
                         thrVars, fileVars, codecVars, sockVars>>
       \/ /\ part = "file" /\ FileNext
          /\ UNCHANGED <<vars, strVars, rateVars, memVars, mdVars, relayVars,
                         thrVars, cfgVars, codecVars, sockVars>>
       \/ /\ part = "codec" /\ CodecNext
          /\ UNCHANGED <<vars, strVars, rateVars, memVars, mdVars, relayVars,
                         thrVars, cfgVars, fileVars, sockVars>>
       \/ /\ part = "socket" /\ SocketNext
          /\ UNCHANGED <<vars, strVars, rateVars, memVars, mdVars, relayVars,
                         thrVars, cfgVars, fileVars, codecVars>>
    /\ part' = part

LibSpec == LibInit /\ [][LibNext]_libVars
=============================================================================
