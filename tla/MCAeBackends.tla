---------------------------- MODULE MCAeBackends ----------------------------
(* Two interchangeable descriptors, event port batches of one and room for *)
(* three kevents, so that a poll may leave something behind.  Two          *)
(* functions, so that a descriptor has one or two.                         *)
EXTENDS AeBackends, TLC
CONSTANTS f1, f2, p1, p2
MCFds == {f1, f2}
MCEvents == {"readable", "writable"}
MCProcs == {p1, p2}
Symmetry == Permutations(MCFds) \cup Permutations(MCProcs)
=============================================================================
