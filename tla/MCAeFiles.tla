----------------------------- MODULE MCAeFiles ------------------------------
(* A set of two descriptors in a process that may have three, two handler  *)
(* functions, which are interchangeable, and three files, so that a        *)
(* descriptor number is reused.                                            *)
EXTENDS AeFiles, TLC
CONSTANTS p, q
MCProcs == {p, q}
Symmetry == Permutations(MCProcs)
=============================================================================
