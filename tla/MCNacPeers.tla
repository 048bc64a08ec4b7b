----------------------------- MODULE MCNacPeers -----------------------------
(* Small instances of NacPeers: two slots, three descriptors, a __u16 that *)
(* holds four values.  The lengths are the ones next to the limits.        *)
EXTENDS NacPeers

MCFds == 1..3
MCLens == {7, 4079, 4080}
MCTimeouts == {0, 2}
=============================================================================
