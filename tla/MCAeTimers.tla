----------------------------- MODULE MCAeTimers -----------------------------
(* Small instances of AeTimers: a "second" of two milliseconds, so that a  *)
(* few ticks cross a second and delays both stay below and exceed it.      *)
EXTENDS AeTimers

MCDelays == {0, 3}
MCPeriods == {1}
MCPeriodsWithZero == {0}
=============================================================================
