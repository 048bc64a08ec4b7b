----------------------------- MODULE MCNacQuit ------------------------------
(* Two starts, so that the second one finds what the first one left in a   *)
(* queue of two messages, and enough signals to repeat one.                *)
EXTENDS NacQuit
=============================================================================
