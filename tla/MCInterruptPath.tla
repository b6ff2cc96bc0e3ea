--------------------------- MODULE MCInterruptPath ---------------------------
(* InterruptPath has no constants: every state of the machine is checked.   *)
EXTENDS InterruptPath
=============================================================================
