---------------------------- MODULE MCScrFiring ----------------------------
(* Small instances of ScrFiring: ticks of about 1 ms, which keep the order   *)
(* the times have in the code.                                               *)
EXTENDS ScrFiring
=============================================================================
