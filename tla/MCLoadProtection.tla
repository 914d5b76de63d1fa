-------------------------- MODULE MCLoadProtection --------------------------
(* Small instances of LoadProtection: a window of two readings; currents that *)
(* are none, in the table, and above each limit.                              *)
EXTENDS LoadProtection
=============================================================================
