--------------------------- MODULE MCAlarmChecks ---------------------------
(* Small instances of AlarmChecks: the thresholds keep the order they have in *)
(* the code (40, 75, 200 below 256), a few periods each.                      *)
EXTENDS AlarmChecks
=============================================================================
