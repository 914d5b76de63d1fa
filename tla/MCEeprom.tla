------------------------------ MODULE MCEeprom ------------------------------
(* Small instances of Eeprom: two values of the command registers and of the *)
(* coefficients, an image of three pages.                                    *)
EXTENDS Eeprom

CmdValues == {"off", "on"}
CalValues == {"a", "b"}
OneCal    == {"a"}
=============================================================================
