------------------------------ MODULE Contactor ------------------------------
(***************************************************************************)
(* What the regulator promises of its contactor when the selector alone    *)
(* commands it, without threads, registers or status bits.  It is closed   *)
(* without a fault and at a level only, and left alone at the smallest     *)
(* angle until it has closed; a fault is looked for only when it is on,    *)
(* and is not forgotten; it is opened by a fault, or at level 0.           *)
(***************************************************************************)
CONSTANTS
  Levels,     \* what the intensity register can hold
  Lit         \* the levels that ask for light

VARIABLES
  contactor,  \* "open", "closing", "on" or "opening"
  fault,      \* a fault is latched
  level,      \* the level selected
  angle       \* the pass angle, "min" or "wide"

cVars == <<contactor, fault, level, angle>>

ContactorInit == /\ contactor = "open"
                 /\ ~fault
                 /\ level \in Levels
                 /\ angle = "min"

Select == /\ level' \in Levels
          /\ UNCHANGED <<contactor, fault, angle>>

Close == /\ contactor = "open"
         /\ ~fault
         /\ level \in Lit
         /\ contactor' = "closing"
         /\ angle' = "min"
         /\ UNCHANGED <<fault, level>>

Closed == /\ contactor = "closing"
          /\ contactor' = "on"
          /\ UNCHANGED <<fault, level, angle>>

\* The angle is regulated while the light is on, and set back at any time but
\* during a closing.
Steer == /\ \/ contactor \in {"on", "opening"} /\ angle' \in {"min", "wide"}
            \/ contactor = "open" /\ angle' = "min"
         /\ UNCHANGED <<contactor, fault, level>>

Detect == /\ contactor = "on"
          /\ fault' = TRUE
          /\ UNCHANGED <<contactor, level, angle>>

Trip == /\ contactor = "on"
        /\ fault
        /\ contactor' = "opening"
        /\ UNCHANGED <<fault, level, angle>>

\* At level 0 the angle may be regulated once more at the crossing that opens.
Opened == /\ \/ contactor = "opening"
             \/ contactor = "on" /\ level = 0
          /\ contactor' = "open"
          /\ angle' \in {"min", "wide"}
          /\ UNCHANGED <<fault, level>>

ContactorNext == Select \/ Close \/ Closed \/ Steer \/ Detect \/ Trip \/ Opened

ContactorSpec == ContactorInit /\ [][ContactorNext]_cVars
=============================================================================
