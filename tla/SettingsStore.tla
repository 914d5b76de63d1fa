---------------------------- MODULE SettingsStore ----------------------------
(***************************************************************************)
(* What the regulator promises about its settings: they are changed while  *)
(* it runs, and a copy is kept that survives a loss of power.  The copy is *)
(* whole unless a write of it is in progress; power lost outside a write   *)
(* costs nothing, power lost inside one costs at most a return to the      *)
(* default settings: no setting ever comes back with a value it never had. *)
(***************************************************************************)
CONSTANTS
  Cmds, Cals,               \* the values the settings can have
  DefaultCmd, DefaultCal,   \* those of a regulator that has lost its copy
  Torn                      \* a copy that is not in Settings

VARIABLES
  db,         \* the settings in use
  seen,       \* the values each setting has had, the defaults included
  store,      \* the copy: one of Settings, or Torn
  running,    \* the settings have been loaded
  writing     \* the copy is being written

Settings == [cmd : Cmds, cal : Cals]
Default  == [cmd |-> DefaultCmd, cal |-> DefaultCal]

sVars == <<db, seen, store, running, writing>>

StoreInit == /\ db = Default
             /\ seen = [cmd |-> {DefaultCmd}, cal |-> {DefaultCal}]
             /\ store \in Settings \cup {Torn}
             /\ ~running
             /\ ~writing

SeenAlso(s) == [cmd |-> seen.cmd \cup {s.cmd}, cal |-> seen.cal \cup {s.cal}]

\* The settings are changed by a command.
Change == /\ running
          /\ db' \in Settings
          /\ seen' = SeenAlso(db')
          /\ UNCHANGED <<store, running, writing>>

Begin == /\ running \/ store = Torn
         /\ ~writing
         /\ writing' = TRUE
         /\ UNCHANGED <<db, seen, store, running>>

\* While it is written the copy may be torn, or be values that were in use.
Put == /\ writing
       /\ store' \in [cmd : seen.cmd, cal : seen.cal] \cup {Torn}
       /\ UNCHANGED <<db, seen, running, writing>>

\* A write ends with a whole copy; the next one may begin at once.
Finish == /\ writing
          /\ store # Torn
          /\ writing' \in BOOLEAN
          /\ UNCHANGED <<db, seen, store, running>>

\* Loading never changes a whole copy.
Load == /\ ~running
        /\ ~writing
        /\ store # Torn
        /\ db' = store
        /\ seen' = SeenAlso(store)
        /\ running' = TRUE
        /\ UNCHANGED <<store, writing>>

Cut == /\ db' = Default
       /\ store' \in IF writing THEN {store, Torn} ELSE {store}
       /\ running' = FALSE
       /\ writing' = FALSE
       /\ UNCHANGED seen

StoreNext == Change \/ Begin \/ Put \/ Finish \/ Load \/ Cut

StoreSpec == StoreInit /\ [][StoreNext]_sVars
=============================================================================
