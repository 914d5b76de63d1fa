----------------------------- MODULE CcrControl -----------------------------
(***************************************************************************)
(* Who closes and opens the main contactor of the regulator, and under     *)
(* whose orders.  Six RT-Thread threads and the zero-crossing interrupt    *)
(* share the registers of g_ccr_data, the contactor pin and the PID        *)
(* reference, with no lock between them:                                   *)
(*                                                                         *)
(*   pid     pid_thread_entry          closes the contactor and starts it  *)
(*   modbus  eMBRegHoldingCB           writes registers, releases the sem  *)
(*   di      di_thread_entry           follows the front-panel selector    *)
(*   adc     adc_sample_thread_entry   latches faults, opens the contactor *)
(*   wcmd    write_cmd_thread_entry    obeys the on_off register           *)
(*   shell   the msh commands of main.c                                    *)
(*   the ISR cross_zero_check_entry    regulates, opens at level 0         *)
(*                                                                         *)
(* A step is the code a thread runs between two points where another       *)
(* actor can act on the same data.  Scheduling is that of the kernel: a    *)
(* thread runs only while every thread of higher priority is blocked,      *)
(* threads of equal priority interleave, and the interrupt comes at any    *)
(* time.  Time is abstracted: a delay ends at any moment.                  *)
(***************************************************************************)
EXTENDS Integers, Sequences

CONSTANTS
  MaxLevel,      \* number of entries of Istd (5 in the code)
  Positions,     \* selector positions the operator uses (inputs G0..G5)
  Requests,      \* Modbus register writes the remote master sends
  ShellCmds,     \* msh commands the maintenance engineer types
  ShellLevels,   \* arguments of the msh command set_idensity
  BootRegs,      \* the registers as loaded at start-up
  MaxSem         \* bound on the write-command semaphore

HoldingRegs == 100           \* S_REG_HOLDING_NREGS
CommandRegs == 0 .. 2        \* on_off, ctrl_mode, intensity
MaxWord     == 65535
Word        == 0 .. MaxWord  \* rt_uint16_t
NoPosition  == -1            \* no selector input is low
NoLevel     == 255           \* initial value of idensity in di_thread_entry
OutOfTable  == -1            \* a read of Istd outside its bounds

RegNames == {"on_off", "ctrl_mode", "intensity", "status", "run_status"}
Commands == {"set_idensity", "relay_on", "relay_off", "set_angle",
             "pid_on", "pid_off"}

ASSUME LevelAssumption == MaxLevel \in 1 .. 254 /\ MaxSem \in Nat \ {0}
ASSUME InputAssumption ==
  /\ Positions \subseteq 0 .. MaxLevel
  /\ ShellCmds \subseteq Commands
  /\ ShellLevels \subseteq 0 .. 255
  /\ \A q \in Requests : /\ DOMAIN q = {"first", "values"}
                         /\ q.first \in Nat
                         /\ q.values \in Seq(Word) \ {<<>>}
  /\ BootRegs \subseteq [RegNames -> Word]
  /\ \A r \in BootRegs : r["status"] = 0 /\ r["run_status"] = 0

VARIABLES
  pin,        \* TRUE: MK_PIN low, the contactor is pulled in
  reg,        \* the registers of g_ccr_data the control logic shares
  ref,        \* pid.ref: 0, the number of an Istd entry, or OutOfTable
  angle,      \* pass angle: "min" (MIN_PASS_ANGLE) or "wide" (above it)
  pidEnable,  \* g_pid_enable
  sem,        \* count of g_write_cmd_sem
  onOffLast,  \* on_off_last of write_cmd_thread_entry
  orders,     \* history of the orders, see below
  pc,         \* where each thread is
  sel,        \* the selector, as the operator has set it
  diLevel,    \* idensity of di_thread_entry
  mb,         \* what is left of the Modbus write in progress
  shLevel,    \* argument of the set_idensity in progress
  behind      \* threads awake since before the closing delay of pid began

(* The fields of orders:                                                    *)
(*   last     the last switching of write_cmd was RELAY_ON                  *)
(*   unheard  on_off was loaded from the EEPROM or stored by Modbus, and no *)
(*            write has ended with a command register since                 *)
(*   crossed  the last RELAY_ON or RELAY_OFF of write_cmd and the shell was *)
(*            a RELAY_ON beside a RELAY_OFF of the other, which has still   *)
(*            to clear the status bit; or Modbus has stored the run status  *)
(*            since                                                         *)
panel == <<sel, diLevel>>
vars  == <<pin, reg, ref, angle, pidEnable, sem, onOffLast, orders, pc,
           sel, diLevel, mb, shLevel, behind>>

Threads == {"pid", "modbus", "di", "adc", "wcmd", "shell"}
Prio    == [pid |-> 8, modbus |-> 11, di |-> 12, adc |-> 15, wcmd |-> 20,
            shell |-> 20]

Labels == {"wait", "closing", "set_ref", "high", "low", "end", "update", "save",
           "test", "compare", "latch", "branch", "delay", "on_pin", "on_set",
           "on_set2", "off_pin", "off_clr", "off_clr2"}

PcOf == [pid    |-> {"wait", "closing", "set_ref"},
         modbus |-> {"wait", "high", "low", "end"},
         di     |-> {"wait", "update", "save"},
         adc    |-> {"wait", "test", "off_pin", "off_clr"},
         wcmd   |-> {"wait", "compare", "latch", "branch", "on_pin", "on_set",
                     "on_set2", "off_pin", "off_clr", "off_clr2", "save",
                     "delay"},
         shell  |-> {"wait", "save", "on_pin", "on_set", "on_set2", "off_pin",
                     "off_clr", "off_clr2"}]

\* Where a thread sleeps, waits for a semaphore, an event, a key or the EEPROM.
Waiting    == {"wait", "closing", "save", "delay"}
Blocked(t) == pc[t] \in Waiting
CanRun(t)  == \A u \in Threads : Prio[u] < Prio[t] => Blocked(u)

\* Thread t is scheduled at "from" and leaves at "to".  The closing delay of
\* 300 ms outlasts what a thread does between two waits (microseconds): it does
\* not end before the threads that were awake when it began have waited again.
Goto(t, from, to) ==
  /\ CanRun(t)
  /\ pc[t] = from
  /\ pc' = [pc EXCEPT ![t] = to]
  /\ behind' = IF to = "closing" THEN {u \in Threads : ~Blocked(u)}
               ELSE IF to \in Waiting THEN behind \ {t}
               ELSE behind

-----------------------------------------------------------------------------
(* The status and alarm words.                                             *)

RelayOn       == reg["run_status"] % 2 = 1
IsFault(word) == word % 256 # 0
FaultExists   == IsFault(reg["status"])

SetRelayBit   == [reg EXCEPT !["run_status"] = IF @ % 2 = 1 THEN @ ELSE @ + 1]
ClrRelayBit   == [reg EXCEPT !["run_status"] = IF @ % 2 = 1 THEN @ - 1 ELSE @]
\* The checks of alarm.c, as far as this module is concerned: a bit of the low
\* byte of the alarm word is set.
LatchFault    == [reg EXCEPT !["status"] = IF IsFault(@) THEN @ ELSE @ + 1]

Istd(i)   == IF i \in 0 .. MaxLevel - 1 THEN i + 1 ELSE OutOfTable
Intensity == reg["intensity"]

-----------------------------------------------------------------------------
Init ==
  /\ pin = FALSE
  /\ reg \in BootRegs
  /\ ref = 0
  /\ angle = "min"
  /\ pidEnable = TRUE
  /\ sem = 0
  /\ onOffLast = 0
  /\ orders = [last |-> FALSE, unheard |-> reg["on_off"] # 0, crossed |-> FALSE]
  /\ pc = [t \in Threads |-> "wait"]
  /\ sel \in Positions \cup {NoPosition}
  /\ diLevel = NoLevel
  /\ mb = [first |-> 0, values |-> <<>>]
  /\ shLevel = 0
  /\ behind = {}

-----------------------------------------------------------------------------
(* pid_thread_entry *)

PidMayClose == /\ pidEnable
               /\ ~RelayOn
               /\ ~FaultExists
               /\ Intensity \in 1 .. MaxLevel

\* A pass of the loop that only sleeps again.
PidIdle ==
  /\ Goto("pid", "wait", "wait")
  /\ ~PidMayClose
  /\ UNCHANGED <<pin, reg, ref, angle, pidEnable, sem, onOffLast, orders,
                 panel, mb, shLevel>>

PidClose_KeepAngle ==
  /\ Goto("pid", "wait", "closing")
  /\ PidMayClose
  /\ pin' = TRUE
  /\ ref' = 0
  /\ UNCHANGED <<angle, reg, pidEnable, sem, onOffLast, orders, panel, mb,
                 shLevel>>

\* RELAY_ON_NO_SET_FALG, minimum angle, pid_para_init, then 300 ms of delay.
PidClose ==
  /\ Goto("pid", "wait", "closing")
  /\ PidMayClose
  /\ pin' = TRUE
  /\ angle' = "min"
  /\ ref' = 0
  /\ UNCHANGED <<reg, pidEnable, sem, onOffLast, orders, panel, mb, shLevel>>

\* The delay is over: the contactor is declared closed.
PidSetStatus ==
  /\ behind = {}
  /\ Goto("pid", "closing", "set_ref")
  /\ reg' = SetRelayBit
  /\ UNCHANGED <<pin, ref, angle, pidEnable, sem, onOffLast, orders, panel,
                 mb, shLevel>>

\* The level is read again, without the check made before the delay.
PidSetRef ==
  /\ Goto("pid", "set_ref", "wait")
  /\ ref' = Istd(Intensity - 1)
  /\ UNCHANGED <<pin, reg, angle, pidEnable, sem, onOffLast, orders, panel,
                 mb, shLevel>>

PidStep == PidIdle \/ PidClose \/ PidSetStatus \/ PidSetRef

-----------------------------------------------------------------------------
(* cross_zero_check_entry: an even, valid crossing, seen with the relay     *)
(* status on.  (Which crossings are valid and even is another module's      *)
(* subject: here any crossing may be one.)  low: the window average of the  *)
(* load current is at most 1 A.                                             *)

ZeroCross_KeepsClosed(low) ==
  /\ RelayOn
  /\ pidEnable
  /\ ref' = IF Intensity > 0 THEN Istd(Intensity - 1) ELSE 0
  /\ angle' \in {"min", "wide"}
  /\ UNCHANGED <<pin, reg, pidEnable, sem, onOffLast, orders, pc, panel, mb,
                 shLevel, behind>>

ZeroCross(low) ==
  LET ends == low /\ Intensity = 0
  IN  /\ RelayOn
      /\ pidEnable
      /\ ref' = IF Intensity > 0 THEN Istd(Intensity - 1) ELSE 0
      /\ angle' \in {"min", "wide"}
      /\ pin' = IF ends THEN FALSE ELSE pin
      /\ reg' = IF ends THEN ClrRelayBit ELSE reg
      /\ UNCHANGED <<pidEnable, sem, onOffLast, orders, pc, panel, mb,
                     shLevel, behind>>

-----------------------------------------------------------------------------
(* eMBRegHoldingCB, MB_REG_WRITE: each register is stored in two halves.    *)

RegAt(i) == CASE i = 0  -> "on_off"
              [] i = 1  -> "ctrl_mode"
              [] i = 2  -> "intensity"
              [] i = 29 -> "status"
              [] i = 30 -> "run_status"
              [] OTHER  -> "other"

Store(i, word) == IF RegAt(i) = "other" THEN reg
                  ELSE [reg EXCEPT ![RegAt(i)] = word]

\* cur | lo, for a cur whose low byte is clear, but for the relay bit another
\* actor may have set since the first half was stored.
OrLow(cur, lo) ==
  (cur \div 256) * 256 + IF cur % 2 = 1 /\ lo % 2 = 0 THEN lo + 1 ELSE lo

\* What storing register i does to the history.
Stored(i) == [orders EXCEPT !.unheard = @ \/ RegAt(i) = "on_off",
                            !.crossed = @ \/ RegAt(i) = "run_status"]

ModbusAccept(q) ==
  /\ sem < MaxSem
  /\ q.first + Len(q.values) <= HoldingRegs
  /\ Goto("modbus", "wait", "high")
  /\ mb' = q
  /\ UNCHANGED <<pin, reg, ref, angle, pidEnable, sem, onOffLast, orders,
                 panel, shLevel>>

ModbusHigh ==
  /\ Goto("modbus", "high", "low")
  /\ reg' = Store(mb.first, (Head(mb.values) \div 256) * 256)
  /\ orders' = Stored(mb.first)
  /\ UNCHANGED <<pin, ref, angle, pidEnable, sem, onOffLast, panel, mb, shLevel>>

ModbusLow ==
  /\ Goto("modbus", "low", IF Len(mb.values) = 1 THEN "end" ELSE "high")
  /\ reg' = IF RegAt(mb.first) = "other" THEN reg
            ELSE Store(mb.first,
                       OrLow(reg[RegAt(mb.first)], Head(mb.values) % 256))
  /\ orders' = Stored(mb.first)
  /\ mb' = [first |-> mb.first + 1, values |-> Tail(mb.values)]
  /\ UNCHANGED <<pin, ref, angle, pidEnable, sem, onOffLast, panel, shLevel>>

EndsInCommandArea_OffByOne(next) == next < 3
EndsInCommandArea(next) == next <= 3

ModbusEnd ==
  /\ Goto("modbus", "end", "wait")
  /\ sem' = IF EndsInCommandArea(mb.first) THEN sem + 1 ELSE sem
  /\ orders' = [orders EXCEPT !.unheard = @ /\ mb.first - 1 \notin CommandRegs]
  /\ mb' = [first |-> 0, values |-> <<>>]
  /\ UNCHANGED <<pin, reg, ref, angle, pidEnable, onOffLast, panel, shLevel>>

ModbusStep == ModbusHigh \/ ModbusLow \/ ModbusEnd

-----------------------------------------------------------------------------
(* di_thread_entry.  ctrl_mode is not consulted.                            *)

OperatorTurns ==
  /\ sel' \in Positions \cup {NoPosition}
  /\ UNCHANGED <<pin, reg, ref, angle, pidEnable, sem, onOffLast, orders, pc,
                 diLevel, mb, shLevel, behind>>

DiLevelRead_NothingKept == sel

\* The inputs are read; without one the last level read is kept.
DiLevelRead == IF sel = NoPosition THEN diLevel ELSE sel

\* get_idensity returns the low byte of the register.
DiRead ==
  LET differs == Intensity % 256 # DiLevelRead /\ DiLevelRead <= MaxLevel
  IN  /\ Goto("di", "wait", IF differs THEN "update" ELSE "wait")
      /\ diLevel' = DiLevelRead
      /\ ref' = IF ~differs THEN ref
                ELSE IF DiLevelRead = 0 THEN 0 ELSE Istd(DiLevelRead - 1)
      /\ UNCHANGED <<pin, reg, angle, pidEnable, sem, onOffLast, orders, sel,
                     mb, shLevel>>

DiUpdate_NotStored ==
  /\ Goto("di", "update", "save")
  /\ UNCHANGED <<pin, reg, ref, angle, pidEnable, sem, onOffLast, orders,
                 panel, mb, shLevel>>

\* update_idensity, then the settings are saved.
DiUpdate ==
  /\ Goto("di", "update", "save")
  /\ reg' = [reg EXCEPT !["intensity"] = diLevel]
  /\ UNCHANGED <<pin, ref, angle, pidEnable, sem, onOffLast, orders, panel,
                 mb, shLevel>>

DiSaved ==
  /\ Goto("di", "save", "wait")
  /\ UNCHANGED <<pin, reg, ref, angle, pidEnable, sem, onOffLast, orders,
                 panel, mb, shLevel>>

DiStep == DiRead \/ DiUpdate \/ DiSaved

-----------------------------------------------------------------------------
(* adc_sample_thread_entry *)

AdcCheck_RelayIgnored ==
  /\ Goto("adc", "wait", "test")
  /\ reg' \in {reg, LatchFault}
  /\ UNCHANGED <<pin, ref, angle, pidEnable, sem, onOffLast, orders, panel,
                 mb, shLevel>>

\* The protection checks run only with the relay status on.
AdcCheck ==
  /\ Goto("adc", "wait", IF RelayOn THEN "test" ELSE "wait")
  /\ reg' \in IF RelayOn THEN {reg, LatchFault} ELSE {reg}
  /\ UNCHANGED <<pin, ref, angle, pidEnable, sem, onOffLast, orders, panel,
                 mb, shLevel>>

AdcTrips_Always == TRUE
AdcTrips == FaultExists

AdcTest ==
  /\ Goto("adc", "test", IF AdcTrips THEN "off_pin" ELSE "wait")
  /\ angle' = IF AdcTrips THEN "min" ELSE angle
  /\ UNCHANGED <<pin, reg, ref, pidEnable, sem, onOffLast, orders, panel, mb,
                 shLevel>>

AdcOffPin_Lost ==
  /\ Goto("adc", "off_pin", "off_clr")
  /\ UNCHANGED <<pin, reg, ref, angle, pidEnable, sem, onOffLast, orders,
                 panel, mb, shLevel>>

AdcOffPin ==
  /\ Goto("adc", "off_pin", "off_clr")
  /\ pin' = FALSE
  /\ UNCHANGED <<reg, ref, angle, pidEnable, sem, onOffLast, orders, panel,
                 mb, shLevel>>

AdcOffClr_BitKept ==
  /\ Goto("adc", "off_clr", "wait")
  /\ UNCHANGED <<pin, reg, ref, angle, pidEnable, sem, onOffLast, orders,
                 panel, mb, shLevel>>

AdcOffClr ==
  /\ Goto("adc", "off_clr", "wait")
  /\ reg' = ClrRelayBit
  /\ UNCHANGED <<pin, ref, angle, pidEnable, sem, onOffLast, orders, panel,
                 mb, shLevel>>

AdcStep == AdcCheck \/ AdcTest \/ AdcOffPin \/ AdcOffClr

-----------------------------------------------------------------------------
(* RELAY_ON and RELAY_OFF followed by a second write of the status bit, as  *)
(* write_cmd_thread_entry and the msh commands have it.                     *)

Switchers == {"wcmd", "shell"}
AfterSwitch(t) == IF t = "wcmd" THEN "save" ELSE "wait"
IsClearing(t)  == pc[t] \in {"off_clr", "off_clr2"}

SwitchPin(t, from, to, closed) ==
  /\ Goto(t, from, to)
  /\ pin' = closed
  /\ orders' = [orders EXCEPT
                  !.last    = IF t = "wcmd" THEN closed ELSE @,
                  !.crossed = closed /\ \E u \in Switchers \ {t} : IsClearing(u)]
  /\ UNCHANGED <<reg, ref, angle, pidEnable, sem, onOffLast, panel, mb, shLevel>>

SwitchBit(t, from, to, word) ==
  /\ Goto(t, from, to)
  /\ reg' = word
  /\ UNCHANGED <<pin, ref, angle, pidEnable, sem, onOffLast, orders, panel,
                 mb, shLevel>>

RelayOnStep_NoStatus(t) == SwitchPin(t, "on_pin", AfterSwitch(t), TRUE)

RelayOnStep(t) ==
  \/ SwitchPin(t, "on_pin", "on_set", TRUE)
  \/ SwitchBit(t, "on_set", "on_set2", SetRelayBit)
  \/ SwitchBit(t, "on_set2", AfterSwitch(t), SetRelayBit)

RelayOffStep(t) ==
  \/ SwitchPin(t, "off_pin", "off_clr", FALSE)
  \/ SwitchBit(t, "off_clr", "off_clr2", ClrRelayBit)
  \/ SwitchBit(t, "off_clr2", AfterSwitch(t), ClrRelayBit)

-----------------------------------------------------------------------------
(* write_cmd_thread_entry *)

WcmdTake ==
  /\ sem > 0
  /\ Goto("wcmd", "wait", "compare")
  /\ sem' = sem - 1
  /\ UNCHANGED <<pin, reg, ref, angle, pidEnable, onOffLast, orders, panel,
                 mb, shLevel>>

WcmdCompare ==
  /\ Goto("wcmd", "compare",
          IF reg["on_off"] # onOffLast THEN "latch" ELSE "save")
  /\ UNCHANGED <<pin, reg, ref, angle, pidEnable, sem, onOffLast, orders,
                 panel, mb, shLevel>>

WcmdLatch ==
  /\ Goto("wcmd", "latch", "branch")
  /\ onOffLast' = reg["on_off"]
  /\ UNCHANGED <<pin, reg, ref, angle, pidEnable, sem, orders, panel, mb,
                 shLevel>>

WcmdBranch ==
  /\ Goto("wcmd", "branch", IF reg["on_off"] # 0 THEN "on_pin" ELSE "off_pin")
  /\ UNCHANGED <<pin, reg, ref, angle, pidEnable, sem, onOffLast, orders,
                 panel, mb, shLevel>>

\* The settings have been saved; rt_thread_mdelay(5); next command.
WcmdSaved ==
  /\ \/ Goto("wcmd", "save", "delay")
     \/ Goto("wcmd", "delay", "wait")
  /\ UNCHANGED <<pin, reg, ref, angle, pidEnable, sem, onOffLast, orders,
                 panel, mb, shLevel>>

WcmdStep == \/ WcmdTake \/ WcmdCompare \/ WcmdLatch \/ WcmdBranch \/ WcmdSaved
            \/ RelayOnStep("wcmd") \/ RelayOffStep("wcmd")

-----------------------------------------------------------------------------
(* The msh commands of main.c.                                              *)

\* set_idensity: the level is stored if it is in range, then saved.
ShellSetLevel(v) ==
  /\ "set_idensity" \in ShellCmds
  /\ Goto("shell", "wait", "save")
  /\ reg' = IF v <= MaxLevel THEN [reg EXCEPT !["intensity"] = v] ELSE reg
  /\ shLevel' = v
  /\ UNCHANGED <<pin, ref, angle, pidEnable, sem, onOffLast, orders, panel, mb>>

\* After the save: level 0 opens the contactor, a level of the table sets ref.
ShellApplyLevel ==
  /\ Goto("shell", "save", IF shLevel = 0 THEN "off_pin" ELSE "wait")
  /\ ref' = IF shLevel \in 1 .. MaxLevel THEN Istd(shLevel - 1) ELSE ref
  /\ shLevel' = 0
  /\ UNCHANGED <<pin, reg, angle, pidEnable, sem, onOffLast, orders, panel, mb>>

ShellRelay(cmd, to) ==
  /\ cmd \in ShellCmds
  /\ Goto("shell", "wait", to)
  /\ UNCHANGED <<pin, reg, ref, angle, pidEnable, sem, onOffLast, orders,
                 panel, mb, shLevel>>

ShellSetAngle ==
  /\ "set_angle" \in ShellCmds
  /\ Goto("shell", "wait", "wait")
  /\ angle' \in {"min", "wide"}
  /\ UNCHANGED <<pin, reg, ref, pidEnable, sem, onOffLast, orders, panel, mb,
                 shLevel>>

ShellPid(cmd, on) ==
  /\ cmd \in ShellCmds
  /\ Goto("shell", "wait", "wait")
  /\ pidEnable' = on
  /\ UNCHANGED <<pin, reg, ref, angle, sem, onOffLast, orders, panel, mb,
                 shLevel>>

ShellCommand == \/ \E v \in ShellLevels : ShellSetLevel(v)
                \/ ShellRelay("relay_on", "on_pin")
                \/ ShellRelay("relay_off", "off_pin")
                \/ ShellSetAngle
                \/ ShellPid("pid_on", TRUE)
                \/ ShellPid("pid_off", FALSE)

ShellStep == ShellApplyLevel \/ RelayOnStep("shell") \/ RelayOffStep("shell")

-----------------------------------------------------------------------------
Next == \/ PidStep
        \/ \E low \in BOOLEAN : ZeroCross(low)
        \/ \E q \in Requests : ModbusAccept(q)
        \/ ModbusStep
        \/ OperatorTurns
        \/ DiStep
        \/ AdcStep
        \/ WcmdStep
        \/ ShellCommand
        \/ ShellStep

Spec == Init /\ [][Next]_vars

(***************************************************************************)
(* Fairness.  Every thread but the shell's waiting for a key sleeps 20 ms  *)
(* or more in each round of its loop, so the processor is free again and   *)
(* again and each thread that wants to run does: strong fairness, since a  *)
(* thread is disabled whenever one above it is awake.  Crossings keep      *)
(* coming while mains is present, and with a reference of 0 the current    *)
(* does fall below 1 A: ZeroCross(TRUE).  Commands, the operator and the   *)
(* detection of a fault are not fair: they may never come.                 *)
(***************************************************************************)
Fairness == /\ SF_vars(PidStep)
            /\ SF_vars(ModbusStep)
            /\ SF_vars(DiStep)
            /\ SF_vars(AdcStep)
            /\ SF_vars(WcmdStep)
            /\ SF_vars(ShellStep)
            /\ WF_vars(ZeroCross(TRUE))

FairSpec == Spec /\ Fairness

-----------------------------------------------------------------------------
(* What the control logic promises.                                         *)

\* The shared state has the types the code gives it, whatever is commanded.
TypeOK ==
  /\ pin \in BOOLEAN /\ pidEnable \in BOOLEAN
  /\ orders \in [last : BOOLEAN, unheard : BOOLEAN, crossed : BOOLEAN]
  /\ reg \in [RegNames -> Word]
  /\ ref \in 0 .. MaxLevel \cup {OutOfTable}
  /\ angle \in {"min", "wide"}
  /\ sem \in 0 .. MaxSem
  /\ onOffLast \in Word
  /\ pc \in [Threads -> Labels]
  /\ \A t \in Threads : pc[t] \in PcOf[t]
  /\ sel \in Positions \cup {NoPosition}
  /\ diLevel \in Positions \cup {NoLevel}
  /\ mb.first \in Nat /\ mb.values \in Seq(Word)
  /\ pc["modbus"] \in {"high", "low"} => mb.values # <<>>
  /\ pc["modbus"] # "wait" => sem < MaxSem
  /\ shLevel \in 0 .. 255
  /\ behind \subseteq Threads

\* Only the selector commands the regulator.
LocalOperation == Requests = {} /\ ShellCmds = {}

\* The status bit and the contactor agree, except while adc is inside RELAY_OFF
\* and during the closing delay of pid (pid_app.c:303-335, alarm.h:18-21):
\* the bit is set by a thread that slept 300 ms since it closed the contactor.
ContactorMatchesStatus ==
  /\ RelayOn /\ ~pin => pc["adc"] = "off_clr"
  /\ pin /\ ~RelayOn => pc["pid"] = "closing"

\* Regulation starts on a closed contactor and from the minimum pass angle,
\* although the interrupt and adc write the angle too (pid_app.c:320-325).
SoftStart == [][~RelayOn /\ RelayOn' => pin /\ angle = "min"]_vars

\* The light does not go out without a cause: the contactor opens only under a
\* latched fault or at level 0 (adc_sample.c:185-189, cross_zero_check.c:231).
OpensOnlyForCause == [][pin /\ ~pin' => FaultExists \/ Intensity = 0]_vars

\* No order is overlooked between Modbus and write_cmd once a write has released
\* the semaphore for it: when write_cmd rests and the semaphore is empty, on_off
\* is the value it has latched, whatever reads and writes of it have crossed.
\* Overlooked are two orders: the one in the saved image, and the one in a write
\* that runs past the command area; both wait for a later write
\* (i2c_app.c:184-189, user_mb_app.c:141-152).
OrderSeen ==
  pc["wcmd"] = "wait" /\ sem = 0 /\ ~orders.unheard => reg["on_off"] = onOffLast

\* No thread is between the pin and the status bit of a RELAY_ON or RELAY_OFF.
NoSwitching ==
  \A t \in Threads : pc[t] \notin {"on_set", "on_set2", "off_clr", "off_clr2"}

\* "The contactor is not closed" (pid_app.c:317): status off means open, but for
\* the closing delay of pid itself and for one order of the steps: a RELAY_ON of
\* write_cmd or the shell inside a RELAY_OFF of the other, which have the same
\* priority (i2c_app.c:192-201, main.c:114-133); or a run status the master has
\* written.  Whatever else comes between the steps of pid, adc, the interrupt,
\* write_cmd and the shell does no harm.
OffMeansOpen ==
  NoSwitching /\ ~RelayOn /\ pin => pc["pid"] = "closing" \/ orders.crossed

\* A fault found while regulating opens the contactor (adc_sample.c:170-189).
FaultTrips == (FaultExists /\ RelayOn) ~> ~pin

\* A round of adc that finds the status on and ends under a latched fault leaves
\* the contactor open, whoever closes or opens it meanwhile: pid may come between
\* its steps, and write_cmd and the shell look at no alarm (i2c_app.c:192,
\* adc_sample.c:185).  A round that finds the status off looks for no fault.
RoundTrips ==
  [][pc["adc"] # "wait" /\ pc'["adc"] = "wait" /\ FaultExists' => ~pin']_vars

\* Selector at 0 for good: the contactor opens, for good, even if the turn came
\* during the closing delay (di_check.c:80-93, cross_zero_check.c:231-234).
ZeroLevelOpens == <>[](sel = 0) => <>[]~pin

\* Selector at a level for good: the regulator ends up closed and regulating to
\* that level, unless a fault is latched (di_check.c, pid_app.c:290-340).
SelectedLevelHeld ==
  \A k \in Positions \ {0} :
    <>[](sel = k) => <>[](FaultExists \/ (pin /\ RelayOn /\ ref = k))

ContactorState == CASE pin /\ RelayOn   -> "on"
                    [] pin /\ ~RelayOn  -> "closing"
                    [] ~pin /\ RelayOn  -> "opening"
                    [] ~pin /\ ~RelayOn -> "open"

Plain == INSTANCE Contactor WITH
           Levels    <- Word,
           Lit       <- 1 .. MaxLevel,
           contactor <- ContactorState,
           fault     <- FaultExists,
           level     <- Intensity,
           angle     <- angle

\* Under the selector alone pin, status bit, alarm word, level and angle together
\* are one contactor as Contactor has it, whatever pid, adc and the interrupt do
\* between each other's steps (pid_app.c:303-335, adc_sample.c:170-190,
\* cross_zero_check.c:216-234, di_check.c:80-93).
ImplementsContactor == Plain!ContactorSpec

-----------------------------------------------------------------------------
(* What comments of the repository say, and the code does not do.           *)

\* "the contactor is already closed": status on, and no fault about to trip it,
\* means closed (pid_app.c:335).
OnMeansClosed == NoSwitching /\ RelayOn /\ ~FaultExists => pin

\* on_off "0:off 1:on": when Modbus and write_cmd rest, the last switching done
\* was in the direction on_off says (database.h:58).
OrderObeyed ==
  pc["wcmd"] = "wait" /\ pc["modbus"] = "wait" /\ sem = 0
    => orders.last = (reg["on_off"] # 0)
=============================================================================
