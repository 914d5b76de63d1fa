--------------------------- MODULE CcrLocalProofs ---------------------------
(***************************************************************************)
(* Under local operation (only the selector commands) the contactor and    *)
(* the status bit agree, the regulator starts softly, opens for a cause    *)
(* only, and all of it together is a Contactor: for every table size and   *)
(* every set of positions.                                                 *)
(***************************************************************************)
EXTENDS CcrControlProofs

\* The threads that wait for Modbus and the shell never leave their wait.
Quiet == /\ sem = 0
         /\ \A t \in {"modbus", "wcmd", "shell"} : pc[t] = "wait"

\* Once adc has tested a fault, the alarm word keeps it.
TripUnderFault == pc["adc"] \in {"off_pin", "off_clr"} => FaultExists

\* Nobody closes between the two halves of RELAY_OFF.
TripOpens == pc["adc"] = "off_clr" => ~pin

\* During the closing delay nothing else touches contactor, angle or status:
\* the protection and the interrupt work only with the status bit set.
ClosingAlone ==
  pc["pid"] = "closing" => pin /\ angle = "min" /\ ~RelayOn /\ ~FaultExists

LocalInv == /\ TypeOK
            /\ Quiet
            /\ TripUnderFault
            /\ TripOpens
            /\ ClosingAlone
            /\ ContactorMatchesStatus

LEMMA RunStatusDecides ==
  /\ RelayOn <=> reg["run_status"] % 2 = 1
  /\ FaultExists <=> IsFault(reg["status"])
BY DEF RelayOn, FaultExists

LEMMA InitLocal == ASSUME LocalOperation PROVE Init => LocalInv
<1> SUFFICES ASSUME Init PROVE LocalInv
  OBVIOUS
<1>1. TypeOK
  BY InitTypeOK
<1>2. \A t \in Threads : pc[t] = "wait"
  BY DEF Init
<1>3. reg["run_status"] = 0
  BY InputAssumption DEF Init
<1>4. ~RelayOn /\ ~pin
  BY <1>3 DEF RelayOn, Init
<1>. QED
  BY <1>1, <1>2, <1>4 DEF Init, LocalInv, Quiet, TripUnderFault, TripOpens,
     ClosingAlone, ContactorMatchesStatus, Threads

\* What a scheduled step of pid, di or adc does to the program counters.
LEMMA LocalGoto ==
  ASSUME TypeOK, NEW t \in {"pid", "di", "adc"}, NEW from,
         NEW to \in Labels \cap PcOf[t], Goto(t, from, to)
  PROVE  /\ pc[t] = from /\ pc'[t] = to
         /\ \A u \in Threads \ {t} : pc'[u] = pc[u]
BY GotoType, TypeParts DEF Threads

LEMMA PidLocal == LocalInv /\ PidStep => LocalInv'
<1> SUFFICES ASSUME LocalInv, PidStep PROVE LocalInv'
  OBVIOUS
<1>1. TypeOK /\ TypeOK'
  BY PidType DEF LocalInv
<1>2. {"wait", "closing", "set_ref"} \subseteq Labels \cap PcOf["pid"]
  BY DEF Labels, PcOf
<1>3. {"pid", "adc", "modbus", "wcmd", "shell"} \subseteq Threads
  BY DEF Threads
<1> USE DEF LocalInv, Quiet, TripUnderFault, TripOpens, ClosingAlone,
            ContactorMatchesStatus
<1>4. CASE PidIdle
  <2>1. pc'["pid"] = "wait" /\ \A u \in Threads \ {"pid"} : pc'[u] = pc[u]
    BY <1>1, <1>2, <1>4, LocalGoto DEF PidIdle
  <2>2. pc["pid"] = "wait"
    BY <1>4 DEF PidIdle, Goto
  <2>. QED
    BY <1>1, <1>3, <1>4, <2>1, <2>2 DEF PidIdle, RelayOn, FaultExists
<1>5. CASE PidClose
  <2>1. pc'["pid"] = "closing" /\ \A u \in Threads \ {"pid"} : pc'[u] = pc[u]
    BY <1>1, <1>2, <1>5, LocalGoto DEF PidClose
  <2>2. ~RelayOn /\ ~FaultExists
    BY <1>5 DEF PidClose, PidMayClose
  <2>. QED
    BY <1>1, <1>3, <1>5, <2>1, <2>2 DEF PidClose, RelayOn, FaultExists
<1>6. CASE PidSetStatus
  <2>1. pc["pid"] = "closing" /\ pc'["pid"] = "set_ref"
        /\ \A u \in Threads \ {"pid"} : pc'[u] = pc[u]
    BY <1>1, <1>2, <1>6, LocalGoto DEF PidSetStatus
  <2>2. reg'["status"] = reg["status"] /\ RelayOn'
    BY <1>1, <1>6, TypeParts, SetRelay DEF PidSetStatus, RegNames, RelayOn
  <2>. QED
    BY <1>1, <1>3, <1>6, <2>1, <2>2 DEF PidSetStatus, FaultExists
<1>7. CASE PidSetRef
  <2>1. pc["pid"] = "set_ref" /\ pc'["pid"] = "wait"
        /\ \A u \in Threads \ {"pid"} : pc'[u] = pc[u]
    BY <1>1, <1>2, <1>7, LocalGoto DEF PidSetRef
  <2>. QED
    BY <1>1, <1>3, <1>7, <2>1 DEF PidSetRef, RelayOn, FaultExists
<1>. QED
  BY <1>4, <1>5, <1>6, <1>7 DEF PidStep

LEMMA AdcLocal == LocalInv /\ AdcStep => LocalInv'
<1> SUFFICES ASSUME LocalInv, AdcStep PROVE LocalInv'
  OBVIOUS
<1>1. TypeOK /\ TypeOK'
  BY AdcType DEF LocalInv
<1>2. {"wait", "test", "off_pin", "off_clr"} \subseteq Labels \cap PcOf["adc"]
  BY DEF Labels, PcOf
<1>3. {"pid", "adc", "modbus", "wcmd", "shell"} \subseteq Threads
  BY DEF Threads
<1> USE DEF LocalInv, Quiet, TripUnderFault, TripOpens, ClosingAlone,
            ContactorMatchesStatus
<1>4. CASE AdcCheck
  <2>1. pc["adc"] = "wait" /\ pc'["adc"] \in {"wait", "test"}
        /\ \A u \in Threads \ {"adc"} : pc'[u] = pc[u]
    BY <1>1, <1>2, <1>4, LocalGoto DEF AdcCheck
  <2>2. reg'["run_status"] = reg["run_status"]
    BY <1>1, <1>4, TypeParts, Latch DEF AdcCheck, RegNames
  <2>3. ~RelayOn => reg' = reg
    BY <1>4 DEF AdcCheck
  <2>. QED
    BY <1>1, <1>3, <1>4, <2>1, <2>2, <2>3 DEF AdcCheck, RelayOn, FaultExists
<1>5. CASE AdcTest
  <2>1. pc["adc"] = "test" /\ pc'["adc"] = (IF AdcTrips THEN "off_pin" ELSE "wait")
        /\ \A u \in Threads \ {"adc"} : pc'[u] = pc[u]
    BY <1>1, <1>2, <1>5, LocalGoto DEF AdcTest
  <2>2. angle = "min" => angle' = "min"
    BY <1>5 DEF AdcTest
  <2>. QED
    BY <1>1, <1>3, <1>5, <2>1, <2>2 DEF AdcTest, AdcTrips, RelayOn, FaultExists
<1>6. CASE AdcOffPin
  <2>1. pc["adc"] = "off_pin" /\ pc'["adc"] = "off_clr"
        /\ \A u \in Threads \ {"adc"} : pc'[u] = pc[u]
    BY <1>1, <1>2, <1>6, LocalGoto DEF AdcOffPin
  <2>. QED
    BY <1>1, <1>3, <1>6, <2>1 DEF AdcOffPin, RelayOn, FaultExists
<1>7. CASE AdcOffClr
  <2>1. pc["adc"] = "off_clr" /\ pc'["adc"] = "wait"
        /\ \A u \in Threads \ {"adc"} : pc'[u] = pc[u]
    BY <1>1, <1>2, <1>7, LocalGoto DEF AdcOffClr
  <2>2. ~RelayOn'
    BY <1>1, <1>7, TypeParts, ClrRelay DEF AdcOffClr, RelayOn
  <2>. QED
    BY <1>1, <1>3, <1>7, <2>1, <2>2 DEF AdcOffClr, RelayOn, FaultExists
<1>. QED
  BY <1>4, <1>5, <1>6, <1>7 DEF AdcStep

LEMMA DiLocal == LocalInv /\ (DiStep \/ OperatorTurns) => LocalInv'
<1> SUFFICES ASSUME LocalInv, DiStep \/ OperatorTurns PROVE LocalInv'
  OBVIOUS
<1>1. TypeOK /\ TypeOK'
  BY DiType DEF LocalInv
<1>2. {"wait", "update", "save"} \subseteq Labels \cap PcOf["di"]
  BY DEF Labels, PcOf
<1>3. {"pid", "adc", "modbus", "wcmd", "shell"} \subseteq Threads \ {"di"}
  BY DEF Threads
<1> USE DEF LocalInv, Quiet, TripUnderFault, TripOpens, ClosingAlone,
            ContactorMatchesStatus
<1>4. CASE DiRead
  <2> DEFINE to == IF Intensity % 256 # DiLevelRead /\ DiLevelRead <= MaxLevel
                   THEN "update" ELSE "wait"
  <2>1. to \in Labels \cap PcOf["di"] /\ Goto("di", "wait", to)
    BY <1>2, <1>4 DEF DiRead
  <2> HIDE DEF to
  <2>2. \A u \in Threads \ {"di"} : pc'[u] = pc[u]
    BY <1>1, <2>1, LocalGoto
  <2>3. UNCHANGED <<pin, reg, angle, sem>>
    BY <1>4 DEF DiRead
  <2>. QED
    BY <1>1, <1>3, <2>2, <2>3 DEF RelayOn, FaultExists
<1>5. CASE DiUpdate
  <2>1. \A u \in Threads \ {"di"} : pc'[u] = pc[u]
    BY <1>1, <1>2, <1>5, LocalGoto DEF DiUpdate
  <2>2. /\ reg'["status"] = reg["status"]
        /\ reg'["run_status"] = reg["run_status"]
    BY <1>1, <1>5 DEF DiUpdate, TypeOK, RegNames
  <2>. QED
    BY <1>1, <1>3, <1>5, <2>1, <2>2 DEF DiUpdate, RelayOn, FaultExists
<1>6. CASE DiSaved
  <2>1. \A u \in Threads \ {"di"} : pc'[u] = pc[u]
    BY <1>1, <1>2, <1>6, LocalGoto DEF DiSaved
  <2>. QED
    BY <1>1, <1>3, <1>6, <2>1 DEF DiSaved, RelayOn, FaultExists
<1>7. CASE OperatorTurns
  BY <1>1, <1>7 DEF OperatorTurns, RelayOn, FaultExists
<1>. QED
  BY <1>4, <1>5, <1>6, <1>7 DEF DiStep

LEMMA CrossLocal ==
  ASSUME LocalInv, NEW low \in BOOLEAN, ZeroCross(low) PROVE LocalInv'
<1>1. TypeOK /\ TypeOK'
  BY CrossType DEF LocalInv
<1>2. RelayOn /\ pc' = pc /\ sem' = sem
  BY DEF ZeroCross
<1>3. \/ pin' = pin /\ reg' = reg
      \/ pin' = FALSE /\ reg' = ClrRelayBit
  BY DEF ZeroCross
<1>4. CASE pin' = pin /\ reg' = reg
  BY <1>1, <1>2, <1>4 DEF LocalInv, Quiet, TripUnderFault, TripOpens, ClosingAlone,
     ContactorMatchesStatus, RelayOn, FaultExists
<1>5. CASE pin' = FALSE /\ reg' = ClrRelayBit
  <2>1. ~RelayOn' /\ reg'["status"] = reg["status"]
    BY <1>1, <1>5, TypeParts, ClrRelay DEF RelayOn, RegNames
  <2>. QED
    BY <1>1, <1>2, <1>5, <2>1 DEF LocalInv, Quiet, TripUnderFault, TripOpens,
       ClosingAlone, ContactorMatchesStatus, FaultExists
<1>. QED
  BY <1>3, <1>4, <1>5

\* Nothing wakes write_cmd, the shell or the Modbus thread.
LEMMA OthersIdle ==
  ASSUME LocalOperation, LocalInv
  PROVE  /\ ~WcmdStep /\ ~ShellStep /\ ~ShellCommand /\ ~ModbusStep
         /\ ~\E q \in Requests : ModbusAccept(q)
<1>1. pc["wcmd"] = "wait" /\ pc["shell"] = "wait" /\ pc["modbus"] = "wait"
      /\ sem = 0
  BY DEF LocalInv, Quiet
<1>2. ~WcmdStep
  BY <1>1 DEF WcmdStep, WcmdTake, WcmdCompare, WcmdLatch, WcmdBranch, WcmdSaved,
     RelayOnStep, RelayOffStep, SwitchPin, SwitchBit, Goto
<1>3. ~ShellStep /\ ~ModbusStep
  BY <1>1 DEF ShellStep, ShellApplyLevel, RelayOnStep, RelayOffStep, SwitchPin,
     SwitchBit, ModbusStep, ModbusHigh, ModbusLow, ModbusEnd, Goto
<1>4. ~ShellCommand
  BY DEF LocalOperation, ShellCommand, ShellSetLevel, ShellRelay, ShellSetAngle,
     ShellPid
<1>. QED
  BY <1>2, <1>3, <1>4 DEF LocalOperation

\* Under local operation only these steps remain.
LEMMA LocalSteps ==
  ASSUME LocalOperation, LocalInv, Next
  PROVE  \/ PidStep
         \/ \E low \in BOOLEAN : ZeroCross(low)
         \/ DiStep \/ OperatorTurns
         \/ AdcStep
BY OthersIdle DEF Next

LEMMA LocalInductive ==
  ASSUME LocalOperation PROVE LocalInv /\ [Next]_vars => LocalInv'
<1> SUFFICES ASSUME LocalInv, [Next]_vars PROVE LocalInv'
  OBVIOUS
<1>1. CASE UNCHANGED vars
  BY <1>1 DEF vars, panel, LocalInv, TypeOK, Quiet, TripUnderFault, TripOpens,
     ClosingAlone, ContactorMatchesStatus, RelayOn, FaultExists
<1>2. CASE Next
  BY <1>2, LocalSteps, PidLocal, CrossLocal, DiLocal, AdcLocal
<1>. QED
  BY <1>1, <1>2

\* Under local operation the status bit and the contactor agree at every
\* moment, but for the two windows the code opens itself: inside RELAY_OFF of
\* adc and during the closing delay of pid.
THEOREM LocalContactorMatchesStatus ==
  ASSUME LocalOperation PROVE Spec => []ContactorMatchesStatus
<1>1. LocalInv => ContactorMatchesStatus
  BY DEF LocalInv
<1>. QED
  BY InitLocal, LocalInductive, <1>1, PTL DEF Spec

\* Under local operation the status bit is set, and with it regulation begins,
\* only on a closed contactor and from the minimum pass angle.
THEOREM LocalSoftStart == ASSUME LocalOperation PROVE Spec => SoftStart
<1>1. LocalInv /\ [Next]_vars => [~RelayOn /\ RelayOn' => pin /\ angle = "min"]_vars
  <2> SUFFICES ASSUME LocalInv, Next, ~RelayOn, RelayOn'
               PROVE  pin /\ angle = "min"
    BY DEF RelayOn, vars
  <2>1. TypeOK
    BY DEF LocalInv
  <2>2. CASE PidSetStatus
    BY <2>2 DEF PidSetStatus, Goto, LocalInv, ClosingAlone
  <2>3. ASSUME NEW low \in BOOLEAN, ZeroCross(low) PROVE FALSE
    BY <2>3 DEF ZeroCross
  <2>4. CASE DiStep
    <3>1. reg'["run_status"] = reg["run_status"]
      BY <2>1, <2>4 DEF DiStep, DiRead, DiUpdate, DiSaved, TypeOK, RegNames
    <3>. QED
      BY <3>1 DEF RelayOn
  <2>5. CASE AdcStep
    <3>1. reg'["run_status"] = reg["run_status"] \/ reg' = ClrRelayBit
      BY <2>1, <2>5, TypeParts, Latch
      DEF AdcStep, AdcCheck, AdcTest, AdcOffPin, AdcOffClr, RegNames
    <3>. QED
      BY <2>1, <3>1, TypeParts, ClrRelay DEF RelayOn
  <2>6. CASE PidIdle \/ PidClose \/ PidSetRef \/ OperatorTurns
    BY <2>6 DEF PidIdle, PidClose, PidSetRef, OperatorTurns, RelayOn
  <2>. QED
    BY <2>2, <2>3, <2>4, <2>5, <2>6, LocalSteps DEF PidStep
<1>. QED
  BY InitLocal, LocalInductive, <1>1, PTL DEF Spec, SoftStart

\* Under local operation the light does not go out without a cause: a step that
\* opens the contactor finds a latched fault or the level 0.
THEOREM LocalOpensOnlyForCause ==
  ASSUME LocalOperation PROVE Spec => OpensOnlyForCause
<1>1. LocalInv /\ [Next]_vars => [pin /\ ~pin' => FaultExists \/ Intensity = 0]_vars
  <2> SUFFICES ASSUME LocalInv, Next, pin, ~pin' PROVE FaultExists \/ Intensity = 0
    BY DEF vars
  <2>1. CASE AdcOffPin
    BY <2>1 DEF AdcOffPin, Goto, LocalInv, TripUnderFault
  <2>2. ASSUME NEW low \in BOOLEAN, ZeroCross(low) PROVE Intensity = 0
    BY <2>2 DEF ZeroCross
  <2>3. CASE PidStep \/ DiStep \/ OperatorTurns \/ AdcCheck \/ AdcTest \/ AdcOffClr
    BY <2>3 DEF PidStep, PidIdle, PidClose, PidSetStatus, PidSetRef, DiStep, DiRead,
       DiUpdate, DiSaved, OperatorTurns, AdcCheck, AdcTest, AdcOffClr
  <2>. QED
    BY <2>1, <2>2, <2>3, LocalSteps DEF AdcStep
<1>. QED
  BY InitLocal, LocalInductive, <1>1, PTL DEF Spec, OpensOnlyForCause

\* Under local operation a round of adc that ends under a latched fault leaves the
\* contactor open (adc_sample.c:185-190): pid, alone able to close it, looks at the
\* alarms first, and finds the fault adc has tested.
THEOREM LocalFaultyRoundsTrip ==
  ASSUME LocalOperation PROVE Spec => RoundTrips
<1>1. LocalInv /\ [Next]_vars
        => [pc["adc"] # "wait" /\ pc'["adc"] = "wait" /\ FaultExists' => ~pin']_vars
  <2> SUFFICES ASSUME LocalInv, Next, pc["adc"] # "wait", pc'["adc"] = "wait",
                      FaultExists'
               PROVE  ~pin'
    BY DEF vars
  <2>1. TypeOK /\ {"wait", "test", "off_pin", "off_clr"} \subseteq Labels \cap PcOf["adc"]
    BY DEF LocalInv, Labels, PcOf
  <2>2. CASE PidStep \/ DiStep
    <3>1. ASSUME NEW t \in {"pid", "di"}, NEW from, NEW to, Goto(t, from, to)
          PROVE  pc'["adc"] = pc["adc"]
      BY <2>1, <3>1 DEF Goto, TypeOK, Threads
    <3>. QED
      BY <2>2, <3>1 DEF PidStep, PidIdle, PidClose, PidSetStatus, PidSetRef, DiStep,
         DiRead, DiUpdate, DiSaved
  <2>3. CASE OperatorTurns \/ \E low \in BOOLEAN : ZeroCross(low)
    BY <2>3 DEF OperatorTurns, ZeroCross
  <2>4. CASE AdcCheck \/ AdcOffPin
    BY <2>1, <2>4, LocalGoto DEF AdcCheck, AdcOffPin, Goto
  <2>5. CASE AdcTest
    BY <2>1, <2>5, LocalGoto DEF AdcTest, AdcTrips, FaultExists
  <2>6. CASE AdcOffClr
    BY <2>6 DEF AdcOffClr, Goto, LocalInv, TripOpens
  <2>. QED
    BY <2>2, <2>3, <2>4, <2>5, <2>6, LocalSteps DEF AdcStep
<1>. QED
  BY InitLocal, LocalInductive, <1>1, PTL DEF Spec, RoundTrips

-----------------------------------------------------------------------------
(* The contactor as a whole: each step is a step of Contactor.              *)

LEMMA StateOf ==
  ASSUME pin \in BOOLEAN
  PROVE  /\ ContactorState = "on" <=> pin /\ RelayOn
         /\ ContactorState = "closing" <=> pin /\ ~RelayOn
         /\ ContactorState = "opening" <=> ~pin /\ RelayOn
         /\ ContactorState = "open" <=> ~pin /\ ~RelayOn
<1>1. RelayOn \in BOOLEAN
  BY DEF RelayOn
<1>2. CASE pin /\ RelayOn
  BY <1>2 DEF ContactorState
<1>3. CASE pin /\ ~RelayOn
  BY <1>3 DEF ContactorState
<1>4. CASE ~pin /\ RelayOn
  BY <1>4 DEF ContactorState
<1>5. CASE ~pin /\ ~RelayOn
  BY <1>5 DEF ContactorState
<1>. QED
  BY <1>1, <1>2, <1>3, <1>4, <1>5

\* A step that leaves pin and registers alone leaves the contactor alone.
LEMMA SameContactor ==
  ASSUME UNCHANGED <<pin, reg>>
  PROVE  UNCHANGED <<ContactorState, FaultExists, Intensity>>
BY DEF ContactorState, RelayOn, FaultExists, Intensity

\* Setting or clearing the relay bit touches neither alarm word nor level.
LEMMA RelayBitSet ==
  ASSUME TypeOK, reg' = SetRelayBit
  PROVE  RelayOn' /\ UNCHANGED <<FaultExists, Intensity>>
BY TypeParts, SetRelay DEF RelayOn, FaultExists, Intensity, RegNames

LEMMA RelayBitCleared ==
  ASSUME TypeOK, reg' = ClrRelayBit
  PROVE  ~RelayOn' /\ UNCHANGED <<FaultExists, Intensity>>
BY TypeParts, ClrRelay DEF RelayOn, FaultExists, Intensity, RegNames

LEMMA PlainPid == ASSUME LocalInv, PidStep PROVE [Plain!ContactorNext]_(Plain!cVars)
<1>1. TypeOK /\ pin \in BOOLEAN
  BY DEF LocalInv, TypeOK
<1>2. CASE PidIdle \/ PidSetRef
  BY <1>2, SameContactor DEF PidIdle, PidSetRef, Plain!cVars
<1>3. CASE PidClose
  <2>1. ~pin /\ ~RelayOn /\ ~FaultExists /\ Intensity \in 1 .. MaxLevel
    BY <1>1, <1>3 DEF PidClose, PidMayClose, Goto, LocalInv, ContactorMatchesStatus
  <2>2. /\ pin' = TRUE /\ angle' = "min"
        /\ UNCHANGED <<RelayOn, FaultExists, Intensity>>
    BY <1>3 DEF PidClose, RelayOn, FaultExists, Intensity
  <2>3. ContactorState = "open" /\ ContactorState' = "closing"
    BY <1>1, <2>1, <2>2, StateOf DEF ContactorState
  <2>. QED
    BY <2>1, <2>2, <2>3 DEF Plain!ContactorNext, Plain!Close
<1>4. CASE PidSetStatus
  <2>1. pin /\ ~RelayOn
    BY <1>4 DEF PidSetStatus, Goto, LocalInv, ClosingAlone
  <2>2. RelayOn' /\ UNCHANGED <<pin, angle, FaultExists, Intensity>>
    BY <1>1, <1>4, RelayBitSet DEF PidSetStatus
  <2>3. ContactorState = "closing" /\ ContactorState' = "on"
    BY <2>1, <2>2 DEF ContactorState
  <2>. QED
    BY <2>2, <2>3 DEF Plain!ContactorNext, Plain!Closed
<1>. QED
  BY <1>2, <1>3, <1>4 DEF PidStep

LEMMA PlainAdc == ASSUME LocalInv, AdcStep PROVE [Plain!ContactorNext]_(Plain!cVars)
<1>1. TypeOK /\ pin \in BOOLEAN
  BY DEF LocalInv, TypeOK
<1>2. CASE AdcCheck
  <2>1. CASE reg' = reg
    BY <1>2, <2>1, SameContactor DEF AdcCheck, Plain!cVars
  <2>2. CASE reg' # reg
    <3>1. reg' = LatchFault /\ RelayOn /\ pin /\ UNCHANGED <<pin, angle>>
      BY <1>2, <2>2 DEF AdcCheck, Goto, LocalInv, ContactorMatchesStatus
    <3>2. FaultExists' = TRUE /\ UNCHANGED <<RelayOn, Intensity>>
      BY <1>1, <3>1, TypeParts, Latch DEF FaultExists, RelayOn, Intensity, RegNames
    <3>3. ContactorState = "on" /\ ContactorState' = "on"
      BY <3>1, <3>2 DEF ContactorState
    <3>. QED
      BY <3>1, <3>2, <3>3 DEF Plain!ContactorNext, Plain!Detect
  <2>. QED
    BY <2>1, <2>2
<1>3. CASE AdcTest
  <2>1. UNCHANGED <<ContactorState, FaultExists, Intensity>>
    BY <1>3, SameContactor DEF AdcTest
  <2>2. CASE angle' = angle
    BY <2>1, <2>2 DEF Plain!cVars
  <2>3. CASE angle' # angle
    <3>1. angle' = "min" /\ FaultExists
      BY <1>3, <2>3 DEF AdcTest, AdcTrips
    <3>2. ContactorState # "closing"
      BY <1>1, <3>1, StateOf DEF LocalInv, ContactorMatchesStatus, ClosingAlone
    <3>3. ContactorState \in {"on", "opening", "open"}
      BY <1>1, <3>2, StateOf DEF RelayOn
    <3>. QED
      BY <2>1, <3>1, <3>3 DEF Plain!ContactorNext, Plain!Steer
  <2>. QED
    BY <2>2, <2>3
<1>4. CASE AdcOffPin
  <2>1. /\ pin' = FALSE /\ FaultExists
        /\ UNCHANGED <<angle, RelayOn, FaultExists, Intensity>>
    BY <1>4 DEF AdcOffPin, Goto, LocalInv, TripUnderFault, RelayOn, FaultExists, Intensity
  <2>2. CASE pin
    <3>1. RelayOn
      BY <2>1, <2>2 DEF LocalInv, ContactorMatchesStatus, ClosingAlone
    <3>2. ContactorState = "on" /\ ContactorState' = "opening"
      BY <2>1, <2>2, <3>1 DEF ContactorState
    <3>. QED
      BY <2>1, <3>2 DEF Plain!ContactorNext, Plain!Trip
  <2>3. CASE ~pin
    <3>1. pin' = pin
      BY <1>1, <2>1, <2>3
    <3>. QED
      BY <1>4, <2>1, <3>1, SameContactor DEF AdcOffPin, Plain!cVars
  <2>. QED
    BY <2>2, <2>3
<1>5. CASE AdcOffClr
  <2>1. ~pin /\ UNCHANGED <<pin, angle>> /\ reg' = ClrRelayBit
    BY <1>5 DEF AdcOffClr, Goto, LocalInv, TripOpens
  <2>2. ~RelayOn' /\ UNCHANGED <<FaultExists, Intensity>>
    BY <1>1, <2>1, RelayBitCleared
  <2>3. ContactorState' = "open"
    BY <2>1, <2>2 DEF ContactorState
  <2>4. CASE RelayOn
    <3>1. ContactorState = "opening"
      BY <2>1, <2>4 DEF ContactorState
    <3>. QED
      BY <1>1, <2>1, <2>2, <2>3, <3>1
      DEF TypeOK, Plain!ContactorNext, Plain!Opened
  <2>5. CASE ~RelayOn
    <3>1. ContactorState = "open"
      BY <2>1, <2>5 DEF ContactorState
    <3>. QED
      BY <2>1, <2>2, <2>3, <3>1 DEF Plain!cVars
  <2>. QED
    BY <2>4, <2>5
<1>. QED
  BY <1>2, <1>3, <1>4, <1>5 DEF AdcStep

LEMMA PlainPanel ==
  ASSUME LocalInv, DiStep \/ OperatorTurns
  PROVE  [Plain!ContactorNext]_(Plain!cVars)
<1>1. TypeOK /\ TypeOK'
  BY DiType DEF LocalInv
<1>2. CASE OperatorTurns \/ DiRead \/ DiSaved
  BY <1>2, SameContactor DEF OperatorTurns, DiRead, DiSaved, Plain!cVars
<1>3. CASE DiUpdate
  <2>1. /\ reg' = [reg EXCEPT !["intensity"] = diLevel]
        /\ reg \in [RegNames -> Word] /\ reg' \in [RegNames -> Word]
        /\ UNCHANGED <<pin, angle>>
    BY <1>1, <1>3 DEF DiUpdate, TypeOK
  <2>2. Intensity' \in Word /\ UNCHANGED <<RelayOn, FaultExists>>
    BY <2>1 DEF Intensity, RelayOn, FaultExists, RegNames
  <2>3. UNCHANGED ContactorState
    BY <2>1, <2>2 DEF ContactorState
  <2>. QED
    BY <2>1, <2>2, <2>3 DEF Plain!ContactorNext, Plain!Select
<1>. QED
  BY <1>2, <1>3 DEF DiStep

LEMMA PlainCross ==
  ASSUME LocalInv, NEW low \in BOOLEAN, ZeroCross(low)
  PROVE  [Plain!ContactorNext]_(Plain!cVars)
<1>1. TypeOK /\ pin \in BOOLEAN
  BY DEF LocalInv, TypeOK
<1>2. RelayOn /\ angle' \in {"min", "wide"}
  BY DEF ZeroCross
<1>3. CASE low /\ Intensity = 0
  <2>1. pin' = FALSE /\ reg' = ClrRelayBit
    BY <1>3 DEF ZeroCross
  <2>2. ~RelayOn' /\ UNCHANGED <<FaultExists, Intensity>>
    BY <1>1, <2>1, RelayBitCleared
  <2>3. ContactorState' = "open" /\ ContactorState \in {"on", "opening"}
    BY <1>1, <1>2, <2>1, <2>2, StateOf DEF ContactorState
  <2>. QED
    BY <1>2, <1>3, <2>2, <2>3 DEF Plain!ContactorNext, Plain!Opened
<1>4. CASE ~(low /\ Intensity = 0)
  <2>1. UNCHANGED <<ContactorState, FaultExists, Intensity>>
    BY <1>4, SameContactor DEF ZeroCross
  <2>2. ContactorState \in {"on", "opening"}
    BY <1>1, <1>2, StateOf
  <2>. QED
    BY <1>2, <2>1, <2>2 DEF Plain!ContactorNext, Plain!Steer
<1>. QED
  BY <1>3, <1>4

\* Under local operation every step of the threads and the interrupt is one step
\* of Contactor or leaves it alone: one contactor, closed softly, without a fault
\* and at a level only, tripped by faults found while it is on, and by nothing else
\* but level 0.
THEOREM LocalContactor == ASSUME LocalOperation PROVE Spec => ImplementsContactor
<1>1. Init => Plain!ContactorInit
  <2> SUFFICES ASSUME Init PROVE Plain!ContactorInit
    OBVIOUS
  <2>1. reg \in [RegNames -> Word] /\ reg["status"] = 0 /\ reg["run_status"] = 0
    BY InputAssumption DEF Init
  <2>2. ~RelayOn /\ ~FaultExists /\ Intensity \in Word
    BY <2>1 DEF RelayOn, FaultExists, IsFault, Intensity, RegNames
  <2>3. ContactorState = "open"
    BY <2>2 DEF ContactorState, Init
  <2>. QED
    BY <2>2, <2>3 DEF Init, Plain!ContactorInit
<1>2. LocalInv /\ [Next]_vars => [Plain!ContactorNext]_(Plain!cVars)
  <2> SUFFICES ASSUME LocalInv, [Next]_vars PROVE [Plain!ContactorNext]_(Plain!cVars)
    OBVIOUS
  <2>1. CASE UNCHANGED vars
    BY <2>1, SameContactor DEF vars, Plain!cVars
  <2>2. CASE Next
    BY <2>2, LocalSteps, PlainPid, PlainCross, PlainPanel, PlainAdc
  <2>. QED
    BY <2>1, <2>2
<1>. QED
  BY InitLocal, LocalInductive, <1>1, <1>2, PTL
  DEF Spec, ImplementsContactor, Plain!ContactorSpec
====
