-------------------------- MODULE CcrControlProofs --------------------------
(***************************************************************************)
(* Theorems about CcrControl, for every table size, every set of selector  *)
(* positions, Modbus requests and msh commands.                            *)
(***************************************************************************)
EXTENDS CcrControl, SequenceTheorems, TLAPS

PcTypeOK == /\ pc \in [Threads -> Labels]
            /\ \A t \in Threads : pc[t] \in PcOf[t]

\* A scheduled step keeps the program counters typed, and touches one of them.
LEMMA GotoType ==
  ASSUME PcTypeOK, NEW t \in Threads, NEW from, NEW to \in Labels \cap PcOf[t],
         behind \subseteq Threads, Goto(t, from, to)
  PROVE  /\ PcTypeOK'
         /\ behind' \subseteq Threads
         /\ pc[t] = from /\ pc'[t] = to
         /\ \A u \in Threads \ {t} : pc'[u] = pc[u]
<1>1. pc' = [pc EXCEPT ![t] = to]
  BY DEF Goto
<1>2. pc' \in [Threads -> Labels] /\ pc'[t] = to
      /\ \A u \in Threads \ {t} : pc'[u] = pc[u]
  BY <1>1 DEF PcTypeOK
<1>3. \A u \in Threads : pc'[u] \in PcOf[u]
  BY <1>2 DEF PcTypeOK
<1>4. behind' \subseteq Threads
  BY DEF Goto
<1>. QED
  BY <1>2, <1>3, <1>4 DEF PcTypeOK, Goto

RegType == [RegNames -> Word]

-----------------------------------------------------------------------------
(* Words: the arithmetic of the status bits and of the Modbus halves.       *)

LEMMA MaxWordNat == MaxWord \in Nat
BY DEF MaxWord

LEMMA WordIsNat ==
  ASSUME NEW n \in Word
  PROVE  n \in Nat /\ n <= 65535
<1>1. n \in Nat /\ n <= MaxWord
  BY MaxWordNat DEF Word
<1>. QED
  BY <1>1 DEF MaxWord

LEMMA NatIsWord ==
  ASSUME NEW n \in Nat, n <= 65535
  PROVE  n \in Word
<1>1. n <= MaxWord
  BY DEF MaxWord
<1>. QED
  BY <1>1, MaxWordNat DEF Word

LEMMA SetBit ==
  ASSUME NEW n \in Word, n % 2 # 1
  PROVE  n + 1 \in Word /\ (n + 1) % 2 = 1
<1>1. n \in Nat /\ n <= 65535
  BY WordIsNat
<1>2. n % 2 = 0
  BY <1>1
<1>3. n + 1 \in Nat /\ n + 1 <= 65535 /\ (n + 1) % 2 = 1
  BY <1>1, <1>2
<1>. QED
  BY <1>3, NatIsWord

LEMMA ClrBit ==
  ASSUME NEW n \in Word, n % 2 = 1
  PROVE  n - 1 \in Word /\ (n - 1) % 2 # 1
<1>1. n \in Nat /\ n <= 65535
  BY WordIsNat
<1>2. n - 1 \in Nat /\ n - 1 <= 65535 /\ (n - 1) % 2 = 0
  BY <1>1
<1>. QED
  BY <1>2, NatIsWord

LEMMA SetFault ==
  ASSUME NEW n \in Word, ~IsFault(n)
  PROVE  n + 1 \in Word /\ IsFault(n + 1)
<1>1. n \in Nat /\ n <= 65535 /\ n % 256 = 0
  BY WordIsNat DEF IsFault
<1>2. n + 1 \in Nat /\ n + 1 <= 65535 /\ (n + 1) % 256 # 0
  BY <1>1
<1>. QED
  BY <1>2, NatIsWord DEF IsFault

LEMMA HighHalf ==
  ASSUME NEW n \in Word
  PROVE  (n \div 256) * 256 \in Nat /\ (n \div 256) * 256 <= 65280
<1>1. n \in Nat /\ n <= 65535
  BY WordIsNat
<1>. QED
  BY <1>1

LEMMA LowHalf ==
  ASSUME NEW n \in Word
  PROVE  n % 256 \in Nat /\ n % 256 <= 255
<1>1. n \in Nat
  BY WordIsNat
<1>. QED
  BY <1>1

LEMMA OrLowType ==
  ASSUME NEW cur \in Word, NEW lo \in Nat, lo <= 255
  PROVE  OrLow(cur, lo) \in Word
<1> DEFINE h == (cur \div 256) * 256
           l == IF cur % 2 = 1 /\ lo % 2 = 0 THEN lo + 1 ELSE lo
<1>1. h \in Nat /\ h <= 65280
  BY HighHalf
<1>2. l \in Nat /\ l <= 255
  <2>1. lo % 2 = 0 => lo + 1 <= 255
    OBVIOUS
  <2>. QED
    BY <2>1
<1>3. h + l \in Nat /\ h + l <= 65535
  <2> HIDE DEF h, l
  <2>. QED
    BY <1>1, <1>2
<1>. QED
  BY <1>3, NatIsWord DEF OrLow

-----------------------------------------------------------------------------
(* The operators on the registers.                                          *)

LEMMA RegUpdate ==
  ASSUME reg \in RegType, NEW r \in RegNames, NEW w \in Word
  PROVE  /\ [reg EXCEPT ![r] = w] \in RegType
         /\ [reg EXCEPT ![r] = w][r] = w
         /\ \A s \in RegNames \ {r} : [reg EXCEPT ![r] = w][s] = reg[s]
BY DEF RegType

\* Setting, clearing and latching keep the registers typed, do what their names
\* say and leave the other registers alone.
LEMMA SetRelay ==
  ASSUME reg \in RegType
  PROVE  /\ SetRelayBit \in RegType
         /\ SetRelayBit["run_status"] % 2 = 1
         /\ \A r \in RegNames \ {"run_status"} : SetRelayBit[r] = reg[r]
<1> DEFINE n == reg["run_status"]
           m == IF n % 2 = 1 THEN n ELSE n + 1
<1>1. n \in Word
  BY DEF RegType, RegNames
<1>2. m \in Word /\ m % 2 = 1
  BY <1>1, SetBit
<1>3. SetRelayBit = [reg EXCEPT !["run_status"] = m]
  BY DEF SetRelayBit
<1> HIDE DEF m
<1> DEFINE f == [reg EXCEPT !["run_status"] = m]
<1>4. "run_status" \in RegNames
  BY DEF RegNames
<1>5. f \in RegType /\ f["run_status"] = m
      /\ \A r \in RegNames \ {"run_status"} : f[r] = reg[r]
  BY <1>2, <1>4, RegUpdate
<1> HIDE DEF f
<1>. QED
  BY <1>2, <1>3, <1>5 DEF f

LEMMA ClrRelay ==
  ASSUME reg \in RegType
  PROVE  /\ ClrRelayBit \in RegType
         /\ ClrRelayBit["run_status"] % 2 # 1
         /\ \A r \in RegNames \ {"run_status"} : ClrRelayBit[r] = reg[r]
<1> DEFINE n == reg["run_status"]
           m == IF n % 2 = 1 THEN n - 1 ELSE n
<1>1. n \in Word
  BY DEF RegType, RegNames
<1>2. m \in Word /\ m % 2 # 1
  BY <1>1, ClrBit
<1>3. ClrRelayBit = [reg EXCEPT !["run_status"] = m]
  BY DEF ClrRelayBit
<1> HIDE DEF m
<1> DEFINE f == [reg EXCEPT !["run_status"] = m]
<1>4. "run_status" \in RegNames
  BY DEF RegNames
<1>5. f \in RegType /\ f["run_status"] = m
      /\ \A r \in RegNames \ {"run_status"} : f[r] = reg[r]
  BY <1>2, <1>4, RegUpdate
<1> HIDE DEF f
<1>. QED
  BY <1>2, <1>3, <1>5 DEF f

LEMMA Latch ==
  ASSUME reg \in RegType
  PROVE  /\ LatchFault \in RegType
         /\ IsFault(LatchFault["status"])
         /\ \A r \in RegNames \ {"status"} : LatchFault[r] = reg[r]
<1> DEFINE n == reg["status"]
           m == IF IsFault(n) THEN n ELSE n + 1
<1>1. n \in Word
  BY DEF RegType, RegNames
<1>2. m \in Word /\ IsFault(m)
  BY <1>1, SetFault
<1>3. LatchFault = [reg EXCEPT !["status"] = m]
  BY DEF LatchFault
<1> HIDE DEF m
<1> DEFINE f == [reg EXCEPT !["status"] = m]
<1>4. "status" \in RegNames
  BY DEF RegNames
<1>5. f \in RegType /\ f["status"] = m
      /\ \A r \in RegNames \ {"status"} : f[r] = reg[r]
  BY <1>2, <1>4, RegUpdate
<1> HIDE DEF f
<1>. QED
  BY <1>2, <1>3, <1>5 DEF f

LEMMA IstdType ==
  ASSUME NEW i \in Int
  PROVE  Istd(i) \in 0 .. MaxLevel \cup {OutOfTable}
BY LevelAssumption DEF Istd, OutOfTable

LEMMA RegAtName ==
  ASSUME NEW i \in Nat, RegAt(i) # "other"
  PROVE  RegAt(i) \in RegNames
BY DEF RegAt, RegNames

\* A store into a holding register keeps the registers typed.
LEMMA StoreType ==
  ASSUME reg \in RegType, NEW i \in Nat, NEW w \in Word
  PROVE  Store(i, w) \in RegType
BY RegAtName, RegUpdate DEF Store

-----------------------------------------------------------------------------
(* Type correctness.                                                        *)

\* In the initial states every variable has its type.
LEMMA InitTypeOK == Init => TypeOK
<1> SUFFICES ASSUME Init PROVE TypeOK
  OBVIOUS
<1>1. reg \in RegType
  BY InputAssumption DEF Init, RegType
<1>2. 0 \in Word
  BY NatIsWord
<1>3. sem \in 0 .. MaxSem
  BY LevelAssumption DEF Init
<1>4. \A t \in Threads : pc[t] \in Labels /\ pc[t] \in PcOf[t]
  BY DEF Init, Threads, Labels, PcOf
<1>5. pc \in [Threads -> Labels]
  BY <1>4 DEF Init
<1>6. mb.first \in Nat /\ mb.values \in Seq(Word)
  BY DEF Init
<1>7. ref \in 0 .. MaxLevel \cup {OutOfTable} /\ shLevel \in 0 .. 255
  BY LevelAssumption DEF Init
<1>8. pc["modbus"] = "wait"
  BY DEF Init, Threads
<1>. QED
  BY <1>1, <1>2, <1>3, <1>4, <1>5, <1>6, <1>7, <1>8
  DEF Init, TypeOK, RegType

\* TypeOK in the terms of the lemmas above.
LEMMA TypeParts ==
  TypeOK => PcTypeOK /\ reg \in RegType /\ behind \subseteq Threads
            /\ Intensity \in Int
<1> SUFFICES ASSUME TypeOK PROVE Intensity \in Int
  BY DEF TypeOK, PcTypeOK, RegType
<1>1. Intensity \in Word
  BY DEF TypeOK, Intensity, RegNames
<1>. QED
  BY <1>1, WordIsNat

OrdersType == [last : BOOLEAN, unheard : BOOLEAN, crossed : BOOLEAN]

\* The history keeps its type where it is changed: by a switching, by a store and
\* at the end of a write.
LEMMA OrdersTyped ==
  ASSUME orders \in OrdersType, NEW a \in BOOLEAN, NEW b \in BOOLEAN, NEW c \in BOOLEAN
  PROVE  /\ [orders EXCEPT !.last = a, !.crossed = c] \in OrdersType
         /\ [orders EXCEPT !.unheard = b, !.crossed = c] \in OrdersType
         /\ [orders EXCEPT !.unheard = b] \in OrdersType
BY DEF OrdersType

\* A scheduled step of a thread other than modbus that keeps the data typed.
LEMMA ThreadStepType ==
  ASSUME TypeOK,
         NEW t \in Threads \ {"modbus"}, NEW from, NEW to \in Labels \cap PcOf[t],
         Goto(t, from, to),
         UNCHANGED <<sel, mb>>,
         pin' \in BOOLEAN, pidEnable' \in BOOLEAN, orders' \in OrdersType,
         reg' \in RegType, ref' \in 0 .. MaxLevel \cup {OutOfTable},
         angle' \in {"min", "wide"}, sem' \in 0 .. MaxSem, sem' \in {sem, sem - 1},
         onOffLast' \in Word, diLevel' \in Positions \cup {NoLevel},
         shLevel' \in 0 .. 255
  PROVE  TypeOK'
<1>1. PcTypeOK' /\ behind' \subseteq Threads /\ pc'["modbus"] = pc["modbus"]
  BY GotoType, TypeParts DEF Threads
<1>2. (pc["modbus"] # "wait" => sem' < MaxSem)
  BY LevelAssumption DEF TypeOK
<1>. QED
  BY <1>1, <1>2 DEF TypeOK, PcTypeOK, RegType, OrdersType

LEMMA PidType == TypeOK /\ PidStep => TypeOK'
<1> SUFFICES ASSUME TypeOK, PidStep PROVE TypeOK'
  OBVIOUS
<1>1. Intensity - 1 \in Int /\ Istd(Intensity - 1) \in 0 .. MaxLevel \cup {OutOfTable}
  BY TypeParts, IstdType
<1>2. "pid" \in Threads \ {"modbus"} /\ {"wait", "closing", "set_ref"} \subseteq Labels \cap PcOf["pid"]
  BY DEF Threads, Labels, PcOf
<1>3. 0 \in 0 .. MaxLevel
  BY LevelAssumption
<1>4. SetRelayBit \in RegType
  BY TypeParts, SetRelay
<1>5. CASE PidIdle
  BY <1>2, <1>5, ThreadStepType DEF PidIdle, TypeOK, OrdersType, RegType, panel
<1>6. CASE PidClose
  BY <1>2, <1>3, <1>6, ThreadStepType DEF PidClose, TypeOK, OrdersType, RegType, panel
<1>7. CASE PidSetStatus
  BY <1>2, <1>4, <1>7, ThreadStepType DEF PidSetStatus, TypeOK, OrdersType, RegType, panel
<1>8. CASE PidSetRef
  BY <1>1, <1>2, <1>8, ThreadStepType DEF PidSetRef, TypeOK, OrdersType, RegType, panel
<1>. QED
  BY <1>5, <1>6, <1>7, <1>8 DEF PidStep

LEMMA CrossType == ASSUME TypeOK, NEW low \in BOOLEAN, ZeroCross(low) PROVE TypeOK'
<1>1. Istd(Intensity - 1) \in 0 .. MaxLevel \cup {OutOfTable} /\ 0 \in 0 .. MaxLevel
  BY TypeParts, IstdType, LevelAssumption
<1>2. ClrRelayBit \in RegType
  BY TypeParts, ClrRelay
<1>3. pin' \in BOOLEAN /\ reg' \in RegType /\ ref' \in 0 .. MaxLevel \cup {OutOfTable}
  BY <1>1, <1>2, TypeParts DEF ZeroCross, TypeOK
<1>. QED
  BY <1>3 DEF ZeroCross, TypeOK, RegType, panel

LEMMA DiType == TypeOK /\ (DiStep \/ OperatorTurns) => TypeOK'
<1> SUFFICES ASSUME TypeOK, DiStep \/ OperatorTurns PROVE TypeOK'
  OBVIOUS
<1>1. "di" \in Threads \ {"modbus"} /\ {"wait", "update", "save"} \subseteq Labels \cap PcOf["di"]
  BY DEF Threads, Labels, PcOf
<1>w. \A p \in Positions \cup {NoLevel} : p \in Nat /\ p <= 65535
  <2>1. \A p \in Positions : p \in Nat /\ p <= 254
    BY LevelAssumption, InputAssumption
  <2>2. NoLevel \in Nat /\ NoLevel <= 255
    BY DEF NoLevel
  <2>. QED
    BY <2>1, <2>2
<1>2. /\ diLevel \in Positions \cup {NoLevel}
      /\ DiLevelRead \in Positions \cup {NoLevel}
      /\ DiLevelRead \in Int
  BY <1>w DEF TypeOK, DiLevelRead
<1>3. CASE DiRead
  <2>1. ref' \in 0 .. MaxLevel \cup {OutOfTable}
    <3>1. /\ Istd(DiLevelRead - 1) \in 0 .. MaxLevel \cup {OutOfTable}
          /\ 0 \in 0 .. MaxLevel \cup {OutOfTable}
          /\ ref \in 0 .. MaxLevel \cup {OutOfTable}
      BY <1>2, IstdType, LevelAssumption DEF TypeOK
    <3>2. ref' \in {ref, 0, Istd(DiLevelRead - 1)}
      BY <1>3 DEF DiRead
    <3>. QED
      BY <3>1, <3>2
  <2> DEFINE to == IF Intensity % 256 # DiLevelRead /\ DiLevelRead <= MaxLevel
                   THEN "update" ELSE "wait"
  <2>2. to \in Labels \cap PcOf["di"] /\ Goto("di", "wait", to)
    BY <1>1, <1>3 DEF DiRead
  <2> HIDE DEF to
  <2>. QED
    BY <1>1, <1>2, <1>3, <2>1, <2>2, ThreadStepType DEF DiRead, TypeOK, OrdersType, RegType
<1>4. CASE DiUpdate
  <2>1. diLevel \in Word /\ "intensity" \in RegNames
    BY <1>w, <1>2, NatIsWord DEF RegNames
  <2>2. reg' \in RegType
    BY <1>4, <2>1, TypeParts, RegUpdate DEF DiUpdate
  <2>. QED
    BY <1>1, <1>4, <2>2, ThreadStepType DEF DiUpdate, TypeOK, OrdersType, panel
<1>5. CASE DiSaved
  BY <1>1, <1>5, ThreadStepType DEF DiSaved, TypeOK, OrdersType, RegType, panel
<1>6. CASE OperatorTurns
  BY <1>6 DEF OperatorTurns, TypeOK
<1>. QED
  BY <1>3, <1>4, <1>5, <1>6 DEF DiStep

LEMMA AdcType == TypeOK /\ AdcStep => TypeOK'
<1> SUFFICES ASSUME TypeOK, AdcStep PROVE TypeOK'
  OBVIOUS
<1>1. "adc" \in Threads \ {"modbus"} /\ {"wait", "test", "off_pin", "off_clr"} \subseteq Labels \cap PcOf["adc"]
  BY DEF Threads, Labels, PcOf
<1>2. LatchFault \in RegType /\ ClrRelayBit \in RegType
  BY TypeParts, Latch, ClrRelay
<1>3. CASE AdcCheck
  <2>1. reg' \in RegType
    BY <1>2, <1>3, TypeParts DEF AdcCheck
  <2>. QED
    BY <1>1, <1>3, <2>1, ThreadStepType DEF AdcCheck, TypeOK, OrdersType, panel
<1>4. CASE AdcTest
  <2> DEFINE to == IF AdcTrips THEN "off_pin" ELSE "wait"
  <2>1. to \in Labels \cap PcOf["adc"] /\ Goto("adc", "test", to)
    BY <1>1, <1>4 DEF AdcTest
  <2> HIDE DEF to
  <2>2. angle' \in {"min", "wide"}
    BY <1>4 DEF AdcTest, TypeOK
  <2>. QED
    BY <1>1, <1>4, <2>1, <2>2, ThreadStepType DEF AdcTest, TypeOK, OrdersType, RegType, panel
<1>5. CASE AdcOffPin
  BY <1>1, <1>5, ThreadStepType DEF AdcOffPin, TypeOK, OrdersType, RegType, panel
<1>6. CASE AdcOffClr
  BY <1>1, <1>2, <1>6, ThreadStepType DEF AdcOffClr, TypeOK, OrdersType, panel
<1>. QED
  BY <1>3, <1>4, <1>5, <1>6 DEF AdcStep

LEMMA SwitchType ==
  ASSUME TypeOK, NEW t \in Switchers, RelayOnStep(t) \/ RelayOffStep(t)
  PROVE  TypeOK'
<1>1. t \in Threads \ {"modbus"} /\ AfterSwitch(t) \in Labels \cap PcOf[t]
      /\ {"on_set", "on_set2", "off_clr", "off_clr2"} \subseteq Labels \cap PcOf[t]
  BY DEF Switchers, Threads, Labels, PcOf, AfterSwitch
<1>2. SetRelayBit \in RegType /\ ClrRelayBit \in RegType
  BY TypeParts, SetRelay, ClrRelay
<1>3. ASSUME NEW from, NEW to \in Labels \cap PcOf[t], NEW closed \in BOOLEAN,
             SwitchPin(t, from, to, closed)
      PROVE  TypeOK'
  <2>1. orders' \in OrdersType
    BY <1>3, OrdersTyped DEF SwitchPin, TypeOK, OrdersType
  <2>. QED
    BY <1>1, <1>3, <2>1, ThreadStepType DEF SwitchPin, TypeOK, RegType, panel
<1>4. ASSUME NEW from, NEW to \in Labels \cap PcOf[t], NEW word \in RegType,
             SwitchBit(t, from, to, word)
      PROVE  TypeOK'
  BY <1>1, <1>4, ThreadStepType DEF SwitchBit, TypeOK, OrdersType, panel
<1>. QED
  BY <1>1, <1>2, <1>3, <1>4 DEF RelayOnStep, RelayOffStep

LEMMA WcmdType == TypeOK /\ WcmdStep => TypeOK'
<1> SUFFICES ASSUME TypeOK, WcmdStep PROVE TypeOK'
  OBVIOUS
<1>1. "wcmd" \in Threads \ {"modbus"} /\ "wcmd" \in Switchers
      /\ {"wait", "compare", "latch", "branch", "on_pin", "off_pin", "save", "delay"}
         \subseteq Labels \cap PcOf["wcmd"]
  BY DEF Threads, Labels, PcOf, Switchers
<1>2. CASE WcmdTake
  <2>1. sem' \in 0 .. MaxSem /\ sem' \in {sem, sem - 1}
    BY <1>2, LevelAssumption DEF WcmdTake, TypeOK
  <2>. QED
    BY <1>1, <1>2, <2>1, ThreadStepType DEF WcmdTake, TypeOK, OrdersType, RegType, panel
<1>3. CASE WcmdCompare
  BY <1>1, <1>3, ThreadStepType, LevelAssumption DEF WcmdCompare, TypeOK, OrdersType, RegType, panel
<1>4. CASE WcmdLatch
  <2>1. onOffLast' \in Word
    BY <1>4 DEF WcmdLatch, TypeOK, RegNames
  <2>. QED
    BY <1>1, <1>4, <2>1, ThreadStepType DEF WcmdLatch, TypeOK, OrdersType, RegType, panel
<1>5. CASE WcmdBranch
  BY <1>1, <1>5, ThreadStepType, LevelAssumption DEF WcmdBranch, TypeOK, OrdersType, RegType, panel
<1>6. CASE WcmdSaved
  BY <1>1, <1>6, ThreadStepType DEF WcmdSaved, TypeOK, OrdersType, RegType, panel
<1>7. CASE RelayOnStep("wcmd") \/ RelayOffStep("wcmd")
  BY <1>1, <1>7, SwitchType
<1>. QED
  BY <1>2, <1>3, <1>4, <1>5, <1>6, <1>7 DEF WcmdStep

LEMMA ShellType == TypeOK /\ (ShellStep \/ ShellCommand) => TypeOK'
<1> SUFFICES ASSUME TypeOK, ShellStep \/ ShellCommand PROVE TypeOK'
  OBVIOUS
<1>1. "shell" \in Threads \ {"modbus"} /\ "shell" \in Switchers
      /\ {"wait", "save", "on_pin", "off_pin"} \subseteq Labels \cap PcOf["shell"]
  BY DEF Threads, Labels, PcOf, Switchers
<1>2. ASSUME NEW v \in ShellLevels, ShellSetLevel(v) PROVE TypeOK'
  <2>1. v \in 0 .. 255
    BY InputAssumption
  <2>2. v \in Word /\ "intensity" \in RegNames
    <3>1. v \in Nat /\ v <= 65535
      BY <2>1
    <3>. QED
      BY <3>1, NatIsWord DEF RegNames
  <2>3. reg' \in RegType
    BY <1>2, <2>2, TypeParts, RegUpdate DEF ShellSetLevel
  <2>. QED
    BY <1>1, <1>2, <2>1, <2>3, ThreadStepType DEF ShellSetLevel, TypeOK, OrdersType, panel
<1>3. CASE ShellApplyLevel
  <2>1. ref' \in 0 .. MaxLevel \cup {OutOfTable}
    BY <1>3, IstdType DEF ShellApplyLevel, TypeOK
  <2>. QED
    BY <1>1, <1>3, <2>1, ThreadStepType DEF ShellApplyLevel, TypeOK, OrdersType, RegType, panel
<1>4. ASSUME NEW cmd, NEW to \in {"on_pin", "off_pin"}, ShellRelay(cmd, to) PROVE TypeOK'
  BY <1>1, <1>4, ThreadStepType DEF ShellRelay, TypeOK, OrdersType, RegType, panel
<1>5. CASE ShellSetAngle
  BY <1>1, <1>5, ThreadStepType DEF ShellSetAngle, TypeOK, OrdersType, RegType, panel
<1>6. ASSUME NEW cmd, NEW on \in BOOLEAN, ShellPid(cmd, on) PROVE TypeOK'
  BY <1>1, <1>6, ThreadStepType DEF ShellPid, TypeOK, OrdersType, RegType, panel
<1>7. CASE RelayOnStep("shell") \/ RelayOffStep("shell")
  BY <1>1, <1>7, SwitchType
<1>. QED
  BY <1>2, <1>3, <1>4, <1>5, <1>6, <1>7 DEF ShellStep, ShellCommand

LEMMA ModbusType ==
  TypeOK /\ ((\E q \in Requests : ModbusAccept(q)) \/ ModbusStep) => TypeOK'
<1> SUFFICES ASSUME TypeOK, (\E q \in Requests : ModbusAccept(q)) \/ ModbusStep
             PROVE  TypeOK'
  OBVIOUS
<1>1. "modbus" \in Threads
      /\ {"wait", "high", "low", "end"} \subseteq Labels \cap PcOf["modbus"]
  BY DEF Threads, Labels, PcOf
<1>2. ASSUME NEW q \in Requests, ModbusAccept(q) PROVE TypeOK'
  <2>1. q.first \in Nat /\ q.values \in Seq(Word) /\ q.values # <<>>
    BY InputAssumption
  <2>2. PcTypeOK' /\ behind' \subseteq Threads
    BY <1>1, <1>2, GotoType, TypeParts DEF ModbusAccept
  <2>. QED
    BY <1>2, <2>1, <2>2 DEF ModbusAccept, TypeOK, PcTypeOK, panel
<1>3. CASE ModbusHigh
  <2>1. pc["modbus"] = "high" /\ mb.values # <<>> /\ mb.values \in Seq(Word)
        /\ mb.first \in Nat
    BY <1>3 DEF ModbusHigh, Goto, TypeOK
  <2>2. Head(mb.values) \in Word
    BY <2>1
  <2>3. (Head(mb.values) \div 256) * 256 \in Word
    <3>1. /\ (Head(mb.values) \div 256) * 256 \in Nat
          /\ (Head(mb.values) \div 256) * 256 <= 65280
      BY <2>2, HighHalf
    <3>2. ASSUME NEW h \in Nat, h <= 65280 PROVE h \in Word
      BY <3>2, NatIsWord
    <3>. QED
      BY <3>1, <3>2
  <2>4. reg' \in RegType
    BY <1>3, <2>1, <2>3, TypeParts, StoreType DEF ModbusHigh
  <2>5. PcTypeOK' /\ behind' \subseteq Threads
    BY <1>1, <1>3, GotoType, TypeParts DEF ModbusHigh
  <2>6. orders' \in OrdersType
    BY <1>3, OrdersTyped DEF ModbusHigh, Stored, TypeOK, OrdersType
  <2>. QED
    BY <1>3, <2>1, <2>4, <2>5, <2>6
    DEF ModbusHigh, TypeOK, PcTypeOK, RegType, OrdersType, panel
<1>4. CASE ModbusLow
  <2>1. pc["modbus"] = "low" /\ mb.values # <<>> /\ mb.values \in Seq(Word)
        /\ mb.first \in Nat
    BY <1>4 DEF ModbusLow, Goto, TypeOK
  <2>2. Head(mb.values) \in Word /\ Tail(mb.values) \in Seq(Word)
        /\ Len(mb.values) \in Nat
        /\ (Len(mb.values) # 1 => Tail(mb.values) # <<>>)
    <3>1. Len(mb.values) \in Nat \ {0} /\ Tail(mb.values) \in Seq(Word)
          /\ Len(Tail(mb.values)) = Len(mb.values) - 1
          /\ Head(mb.values) \in Word
      BY <2>1, HeadTailProperties, EmptySeq
    <3>2. Len(mb.values) # 1 => Len(Tail(mb.values)) # 0
      BY <3>1
    <3>3. Tail(mb.values) = <<>> => Len(Tail(mb.values)) = 0
      BY EmptySeq
    <3>4. Len(mb.values) # 1 => Tail(mb.values) # <<>>
      BY <3>2, <3>3
    <3>. QED
      BY <3>1, <3>4
  <2>3. RegAt(mb.first) # "other"
          => OrLow(reg[RegAt(mb.first)], Head(mb.values) % 256) \in Word
    BY <2>1, <2>2, LowHalf, OrLowType, RegAtName, TypeParts DEF RegType
  <2>4. reg' \in RegType
    BY <1>4, <2>1, <2>3, TypeParts, StoreType DEF ModbusLow
  <2> DEFINE to == IF Len(mb.values) = 1 THEN "end" ELSE "high"
  <2>5. to \in Labels \cap PcOf["modbus"] /\ Goto("modbus", "low", to)
        /\ to \in {"end", "high"}
    BY <1>1, <1>4 DEF ModbusLow
  <2>6. to = "high" => Tail(mb.values) # <<>>
    BY <2>2
  <2> HIDE DEF to
  <2>7. PcTypeOK' /\ behind' \subseteq Threads /\ pc'["modbus"] = to
    BY <1>1, <2>5, GotoType, TypeParts
  <2>8. mb'.first \in Nat /\ mb'.values = Tail(mb.values)
    BY <1>4, <2>1 DEF ModbusLow
  <2>9. sem' < MaxSem /\ UNCHANGED <<pin, ref, angle, pidEnable, sem, onOffLast,
                                     panel, shLevel>>
    BY <1>4, <2>1 DEF ModbusLow, TypeOK
  <2>10. orders' \in OrdersType
    BY <1>4, OrdersTyped DEF ModbusLow, Stored, TypeOK, OrdersType
  <2>. QED
    BY <2>2, <2>4, <2>5, <2>6, <2>7, <2>8, <2>9, <2>10
    DEF TypeOK, PcTypeOK, RegType, OrdersType, panel
<1>5. CASE ModbusEnd
  <2>1. pc["modbus"] = "end" /\ pc'["modbus"] = "wait"
    BY <1>1, <1>5, GotoType, TypeParts DEF ModbusEnd
  <2>2. sem' \in 0 .. MaxSem
    BY <1>5, <2>1, LevelAssumption DEF ModbusEnd, TypeOK
  <2>3. PcTypeOK' /\ behind' \subseteq Threads
    BY <1>1, <1>5, GotoType, TypeParts DEF ModbusEnd
  <2>4. orders' \in OrdersType
    BY <1>5, OrdersTyped DEF ModbusEnd, TypeOK, OrdersType
  <2>. QED
    BY <1>5, <2>1, <2>2, <2>3, <2>4
    DEF ModbusEnd, TypeOK, PcTypeOK, RegType, OrdersType, panel
<1>. QED
  BY <1>2, <1>3, <1>4, <1>5 DEF ModbusStep

\* Whatever the selector, the remote master, the shell, the faults and the
\* interrupt do, the shared state keeps the types of the code: in particular
\* mb never runs out of values before the write is over.
THEOREM TypeCorrect == Spec => []TypeOK
<1>1. TypeOK /\ [Next]_vars => TypeOK'
  <2> SUFFICES ASSUME TypeOK, [Next]_vars PROVE TypeOK'
    OBVIOUS
  <2>1. CASE UNCHANGED vars
    BY <2>1 DEF vars, panel, TypeOK
  <2>2. CASE Next
    BY <2>2, PidType, CrossType, ModbusType, DiType, AdcType, WcmdType, ShellType
    DEF Next
  <2>. QED
    BY <2>1, <2>2
<1>. QED
  BY InitTypeOK, <1>1, PTL DEF Spec
====
