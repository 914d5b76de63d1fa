--------------------------- MODULE CcrOrderProofs ---------------------------
(***************************************************************************)
(* The orders of the master and of the engineer, for every set of requests *)
(* and commands and every interleaving.  No on_off order that has woken    *)
(* write_cmd is overlooked between the Modbus callback, which stores it,   *)
(* and write_cmd, which compares it with the last one it has obeyed;       *)
(* status off means that the contactor is open, but for one crossing of    *)
(* two orders; and a fault adc has found opens the contactor.              *)
(***************************************************************************)
EXTENDS CcrControlProofs

\* A first half of on_off that has been stored has not been announced yet.
StoredUnheard == pc["modbus"] = "low" /\ mb.first = 0 => orders.unheard

\* An order that has not been latched has not been announced, or is still on its
\* way to being compared.
OrderOnItsWay ==
  reg["on_off"] # onOffLast
    => \/ orders.unheard
       \/ sem > 0
       \/ pc["wcmd"] \in {"compare", "latch"}

OrderInv == TypeOK /\ StoredUnheard /\ OrderOnItsWay

LEMMA InitOrder == Init => OrderInv
<1> SUFFICES ASSUME Init PROVE OrderInv
  OBVIOUS
<1>1. (reg["on_off"] # onOffLast => orders.unheard) /\ pc["modbus"] = "wait"
  BY DEF Init, Threads
<1>. QED
  BY <1>1, InitTypeOK DEF OrderInv, StoredUnheard, OrderOnItsWay

LEMMA OrderGoto ==
  ASSUME TypeOK, NEW t \in Threads, NEW from, NEW to, Goto(t, from, to)
  PROVE  pc[t] = from /\ pc'[t] = to /\ \A u \in Threads \ {t} : pc'[u] = pc[u]
BY DEF Goto, TypeOK

\* A step that touches neither on_off, the latch, the semaphore nor the write
\* in progress, and leaves write_cmd and Modbus where they are.
LEMMA Elsewhere ==
  ASSUME OrderInv, TypeOK',
         reg'["on_off"] = reg["on_off"], UNCHANGED <<onOffLast, sem, mb>>,
         orders'.unheard = orders.unheard,
         pc'["modbus"] = pc["modbus"],
         pc["wcmd"] \notin {"compare", "latch"} \/ pc'["wcmd"] = pc["wcmd"]
  PROVE  OrderInv'
BY DEF OrderInv, StoredUnheard, OrderOnItsWay

LEMMA OnOffKept ==
  ASSUME TypeOK
  PROVE  /\ SetRelayBit["on_off"] = reg["on_off"]
         /\ ClrRelayBit["on_off"] = reg["on_off"]
         /\ LatchFault["on_off"] = reg["on_off"]
         /\ \A w : [reg EXCEPT !["intensity"] = w]["on_off"] = reg["on_off"]
BY TypeParts, SetRelay, ClrRelay, Latch DEF RegNames, TypeOK

LEMMA OrderModbus ==
  ASSUME OrderInv, (\E q \in Requests : ModbusAccept(q)) \/ ModbusStep
  PROVE  OrderInv'
<1>1. TypeOK /\ TypeOK' /\ orders \in OrdersType /\ mb.first \in Nat
  BY ModbusType DEF OrderInv, TypeOK, OrdersType
<1>2. {"modbus", "wcmd"} \subseteq Threads
  BY DEF Threads
<1>3. ASSUME NEW q \in Requests, ModbusAccept(q) PROVE OrderInv'
  <2>1. pc'["modbus"] = "high" /\ pc'["wcmd"] = pc["wcmd"]
    BY <1>1, <1>2, <1>3, OrderGoto DEF ModbusAccept
  <2>. QED
    BY <1>1, <1>3, <2>1 DEF ModbusAccept, OrderInv, StoredUnheard, OrderOnItsWay
<1>4. ASSUME orders' = Stored(mb.first)
      PROVE  orders'.unheard = (orders.unheard \/ mb.first = 0)
  BY <1>1, <1>4 DEF Stored, RegAt, OrdersType
<1>5. CASE ModbusHigh
  <2>1. pc'["modbus"] = "low" /\ pc'["wcmd"] = pc["wcmd"]
    BY <1>1, <1>2, <1>5, OrderGoto DEF ModbusHigh
  <2>2. mb.first # 0 => reg'["on_off"] = reg["on_off"]
    BY <1>1, <1>5 DEF ModbusHigh, Store, RegAt, TypeOK
  <2>3. UNCHANGED <<onOffLast, sem, mb>> /\ orders' = Stored(mb.first)
    BY <1>5 DEF ModbusHigh
  <2>. QED
    BY <1>1, <1>4, <2>1, <2>2, <2>3 DEF OrderInv, StoredUnheard, OrderOnItsWay
<1>6. CASE ModbusLow
  <2>1. pc'["modbus"] \in {"high", "end"} /\ pc'["wcmd"] = pc["wcmd"]
    BY <1>1, <1>2, <1>6, OrderGoto DEF ModbusLow
  <2>2. mb.first # 0 => reg'["on_off"] = reg["on_off"]
    BY <1>1, <1>6 DEF ModbusLow, Store, RegAt, TypeOK
  <2>3. UNCHANGED <<onOffLast, sem>> /\ orders' = Stored(mb.first)
    BY <1>6 DEF ModbusLow
  <2>. QED
    BY <1>1, <1>4, <2>1, <2>2, <2>3 DEF OrderInv, StoredUnheard, OrderOnItsWay
<1>7. CASE ModbusEnd
  <2>1. pc'["modbus"] = "wait" /\ pc'["wcmd"] = pc["wcmd"]
    BY <1>1, <1>2, <1>7, OrderGoto DEF ModbusEnd
  <2>2. sem \in Nat
    BY <1>1, LevelAssumption DEF TypeOK
  <2>3. sem > 0 => sem' > 0
    BY <1>7, <2>2 DEF ModbusEnd
  <2>4. orders.unheard => orders'.unheard \/ sem' > 0
    <3>1. CASE mb.first - 1 \in CommandRegs
      BY <1>1, <1>7, <2>2, <3>1 DEF ModbusEnd, CommandRegs, EndsInCommandArea
    <3>2. CASE mb.first - 1 \notin CommandRegs
      BY <1>1, <1>7, <3>2 DEF ModbusEnd, OrdersType
    <3>. QED
      BY <3>1, <3>2
  <2>5. reg' = reg /\ onOffLast' = onOffLast
    BY <1>7 DEF ModbusEnd
  <2>. QED
    BY <1>1, <2>1, <2>3, <2>4, <2>5 DEF OrderInv, StoredUnheard, OrderOnItsWay
<1>. QED
  BY <1>3, <1>5, <1>6, <1>7 DEF ModbusStep

LEMMA SwitchHears ==
  ASSUME TypeOK, NEW t, NEW from, NEW to, NEW closed, SwitchPin(t, from, to, closed)
  PROVE  orders'.unheard = orders.unheard
BY DEF SwitchPin, TypeOK

LEMMA OrderWcmd == ASSUME OrderInv, WcmdStep PROVE OrderInv'
<1>1. TypeOK /\ TypeOK'
  BY WcmdType DEF OrderInv
<1>2. {"modbus", "wcmd"} \subseteq Threads
  BY DEF Threads
<1>3. CASE WcmdTake
  <2>1. pc'["wcmd"] = "compare" /\ pc'["modbus"] = pc["modbus"]
    BY <1>1, <1>2, <1>3, OrderGoto DEF WcmdTake
  <2>. QED
    BY <1>1, <1>3, <2>1
    DEF WcmdTake, OrderInv, StoredUnheard, OrderOnItsWay
<1>4. CASE WcmdCompare
  <2>1. pc'["wcmd"] = (IF reg["on_off"] # onOffLast THEN "latch" ELSE "save")
        /\ pc'["modbus"] = pc["modbus"]
    BY <1>1, <1>2, <1>4, OrderGoto DEF WcmdCompare
  <2>. QED
    BY <1>1, <1>4, <2>1
    DEF WcmdCompare, OrderInv, StoredUnheard, OrderOnItsWay
<1>5. CASE WcmdLatch
  <2>1. pc'["modbus"] = pc["modbus"]
    BY <1>1, <1>2, <1>5, OrderGoto DEF WcmdLatch
  <2>. QED
    BY <1>1, <1>5, <2>1
    DEF WcmdLatch, OrderInv, StoredUnheard, OrderOnItsWay
<1>6. CASE WcmdBranch \/ WcmdSaved \/ RelayOnStep("wcmd") \/ RelayOffStep("wcmd")
  <2>1. PICK from \in {"branch", "save", "delay", "on_pin", "on_set", "on_set2",
                       "off_pin", "off_clr", "off_clr2"} :
          \E to : Goto("wcmd", from, to)
    BY <1>6 DEF WcmdBranch, WcmdSaved, RelayOnStep, RelayOffStep, SwitchPin, SwitchBit
  <2>2. pc["wcmd"] \notin {"compare", "latch"} /\ pc'["modbus"] = pc["modbus"]
    BY <1>1, <1>2, <2>1, OrderGoto
  <2>3. reg' \in {reg, SetRelayBit, ClrRelayBit} /\ UNCHANGED <<onOffLast, sem, mb>>
        /\ orders'.unheard = orders.unheard
    BY <1>1, <1>6, SwitchHears DEF WcmdBranch, WcmdSaved, RelayOnStep, RelayOffStep,
       SwitchPin, SwitchBit
  <2>. QED
    BY <1>1, <2>2, <2>3, OnOffKept, Elsewhere
<1>. QED
  BY <1>3, <1>4, <1>5, <1>6 DEF WcmdStep

LEMMA OrderShell == ASSUME OrderInv, ShellStep \/ ShellCommand PROVE OrderInv'
<1>1. TypeOK /\ TypeOK'
  BY ShellType DEF OrderInv
<1>2. {"modbus", "wcmd", "shell"} \subseteq Threads
  BY DEF Threads
<1>3. \E from, to : Goto("shell", from, to)
  BY DEF ShellStep, ShellCommand, ShellSetLevel, ShellApplyLevel, ShellRelay,
     ShellSetAngle, ShellPid, RelayOnStep, RelayOffStep, SwitchPin, SwitchBit
<1>4. pc'["modbus"] = pc["modbus"] /\ pc'["wcmd"] = pc["wcmd"]
  BY <1>1, <1>2, <1>3, OrderGoto
<1>5. /\ UNCHANGED <<onOffLast, sem, mb>> /\ orders'.unheard = orders.unheard
      /\ \/ reg' \in {reg, SetRelayBit, ClrRelayBit}
         \/ \E v \in ShellLevels : reg' = [reg EXCEPT !["intensity"] = v]
  BY <1>1, SwitchHears DEF ShellStep, ShellCommand, ShellSetLevel, ShellApplyLevel, ShellRelay,
     ShellSetAngle, ShellPid, RelayOnStep, RelayOffStep, SwitchPin, SwitchBit
<1>. QED
  BY <1>1, <1>4, <1>5, OnOffKept, Elsewhere

LEMMA OrderOthers ==
  ASSUME OrderInv,
         PidStep \/ DiStep \/ OperatorTurns \/ AdcStep
         \/ \E low \in BOOLEAN : ZeroCross(low)
  PROVE  OrderInv'
<1>1. TypeOK /\ TypeOK'
  BY PidType, DiType, AdcType, CrossType DEF OrderInv
<1>2. {"modbus", "wcmd", "pid", "di", "adc"} \subseteq Threads
  BY DEF Threads
<1>3. pc' = pc \/ \E t \in {"pid", "di", "adc"} : \E from, to : Goto(t, from, to)
  BY DEF PidStep, PidIdle, PidClose, PidSetStatus, PidSetRef, DiStep, DiRead,
     DiUpdate, DiSaved, OperatorTurns, AdcStep, AdcCheck, AdcTest, AdcOffPin,
     AdcOffClr, ZeroCross
<1>4. pc'["modbus"] = pc["modbus"] /\ pc'["wcmd"] = pc["wcmd"]
  BY <1>1, <1>2, <1>3, OrderGoto
<1>5. /\ UNCHANGED <<onOffLast, sem, mb>> /\ orders' = orders
      /\ \/ reg' \in {reg, SetRelayBit, ClrRelayBit, LatchFault}
         \/ reg' = [reg EXCEPT !["intensity"] = diLevel]
  BY DEF PidStep, PidIdle, PidClose, PidSetStatus, PidSetRef, DiStep, DiRead,
     DiUpdate, DiSaved, OperatorTurns, AdcStep, AdcCheck, AdcTest, AdcOffPin,
     AdcOffClr, ZeroCross
<1>. QED
  BY <1>1, <1>4, <1>5, OnOffKept, Elsewhere

\* No on_off order that has woken write_cmd is overlooked: when write_cmd rests and
\* the semaphore is empty, on_off is the value it has latched, for any image at
\* start-up, any writes and whichever reads and writes have crossed.  Not heard are
\* the on_off of the image and of a write that ends beyond the command registers,
\* until a write ends in them (user_mb_app.c:141-152, i2c_app.c:184-189).
THEOREM NoOrderOverlooked == Spec => []OrderSeen
<1>1. OrderInv /\ [Next]_vars => OrderInv'
  <2> SUFFICES ASSUME OrderInv, [Next]_vars PROVE OrderInv'
    OBVIOUS
  <2>1. CASE UNCHANGED vars
    BY <2>1 DEF vars, panel, OrderInv, TypeOK, StoredUnheard, OrderOnItsWay
  <2>2. CASE Next
    BY <2>2, OrderModbus, OrderWcmd, OrderShell, OrderOthers DEF Next
  <2>. QED
    BY <2>1, <2>2
<1>2. OrderInv => OrderSeen
  BY DEF OrderInv, OrderOnItsWay, OrderSeen
<1>. QED
  BY InitOrder, <1>1, <1>2, PTL DEF Spec

-----------------------------------------------------------------------------
(* Status off means open.                                                   *)

\* Inside a RELAY_OFF only pid can have closed again, and its closing delay
\* outlasts what is left of the RELAY_OFF; or the other one that switches, and
\* that is a crossing.
OffHalfDone ==
  \A t \in Threads :
    IsClearing(t) /\ pin
      => \/ pc["pid"] = "closing" /\ t \in behind
         \/ orders.crossed

\* A closed contactor without its status bit is on its way to getting it, but
\* after a crossing.
BitOnItsWay ==
  pin /\ ~RelayOn => \/ pc["pid"] = "closing"
                     \/ \E t \in Switchers : pc[t] = "on_set"
                     \/ orders.crossed

OffInv == TypeOK /\ OffHalfDone /\ BitOnItsWay

LEMMA InitOff == Init => OffInv
<1> SUFFICES ASSUME Init PROVE OffInv
  OBVIOUS
<1>1. pin = FALSE
  BY DEF Init
<1>. QED
  BY <1>1, InitTypeOK DEF OffInv, OffHalfDone, BitOnItsWay

\* What a scheduled step does to the threads the closing delay waits for.
LEMMA StillBehind ==
  ASSUME TypeOK, NEW t \in Threads, NEW u \in Threads \ {t}, NEW from,
         NEW to \in Labels \ {"closing"}, Goto(t, from, to), u \in behind
  PROVE  u \in behind'
BY DEF Goto

\* A step of a thread t that neither closes nor clears the status bit, nor begins
\* or ends a closing delay.
LEMMA OffElsewhere ==
  ASSUME OffInv, TypeOK', NEW t \in Threads, NEW from, NEW to \in Labels,
         Goto(t, from, to), pin' = pin,
         reg'["run_status"] = reg["run_status"] \/ RelayOn' \/ orders'.crossed,
         orders.crossed => orders'.crossed,
         to \notin {"closing", "off_clr", "off_clr2"},
         from # "closing",
         from = "on_set" => RelayOn'
  PROVE  OffInv'
<1>1. TypeOK
  BY DEF OffInv
<1>2. pc[t] = from /\ pc'[t] = to /\ \A u \in Threads \ {t} : pc'[u] = pc[u]
  BY <1>1, OrderGoto
<1>3. RelayOn' = RelayOn \/ RelayOn' \/ orders'.crossed
  BY DEF RelayOn
<1>4. {"pid"} \cup Switchers \subseteq Threads
  BY DEF Threads, Switchers
<1>5. pc["pid"] = "closing" => pc'["pid"] = "closing"
  BY <1>2, <1>4
<1>6. OffHalfDone'
  <2> SUFFICES ASSUME NEW u \in Threads, IsClearing(u)', pin, ~orders'.crossed
               PROVE  pc'["pid"] = "closing" /\ u \in behind'
    BY DEF OffHalfDone
  <2>1. u # t /\ IsClearing(u)
    BY <1>2 DEF IsClearing
  <2>2. pc["pid"] = "closing" /\ u \in behind
    BY <2>1 DEF OffInv, OffHalfDone
  <2>. QED
    BY <1>1, <1>5, <2>1, <2>2, StillBehind
<1>7. BitOnItsWay'
  <2>1. ASSUME NEW u \in Switchers, pc[u] = "on_set", ~RelayOn' PROVE pc'[u] = "on_set"
    BY <1>2, <1>4, <2>1
  <2>. QED
    BY <1>3, <1>5, <2>1 DEF OffInv, BitOnItsWay
<1>. QED
  BY <1>6, <1>7 DEF OffInv

LEMMA StatusWords ==
  ASSUME TypeOK
  PROVE  /\ SetRelayBit["status"] = reg["status"]
         /\ ClrRelayBit["status"] = reg["status"]
         /\ LatchFault["run_status"] = reg["run_status"]
         /\ IsFault(LatchFault["status"])
         /\ SetRelayBit["run_status"] % 2 = 1
         /\ ClrRelayBit["run_status"] % 2 # 1
         /\ \A w : /\ [reg EXCEPT !["intensity"] = w]["status"] = reg["status"]
                   /\ [reg EXCEPT !["intensity"] = w]["run_status"] = reg["run_status"]
BY TypeParts, SetRelay, ClrRelay, Latch DEF RegNames, TypeOK

LEMMA PidOff == ASSUME OffInv, PidStep PROVE OffInv'
<1>1. TypeOK /\ TypeOK'
  BY PidType DEF OffInv
<1>2. "pid" \in Threads /\ {"wait", "set_ref"} \subseteq Labels
      /\ Switchers \subseteq Threads \ {"pid"}
  BY DEF Threads, Labels, Switchers
<1>3. CASE PidIdle \/ PidSetRef
  <2>1. PICK from \in {"wait", "set_ref"} : Goto("pid", from, "wait")
    BY <1>3 DEF PidIdle, PidSetRef
  <2>2. UNCHANGED <<pin, reg, orders>>
    BY <1>3 DEF PidIdle, PidSetRef
  <2>. QED
    BY <1>1, <1>2, <2>1, <2>2, OffElsewhere
<1>4. CASE PidClose
  <2>1. pc'["pid"] = "closing" /\ behind' = {u \in Threads : ~Blocked(u)}
        /\ \A u \in Threads \ {"pid"} : pc'[u] = pc[u]
    BY <1>1, <1>2, <1>4, OrderGoto DEF PidClose, Goto
  <2>2. ASSUME NEW t \in Threads, IsClearing(t)' PROVE t \in behind'
    <3>1. t # "pid"
      BY <2>1, <2>2 DEF IsClearing
    <3>2. IsClearing(t)
      BY <2>1, <2>2, <3>1 DEF IsClearing
    <3>. QED
      BY <2>1, <3>2 DEF Blocked, Waiting, IsClearing
  <2>. QED
    BY <1>1, <2>1, <2>2 DEF OffInv, OffHalfDone, BitOnItsWay
<1>5. CASE PidSetStatus
  <2>1. UNCHANGED <<pin, orders>> /\ behind = {} /\ pc'["pid"] = "set_ref"
        /\ \A u \in Threads \ {"pid"} : pc'[u] = pc[u]
    BY <1>1, <1>2, <1>5, OrderGoto DEF PidSetStatus
  <2>2. RelayOn'
    BY <1>1, <1>5, StatusWords DEF PidSetStatus, RelayOn
  <2>3. OffHalfDone'
    <3> SUFFICES ASSUME NEW u \in Threads, IsClearing(u)', pin PROVE orders.crossed
      BY <2>1 DEF OffHalfDone
    <3>1. u # "pid"
      BY <2>1 DEF IsClearing
    <3>2. IsClearing(u)
      BY <2>1, <3>1 DEF IsClearing
    <3>. QED
      BY <2>1, <3>2 DEF OffInv, OffHalfDone
  <2>. QED
    BY <1>1, <2>2, <2>3 DEF OffInv, BitOnItsWay
<1>. QED
  BY <1>3, <1>4, <1>5 DEF PidStep

LEMMA AdcOff == ASSUME OffInv, AdcStep PROVE OffInv'
<1>1. TypeOK /\ TypeOK'
  BY AdcType DEF OffInv
<1>2. "adc" \in Threads /\ "pid" \in Threads \ {"adc"}
      /\ {"wait", "test", "off_pin", "off_clr"} \subseteq Labels
  BY DEF Threads, Labels
<1>3. CASE AdcCheck \/ AdcTest
  <2>1. PICK from \in {"wait", "test"}, to \in {"wait", "test", "off_pin"} :
          Goto("adc", from, to)
    BY <1>3 DEF AdcCheck, AdcTest
  <2>2. UNCHANGED <<pin, orders>> /\ reg' \in {reg, LatchFault}
    BY <1>3 DEF AdcCheck, AdcTest
  <2>3. reg'["run_status"] = reg["run_status"]
    BY <1>1, <2>2, StatusWords
  <2>. QED
    BY <1>1, <1>2, <2>1, <2>2, <2>3, OffElsewhere
<1>4. CASE AdcOffPin
  BY <1>1, <1>4 DEF AdcOffPin, OffInv, OffHalfDone, BitOnItsWay
<1>5. CASE AdcOffClr
  <2>1. pc["adc"] = "off_clr" /\ pc'["adc"] = "wait" /\ UNCHANGED <<pin, orders>>
        /\ \A u \in Threads \ {"adc"} : pc'[u] = pc[u]
    BY <1>1, <1>2, <1>5, OrderGoto DEF AdcOffClr
  <2>2. pin => pc'["pid"] = "closing" \/ orders'.crossed
    BY <1>2, <2>1 DEF OffInv, OffHalfDone, IsClearing
  <2>3. OffHalfDone'
    <3> SUFFICES ASSUME NEW u \in Threads, IsClearing(u)', pin, ~orders.crossed
                 PROVE  pc'["pid"] = "closing" /\ u \in behind'
      BY <2>1 DEF OffHalfDone
    <3>1. u # "adc"
      BY <2>1 DEF IsClearing
    <3>2. IsClearing(u)
      BY <2>1, <3>1 DEF IsClearing
    <3>3. u \in behind
      BY <3>2 DEF OffInv, OffHalfDone
    <3>4. u \in behind'
      BY <1>1, <1>2, <1>5, <3>1, <3>3, StillBehind DEF AdcOffClr
    <3>. QED
      BY <2>1, <2>2, <3>4
  <2>. QED
    BY <1>1, <2>1, <2>2, <2>3 DEF OffInv, BitOnItsWay
<1>. QED
  BY <1>3, <1>4, <1>5 DEF AdcStep

LEMMA DiOff == ASSUME OffInv, DiStep \/ OperatorTurns PROVE OffInv'
<1>1. TypeOK /\ TypeOK'
  BY DiType DEF OffInv
<1>2. "di" \in Threads /\ {"wait", "update", "save"} \subseteq Labels
  BY DEF Threads, Labels
<1>3. CASE OperatorTurns
  BY <1>1, <1>3
  DEF OperatorTurns, OffInv, OffHalfDone, BitOnItsWay, IsClearing, RelayOn
<1>4. CASE DiStep
  <2>1. PICK from, to \in {"wait", "update", "save"} : Goto("di", from, to)
    <3>1. CASE DiRead
      <4> DEFINE to == IF Intensity % 256 # DiLevelRead /\ DiLevelRead <= MaxLevel
                       THEN "update" ELSE "wait"
      <4>1. Goto("di", "wait", to) /\ to \in {"wait", "update"}
        BY <3>1 DEF DiRead
      <4> HIDE DEF to
      <4>. QED
        BY <4>1
    <3>2. CASE DiUpdate \/ DiSaved
      BY <3>2 DEF DiUpdate, DiSaved
    <3>. QED
      BY <1>4, <3>1, <3>2 DEF DiStep
  <2>2. UNCHANGED <<pin, orders>>
        /\ (reg' = reg \/ reg' = [reg EXCEPT !["intensity"] = diLevel])
    BY <1>4 DEF DiStep, DiRead, DiUpdate, DiSaved
  <2>3. reg'["run_status"] = reg["run_status"]
    BY <1>1, <2>2, StatusWords
  <2>. QED
    BY <1>1, <1>2, <2>1, <2>2, <2>3, OffElsewhere
<1>. QED
  BY <1>3, <1>4

LEMMA CrossOff == ASSUME OffInv, NEW low \in BOOLEAN, ZeroCross(low) PROVE OffInv'
<1>1. TypeOK /\ TypeOK'
  BY CrossType DEF OffInv
<1>2. UNCHANGED <<pc, behind, orders>>
  BY DEF ZeroCross
<1>3. CASE pin' = pin /\ reg' = reg
  BY <1>1, <1>2, <1>3 DEF OffInv, OffHalfDone, BitOnItsWay, IsClearing, RelayOn
<1>4. CASE pin' = FALSE
  BY <1>1, <1>4 DEF OffInv, OffHalfDone, BitOnItsWay
<1>. QED
  BY <1>3, <1>4 DEF ZeroCross

\* A store leaves the status bit alone, or is known as a store of the run status.
LEMMA ModbusOff ==
  ASSUME OffInv, (\E q \in Requests : ModbusAccept(q)) \/ ModbusStep
  PROVE  OffInv'
<1>1. TypeOK /\ TypeOK' /\ orders \in OrdersType /\ mb.first \in Nat
  BY ModbusType DEF OffInv, TypeOK, OrdersType
<1>2. "modbus" \in Threads /\ {"wait", "high", "low", "end"} \subseteq Labels
  BY DEF Threads, Labels
<1>3. PICK from, to \in {"wait", "high", "low", "end"} : Goto("modbus", from, to)
  <2>1. CASE (\E q \in Requests : ModbusAccept(q)) \/ ModbusHigh \/ ModbusEnd
    BY <2>1 DEF ModbusAccept, ModbusHigh, ModbusEnd
  <2>2. CASE ModbusLow
    <3> DEFINE to == IF Len(mb.values) = 1 THEN "end" ELSE "high"
    <3>1. Goto("modbus", "low", to) /\ to \in {"end", "high"}
      BY <2>2 DEF ModbusLow
    <3> HIDE DEF to
    <3>. QED
      BY <3>1
  <2>. QED
    BY <2>1, <2>2 DEF ModbusStep
<1>4. pin' = pin
  BY DEF ModbusAccept, ModbusStep, ModbusHigh, ModbusLow, ModbusEnd
<1>5. CASE (\E q \in Requests : ModbusAccept(q)) \/ ModbusEnd
  <2>1. reg' = reg /\ orders'.crossed = orders.crossed
    BY <1>1, <1>5 DEF ModbusAccept, ModbusEnd, OrdersType
  <2>. QED
    BY <1>1, <1>2, <1>3, <1>4, <2>1, OffElsewhere
<1>6. CASE ModbusHigh \/ ModbusLow
  <2>1. (reg' = reg \/ \E w : reg' = Store(mb.first, w)) /\ orders' = Stored(mb.first)
    BY <1>6 DEF ModbusHigh, ModbusLow
  <2>2. orders'.crossed = (orders.crossed \/ RegAt(mb.first) = "run_status")
    BY <1>1, <2>1 DEF Stored, OrdersType
  <2>3. RegAt(mb.first) # "run_status" => reg'["run_status"] = reg["run_status"]
    BY <1>1, <2>1 DEF Store, TypeOK, RegNames
  <2>. QED
    BY <1>1, <1>2, <1>3, <1>4, <2>2, <2>3, OffElsewhere
<1>. QED
  BY <1>5, <1>6 DEF ModbusStep

\* RELAY_ON and RELAY_OFF of write_cmd or the shell: adc waits, the other may be
\* anywhere.
LEMMA SwitchOff ==
  ASSUME OffInv, TypeOK', NEW t \in Switchers, RelayOnStep(t) \/ RelayOffStep(t)
  PROVE  OffInv'
<1>1. TypeOK /\ orders \in OrdersType
  BY DEF OffInv, TypeOK, OrdersType
<1>2. t \in Threads /\ "pid" \in Threads \ {t} /\ Switchers \subseteq Threads
      /\ AfterSwitch(t) \in Labels \ {"closing", "off_clr", "off_clr2"}
      /\ {"on_set", "on_set2", "off_clr2"} \subseteq Labels \ {"closing"}
  BY DEF Threads, Switchers, AfterSwitch, Labels
<1>3. ASSUME NEW from, NEW to, Goto(t, from, to), NEW u \in Threads, IsClearing(u)
      PROVE  u \in Switchers
  <2>1. Blocked("adc")
    BY <1>3 DEF Goto, CanRun, Prio, Threads, Switchers
  <2>2. u # "adc"
    BY <1>3, <2>1 DEF Blocked, Waiting, IsClearing
  <2>. QED
    BY <1>1, <1>3, <2>2 DEF TypeOK, PcOf, IsClearing, Threads, Switchers
<1>4. CASE SwitchPin(t, "on_pin", "on_set", TRUE)
  <2>1. pc'[t] = "on_set" /\ \A u \in Threads \ {t} : pc'[u] = pc[u]
    BY <1>1, <1>2, <1>4, OrderGoto DEF SwitchPin
  <2>2. orders'.crossed = (\E u \in Switchers \ {t} : IsClearing(u))
    BY <1>1, <1>4 DEF SwitchPin, OrdersType
  <2>3. ASSUME NEW u \in Threads, IsClearing(u)' PROVE orders'.crossed
    <3>1. u # t
      BY <2>1, <2>3 DEF IsClearing
    <3>2. IsClearing(u)
      BY <2>1, <2>3, <3>1 DEF IsClearing
    <3>. QED
      BY <1>3, <1>4, <2>2, <3>1, <3>2 DEF SwitchPin
  <2>. QED
    BY <2>1, <2>3 DEF OffInv, OffHalfDone, BitOnItsWay
<1>5. CASE SwitchPin(t, "off_pin", "off_clr", FALSE)
  BY <1>5 DEF SwitchPin, OffInv, OffHalfDone, BitOnItsWay
<1>6. CASE SwitchBit(t, "on_set", "on_set2", SetRelayBit)
           \/ SwitchBit(t, "on_set2", AfterSwitch(t), SetRelayBit)
  <2>1. RelayOn' /\ UNCHANGED <<pin, orders>>
    BY <1>1, <1>6, StatusWords DEF SwitchBit, RelayOn
  <2>2. PICK from \in {"on_set", "on_set2"}, to \in {"on_set2", AfterSwitch(t)} :
          Goto(t, from, to)
    BY <1>6 DEF SwitchBit
  <2>. QED
    BY <1>1, <1>2, <2>1, <2>2, OffElsewhere
<1>7. CASE SwitchBit(t, "off_clr", "off_clr2", ClrRelayBit)
           \/ SwitchBit(t, "off_clr2", AfterSwitch(t), ClrRelayBit)
  <2>1. UNCHANGED <<pin, orders>>
    BY <1>7 DEF SwitchBit
  <2>2. PICK from \in {"off_clr", "off_clr2"}, to \in {"off_clr2", AfterSwitch(t)} :
          Goto(t, from, to)
    BY <1>7 DEF SwitchBit
  <2>3. IsClearing(t) /\ \A u \in Threads \ {t} : pc'[u] = pc[u]
    BY <1>1, <1>2, <2>2, OrderGoto DEF IsClearing
  <2>4. pin => pc'["pid"] = "closing" \/ orders'.crossed
    BY <1>2, <2>1, <2>3 DEF OffInv, OffHalfDone
  <2>5. OffHalfDone'
    <3> SUFFICES ASSUME NEW u \in Threads, IsClearing(u)', pin, ~orders.crossed
                 PROVE  u \in behind'
      BY <2>1, <2>4 DEF OffHalfDone
    <3>1. IsClearing(u)
      BY <2>3 DEF IsClearing
    <3>2. u \in behind
      BY <3>1 DEF OffInv, OffHalfDone
    <3>3. CASE u # t
      BY <1>1, <1>2, <2>2, <3>2, <3>3, StillBehind
    <3>4. CASE u = t
      <4>1. pc'[t] = to /\ to = "off_clr2"
        BY <1>1, <1>2, <2>2, <3>4, OrderGoto DEF IsClearing
      <4>. QED
        BY <2>2, <3>2, <3>4, <4>1 DEF Goto, Waiting
    <3>. QED
      BY <3>3, <3>4
  <2>. QED
    BY <2>1, <2>4, <2>5 DEF OffInv, BitOnItsWay
<1>. QED
  BY <1>4, <1>5, <1>6, <1>7 DEF RelayOnStep, RelayOffStep

LEMMA WcmdOff == ASSUME OffInv, WcmdStep PROVE OffInv'
<1>1. TypeOK /\ TypeOK' /\ "wcmd" \in Threads /\ "wcmd" \in Switchers
  BY WcmdType DEF OffInv, Threads, Switchers
<1>2. CASE RelayOnStep("wcmd") \/ RelayOffStep("wcmd")
  BY <1>1, <1>2, SwitchOff
<1>3. CASE WcmdTake \/ WcmdCompare \/ WcmdLatch \/ WcmdBranch \/ WcmdSaved
  <2>1. PICK from \in {"wait", "compare", "latch", "branch", "save", "delay"},
             to \in {"wait", "compare", "latch", "branch", "save", "delay",
                     "on_pin", "off_pin"} : Goto("wcmd", from, to)
    BY <1>3 DEF WcmdTake, WcmdCompare, WcmdLatch, WcmdBranch, WcmdSaved
  <2>2. UNCHANGED <<pin, reg, orders>> /\ to \in Labels
    BY <1>3 DEF WcmdTake, WcmdCompare, WcmdLatch, WcmdBranch, WcmdSaved, Labels
  <2>. QED
    BY <1>1, <2>1, <2>2, OffElsewhere
<1>. QED
  BY <1>2, <1>3 DEF WcmdStep

LEMMA ShellOff == ASSUME OffInv, ShellStep \/ ShellCommand PROVE OffInv'
<1>1. TypeOK /\ TypeOK' /\ "shell" \in Threads /\ "shell" \in Switchers
  BY ShellType DEF OffInv, Threads, Switchers
<1>2. CASE RelayOnStep("shell") \/ RelayOffStep("shell")
  BY <1>1, <1>2, SwitchOff
<1>3. CASE ShellApplyLevel \/ ShellCommand
  <2>1. PICK from \in {"wait", "save"}, to \in {"wait", "save", "on_pin", "off_pin"} :
          Goto("shell", from, to)
    BY <1>3 DEF ShellCommand, ShellSetLevel, ShellApplyLevel, ShellRelay,
       ShellSetAngle, ShellPid
  <2>2. UNCHANGED <<pin, orders>>
        /\ (reg' = reg \/ \E v : reg' = [reg EXCEPT !["intensity"] = v])
    BY <1>3 DEF ShellCommand, ShellSetLevel, ShellApplyLevel, ShellRelay,
       ShellSetAngle, ShellPid
  <2>3. reg'["run_status"] = reg["run_status"] /\ to \in Labels
    BY <1>1, <2>2, StatusWords DEF Labels
  <2>. QED
    BY <1>1, <2>1, <2>2, <2>3, OffElsewhere
<1>. QED
  BY <1>2, <1>3 DEF ShellStep

\* Whatever pid, adc, the interrupt, write_cmd, the shell and the master do between
\* each other's steps, a closed contactor has its status bit, but for the closing
\* delay of pid, the two halves of a RELAY_ON or RELAY_OFF, and after a RELAY_ON
\* that has crossed a RELAY_OFF or a run status written by the master
\* (pid_app.c:315-331, i2c_app.c:189-201, main.c:114-133, adc_sample.c:183-190).
THEOREM StatusOffMeansOpen == Spec => []OffMeansOpen
<1>1. OffInv /\ [Next]_vars => OffInv'
  <2> SUFFICES ASSUME OffInv, [Next]_vars PROVE OffInv'
    OBVIOUS
  <2>1. CASE UNCHANGED vars
    BY <2>1 DEF vars, panel, OffInv, TypeOK, OffHalfDone, BitOnItsWay, IsClearing,
       RelayOn
  <2>2. CASE Next
    BY <2>2, PidOff, AdcOff, DiOff, CrossOff, ModbusOff, WcmdOff, ShellOff DEF Next
  <2>. QED
    BY <2>1, <2>2
<1>2. OffInv => OffMeansOpen
  <2> SUFFICES ASSUME OffInv, NoSwitching, ~RelayOn, pin
               PROVE  pc["pid"] = "closing" \/ orders.crossed
    BY DEF OffMeansOpen
  <2>. QED
    BY DEF OffInv, BitOnItsWay, NoSwitching, Switchers, Threads
<1>. QED
  BY InitOff, <1>1, <1>2, PTL DEF Spec

-----------------------------------------------------------------------------
(* A fault adc has found opens the contactor.                               *)

\* No write of the master reaches the alarm word: one that does can clear a fault
\* and set it again within a round.
KeepsAlarms == \A q \in Requests : q.first + Len(q.values) <= 29 \/ q.first > 29

BesideAlarms ==
  pc["modbus"] \in {"high", "low"}
    => mb.first + Len(mb.values) <= 29 \/ mb.first > 29

\* A fault adc has tested stays, and nobody closes inside its RELAY_OFF: pid
\* looks at the fault, the others have a lower priority.
AdcTripping == /\ pc["adc"] \in {"off_pin", "off_clr"} => FaultExists
               /\ pc["adc"] = "off_clr" => ~pin

TripInv == TypeOK /\ BesideAlarms /\ AdcTripping

LEMMA InitTrip == Init => TripInv
<1> SUFFICES ASSUME Init PROVE TripInv
  OBVIOUS
<1>1. pc["adc"] = "wait" /\ pc["modbus"] = "wait"
  BY DEF Init, Threads
<1>. QED
  BY <1>1, InitTypeOK DEF TripInv, BesideAlarms, AdcTripping

\* A round of adc ends in adc's own steps only.
LEMMA OthersLeaveAdc ==
  ASSUME TypeOK, Next, ~AdcStep PROVE pc'["adc"] = pc["adc"]
<1>1. ASSUME NEW t \in Threads \ {"adc"}, NEW from, NEW to, Goto(t, from, to)
      PROVE  pc'["adc"] = pc["adc"]
  BY <1>1, OrderGoto DEF Threads
<1>2. {"pid", "modbus", "di", "wcmd", "shell"} \subseteq Threads \ {"adc"}
  BY DEF Threads
<1>3. CASE PidStep
  BY <1>1, <1>2, <1>3 DEF PidStep, PidIdle, PidClose, PidSetStatus, PidSetRef
<1>4. CASE (\E q \in Requests : ModbusAccept(q)) \/ ModbusStep
  BY <1>1, <1>2, <1>4 DEF ModbusAccept, ModbusStep, ModbusHigh, ModbusLow, ModbusEnd
<1>5. CASE OperatorTurns \/ \E low \in BOOLEAN : ZeroCross(low)
  BY <1>5 DEF OperatorTurns, ZeroCross
<1>6. CASE DiStep
  BY <1>1, <1>2, <1>6 DEF DiStep, DiRead, DiUpdate, DiSaved
<1>7. CASE WcmdStep
  BY <1>1, <1>2, <1>7
  DEF WcmdStep, WcmdTake, WcmdCompare, WcmdLatch, WcmdBranch, WcmdSaved,
      RelayOnStep, RelayOffStep, SwitchPin, SwitchBit
<1>8. CASE ShellCommand \/ ShellStep
  BY <1>1, <1>2, <1>8
  DEF ShellStep, ShellCommand, ShellSetLevel, ShellApplyLevel, ShellRelay,
      ShellSetAngle, ShellPid, RelayOnStep, RelayOffStep, SwitchPin, SwitchBit
<1>. QED
  BY <1>3, <1>4, <1>5, <1>6, <1>7, <1>8 DEF Next

\* A step outside adc and the stores of Modbus clears no fault and closes no
\* contactor that adc is opening.
LEMMA TripElsewhere ==
  ASSUME TripInv, Next, ~AdcStep, ~ModbusHigh, ~ModbusLow PROVE AdcTripping'
<1>1. TypeOK /\ pc'["adc"] = pc["adc"]
  BY OthersLeaveAdc DEF TripInv
<1>2. CASE PidStep
  BY <1>1, <1>2, StatusWords DEF PidStep, PidIdle, PidClose, PidMayClose,
     PidSetStatus, PidSetRef, TripInv, AdcTripping, FaultExists
<1>3. CASE OperatorTurns \/ (\E q \in Requests : ModbusAccept(q)) \/ ModbusEnd
  BY <1>1, <1>3 DEF OperatorTurns, ModbusAccept, ModbusEnd, TripInv, AdcTripping,
     FaultExists
<1>4. ASSUME NEW low \in BOOLEAN, ZeroCross(low) PROVE AdcTripping'
  BY <1>1, <1>4, StatusWords DEF ZeroCross, TripInv, AdcTripping, FaultExists
<1>5. CASE DiStep
  <2>1. pin' = pin /\ (reg' = reg \/ reg' = [reg EXCEPT !["intensity"] = diLevel])
    BY <1>5 DEF DiStep, DiRead, DiUpdate, DiSaved
  <2>2. FaultExists' = FaultExists
    BY <1>1, <2>1, StatusWords DEF FaultExists
  <2>. QED
    BY <1>1, <2>1, <2>2 DEF TripInv, AdcTripping
<1>6. CASE WcmdStep \/ ShellCommand \/ ShellStep
  <2>1. PICK t \in {"wcmd", "shell"} : \E from, to : Goto(t, from, to)
    BY <1>6 DEF WcmdStep, WcmdTake, WcmdCompare, WcmdLatch, WcmdBranch, WcmdSaved,
       ShellStep, ShellCommand, ShellSetLevel, ShellApplyLevel, ShellRelay,
       ShellSetAngle, ShellPid, RelayOnStep, RelayOffStep, SwitchPin, SwitchBit
  <2>2. Blocked("adc")
    BY <2>1 DEF Goto, CanRun, Prio, Threads
  <2>. QED
    BY <1>1, <2>2 DEF Blocked, Waiting, AdcTripping
<1>. QED
  BY <1>2, <1>3, <1>4, <1>5, <1>6 DEF Next, ModbusStep

LEMMA TripInductive == ASSUME KeepsAlarms, TripInv, [Next]_vars PROVE TripInv'
<1>1. CASE UNCHANGED vars
  BY <1>1 DEF vars, panel, TripInv, TypeOK, BesideAlarms, AdcTripping, FaultExists
<1>2. CASE AdcStep
  <2>1. TypeOK /\ TypeOK' /\ mb' = mb /\ {"adc", "modbus"} \subseteq Threads
    BY <1>2, AdcType DEF TripInv, Threads, AdcStep, AdcCheck, AdcTest, AdcOffPin,
       AdcOffClr
  <2>2. pc'["modbus"] = pc["modbus"]
    BY <1>2, <2>1, OrderGoto DEF AdcStep, AdcCheck, AdcTest, AdcOffPin, AdcOffClr
  <2>3. ASSUME AdcCheck PROVE AdcTripping'
    BY <2>1, <2>3, OrderGoto DEF AdcCheck, AdcTripping
  <2>4. ASSUME AdcTest PROVE AdcTripping'
    BY <2>1, <2>4, OrderGoto DEF AdcTest, AdcTrips, AdcTripping, FaultExists
  <2>5. ASSUME AdcOffPin PROVE AdcTripping'
    BY <2>1, <2>5, OrderGoto DEF AdcOffPin, TripInv, AdcTripping, FaultExists
  <2>6. ASSUME AdcOffClr PROVE AdcTripping'
    BY <2>1, <2>6, OrderGoto DEF AdcOffClr, AdcTripping
  <2>7. AdcTripping'
    BY <1>2, <2>3, <2>4, <2>5, <2>6 DEF AdcStep
  <2>. QED
    BY <2>1, <2>2, <2>7 DEF TripInv, BesideAlarms
<1>3. CASE (\E q \in Requests : ModbusAccept(q)) \/ ModbusStep
  <2>1. TypeOK /\ TypeOK' /\ "modbus" \in Threads
    BY <1>3, ModbusType DEF TripInv, Threads
  <2>2. ASSUME NEW q \in Requests, ModbusAccept(q) PROVE BesideAlarms' /\ AdcTripping'
    <3>1. BesideAlarms'
      BY <2>2 DEF ModbusAccept, BesideAlarms, KeepsAlarms
    <3>2. pc'["adc"] = pc["adc"] /\ UNCHANGED <<pin, reg>>
      BY <2>1, <2>2, OrderGoto DEF ModbusAccept, Threads
    <3>. QED
      BY <3>1, <3>2 DEF TripInv, AdcTripping, FaultExists
  <2>3. CASE ModbusEnd
    <3>1. pc'["modbus"] = "wait" /\ pc'["adc"] = pc["adc"] /\ UNCHANGED <<pin, reg>>
      BY <2>1, <2>3, OrderGoto DEF ModbusEnd, Threads
    <3>. QED
      BY <2>1, <3>1 DEF TripInv, BesideAlarms, AdcTripping, FaultExists
  <2>4. CASE ModbusHigh \/ ModbusLow
    <3>1. pc["modbus"] \in {"high", "low"} /\ pc'["adc"] = pc["adc"] /\ pin' = pin
      BY <2>1, <2>4, OrderGoto DEF ModbusHigh, ModbusLow, Threads
    <3>2. mb.first \in Nat /\ mb.values \in Seq(Word) /\ Len(mb.values) \in Nat \ {0}
          /\ Len(Tail(mb.values)) = Len(mb.values) - 1
      BY <2>1, <3>1, HeadTailProperties, EmptySeq, LenProperties DEF TypeOK
    <3>3. BesideAlarms
      BY DEF TripInv
    <3>4. RegAt(mb.first) # "status"
      BY <3>1, <3>2, <3>3 DEF RegAt, BesideAlarms
    <3>5. FaultExists' = FaultExists
      BY <2>1, <2>4, <3>4
      DEF ModbusHigh, ModbusLow, Store, TypeOK, RegNames, FaultExists
    <3>6. BesideAlarms'
      <4>1. mb' = mb \/ mb' = [first |-> mb.first + 1, values |-> Tail(mb.values)]
        BY <2>4 DEF ModbusHigh, ModbusLow
      <4>. QED
        BY <3>1, <3>2, <3>3, <4>1 DEF BesideAlarms
    <3>. QED
      BY <2>1, <3>1, <3>5, <3>6 DEF TripInv, AdcTripping
  <2>. QED
    BY <1>3, <2>1, <2>2, <2>3, <2>4 DEF ModbusStep, TripInv
<1>4. CASE /\ Next /\ ~AdcStep /\ ~ModbusStep
           /\ ~\E q \in Requests : ModbusAccept(q)
  <2>1. AdcTripping'
    BY <1>4, TripElsewhere DEF ModbusStep
  <2>2. TypeOK'
    BY <1>4, PidType, CrossType, DiType, WcmdType, ShellType DEF Next, TripInv
  <2>3. mb' = mb /\ pc'["modbus"] = pc["modbus"]
    <3>1. pc' = pc \/ \E t \in Threads \ {"modbus"} : \E from, to : Goto(t, from, to)
      BY <1>4 DEF Next, PidStep, PidIdle, PidClose, PidSetStatus, PidSetRef, DiStep,
         DiRead, DiUpdate, DiSaved, OperatorTurns, ZeroCross, WcmdStep, WcmdTake,
         WcmdCompare, WcmdLatch, WcmdBranch, WcmdSaved, ShellStep, ShellCommand,
         ShellSetLevel, ShellApplyLevel, ShellRelay, ShellSetAngle, ShellPid,
         RelayOnStep, RelayOffStep, SwitchPin, SwitchBit, Threads
    <3>2. mb' = mb
      BY <1>4 DEF Next, PidStep, PidIdle, PidClose, PidSetStatus, PidSetRef, DiStep,
         DiRead, DiUpdate, DiSaved, OperatorTurns, ZeroCross, WcmdStep, WcmdTake,
         WcmdCompare, WcmdLatch, WcmdBranch, WcmdSaved, ShellStep, ShellCommand,
         ShellSetLevel, ShellApplyLevel, ShellRelay, ShellSetAngle, ShellPid,
         RelayOnStep, RelayOffStep, SwitchPin, SwitchBit
    <3>. QED
      BY <3>1, <3>2, OrderGoto DEF TripInv, Threads
  <2>. QED
    BY <2>1, <2>2, <2>3 DEF TripInv, BesideAlarms
<1>. QED
  BY <1>1, <1>2, <1>3, <1>4

\* While the master does not write the alarm word, a fault adc has found opens the
\* contactor by the end of its round, whatever pid, the interrupt, orders of the
\* master and the shell do between its steps (adc_sample.c:185-190): pid does not
\* close under a fault, and the others that close it have a lower priority.
THEOREM FaultyRoundsTrip == ASSUME KeepsAlarms PROVE Spec => RoundTrips
<1>1. ASSUME TripInv, Next, pc["adc"] # "wait", pc'["adc"] = "wait", FaultExists'
      PROVE  ~pin'
  <2>1. TypeOK /\ "adc" \in Threads
    BY <1>1 DEF TripInv, Threads
  <2>2. AdcStep
    BY <1>1, <2>1, OthersLeaveAdc
  <2>3. ~AdcCheck /\ ~AdcOffPin
    BY <1>1, <2>1, OrderGoto DEF AdcCheck, AdcOffPin
  <2>4. ~AdcTest
    BY <1>1, <2>1, OrderGoto DEF AdcTest, AdcTrips, FaultExists
  <2>5. AdcOffClr
    BY <2>2, <2>3, <2>4 DEF AdcStep
  <2>. QED
    BY <1>1, <2>5 DEF AdcOffClr, Goto, TripInv, AdcTripping
<1>2. TripInv /\ [Next]_vars
        => [pc["adc"] # "wait" /\ pc'["adc"] = "wait" /\ FaultExists' => ~pin']_vars
  BY <1>1
<1>. QED
  BY InitTrip, TripInductive, <1>2, PTL DEF Spec, RoundTrips
====
