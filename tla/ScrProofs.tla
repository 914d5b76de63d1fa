----------------------------- MODULE ScrProofs -----------------------------
(***************************************************************************)
(* The SCR is fired in its window only, once in each half-wave that is     *)
(* due, for all times that keep the order of those in the code: whatever   *)
(* the length of a tick.                                                   *)
(*                                                                         *)
(* The invariant says where a half-wave is: a timer that runs was started  *)
(* in this half-wave, at its beginning (timer3, timer6) or 1 ms after it   *)
(* (timer2) or is carried over from one that fired late, and an            *)
(* interference is measured as one.  A half-wave that is due and not yet   *)
(* fired has one of the two timers that lead to the gate running or its    *)
(* interrupt on its way; one that is fired has neither.                    *)
(***************************************************************************)
EXTENDS ScrFiring, TLAPS

\* The half-waves of the mains are no shorter than those of 52.5 Hz, and what is
\* shorter than LowCZWarnTime is an interference.  Crossings may be missed.
GoodMains == /\ \A g \in Gaps : NPeriod <= g
             /\ \A g \in Glitches : g < LowCZWarnTime

\* timer3 runs out once in a half-wave due, and then starts timer2.
OneMsRuns ==
  left["timer3"] # Off => due /\ loaded = 0 /\ left["timer3"] + age = OneMs
OneMsIrq ==
  irq["timer3"] # "idle" => /\ due /\ age = OneMs /\ left["timer3"] = Off
                            /\ irq["timer3"] # "stopping" => loaded = 0

\* timer2 runs with the delay it was started with, unless it is carried over, and
\* when the carried one has just run out as timer3 starts it anew.
AngleRuns ==
  left["timer2"] # Off => IF loaded = 0 THEN carried
                          ELSE left["timer2"] + age = OneMs + loaded
AngleIrq ==
  irq["timer2"] # "idle" => IF loaded = 0 THEN carried
                            ELSE (age = OneMs /\ carried) \/ age = OneMs + loaded
AngleLoaded == loaded # 0 => due /\ OneMs <= age

StableRuns ==
  /\ left["timer6"] # Off => due /\ left["timer6"] + age = SingleStable
  /\ due /\ age < SingleStable => left["timer6"] # Off
StableIrq ==
  irq["timer6"] # "idle" => due /\ age = SingleStable /\ left["timer6"] = Off

GateEnds ==
  gate => \/ Late
          \/ /\ due /\ loaded # 0 /\ OneMs + loaded <= age /\ age <= SingleStable
             /\ left["timer6"] # Off \/ irq["timer6"] # "idle"

PeriodRuns ==
  /\ left["timer5"] # Off => left["timer5"] <= PPeriod /\ overflow = 0
  /\ irq["timer5"] = "pending" => overflow = 0 /\ left["timer5"] \in {Off, PPeriod}
NotStable == stable_cnt = 0 /\ ~int0_valid
EarlyIsShort ==
  age < LowCZWarnTime =>
    /\ left["timer5"] # Off => PPeriod - left["timer5"] <= age
    /\ overflow = 1 \/ irq["timer5"] = "pending" => NotStable

NotYet == first_run => NotStable /\ ~due /\ loaded = 0 /\ ~carried

IrqOf == /\ irq["timer2"] \in {"idle", "pending"}
         /\ irq["timer3"] \in {"idle", "pending", "callback", "stopping"}
         /\ irq["timer5"] \in {"idle", "pending", "callback", "invalid"}
         /\ irq["timer6"] \in {"idle", "pending", "callback", "closing"}

Types == TypeOK /\ IrqOf /\ PeriodRuns

ScrInv == /\ Types /\ NotYet
          /\ OneMsRuns /\ OneMsIrq /\ AngleRuns /\ AngleIrq /\ AngleLoaded
          /\ StableRuns /\ StableIrq /\ GateEnds /\ EarlyIsShort

-----------------------------------------------------------------------------
(* Types.                                                                   *)

LEMMA TypesInit == Init => Types
<1> SUFFICES ASSUME Init PROVE Types
  OBVIOUS
<1>1. /\ left \in [Timers -> Nat \cup {Off}] /\ left["timer5"] = Off
      /\ irq \in [Timers -> {"idle"}]
  BY DEF Init, Timers
<1>2. /\ stable_cnt \in 0 .. Int0StableNum /\ age \in 0 .. Lost
      /\ overflow = 0 /\ delay \in Delays /\ g_ctrl_cycle \in {1, 2}
      /\ mains \in {"poor", "steady"}
  BY TimeAssumption DEF Init, Lost
<1>3. /\ first_run \in BOOLEAN /\ int0_valid \in BOOLEAN /\ even_flag \in BOOLEAN
      /\ gate \in BOOLEAN /\ relay \in BOOLEAN /\ due \in BOOLEAN
      /\ fired \in BOOLEAN /\ loaded \in Delays \cup {0} /\ carried \in BOOLEAN
  BY DEF Init
<1> QED
  BY <1>1, <1>2, <1>3 DEF Types, TypeOK, IrqOf, PeriodRuns, Timers

\* What is read of timer5 while it runs, when it has just run out, and when its
\* interrupt has counted that.
LEMMA MeasuredTime ==
  ASSUME Types
  PROVE  /\ left["timer5"] # Off => Measured = PPeriod - left["timer5"]
         /\ left["timer5"] = Off /\ overflow = 0 => Measured = 0
         /\ overflow = 1 => Measured = PPeriod
<1>1. PPeriod \in Nat
  BY TimeAssumption
<1>2. overflow = 0 \/ overflow = 1
  BY DEF Types, TypeOK
<1>3. left["timer5"] # Off => overflow = 0 /\ left["timer5"] \in Nat
  BY DEF Types, TypeOK, PeriodRuns, Timers
<1> QED
  BY <1>1, <1>2, <1>3 DEF Measured, Off

LEMMA TypesInterrupt == Types /\ Interrupt => Types'
<1> SUFFICES ASSUME Types, Interrupt PROVE Types'
  OBVIOUS
<1> USE TimeAssumption DEF Types, TypeOK, IrqOf, PeriodRuns, Timers, Off, Lost
<1>1. ASSUME NEW t \in Timers, RunOut(t) PROVE Types'
  BY <1>1 DEF RunOut, period, control, history
<1>2. ASSUME NEW t \in Timers, Isr(t) PROVE Types'
  BY <1>2 DEF Isr, Served, period, control, history
<1>3. CASE AngleIsr
  BY <1>3 DEF AngleIsr, Served, period, control
<1>4. CASE OneMsCallback
  BY <1>4 DEF OneMsCallback, Served, period, control, history
<1>5. CASE StableCallback
  <2>1. gate' \in BOOLEAN
    BY <1>5 DEF StableCallback
  <2> QED
    BY <1>5, <2>1 DEF StableCallback, Served, period, control, history
<1>6. CASE PeriodCallback
  <2>1. int0_valid' \in BOOLEAN
    BY <1>6 DEF PeriodCallback
  <2> QED
    BY <1>6, <2>1 DEF PeriodCallback, Served, control, history
<1> QED
  BY <1>1, <1>2, <1>3, <1>4, <1>5, <1>6 DEF Interrupt, Callback

\* The history of a half-wave.
HistoryTypes == /\ due \in BOOLEAN /\ fired \in BOOLEAN
                /\ loaded \in Delays \cup {0} /\ carried \in BOOLEAN

LEMMA TypesEntry == Types /\ Entry /\ age' \in 0 .. Lost /\ HistoryTypes' => Types'
<1> SUFFICES ASSUME Types, Entry, age' \in 0 .. Lost, HistoryTypes' PROVE Types'
  OBVIOUS
<1> USE DEF HistoryTypes
<1>1. CASE FirstCrossing
  <2>1. first_run' \in BOOLEAN
    BY <1>1 DEF FirstCrossing
  <2> QED
    BY <1>1, <2>1, TimeAssumption
       DEF Entry, FirstCrossing, Types, TypeOK, IrqOf, PeriodRuns, Timers, Off,
           control
<1>2. CASE LaterCrossing
  <2>1. /\ left' \in [Timers -> Nat \cup {Off}]
        /\ left'["timer5"] = PPeriod
    BY <1>2, TimeAssumption
       DEF LaterCrossing, Restarted, Types, TypeOK, Timers, Off
  <2>2. stable_cnt' \in 0 .. Int0StableNum
    BY <1>2, TimeAssumption DEF LaterCrossing, StableAfter, Types, TypeOK
  <2>3. int0_valid' \in BOOLEAN /\ even_flag' \in BOOLEAN /\ gate' \in BOOLEAN
    BY <1>2 DEF LaterCrossing, ValidAfter, Types, TypeOK
  <2>4. /\ g_ctrl_cycle' \in {1, 2} /\ delay' \in Delays /\ relay' \in BOOLEAN
        /\ first_run' \in BOOLEAN
    BY <1>2 DEF LaterCrossing, Types, TypeOK
  <2> QED
    BY <2>1, <2>2, <2>3, <2>4, TimeAssumption
       DEF Entry, Types, TypeOK, IrqOf, PeriodRuns, Off
<1> QED
  BY <1>1, <1>2 DEF Entry

LEMMA TypesNext == Types /\ [Next]_vars => Types'
<1> SUFFICES ASSUME Types, [Next]_vars PROVE Types'
  OBVIOUS
<1> USE TimeAssumption DEF Types, TypeOK
<1>1. CASE Interrupt
  BY <1>1, TypesInterrupt
<1>2. CASE Crossing
  <2>1. HistoryTypes' /\ age' \in 0 .. Lost
    <3>1. age' = 0 /\ fired' = FALSE /\ due' = (~first_run /\ Fires)
      BY <1>2 DEF Crossing
    <3>6. loaded' = 0 /\ carried' \in BOOLEAN
      BY <1>2 DEF Crossing
    <3>2. due' \in BOOLEAN
      BY <3>1
    <3>3. fired' \in BOOLEAN
      BY <3>1
    <3>4. Lost \in Nat
      BY DEF Lost
    <3>5. age' \in 0 .. Lost
      BY <3>1, <3>4
    <3> QED
      BY <3>2, <3>3, <3>5, <3>6 DEF HistoryTypes
  <2> QED
    BY <1>2, <2>1, TypesEntry DEF Crossing
<1>3. CASE Glitch
  BY <1>3, TypesEntry DEF Glitch, history, HistoryTypes
<1>4. CASE SwitchRelay
  BY <1>4 DEF SwitchRelay, IrqOf, PeriodRuns, period, control, history
<1>5. CASE SetAngle
  BY <1>5 DEF SetAngle, IrqOf, PeriodRuns, period, control, history
<1>6. CASE Settle
  BY <1>6 DEF Settle, IrqOf, PeriodRuns, period, control, history
<1>7. CASE Tick
  BY <1>7 DEF Tick, Quiet, Timers, Off, Lost, IrqOf, PeriodRuns, period,
              control, history
<1>8. CASE UNCHANGED vars
  BY <1>8 DEF vars, IrqOf, PeriodRuns, period, control, history
<1> QED
  BY <1>1, <1>2, <1>3, <1>4, <1>5, <1>6, <1>7, <1>8 DEF Next

\* Every variable of the firing stays in its type; timer5 counts at most one
\* overflow (cross_zero_check.c:113-250, scr.c:39-59, hwtimer.c:297-325).
THEOREM ScrTypeCorrect == Spec => []TypeOK
<1>1. Types => TypeOK
  BY DEF Types
<1> QED
  BY <1>1, TypesInit, TypesNext, PTL DEF Spec

-----------------------------------------------------------------------------
(* The window.                                                              *)

LEMMA ScrInit == Init => ScrInv
<1> SUFFICES ASSUME Init PROVE ScrInv
  OBVIOUS
<1>1. Types
  BY TypesInit
<1>2. /\ \A t \in Timers : left[t] = Off /\ irq[t] = "idle"
      /\ NotStable /\ ~due /\ ~gate /\ loaded = 0 /\ ~carried
  BY DEF Init, NotStable
<1>3. ~(age < LowCZWarnTime)
  BY TimeAssumption DEF Init, Lost
<1> QED
  BY <1>1, <1>2, <1>3
     DEF ScrInv, NotYet, OneMsRuns, OneMsIrq, AngleRuns, AngleIrq, AngleLoaded,
         StableRuns, StableIrq, GateEnds, EarlyIsShort, Timers

LEMMA WindowRunOut ==
  ASSUME ScrInv, GoodMains, NEW t \in Timers, RunOut(t)
  PROVE  ScrInv'
<1> USE TimeAssumption
    DEF ScrInv, Types, TypeOK, IrqOf, RunOut, Timers, Off, period, history
<1>1. Types'
  BY TypesInterrupt DEF Interrupt
<1>2. NotYet' /\ OneMsRuns' /\ OneMsIrq'
  BY DEF NotYet, NotStable, OneMsRuns, OneMsIrq
<1>3. AngleRuns' /\ AngleIrq' /\ AngleLoaded'
  BY DEF AngleRuns, AngleIrq, AngleLoaded
<1>4. StableRuns' /\ StableIrq'
  BY DEF StableRuns, StableIrq
<1>5. GateEnds'
  BY DEF GateEnds, Late
<1>6. EarlyIsShort'
  BY DEF EarlyIsShort, NotStable, PeriodRuns
<1> QED
  BY <1>1, <1>2, <1>3, <1>4, <1>5, <1>6

LEMMA WindowIsr ==
  ASSUME ScrInv, GoodMains, NEW t \in Timers, Isr(t)
  PROVE  ScrInv'
<1> USE TimeAssumption
    DEF ScrInv, Types, TypeOK, IrqOf, Isr, Served, Timers, Off, period, history
<1>1. Types'
  BY TypesInterrupt DEF Interrupt
<1>2. NotYet' /\ OneMsRuns' /\ OneMsIrq'
  BY DEF NotYet, NotStable, OneMsRuns, OneMsIrq
<1>3. AngleRuns' /\ AngleIrq' /\ AngleLoaded'
  BY DEF AngleRuns, AngleIrq, AngleLoaded
<1>4. StableRuns' /\ StableIrq'
  BY DEF StableRuns, StableIrq
<1>5. GateEnds'
  BY DEF GateEnds, Late
<1>6. EarlyIsShort'
  BY DEF EarlyIsShort, NotStable, PeriodRuns
<1> QED
  BY <1>1, <1>2, <1>3, <1>4, <1>5, <1>6

\* The gate is switched on at 1 ms and a delay after the crossing, while the
\* single-stable still runs.
LEMMA WindowAngle == ASSUME ScrInv, GoodMains, AngleIsr PROVE ScrInv'
<1> USE TimeAssumption
    DEF ScrInv, Types, TypeOK, IrqOf, AngleIsr, Served, Timers, Off, period
<1>1. Types'
  BY TypesInterrupt DEF Interrupt, Callback
<1>2. NotYet' /\ OneMsRuns' /\ OneMsIrq'
  BY DEF NotYet, NotStable, OneMsRuns, OneMsIrq
<1>3. AngleRuns' /\ AngleIrq' /\ AngleLoaded'
  BY DEF AngleRuns, AngleIrq, AngleLoaded
<1>4. StableRuns' /\ StableIrq'
  BY DEF StableRuns, StableIrq
<1>5. GateEnds'
  <2>1. ASSUME ~Late
        PROVE  /\ due /\ loaded # 0 /\ age = OneMs + loaded /\ age < SingleStable
               /\ left["timer6"] # Off
    BY <2>1 DEF AngleIrq, AngleLoaded, StableRuns, Late
  <2>2. UNCHANGED <<due, loaded, carried, age>> /\ left'["timer6"] = left["timer6"]
    OBVIOUS
  <2> QED
    BY <2>1, <2>2 DEF GateEnds, Late
<1>6. EarlyIsShort'
  BY DEF EarlyIsShort, NotStable
<1> QED
  BY <1>1, <1>2, <1>3, <1>4, <1>5, <1>6

LEMMA WindowOneMs == ASSUME ScrInv, GoodMains, OneMsCallback PROVE ScrInv'
<1> USE TimeAssumption
    DEF ScrInv, Types, TypeOK, IrqOf, OneMsCallback, Served, Timers, Off, period,
        history
<1>1. Types'
  BY TypesInterrupt DEF Interrupt, Callback
<1>2. NotYet' /\ OneMsRuns' /\ OneMsIrq'
  BY DEF NotYet, NotStable, OneMsRuns, OneMsIrq
<1>3. AngleRuns' /\ AngleIrq' /\ AngleLoaded'
  BY DEF AngleRuns, AngleIrq, AngleLoaded, OneMsIrq
<1>4. StableRuns' /\ StableIrq'
  BY DEF StableRuns, StableIrq
<1>5. GateEnds'
  BY DEF GateEnds, Late, OneMsIrq
<1>6. EarlyIsShort'
  BY DEF EarlyIsShort, NotStable
<1> QED
  BY <1>1, <1>2, <1>3, <1>4, <1>5, <1>6

LEMMA WindowStable == ASSUME ScrInv, GoodMains, StableCallback PROVE ScrInv'
<1> USE TimeAssumption
    DEF ScrInv, Types, TypeOK, IrqOf, StableCallback, Served, Timers, Off, period,
        history
<1>1. Types'
  BY TypesInterrupt DEF Interrupt, Callback
<1>2. NotYet' /\ OneMsRuns' /\ OneMsIrq'
  BY DEF NotYet, NotStable, OneMsRuns, OneMsIrq
<1>3. AngleRuns' /\ AngleIrq' /\ AngleLoaded'
  BY DEF AngleRuns, AngleIrq, AngleLoaded
<1>4. StableRuns' /\ StableIrq'
  BY DEF StableRuns, StableIrq
<1>5. GateEnds'
  BY DEF GateEnds, Late
<1>6. EarlyIsShort'
  BY DEF EarlyIsShort, NotStable
<1> QED
  BY <1>1, <1>2, <1>3, <1>4, <1>5, <1>6

LEMMA WindowPeriod == ASSUME ScrInv, GoodMains, PeriodCallback PROVE ScrInv'
<1> USE TimeAssumption
    DEF ScrInv, Types, TypeOK, IrqOf, PeriodCallback, Served, Timers, Off, history
<1>1. Types'
  BY TypesInterrupt DEF Interrupt, Callback
<1>2. NotYet' /\ OneMsRuns' /\ OneMsIrq'
  BY DEF NotYet, NotStable, OneMsRuns, OneMsIrq
<1>3. AngleRuns' /\ AngleIrq' /\ AngleLoaded'
  BY DEF AngleRuns, AngleIrq, AngleLoaded
<1>4. StableRuns' /\ StableIrq'
  BY DEF StableRuns, StableIrq
<1>5. GateEnds'
  BY DEF GateEnds, Late
<1>6. EarlyIsShort'
  BY DEF EarlyIsShort, NotStable
<1> QED
  BY <1>1, <1>2, <1>3, <1>4, <1>5, <1>6

LEMMA WindowTick == ASSUME ScrInv, GoodMains, Tick PROVE ScrInv'
<1> USE TimeAssumption
    DEF ScrInv, Types, TypeOK, Tick, Quiet, Timers, Off, Lost, period, history
<1>1. Types'
  BY TypesNext DEF Next
<1>2. NotYet' /\ OneMsRuns' /\ OneMsIrq'
  BY DEF NotYet, NotStable, OneMsRuns, OneMsIrq
<1>3. AngleRuns' /\ AngleIrq' /\ AngleLoaded'
  BY DEF AngleRuns, AngleIrq, AngleLoaded
<1>4. StableRuns' /\ StableIrq'
  BY DEF StableRuns, StableIrq
<1>5. GateEnds'
  BY DEF GateEnds, Late, StableRuns
<1>6. EarlyIsShort'
  BY DEF EarlyIsShort, NotStable
<1> QED
  BY <1>1, <1>2, <1>3, <1>4, <1>5, <1>6

\* At the end of a half-wave its firing is over, unless it is late.
LEMMA FiringOver ==
  ASSUME ScrInv, GoodMains, MayCross
  PROVE  /\ \A t \in {"timer3", "timer6"} : left[t] = Off /\ irq[t] = "idle"
         /\ ~Late => left["timer2"] = Off /\ irq["timer2"] = "idle" /\ ~gate
         /\ SingleStable < age /\ LowCZWarnTime < age /\ OneMs < age
<1>1. age \in Nat /\ NPeriod <= age
  BY TimeAssumption DEF MayCross, GoodMains, Lost, ScrInv, Types, TypeOK
<1>2. SingleStable < age /\ OneMs < age /\ LowCZWarnTime < age
  BY <1>1, TimeAssumption
<1>3. left["timer3"] = Off /\ irq["timer3"] = "idle"
  BY <1>1, <1>2, TimeAssumption
     DEF ScrInv, Types, TypeOK, OneMsRuns, OneMsIrq, Timers, Off
<1>4. ~Late => left["timer2"] = Off /\ irq["timer2"] = "idle"
  BY <1>1, <1>2, TimeAssumption
     DEF ScrInv, Types, TypeOK, AngleRuns, AngleIrq, Timers, Off, Late
<1>5. left["timer6"] = Off /\ irq["timer6"] = "idle"
  BY <1>1, <1>2, TimeAssumption
     DEF ScrInv, Types, TypeOK, StableRuns, StableIrq, Timers, Off
<1>6. ~Late => ~gate
  BY <1>5 DEF ScrInv, GateEnds
<1> QED
  BY <1>2, <1>3, <1>4, <1>5, <1>6

\* The first crossing finds no firing.
LEMMA FirstNotLate == ASSUME ScrInv, first_run PROVE ~Late
BY TimeAssumption DEF ScrInv, NotYet, Late

\* What a crossing leaves of a firing is carried into the next half-wave.
LEMMA CarriedOver ==
  ASSUME ScrInv, GoodMains, Crossing, ~carried'
  PROVE  ~gate' /\ left'["timer2"] = Off /\ irq["timer2"] = "idle"
<1>1. ~Late \/ (InRange /\ irq["timer2"] = "idle")
  BY DEF Crossing
<1>2. CASE ~Late
  <2>1. left["timer2"] = Off /\ irq["timer2"] = "idle" /\ ~gate
    BY <1>2, FiringOver DEF Crossing
  <2>2. ~gate'
    BY <2>1 DEF Crossing, Entry, FirstCrossing, LaterCrossing
  <2>3. left'["timer2"] = Off
    BY <2>1 DEF Crossing, Entry, FirstCrossing, LaterCrossing, Restarted, ScrInv,
                Types, TypeOK, Timers
  <2> QED
    BY <2>1, <2>2, <2>3
<1>3. CASE Late
  <2>1. LaterCrossing /\ InRange /\ irq["timer2"] = "idle"
    BY <1>1, <1>3, FirstNotLate DEF Crossing, Entry, FirstCrossing
  <2> QED
    BY <2>1 DEF LaterCrossing, Restarted, Timers
<1> QED
  BY <1>2, <1>3

\* The overflow of timer5 not yet counted, a half-wave is measured as none.
LEMMA PendingIsShort ==
  ASSUME Types, irq["timer5"] = "pending"
  PROVE  ~Good
<1>1. Measured = 0
  BY MeasuredTime, TimeAssumption DEF Types, PeriodRuns, TypeOK, Timers, Off
<1> QED
  BY <1>1, TimeAssumption DEF Good

LEMMA WindowCrossing == ASSUME ScrInv, GoodMains, Crossing PROVE ScrInv'
<1> USE TimeAssumption DEF Crossing
<1>1. Types'
  BY TypesNext DEF Next, ScrInv
<1>2. /\ \A t \in {"timer3", "timer6"} : left[t] = Off /\ irq[t] = "idle"
      /\ irq' = irq /\ age' = 0 /\ overflow' = 0 /\ loaded' = 0
  BY FiringOver DEF Entry
<1>3. gate' \/ left'["timer2"] # Off \/ irq["timer2"] # "idle" => carried'
  BY CarriedOver
<1>4. left'["timer5"] = PPeriod
  BY DEF Entry, FirstCrossing, LaterCrossing, Restarted, ScrInv, Types,
              TypeOK, Timers
<1>5. /\ due' => left'["timer3"] = OneMs /\ left'["timer6"] = SingleStable
      /\ ~due' => left'["timer3"] = Off /\ left'["timer6"] = Off
  BY <1>2 DEF Entry, FirstCrossing, LaterCrossing, Restarted, ScrInv, Types,
              TypeOK, Timers
<1>6. ~first_run'
  BY DEF Entry, FirstCrossing, LaterCrossing
<1>7. irq["timer5"] = "pending" => NotStable'
  <2>1. CASE FirstCrossing
    BY <2>1 DEF FirstCrossing, ScrInv, NotYet, NotStable
  <2>2. CASE LaterCrossing
    BY <2>2, PendingIsShort
       DEF LaterCrossing, StableAfter, ValidAfter, ScrInv, NotStable
  <2> QED
    BY <2>1, <2>2 DEF Entry
<1> QED
  BY <1>1, <1>2, <1>3, <1>4, <1>5, <1>6, <1>7
     DEF ScrInv, NotYet, OneMsRuns, OneMsIrq, AngleRuns, AngleIrq, AngleLoaded,
         StableRuns, StableIrq, GateEnds, EarlyIsShort, Late, Off

\* An interference never makes the signal valid: it is measured as a half-wave
\* too short, or it ends one that has been missed, and is the first good one.
LEMMA GlitchNotValid ==
  ASSUME ScrInv, GoodMains, Glitch, LaterCrossing
  PROVE  /\ ~ValidAfter
         /\ irq["timer5"] = "pending" => StableAfter = 0
<1> USE TimeAssumption
<1>1. age \in Nat /\ age < LowCZWarnTime
  BY DEF Glitch, GoodMains, ScrInv, Types, TypeOK, Lost
<1>2. CASE overflow = 1
  <2>1. NotStable /\ irq["timer5"] # "pending"
    BY <1>1, <1>2 DEF ScrInv, Types, EarlyIsShort, PeriodRuns
  <2> QED
    BY <2>1 DEF NotStable, ValidAfter
<1>3. CASE overflow = 0
  <2>1. CASE left["timer5"] = Off
    BY <1>3, <2>1, MeasuredTime DEF Good, ScrInv, ValidAfter, StableAfter
  <2>2. CASE left["timer5"] # Off
    <3>1. /\ left["timer5"] \in Nat /\ PPeriod - left["timer5"] <= age
          /\ Measured = PPeriod - left["timer5"]
      BY <1>1, <2>2, MeasuredTime
         DEF ScrInv, EarlyIsShort, Types, TypeOK, Timers, Off
    <3>2. ~Good
      BY <3>1, <1>1 DEF Good
    <3> QED
      BY <3>2 DEF ValidAfter, StableAfter
  <2> QED
    BY <2>1, <2>2
<1> QED
  BY <1>2, <1>3 DEF ScrInv, Types, TypeOK

LEMMA WindowGlitch == ASSUME ScrInv, GoodMains, Glitch PROVE ScrInv'
<1> USE TimeAssumption
<1>1. Types'
  BY TypesNext DEF Next, ScrInv
<1>2. /\ irq' = irq /\ age' = age /\ UNCHANGED history /\ overflow' = 0
      /\ left'["timer5"] = PPeriod /\ ~first_run'
      /\ gate' => gate
      /\ left'["timer3"] = left["timer3"] /\ left'["timer6"] = left["timer6"]
      /\ left'["timer2"] \in {left["timer2"], Off}
  <2>1. CASE FirstCrossing
    BY <2>1 DEF Glitch, Entry, FirstCrossing, history, ScrInv, Types, TypeOK, Timers
  <2>2. CASE LaterCrossing
    <3>1. ~Fires
      BY <2>2, GlitchNotValid DEF Fires
    <3> QED
      BY <2>2, <3>1 DEF Glitch, Entry, LaterCrossing, Restarted, history, ScrInv,
                        Types, TypeOK, Timers
  <2> QED
    BY <2>1, <2>2 DEF Glitch, Entry
<1>3. irq["timer5"] = "pending" => NotStable'
  <2>1. CASE FirstCrossing
    BY <2>1 DEF FirstCrossing, ScrInv, NotYet, NotStable
  <2>2. CASE LaterCrossing
    BY <2>2, GlitchNotValid DEF LaterCrossing, NotStable
  <2> QED
    BY <2>1, <2>2 DEF Glitch, Entry
<1>4. OneMsRuns' /\ OneMsIrq' /\ StableRuns' /\ StableIrq'
  BY <1>2 DEF ScrInv, OneMsRuns, OneMsIrq, StableRuns, StableIrq, history
<1>5. AngleRuns' /\ AngleIrq' /\ AngleLoaded'
  BY <1>2 DEF ScrInv, AngleRuns, AngleIrq, AngleLoaded, history
<1>6. GateEnds'
  <2>1. CASE gate'
    BY <1>2, <2>1 DEF ScrInv, GateEnds, Late, history
  <2>2. CASE ~gate'
    BY <2>2 DEF GateEnds
  <2> QED
    BY <2>1, <2>2
<1>7. NotYet'
  BY <1>2 DEF NotYet
<1>8. EarlyIsShort'
  <2>1. age \in Nat
    BY DEF ScrInv, Types, TypeOK, Lost
  <2> QED
    BY <1>2, <1>3, <2>1 DEF EarlyIsShort
<1> QED
  BY <1>1, <1>4, <1>5, <1>6, <1>7, <1>8 DEF ScrInv

LEMMA WindowThreads ==
  ASSUME ScrInv, SwitchRelay \/ SetAngle \/ Settle \/ UNCHANGED vars
  PROVE  ScrInv'
<1>1. Types'
  BY TypesNext DEF ScrInv, Next
<1>2. UNCHANGED <<left, irq, overflow, period, gate, age, history>>
  BY DEF SwitchRelay, SetAngle, Settle, vars, history
<1> QED
  BY <1>1, <1>2
     DEF ScrInv, NotYet, NotStable, OneMsRuns, OneMsIrq, AngleRuns, AngleIrq,
         AngleLoaded, StableRuns, StableIrq, GateEnds, EarlyIsShort, Late, period,
         history

LEMMA ScrStep == ASSUME GoodMains, ScrInv, [Next]_vars PROVE ScrInv'
<1>1. CASE Interrupt
  BY <1>1, WindowRunOut, WindowIsr, WindowAngle, WindowOneMs, WindowStable,
     WindowPeriod DEF Interrupt, Callback
<1>2. CASE Crossing
  BY <1>2, WindowCrossing
<1>3. CASE Glitch
  BY <1>3, WindowGlitch
<1>4. CASE Tick
  BY <1>4, WindowTick
<1>5. CASE SwitchRelay \/ SetAngle \/ Settle \/ UNCHANGED vars
  BY <1>5, WindowThreads
<1> QED
  BY <1>1, <1>2, <1>3, <1>4, <1>5 DEF Next

\* With a mains that is no faster than 52.5 Hz, whose interference comes early in a
\* half-wave, and for any pass angle: the gate is on only from the end of the delay
\* to the single-stable time of a half-wave that began with a valid crossing and the
\* contactor closed, unless the delay is too long for that (Late).  No order of the
\* interrupts, no such interference and no lost crossing makes the firing reach into
\* the next half-wave (scr.c:39-59, cross_zero_check.c:50-56, 135-141).
THEOREM FiresInWindow == ASSUME GoodMains PROVE Spec => []FiringWindow
<1>1. ScrInv => FiringWindow
  BY DEF ScrInv, GateEnds, FiringWindow
<1>2. ScrInv /\ [Next]_vars => ScrInv'
  BY ScrStep
<1> QED
  BY <1>1, <1>2, ScrInit, PTL DEF Spec

-----------------------------------------------------------------------------
(* No half-wave due is left dark.                                           *)

\* The firing is on its way: timer3 runs or its callback has not started timer2,
\* and then timer2 runs or has just run out.
OnItsWay ==
  IF loaded = 0
  THEN left["timer3"] # Off \/ irq["timer3"] \in {"pending", "callback"}
  ELSE left["timer2"] # Off \/ irq["timer2"] # "idle"

\* Early in a half-wave due timer5 has not run out: an interference is not taken
\* for a half-wave in range, whose end stops timer2.
EarlyNoOverflow ==
  due /\ age < LowCZWarnTime => overflow = 0 /\ irq["timer5"] # "pending"

DarkInv == /\ ScrInv
           /\ due /\ ~fired => OnItsWay
           /\ EarlyNoOverflow

LEMMA DarkInit == Init => DarkInv
BY ScrInit DEF Init, DarkInv, EarlyNoOverflow, Timers

LEMMA DarkInterrupt == ASSUME GoodMains, DarkInv, Interrupt PROVE DarkInv'
<1> USE TimeAssumption
    DEF DarkInv, OnItsWay, EarlyNoOverflow, ScrInv, Types, TypeOK, IrqOf,
        Timers, Off, Served
<1>1. ScrInv'
  BY ScrStep DEF Next
<1>2. ASSUME NEW t \in Timers, RunOut(t) PROVE DarkInv'
  <2>1. t = "timer5" => ~(age < LowCZWarnTime)
    BY <1>2 DEF RunOut, EarlyIsShort
  <2>. QED
    BY <1>1, <1>2, <2>1 DEF RunOut, history
<1>3. ASSUME NEW t \in Timers, Isr(t) PROVE DarkInv'
  BY <1>1, <1>3 DEF Isr, history
<1>4. CASE AngleIsr
  BY <1>1, <1>4 DEF AngleIsr
<1>5. CASE OneMsCallback
  BY <1>1, <1>5 DEF OneMsCallback, OneMsIrq
<1>6. CASE StableCallback
  BY <1>1, <1>6 DEF StableCallback, history
<1>7. CASE PeriodCallback
  BY <1>1, <1>7 DEF PeriodCallback, history
<1>. QED
  BY <1>2, <1>3, <1>4, <1>5, <1>6, <1>7 DEF Interrupt, Callback

\* A half-wave due starts timer3, and began with no overflow of timer5 pending.
LEMMA DarkCrossing == ASSUME GoodMains, DarkInv, Crossing PROVE DarkInv'
<1>1. ScrInv'
  BY ScrStep DEF Next, DarkInv
<1>2. irq["timer3"] = "idle" /\ irq' = irq /\ overflow' = 0 /\ loaded' = 0
  BY FiringOver DEF DarkInv, Crossing, Entry
<1>3. due' => ~first_run /\ Fires
  BY DEF Crossing
<1>4. due' => left'["timer3"] # Off
  <2>1. due' => LaterCrossing /\ Fires
    BY <1>3 DEF Crossing, Entry, FirstCrossing
  <2>2. LaterCrossing /\ Fires => left'["timer3"] = OneMs
    BY DEF LaterCrossing, Restarted, Timers
  <2>. QED
    BY <2>1, <2>2, TimeAssumption DEF Off
<1>5. due' => irq["timer5"] # "pending"
  BY <1>3, PendingIsShort DEF Fires, ValidAfter, DarkInv, ScrInv
<1>. QED
  BY <1>1, <1>2, <1>4, <1>5 DEF DarkInv, OnItsWay, EarlyNoOverflow

\* An interference does not stop timer2 in a half-wave due.
LEMMA DarkGlitch == ASSUME GoodMains, DarkInv, Glitch PROVE DarkInv'
<1> USE TimeAssumption
<1>1. ScrInv' /\ Types
  BY ScrStep DEF Next, DarkInv, ScrInv
<1>2. age \in Nat /\ age < LowCZWarnTime
  BY <1>1 DEF Glitch, GoodMains, Types, TypeOK, Lost
<1>3. UNCHANGED <<irq, age, due, fired, loaded>> /\ overflow' = 0
  BY DEF Glitch, Entry, history
<1>4. due => ~InRange
  <2> SUFFICES ASSUME due PROVE ~InRange
    OBVIOUS
  <2>1. overflow = 0
    BY <1>2 DEF DarkInv, EarlyNoOverflow
  <2>2. CASE left["timer5"] = Off
    BY <1>1, <2>1, <2>2, MeasuredTime DEF InRange
  <2>3. CASE left["timer5"] # Off
    <3>1. /\ left["timer5"] \in Nat /\ PPeriod - left["timer5"] <= age
          /\ Measured = PPeriod - left["timer5"]
      BY <1>1, <1>2, <2>3, MeasuredTime
         DEF DarkInv, ScrInv, EarlyIsShort, Types, TypeOK, Timers, Off
    <3>. QED
      BY <1>2, <3>1 DEF InRange
  <2>. QED
    BY <2>2, <2>3
<1>5. left'["timer3"] = left["timer3"] /\ (due => left'["timer2"] = left["timer2"])
  <2>1. CASE FirstCrossing
    BY <1>1, <2>1 DEF FirstCrossing, Types, TypeOK, Timers
  <2>2. CASE LaterCrossing
    <3>1. ~Fires
      BY <2>2, GlitchNotValid DEF Fires, DarkInv
    <3>. QED
      BY <1>4, <2>2, <3>1 DEF LaterCrossing, Restarted, Timers
  <2>. QED
    BY <2>1, <2>2 DEF Glitch, Entry
<1>. QED
  BY <1>1, <1>2, <1>3, <1>5 DEF DarkInv, OnItsWay, EarlyNoOverflow

LEMMA DarkTick == ASSUME GoodMains, DarkInv, Tick PROVE DarkInv'
<1>1. ScrInv'
  BY ScrStep DEF Next, DarkInv
<1>2. /\ UNCHANGED <<irq, overflow, due, fired, loaded>> /\ irq["timer3"] = "idle"
      /\ age' < LowCZWarnTime => age < LowCZWarnTime
  BY TimeAssumption
     DEF Tick, Quiet, history, DarkInv, ScrInv, Types, TypeOK, Timers, Lost
<1>3. \A t \in Timers : left[t] # Off => left'[t] # Off
  BY DEF Tick, Quiet, DarkInv, ScrInv, Types, TypeOK, Off
<1>. QED
  BY <1>1, <1>2, <1>3 DEF DarkInv, OnItsWay, EarlyNoOverflow, Timers

LEMMA DarkStep == ASSUME GoodMains, DarkInv, [Next]_vars PROVE DarkInv'
<1>1. CASE SwitchRelay \/ SetAngle \/ Settle \/ UNCHANGED vars
  <2>1. ScrInv'
    BY ScrStep DEF DarkInv
  <2>2. UNCHANGED <<left, irq, overflow, age, due, fired, loaded>>
    BY <1>1 DEF SwitchRelay, SetAngle, Settle, vars, history
  <2>. QED
    BY <2>1, <2>2 DEF DarkInv, OnItsWay, EarlyNoOverflow
<1>. QED
  BY <1>1, DarkInterrupt, DarkCrossing, DarkGlitch, DarkTick DEF Next

\* With such a mains and any pass angle, every half-wave that began with a valid
\* crossing and the contactor closed has been fired when the next one begins, unless
\* that comes before the delay has ended (cross_zero_check.c:183-191, scr.c:47-59):
\* whatever interrupts preempt each other, interfere or fail to come in it.
THEOREM NoneLeftDark == ASSUME GoodMains PROVE Spec => EveryHalfWaveFired
<1>1. DarkInv /\ [Next]_vars
        => [Crossing /\ due => fired \/ OneMs + loaded >= age]_vars
  <2> SUFFICES ASSUME DarkInv, Crossing, due, ~fired PROVE OneMs + loaded >= age
    OBVIOUS
  <2>1. left["timer3"] = Off /\ irq["timer3"] = "idle" /\ OneMs < age
    BY FiringOver DEF DarkInv, Crossing
  <2>2. loaded # 0 /\ (left["timer2"] # Off \/ irq["timer2"] # "idle")
    BY <2>1 DEF DarkInv, OnItsWay
  <2>3. left["timer2"] # Off => left["timer2"] \in Nat /\ left["timer2"] + age = OneMs + loaded
    BY <2>2 DEF DarkInv, ScrInv, AngleRuns, Types, TypeOK, Timers
  <2>4. irq["timer2"] # "idle" => age = OneMs + loaded
    BY <2>1, <2>2, TimeAssumption DEF DarkInv, ScrInv, AngleIrq, Types, TypeOK, Lost
  <2>5. age \in Nat /\ OneMs + loaded \in Nat
    BY TimeAssumption DEF DarkInv, ScrInv, Types, TypeOK, Lost
  <2>. QED
    BY <2>2, <2>3, <2>4, <2>5
<1>2. DarkInv /\ [Next]_vars => DarkInv'
  BY DarkStep
<1>. QED
  BY <1>1, <1>2, DarkInit, PTL DEF Spec, EveryHalfWaveFired
-----------------------------------------------------------------------------
(* No half-wave is fired twice.                                             *)

OnceInv ==
  /\ ScrInv
  /\ fired /\ ~Late => loaded # 0 /\ left["timer2"] = Off /\ irq["timer2"] = "idle"

LEMMA OnceInterrupt == ASSUME GoodMains, OnceInv, Interrupt PROVE OnceInv'
<1> USE TimeAssumption DEF OnceInv, Late, Timers, Off, Served
<1>1. ScrInv' /\ Types
  BY ScrStep DEF Next, ScrInv
<1>2. ASSUME NEW t \in Timers, RunOut(t) PROVE OnceInv'
  BY <1>1, <1>2 DEF RunOut, history, Types, TypeOK
<1>3. ASSUME NEW t \in Timers, Isr(t) PROVE OnceInv'
  BY <1>1, <1>3 DEF Isr, history, Types, TypeOK
<1>4. CASE AngleIsr
  <2>1. ~Late => loaded # 0
    BY <1>4 DEF AngleIsr, ScrInv, AngleIrq
  <2>. QED
    BY <1>1, <1>4, <2>1 DEF AngleIsr, Types, TypeOK
<1>5. CASE OneMsCallback
  <2>1. irq["timer3"] = "callback" => loaded = 0
    BY DEF ScrInv, OneMsIrq
  <2>. QED
    BY <1>1, <1>5, <2>1 DEF OneMsCallback, Types, TypeOK
<1>6. CASE StableCallback
  BY <1>1, <1>6 DEF StableCallback, history, Types, TypeOK
<1>7. CASE PeriodCallback
  BY <1>1, <1>7 DEF PeriodCallback, history, Types, TypeOK
<1>. QED
  BY <1>2, <1>3, <1>4, <1>5, <1>6, <1>7 DEF Interrupt, Callback

LEMMA OnceStep == ASSUME GoodMains, OnceInv, [Next]_vars PROVE OnceInv'
<1>1. ScrInv' /\ Types
  BY ScrStep DEF OnceInv, ScrInv
<1>2. CASE Crossing
  BY <1>1, <1>2 DEF Crossing, OnceInv
<1>3. CASE Glitch
  <2>1. irq' = irq /\ UNCHANGED history
    BY <1>3 DEF Glitch, Entry
  <2>2. left'["timer2"] \in {left["timer2"], Off}
    BY <1>1, <1>3 DEF Glitch, Entry, FirstCrossing, LaterCrossing, Restarted, Types,
                      TypeOK, Timers
  <2>. QED
    BY <1>1, <2>1, <2>2 DEF OnceInv, Late, history
<1>4. CASE Tick
  <2>1. irq' = irq /\ UNCHANGED history
    BY <1>4 DEF Tick
  <2>2. left["timer2"] = Off => left'["timer2"] = Off
    BY <1>4 DEF Tick, Timers
  <2>. QED
    BY <1>1, <2>1, <2>2 DEF OnceInv, Late, history
<1>5. CASE SwitchRelay \/ SetAngle \/ Settle \/ UNCHANGED vars
  <2>1. UNCHANGED <<left, irq, history>>
    BY <1>5 DEF SwitchRelay, SetAngle, Settle, vars
  <2>. QED
    BY <1>1, <2>1 DEF OnceInv, Late, history
<1>. QED
  BY <1>2, <1>3, <1>4, <1>5, OnceInterrupt DEF Next

\* With such a mains and any pass angle, the gate is switched on once in a half-wave
\* that is not Late (scr.c:39-59): with NoneLeftDark, exactly once in every such one
\* that is due.
THEOREM NoneFiredTwice == ASSUME GoodMains PROVE Spec => FiredOnce
<1>1. Init => OnceInv
  BY ScrInit DEF OnceInv, Init
<1>2. OnceInv /\ [Next]_vars => OnceInv'
  BY OnceStep
<1>3. OnceInv /\ [Next]_vars => [~gate /\ gate' => ~fired \/ Late]_vars
  <2> SUFFICES ASSUME OnceInv, Next, ~gate, gate' PROVE ~fired \/ Late
    OBVIOUS
  <2>1. AngleIsr
    BY DEF Next, Interrupt, RunOut, Isr, Callback, OneMsCallback, StableCallback,
       PeriodCallback, Crossing, Glitch, Entry, FirstCrossing, LaterCrossing,
       SwitchRelay, SetAngle, Settle, Tick
  <2>. QED
    BY <2>1 DEF AngleIsr, Served, OnceInv
<1>. QED
  BY <1>1, <1>2, <1>3, PTL DEF Spec, FiredOnce
=============================================================================
