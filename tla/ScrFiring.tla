----------------------------- MODULE ScrFiring -----------------------------
(***************************************************************************)
(* Firing the SCR.  Every zero crossing of the mains raises an interrupt   *)
(* (cross_zero_check_entry) that measures the half-wave with timer5 and,   *)
(* when the signal is valid and the contactor closed, starts timer3 (1 ms) *)
(* and timer6 (the single-stable).  timer3 starts timer2, the firing delay *)
(* of the pass angle; timer2 switches the gate on, timer6 switches it off. *)
(*                                                                         *)
(* Time is counted in ticks, and passes only when every interrupt due has  *)
(* been served.  The crossing and timer2 have the highest priority and run *)
(* whole; the crossing may preempt the others at any point.                *)
(***************************************************************************)
EXTENDS Integers

CONSTANTS
  OneMs,            \* 1 ms: the load of timer3
  Delays,           \* firing delays: 1 to 9 ms (scr.c:29-36), by the pass angle
  SingleStable,     \* 9.5 ms: the load of timer6
  LowCZWarnTime,    \* 9.32 ms: a shorter half-wave is an interference
  NPeriod, PPeriod, \* 9.52 and 10.526 ms: the half-waves of 52.5 and 47.5 Hz
  Int0StableNum,    \* good half-waves before the signal is valid: 20
  Gaps,             \* lengths of half-waves the mains has
  Glitches          \* times after a crossing when interference may come

ASSUME TimeAssumption ==
  /\ OneMs \in Nat \ {0} /\ Int0StableNum \in Nat \ {0, 1}
  /\ Delays \subseteq Nat \ {0} /\ Delays # {}
  /\ LowCZWarnTime \in Nat /\ SingleStable \in Nat
  /\ NPeriod \in Nat /\ PPeriod \in Nat
  /\ OneMs < LowCZWarnTime /\ LowCZWarnTime < SingleStable
  /\ SingleStable < NPeriod /\ NPeriod < PPeriod
  /\ \A d \in Delays : OneMs + d < PPeriod
  /\ Gaps \subseteq Nat /\ Glitches \subseteq Nat

Timers == {"timer2", "timer3", "timer5", "timer6"}
Off    == -1
Lost   == PPeriod + 2     \* bound on age: a crossing has been missed

VARIABLES
  left,       \* what each one-shot timer has left to run, or Off
  irq,        \* how far its interrupt is served
  overflow,   \* timer5.overflow: it has run out since it was started
  first_run,  \* static in cross_zero_check_entry
  int0_valid, stable_cnt,
  even_flag, g_ctrl_cycle,   \* static in cross_zero_check_entry
  gate,       \* the trigger signal, PWM of timer0
  delay,      \* the firing delay of the pass angle
  relay,      \* the relay bit of run_status
  age,        \* time since the last crossing of the mains
  mains,      \* "poor": crossings may fail to come, interference may
  due,        \* history: the half-wave began with a valid crossing, relay on
  fired,      \* history: the gate has been switched on in this half-wave
  loaded,     \* history: the delay timer2 was started with in it, or 0
  carried     \* history: the firing of an earlier half-wave goes on in it

period  == <<first_run, int0_valid, stable_cnt>>
control == <<even_flag, g_ctrl_cycle>>
history == <<due, fired, loaded, carried>>
vars    == <<left, irq, overflow, period, control, gate, delay, relay, age,
             mains, history>>

Init == /\ left = [t \in Timers |-> Off]
        /\ irq = [t \in Timers |-> "idle"]
        /\ overflow = 0
        /\ first_run = TRUE /\ int0_valid = FALSE /\ stable_cnt = 0
        /\ even_flag = FALSE /\ g_ctrl_cycle = 2
        /\ gate = FALSE
        /\ delay \in Delays
        /\ relay = FALSE
        /\ age = Lost /\ mains = "poor"
        /\ due = FALSE /\ fired = FALSE
        /\ loaded = 0 /\ carried = FALSE

-----------------------------------------------------------------------------
(* Timers: rt_hwtimer_write starts one, HWTIMER_CTRL_STOP stops it; neither *)
(* touches an interrupt that is already pending.                            *)

\* rt_hwtimer_read of timer5.  Once it has run out its counter is 0 and what
\* is read comes from the overflows its interrupt has counted.
Measured == overflow * PPeriod + IF left["timer5"] = Off THEN 0
                                 ELSE PPeriod - left["timer5"]

RunOut(t) == /\ left[t] = 0
             /\ left' = [left EXCEPT ![t] = Off]
             /\ irq' = [irq EXCEPT ![t] = "pending"]
             /\ UNCHANGED <<overflow, period, control, gate, delay, relay, age,
                            mains, history>>

Served(t, from, to) == /\ irq[t] = from
                       /\ irq' = [irq EXCEPT ![t] = to]

\* rt_device_hwtimer_isr counts the overflow and stops the timer.
Isr(t) == /\ t # "timer2"
          /\ Served(t, "pending", "callback")
          /\ left' = [left EXCEPT ![t] = Off]
          /\ overflow' = IF t = "timer5" THEN overflow + 1 ELSE overflow
          /\ UNCHANGED <<period, control, gate, delay, relay, age, mains,
                         history>>

-----------------------------------------------------------------------------
(* The callbacks.                                                           *)

AngleIsr_Periodic ==
  /\ Served("timer2", "pending", "idle")
  /\ left' = [left EXCEPT !["timer2"] = delay]
  /\ gate' = TRUE
  /\ fired' = TRUE
  /\ UNCHANGED <<overflow, period, control, delay, relay, age, mains, due,
                 loaded, carried>>

\* triger_angle_timer_cb, interrupt and all: nothing preempts it.
AngleIsr == /\ Served("timer2", "pending", "idle")
            /\ left' = [left EXCEPT !["timer2"] = Off]
            /\ gate' = TRUE
            /\ fired' = TRUE
            /\ UNCHANGED <<overflow, period, control, delay, relay, age, mains,
                           due, loaded, carried>>

OneMsCallback_WrongTimer ==
  /\ \/ /\ Served("timer3", "callback", "stopping")
        /\ left' = [left EXCEPT !["timer2"] = delay]
        /\ loaded' = delay
     \/ /\ Served("timer3", "stopping", "idle")
        /\ left' = [left EXCEPT !["timer2"] = Off]
        /\ UNCHANGED loaded
  /\ UNCHANGED <<overflow, period, control, gate, delay, relay, age, mains,
                 due, fired, carried>>

\* timer_1ms_cb: the angle is read now.
OneMsCallback ==
  /\ \/ /\ Served("timer3", "callback", "stopping")
        /\ left' = [left EXCEPT !["timer2"] = delay]
        /\ loaded' = delay
     \/ /\ Served("timer3", "stopping", "idle")
        /\ left' = [left EXCEPT !["timer3"] = Off]
        /\ UNCHANGED loaded
  /\ UNCHANGED <<overflow, period, control, gate, delay, relay, age, mains,
                 due, fired, carried>>

StableCallback_GateLeftOn ==
  /\ Served("timer6", "callback", "idle")
  /\ left' = [left EXCEPT !["timer6"] = Off]
  /\ UNCHANGED <<overflow, period, control, gate, delay, relay, age, mains,
                 history>>

\* single_stable_timer_cb
StableCallback ==
  /\ \/ /\ Served("timer6", "callback", "closing")
        /\ left' = [left EXCEPT !["timer6"] = Off]
        /\ UNCHANGED gate
     \/ /\ Served("timer6", "closing", "idle")
        /\ gate' = FALSE
        /\ UNCHANGED left
  /\ UNCHANGED <<overflow, period, control, delay, relay, age, mains, history>>

\* timer5_cb: no crossing has come for PPeriod.  stable_cnt is left alone.
PeriodCallback ==
  /\ \/ /\ Served("timer5", "callback", "invalid")
        /\ left' = [left EXCEPT !["timer5"] = Off]
        /\ UNCHANGED int0_valid
     \/ /\ Served("timer5", "invalid", "idle")
        /\ int0_valid' = FALSE
        /\ UNCHANGED left
  /\ UNCHANGED <<overflow, first_run, stable_cnt, control, gate, delay, relay,
                 age, mains, history>>

Callback == AngleIsr \/ OneMsCallback \/ StableCallback \/ PeriodCallback

-----------------------------------------------------------------------------
(* cross_zero_check_entry                                                   *)

Good    == Measured >= LowCZWarnTime
InRange == Measured \in NPeriod .. PPeriod

\* cross_zero_period_check
StableAfter_NotLimited == IF Good THEN stable_cnt + 1 ELSE 0
StableAfter == IF ~Good THEN 0
               ELSE IF stable_cnt + 1 >= Int0StableNum THEN Int0StableNum
               ELSE stable_cnt + 1

ValidAfter == Good /\ (int0_valid \/ stable_cnt + 1 >= Int0StableNum)

\* The SCR is to be fired in the half-wave that begins.
Fires == ValidAfter /\ relay

\* The regulation runs: in every second half-wave fired, the fourth at first.
Regulates == Fires /\ even_flag /\ g_ctrl_cycle = 1

Restarted_PeriodRunsOn ==
  [t \in Timers |->
     CASE t = "timer5" -> left[t]
       [] t = "timer2" -> IF InRange THEN Off ELSE left[t]
       [] t = "timer3" -> IF Fires THEN OneMs ELSE left[t]
       [] t = "timer6" -> IF Fires THEN SingleStable ELSE left[t]]

\* A half-wave in range ends the last one's firing: timer2 stopped, gate off.
Restarted == [t \in Timers |->
                CASE t = "timer5" -> PPeriod
                  [] t = "timer2" -> IF InRange THEN Off ELSE left[t]
                  [] t = "timer3" -> IF Fires THEN OneMs ELSE left[t]
                  [] t = "timer6" -> IF Fires THEN SingleStable ELSE left[t]]

FirstCrossing ==
  /\ first_run
  /\ first_run' = FALSE
  /\ left' = [left EXCEPT !["timer5"] = PPeriod]
  /\ UNCHANGED <<int0_valid, stable_cnt, control, gate, delay, relay>>

\* At level 0 the regulation may open the contactor.
LaterCrossing ==
  /\ ~first_run
  /\ left' = Restarted
  /\ gate' = (gate /\ ~InRange)
  /\ stable_cnt' = StableAfter
  /\ int0_valid' = ValidAfter
  /\ even_flag' = (even_flag # Fires)
  /\ g_ctrl_cycle' = IF Fires /\ even_flag THEN 1 ELSE g_ctrl_cycle
  /\ delay' \in IF Regulates THEN Delays ELSE {delay}
  /\ relay' \in IF Regulates THEN {relay, FALSE} ELSE {relay}
  /\ UNCHANGED first_run

\* The timers are written, so that timer5 counts its overflows from 0.
Entry == /\ FirstCrossing \/ LaterCrossing
         /\ overflow' = 0
         /\ UNCHANGED <<irq, mains>>

\* The delay of this half-wave does not end before the single-stable time, or
\* that of an earlier one did not and its firing is not over.
Late == carried \/ OneMs + loaded >= SingleStable

MayCross == IF mains = "steady" THEN age \in Gaps \ {PPeriod}
            ELSE age \in Gaps \cup {Lost}

\* The mains crosses zero: a half-wave has ended.
Crossing == /\ MayCross
            /\ Entry
            /\ age' = 0
            /\ due' = (~first_run /\ Fires)
            /\ fired' = FALSE
            /\ loaded' = 0
            /\ carried' = (Late /\ (~InRange \/ irq["timer2"] # "idle"))

\* The input falls for another reason.
Glitch == /\ mains = "poor" /\ age \in Glitches
          /\ Entry
          /\ UNCHANGED <<age, history>>

-----------------------------------------------------------------------------
(* The threads, the mains and time.                                         *)

SwitchRelay == /\ relay' = ~relay
               /\ UNCHANGED <<left, irq, overflow, period, control, gate, delay,
                              age, mains, history>>

SetAngle == /\ delay' \in Delays
            /\ UNCHANGED <<left, irq, overflow, period, control, gate, relay, age,
                           mains, history>>

\* From now on the mains is good.
Settle == /\ mains = "poor" /\ age = 0
          /\ mains' = "steady"
          /\ UNCHANGED <<left, irq, overflow, period, control, gate, delay, relay,
                         age, history>>

Quiet == \A t \in Timers : irq[t] = "idle" /\ left[t] # 0

Tick == /\ Quiet
        /\ mains = "steady" => \E g \in Gaps \ {PPeriod} : age < g
        /\ left' = [t \in Timers |-> IF left[t] = Off THEN Off ELSE left[t] - 1]
        /\ age' = IF age < Lost THEN age + 1 ELSE age
        /\ UNCHANGED <<irq, overflow, period, control, gate, delay, relay, mains,
                       history>>

Interrupt == \/ \E t \in Timers : RunOut(t) \/ Isr(t)
             \/ Callback

Next == \/ Interrupt \/ Crossing \/ Glitch
        \/ SwitchRelay \/ SetAngle \/ Settle \/ Tick

Spec == Init /\ [][Next]_vars

\* Time passes, interrupts are served and the mains goes on.
FairSpec == /\ Spec
            /\ WF_vars(Tick) /\ WF_vars(Interrupt) /\ WF_vars(Crossing)

-----------------------------------------------------------------------------
TypeOK ==
  /\ left \in [Timers -> Nat \cup {Off}]
  /\ irq \in [Timers -> {"idle", "pending", "callback", "stopping", "closing",
                         "invalid"}]
  /\ overflow \in {0, 1}
  /\ first_run \in BOOLEAN /\ int0_valid \in BOOLEAN
  /\ stable_cnt \in 0 .. Int0StableNum
  /\ even_flag \in BOOLEAN /\ g_ctrl_cycle \in {1, 2}
  /\ gate \in BOOLEAN /\ relay \in BOOLEAN
  /\ delay \in Delays
  /\ age \in 0 .. Lost /\ mains \in {"poor", "steady"}
  /\ due \in BOOLEAN /\ fired \in BOOLEAN
  /\ loaded \in Delays \cup {0} /\ carried \in BOOLEAN

\* The gate is on only in a half-wave that began with a valid crossing and the
\* contactor closed, from the end of the delay timer2 was started with in it to the
\* single-stable time: no interference and no loss of crossings makes the firing
\* reach into the next half-wave (scr.c:39-59, cross_zero_check.c:50-56, 135-141),
\* unless the delay does not end before the single-stable time (Late); and then no
\* further than to the first crossing in range that finds timer2's interrupt served.
FiringWindow ==
  gate => \/ due /\ loaded # 0 /\ OneMs + loaded <= age /\ age <= SingleStable
          \/ Late

\* No half-wave due is left dark, whatever interrupts meet in it and whatever firing
\* is carried into it: only a crossing that comes before the delay has ended keeps
\* the gate off (cross_zero_check.c:183-191, scr.c:47-59).
EveryHalfWaveFired ==
  [][Crossing /\ due => fired \/ OneMs + loaded >= age]_vars

\* Nor is one fired twice, unless it is Late: when the single-stable has switched the
\* gate off it stays off until the next crossing, whatever interference there is
\* (scr.c:39-59, cross_zero_check.c:50-56).
FiredOnce == [][~gate /\ gate' => ~fired \/ Late]_vars

\* The crossing signal becomes valid again, and stays so, once the mains is good
\* (cross_zero_check.c:125-156).
ValidAgain == <>[](mains = "steady") => <>[]int0_valid

\* "The delay from the zero crossing to the start of triggering" (scr.c:15): the
\* gate is never on earlier than the smallest delay after a crossing.
NotBeforeDelay == gate => \E d \in Delays : OneMs + d <= age
=============================================================================
