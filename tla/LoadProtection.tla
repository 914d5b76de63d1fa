--------------------------- MODULE LoadProtection ---------------------------
(***************************************************************************)
(* The current the protection sees.  The crossing interrupt measures the   *)
(* load current in every regulation cycle, keeps the last ten readings in  *)
(* a ring and stores their mean as i_load; at level 0 it opens the         *)
(* contactor once the mean is low.  The adc thread hands i_load to the    *)
(* checks of alarm.c while the status bit is set, and stores 0 while it is *)
(* not.  They share i_load without a lock, and the ring outlives openings. *)
(*                                                                         *)
(* AlarmChecks is extended: its readings of the current are those measured *)
(* here, the others stay free.                                             *)
(***************************************************************************)
EXTENDS AlarmChecks, Sequences, Functions

CONSTANTS
  Window,          \* CCR_MOVE_WINDOW_SIZE: 10
  Currents,        \* effective currents of a cycle, in 0.01 A
  LowCurrent,      \* 100: 1 A
  OverCurAlarmValue, StrongOverCurAlarmValue  \* 693 and 825: 105% and 125%

ASSUME WindowAssumption ==
  /\ Window \in Nat \ {0}
  /\ Currents \subseteq Nat
  /\ LowCurrent \in Nat /\ OverCurAlarmValue \in Nat
  /\ StrongOverCurAlarmValue \in Nat
  /\ LowCurrent < OverCurAlarmValue
  /\ OverCurAlarmValue < StrongOverCurAlarmValue

VARIABLES
  adc_calibrate_voltage,  \* the readings, and in the last place their mean
  count,                  \* place of the next reading
  i_load,                 \* the register the checks read
  adcAt,      \* "zero": adc has found the status bit clear, and will store 0
  zeroLevel,  \* intensity is 0
  recent      \* history: the latest Window readings, the oldest first

window == <<adc_calibrate_voltage, count, recent>>
pvars  == <<vars, window, i_load, adcAt, zeroLevel>>

Total(places, f) == FoldFunctionOnSet(+, 0, f, places)

PInit == /\ Init
         /\ adc_calibrate_voltage = [place \in 0 .. Window |-> 0]
         /\ count = 0
         /\ i_load = 0
         /\ adcAt = "wait"
         /\ zeroLevel \in BOOLEAN
         /\ recent = [n \in 1 .. Window |-> 0]

-----------------------------------------------------------------------------
(* get_rms                                                                  *)

NextPlace_IntoMean == IF count + 1 > Window THEN 0 ELSE count + 1

NextPlace == IF count + 1 >= Window THEN 0 ELSE count + 1

GetRms(reading) ==
  LET stored == [adc_calibrate_voltage EXCEPT ![count] = reading]
      mean   == Total(0 .. Window - 1, stored) \div Window
  IN  /\ adc_calibrate_voltage' = [stored EXCEPT ![Window] = mean]
      /\ i_load' = mean
      /\ count' = NextPlace
      /\ recent' = Append(Tail(recent), reading)

\* Level 0 and a low mean: a look at the window, not at the current that flows.
DiedDown_BeforeMeasuring == zeroLevel /\ i_load <= LowCurrent

DiedDown == zeroLevel /\ i_load' <= LowCurrent

\* A crossing at which the regulation is due (cross_zero_check_entry).
Regulate(reading) ==
  /\ closed
  /\ GetRms(reading)
  /\ closed' = ~DiedDown
  /\ UNCHANGED <<alarms, counters, stack, history, adcAt, zeroLevel>>

-----------------------------------------------------------------------------
(* adc_sample_thread_entry                                                  *)

\* What the thresholds tell apart of the current.
Class == IF i_load >= StrongOverCurAlarmValue THEN "strong"
         ELSE IF i_load >= OverCurAlarmValue THEN "over" ELSE "calm"

AdcOn == /\ adcAt = "wait"
         /\ \E r \in Readings : r.i = Class /\ Period(r)
         /\ UNCHANGED <<window, i_load, adcAt, zeroLevel>>

\* The status is tested, and 0 stored later: pid and the interrupt may come
\* between.
AdcOff == \/ /\ adcAt = "wait" /\ ~closed
             /\ adcAt' = "zero"
             /\ UNCHANGED <<vars, window, i_load, zeroLevel>>
          \/ /\ adcAt = "zero"
             /\ i_load' = 0
             /\ adcAt' = "wait"
             /\ UNCHANGED <<vars, window, zeroLevel>>

\* The other threads: the contactor, the alarm register and the level.
Others == \/ /\ Close \/ Open \/ WriteAlarms
             /\ UNCHANGED <<window, i_load, adcAt, zeroLevel>>
          \/ /\ zeroLevel' = ~zeroLevel
             /\ UNCHANGED <<vars, window, i_load, adcAt>>

PNext == (\E reading \in Currents : Regulate(reading)) \/ AdcOn \/ AdcOff \/ Others

PSpec == PInit /\ [][PNext]_pvars

-----------------------------------------------------------------------------
MeanOf(readings) == Total(1 .. Window, readings) \div Window

\* The checks never see anything but the mean of the last Window readings, or
\* the 0 adc stores after it has found the contactor open, although the ring is
\* written by the interrupt, kept over openings and shares its array with the
\* mean (adc_sample.c:69-111, 193-197).  The 0 may come after a new closing, and
\* the readings may be older than it.
MeasuredLoad == i_load \in {0, MeanOf(recent)}

\* At level 0 a load that has died down is not left connected: after Window
\* readings of LowCurrent at most, the interrupt opens the contactor, whatever
\* the ring still held from before the closing and whatever adc has stored over
\* i_load in between (cross_zero_check.c:212-234, adc_sample.c:69-111).
OpensWhenDied ==
  [][\A reading \in Currents :
       /\ Regulate(reading)
       /\ zeroLevel
       /\ \A n \in 1 .. Window : recent'[n] <= LowCurrent
       => ~closed']_pvars
=============================================================================
