----------------------------- MODULE AlarmProofs -----------------------------
(***************************************************************************)
(* What the counters of alarm.c guarantee, whatever the thresholds.  The   *)
(* argument: gOverCurWaitCTC never exceeds the number of checks since the  *)
(* current was last calm, and counts at least those of the current run of  *)
(* over-current unless that run has raised the alarm.                      *)
(***************************************************************************)
EXTENDS AlarmChecks, TLAPS

\* The counters do not wrap below their threshold, and stay bytes.
LEMMA IncBelow ==
  ASSUME NEW n \in Nat, n + 1 < ByteRange
  PROVE  Inc(n) = n + 1
BY AlarmAssumption DEF Inc

LEMMA IncIsByte ==
  ASSUME NEW n \in Nat
  PROVE  Inc(n) \in 0 .. ByteRange - 1
BY AlarmAssumption DEF Inc

CountsRuns ==
  /\ gOverCurWaitCTC <= sinceCalm
  /\ overRun <= gOverCurWaitCTC \/ "CirOverCur" \in alarms

AlarmInv == TypeOK /\ CountsRuns

LEMMA InitAlarmInv == Init => AlarmInv
<1> SUFFICES ASSUME Init PROVE AlarmInv
  OBVIOUS
<1>1. closed \in BOOLEAN /\ stack \in BOOLEAN /\ alarms \subseteq Alarms
  BY DEF Init
<1>2. \A n \in {OverCurNum, CirOpenNum, ByteRange} : 0 \in 0 .. n - 1
  BY AlarmAssumption
<1>3. 0 \in 0 .. RunCap
  BY AlarmAssumption
<1>4. CountsRuns
  BY DEF Init, CountsRuns
<1> QED BY <1>1, <1>2, <1>3, <1>4, Zenon DEF Init, AlarmInv, TypeOK

\* check_i_load keeps its counters in range and in step with the history.
LEMMA IloadKeeps ==
  ASSUME AlarmInv, NEW r \in Readings, Period(r)
  PROVE  /\ gOverCurWaitCTC' \in 0 .. OverCurNum - 1
         /\ strongOverCnt' \in 0 .. ByteRange - 1
         /\ CountsRuns'
<1>1. /\ gOverCurWaitCTC + 1 < ByteRange /\ Inc(gOverCurWaitCTC) = gOverCurWaitCTC + 1
      /\ Inc(strongOverCnt) \in 0 .. ByteRange - 1
  BY IncBelow, IncIsByte, AlarmAssumption DEF AlarmInv, TypeOK
<1>2. IloadCounts(r)
  BY DEF Period
<1>3. /\ gOverCurWaitCTC' \in 0 .. OverCurNum - 1
      /\ strongOverCnt' \in 0 .. ByteRange - 1
  BY <1>1, <1>2, AlarmAssumption DEF AlarmInv, TypeOK, IloadCounts, OverReached
<1>4. gOverCurWaitCTC' <= sinceCalm'
  <2>1. sinceCalm' = IF r.i = "calm" THEN 0 ELSE Longer(sinceCalm)
    BY DEF Period
  <2>2. CASE r.i = "calm"
    BY <1>2, <2>1, <2>2 DEF IloadCounts, OverCur, StrongOverCur
  <2>3. CASE r.i # "calm"
    BY <1>1, <1>2, <2>1, <2>3, AlarmAssumption
       DEF AlarmInv, CountsRuns, TypeOK, IloadCounts, OverReached, Longer
  <2> QED BY <2>2, <2>3
<1>5. overRun' <= gOverCurWaitCTC' \/ "CirOverCur" \in alarms'
  <2>1. /\ overRun' = IF r.i = "over" THEN Longer(overRun) ELSE 0
        /\ alarms \subseteq alarms' /\ IloadAlarms(r) \subseteq alarms'
    BY DEF Period
  <2>2. CASE r.i # "over"
    BY <1>3, <2>1, <2>2, AlarmAssumption
  <2>3. CASE r.i = "over" /\ "CirOverCur" \in alarms
    BY <2>1, <2>3
  <2>4. CASE r.i = "over" /\ "CirOverCur" \notin alarms /\ OverReached
    BY <2>1, <2>4 DEF IloadAlarms, OverCur
  <2>5. CASE r.i = "over" /\ "CirOverCur" \notin alarms /\ ~OverReached
    BY <1>1, <1>2, <2>1, <2>5, AlarmAssumption
       DEF AlarmInv, CountsRuns, TypeOK, IloadCounts, OverCur, Longer
  <2> QED BY <2>2, <2>3, <2>4, <2>5
<1> QED BY <1>3, <1>4, <1>5 DEF CountsRuns

LEMMA PeriodKeepsTypes ==
  ASSUME AlarmInv, NEW r \in Readings, Period(r)
  PROVE  TypeOK'
<1>1. gOverCurWaitCTC' \in 0 .. OverCurNum - 1 /\ strongOverCnt' \in 0 .. ByteRange - 1
  BY IloadKeeps
<1>2. fuseCnt' \in 0 .. CirOpenNum - 1
  <2>1. Inc(fuseCnt) = fuseCnt + 1
    BY IncBelow, AlarmAssumption DEF AlarmInv, TypeOK
  <2> QED BY <2>1, AlarmAssumption DEF AlarmInv, TypeOK, Period, FuseCounts
<1>3. openCnt' \in 0 .. CirOpenNum - 1
  <2>1. Inc(openCnt) = openCnt + 1
    BY IncBelow, AlarmAssumption DEF AlarmInv, TypeOK
  <2> QED BY <2>1, AlarmAssumption DEF AlarmInv, TypeOK, Period, OpenCounts
<1>4. /\ sinceCalm' \in 0 .. RunCap /\ strongRun' \in 0 .. RunCap
      /\ overRun' \in 0 .. RunCap
  BY AlarmAssumption DEF AlarmInv, TypeOK, Period, Longer
<1>5. alarms' \subseteq Alarms
  BY DEF AlarmInv, TypeOK, Period, IloadAlarms, ScrAlarms, FuseAlarms, OpenAlarms, Alarms
<1>6. closed' \in BOOLEAN /\ stack' \in BOOLEAN
  BY DEF AlarmInv, TypeOK, Period
<1> QED BY <1>1, <1>2, <1>3, <1>4, <1>5, <1>6 DEF TypeOK

LEMMA NextAlarmInv == AlarmInv /\ [Next]_vars => AlarmInv'
<1> SUFFICES ASSUME AlarmInv, [Next]_vars PROVE AlarmInv'
  OBVIOUS
<1> USE AlarmAssumption
<1>1. ASSUME NEW r \in Readings, Period(r) PROVE AlarmInv'
  BY <1>1, IloadKeeps, PeriodKeepsTypes DEF AlarmInv
<1>2. CASE Close
  BY <1>2 DEF Close, AlarmInv, CountsRuns, TypeOK, counters
<1>3. CASE Open
  BY <1>3 DEF Open, AlarmInv, CountsRuns, TypeOK, counters, history
<1>4. CASE WriteAlarms
  BY <1>4 DEF WriteAlarms, AlarmInv, CountsRuns, TypeOK, counters
<1>5. CASE UNCHANGED vars
  BY <1>5 DEF vars, AlarmInv, CountsRuns, TypeOK, counters, history
<1> QED BY <1>1, <1>2, <1>3, <1>4, <1>5 DEF Next

\* The counters of alarm.c that are compared with a threshold stay below it, and
\* gOverCurWaitCTC in step with the current it counts.
THEOREM AlarmInvariant == Spec => []AlarmInv
<1>1. AlarmInv /\ [Next]_vars => AlarmInv'
  BY NextAlarmInv
<1> QED BY InitAlarmInv, <1>1, PTL DEF Spec

\* gOverCurWaitCTC and the counts of Check_Fuse and Check_CircuitOpen never wrap
\* (alarm.c:63,88,175).
THEOREM AlarmTypeCorrect == Spec => []TypeOK
<1>1. AlarmInv => TypeOK
  BY DEF AlarmInv
<1> QED BY AlarmInvariant, <1>1, PTL

\* A current between 105% and 125% cannot last OverCurNum periods of 20 ms
\* without the over-current alarm (alarm.c:177-183), for every threshold.
THEOREM OverCurrentTrips == Spec => []OverCurTrips
<1>1. AlarmInv => OverCurTrips
  BY AlarmAssumption DEF AlarmInv, TypeOK, CountsRuns, OverCurTrips
<1> QED BY AlarmInvariant, <1>1, PTL

LEMMA StepIsSustained ==
  ASSUME AlarmInv, NEW r \in Readings, Period(r)
  PROVE  /\ Raised("CirOverCur") => sinceCalm' >= OverCurNum
         /\ Raised("CirStrongOverCur") => sinceCalm' > StrongOverNum
<1>1. ASSUME Raised("CirOverCur")
      PROVE  sinceCalm' >= OverCurNum
  <2>1. OverCur(r) /\ OverReached
    BY <1>1 DEF Raised, Period, IloadAlarms, ScrAlarms, FuseAlarms, OpenAlarms
  <2>2. Inc(gOverCurWaitCTC) = gOverCurWaitCTC + 1
    BY IncBelow, AlarmAssumption DEF AlarmInv, TypeOK
  <2>3. sinceCalm' = Longer(sinceCalm)
    BY <1>1, <2>1 DEF Period, OverCur
  <2> QED BY <2>1, <2>2, <2>3, AlarmAssumption
          DEF AlarmInv, TypeOK, CountsRuns, OverReached, Longer
<1>2. ASSUME Raised("CirStrongOverCur")
      PROVE  sinceCalm' > StrongOverNum
  <2>1. StrongOverCur(r) /\ StrongReached
    BY <1>2 DEF Raised, Period, IloadAlarms, ScrAlarms, FuseAlarms, OpenAlarms
  <2>2. sinceCalm' = Longer(sinceCalm)
    BY <1>2, <2>1 DEF Period, StrongOverCur
  <2> QED BY <2>1, <2>2, AlarmAssumption
          DEF AlarmInv, TypeOK, CountsRuns, StrongReached, Longer
<1> QED BY <1>1, <1>2

\* The checks raise neither over-current alarm before the current has stayed
\* above 105% for the periods counted (alarm.c:172-202), for every threshold and
\* whatever a master writes to the alarm register.
THEOREM OverCurrentSustained == Spec => OverCurIsSustained
<1>1. AlarmInv /\ [Next]_vars
        => [(\E r \in Readings : Period(r)) =>
              /\ Raised("CirOverCur") => sinceCalm' >= OverCurNum
              /\ Raised("CirStrongOverCur") => sinceCalm' > StrongOverNum]_vars
  BY StepIsSustained
<1> QED BY AlarmInvariant, <1>1, PTL DEF Spec, OverCurIsSustained
=============================================================================
