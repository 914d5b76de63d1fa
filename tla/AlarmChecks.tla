----------------------------- MODULE AlarmChecks -----------------------------
(***************************************************************************)
(* The checks the adc_sample thread makes every 20 ms while the status     *)
(* word says that the contactor is closed (adc_sample.c:168-199): those of *)
(* alarm.c, with their static counters, and the trip.  Measured values are *)
(* taken by what the thresholds of alarm.h tell apart.                     *)
(*                                                                         *)
(* The counters live as long as the program: opening the contactor does    *)
(* not reset them, and no check runs while it is open.                     *)
(***************************************************************************)
EXTENDS Integers

CONSTANTS
  OverCurNum,     \* 200 periods
  StrongOverNum,  \* 40 periods
  CirOpenNum,     \* 75 periods
  ByteRange,      \* 256: the counters are rt_uint8_t
  RunCap,         \* bound on the runs the history counts
  AlarmWrites     \* values a Modbus master writes to SYS_ALARM_REG

\* Those of alarm.h that some code raises.
Alarms == {"SCRFault", "FuseFault", "CirOpen100p", "CirOverCur", "CirStrongOverCur"}

ASSUME AlarmAssumption ==
  /\ OverCurNum \in Nat \ {0} /\ StrongOverNum \in Nat \ {0}
  /\ CirOpenNum \in Nat \ {0}
  /\ ByteRange \in Nat /\ RunCap \in Nat
  /\ OverCurNum < ByteRange /\ CirOpenNum < ByteRange
  /\ OverCurNum < RunCap /\ StrongOverNum < RunCap
  /\ AlarmWrites \subseteq SUBSET Alarms

\* i_load below 105%, from there to 125%, and above; Check_SCR and Check_Fuse
\* see the voltage and angle of their fault; the crossings are valid.
Readings == [i : {"calm", "over", "strong"}, scr : BOOLEAN, fuse : BOOLEAN,
             int0_valid : BOOLEAN]

VARIABLES
  closed,     \* the relay bit of run_status
  alarms,     \* the bits of SYS_ALARM_REG
  gOverCurWaitCTC, strongOverCnt,    \* static in check_i_load
  fuseCnt,    \* count in Check_Fuse
  openCnt,    \* count in Check_CircuitOpen
  stack,      \* vscr and iload, never assigned, look like an open circuit
  sinceCalm,  \* history: checks since i_load was last below 105%
  overRun,    \* history: the latest checks in a row with i_load in between
  strongRun   \* history: the latest checks in a row with i_load above 125%

counters == <<gOverCurWaitCTC, strongOverCnt, fuseCnt, openCnt>>
history  == <<sinceCalm, overRun, strongRun>>
vars     == <<closed, alarms, counters, stack, history>>

Init == /\ closed = FALSE
        /\ alarms = {}
        /\ gOverCurWaitCTC = 0 /\ strongOverCnt = 0
        /\ fuseCnt = 0 /\ openCnt = 0
        /\ stack \in BOOLEAN
        /\ sinceCalm = 0 /\ overRun = 0 /\ strongRun = 0

Inc(n)    == (n + 1) % ByteRange
Longer(n) == IF n < RunCap THEN n + 1 ELSE n

-----------------------------------------------------------------------------
(* Each check: the alarms it raises, and its counter afterwards.            *)

OverCur(r)       == r.i = "over" /\ "CirOverCur" \notin alarms
StrongOverCur(r) == r.i = "strong" /\ "CirStrongOverCur" \notin alarms

OverReached_Late == Inc(gOverCurWaitCTC) > OverCurNum

OverReached == Inc(gOverCurWaitCTC) >= OverCurNum

\* The counter of the other branch is the one compared (alarm.c:192).
StrongReached == gOverCurWaitCTC >= StrongOverNum

IloadAlarms(r) ==
  (IF OverCur(r) /\ OverReached THEN {"CirOverCur"} ELSE {})
    \cup (IF StrongOverCur(r) /\ StrongReached THEN {"CirStrongOverCur"} ELSE {})

IloadCounts_NoReset(r) ==
  /\ gOverCurWaitCTC' = IF ~OverCur(r) THEN gOverCurWaitCTC
                        ELSE IF OverReached THEN 0 ELSE Inc(gOverCurWaitCTC)
  /\ strongOverCnt' = IF StrongOverCur(r) THEN Inc(strongOverCnt) ELSE strongOverCnt

IloadCounts(r) ==
  /\ gOverCurWaitCTC' = IF OverCur(r)
                        THEN IF OverReached THEN 0 ELSE Inc(gOverCurWaitCTC)
                        ELSE IF StrongOverCur(r) THEN gOverCurWaitCTC ELSE 0
  /\ strongOverCnt' = IF OverCur(r) THEN strongOverCnt
                      ELSE IF StrongOverCur(r) THEN Inc(strongOverCnt) ELSE 0

\* Check_Fuse returns early once the alarm is raised, which it is at the first
\* reading: the count never gets further.
FuseSeen(r) == r.int0_valid /\ "FuseFault" \notin alarms

FuseAlarms(r) ==
  IF FuseSeen(r) /\ r.fuse
  THEN {"FuseFault"} \cup IF Inc(fuseCnt) >= CirOpenNum THEN {"CirOpen100p"} ELSE {}
  ELSE {}

FuseCounts(r) ==
  fuseCnt' = IF ~FuseSeen(r) THEN fuseCnt
             ELSE IF r.fuse /\ Inc(fuseCnt) < CirOpenNum THEN Inc(fuseCnt) ELSE 0

OpenAlarms(r) ==
  IF r.int0_valid /\ stack /\ Inc(openCnt) >= CirOpenNum THEN {"CirOpen100p"} ELSE {}

OpenCounts(r) ==
  openCnt' = IF ~r.int0_valid THEN openCnt
             ELSE IF stack /\ Inc(openCnt) < CirOpenNum THEN Inc(openCnt) ELSE 0

ScrAlarms(r) == IF r.scr THEN {"SCRFault"} ELSE {}

-----------------------------------------------------------------------------
\* One period of adc_sample with the contactor closed: the four checks, then
\* RELAY_OFF when any alarm is latched.
Period(r) ==
  /\ closed
  /\ alarms' = alarms \cup IloadAlarms(r) \cup ScrAlarms(r) \cup FuseAlarms(r)
                      \cup OpenAlarms(r)
  /\ IloadCounts(r) /\ FuseCounts(r) /\ OpenCounts(r)
  /\ closed' = (alarms' = {})
  /\ sinceCalm' = IF r.i = "calm" THEN 0 ELSE Longer(sinceCalm)
  /\ overRun' = IF r.i = "over" THEN Longer(overRun) ELSE 0
  /\ strongRun' = IF r.i = "strong" THEN Longer(strongRun) ELSE 0
  /\ UNCHANGED stack

\* The contactor is closed by pid_ctrl, or by write_cmd and the shell, which
\* do not look at the alarms.
Close == /\ ~closed
         /\ closed' = TRUE
         /\ overRun' = 0 /\ strongRun' = 0
         /\ UNCHANGED <<alarms, counters, stack, sinceCalm>>

\* It is opened for another reason than an alarm.
Open == /\ closed
        /\ closed' = FALSE
        /\ UNCHANGED <<alarms, counters, stack, history>>

\* The alarm register is written over Modbus, bits set as well as cleared.  The
\* runs start again.
WriteAlarms == /\ alarms' \in AlarmWrites
               /\ overRun' = 0 /\ strongRun' = 0
               /\ UNCHANGED <<closed, counters, stack, sinceCalm>>

Next == (\E r \in Readings : Period(r)) \/ Close \/ Open \/ WriteAlarms

Spec == Init /\ [][Next]_vars

-----------------------------------------------------------------------------
TypeOK ==
  /\ closed \in BOOLEAN /\ stack \in BOOLEAN
  /\ alarms \subseteq Alarms
  /\ gOverCurWaitCTC \in 0 .. OverCurNum - 1
  /\ strongOverCnt \in 0 .. ByteRange - 1
  /\ fuseCnt \in 0 .. CirOpenNum - 1 /\ openCnt \in 0 .. CirOpenNum - 1
  /\ sinceCalm \in 0 .. RunCap /\ strongRun \in 0 .. RunCap
  /\ overRun \in 0 .. RunCap

Raised(a) == a \notin alarms /\ a \in alarms'

\* The checks raise neither over-current alarm from a current that was below
\* 105% during the periods counted (alarm.c:172-202): readings on both sides of
\* the limit never add up to an alarm.  The periods need not all be above 125%
\* for the strong alarm, which the first such reading may raise after enough of
\* the other ones; and they are counted on over openings of the contactor, when
\* nothing is read.
OverCurIsSustained ==
  [][(\E r \in Readings : Period(r)) =>
       /\ Raised("CirOverCur") => sinceCalm' >= OverCurNum
       /\ Raised("CirStrongOverCur") => sinceCalm' > StrongOverNum]_vars

\* A current between 105% and 125% cannot last OverCurNum periods without the
\* alarm (alarm.c:177-183), whatever was counted before.
OverCurTrips == overRun >= OverCurNum => "CirOverCur" \in alarms

\* "20*40  800ms" (alarm.c:170): a current above 125% for StrongOverNum periods
\* raises the strong over-current alarm.
StrongOverCurTrips == strongRun >= StrongOverNum => "CirStrongOverCur" \in alarms
=============================================================================
