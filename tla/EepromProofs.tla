---------------------------- MODULE EepromProofs ----------------------------
(***************************************************************************)
(* With transfers that succeed, the pages of two savers are never mixed,   *)
(* a call that returns has written what it was given, and the whole is a   *)
(* SettingsStore: for any number of pages, any values of the settings and  *)
(* any number of losses of power.  Whether transfers fail or not, savers   *)
(* never wait for each other in a ring, and the most urgent is next.       *)
(*                                                                         *)
(* The argument: only the owner of the mutex is between at24cxx_write_page *)
(* and rt_mutex_release, and the pages it has passed are those of the      *)
(* image it has built; those in the queue wait for it, the urgent first,   *)
(* and it runs at the priority of the first.                               *)
(***************************************************************************)
EXTENDS Eeprom, TLAPS

NoErrors == MaxErrors = 0

Holding(t) == pc[t] \in {"write", "settle"}

\* The mutex: its owner is the one thread that writes, the others that have
\* asked for it are in its queue, once each.
MutexInv ==
  /\ \A t \in Writers : Holding(t) <=> lock = t
  /\ lock = "free" => queue = <<>>
  /\ \A i \in 1 .. Len(queue) : pc[queue[i]] = "queued"
  /\ \A i, j \in 1 .. Len(queue) : queue[i] = queue[j] => i = j

\* eeprom_init runs before the threads do.
BootInv ==
  /\ power = "up" => pc["boot"] = "idle"
  /\ power = "boot" => \A t \in Savers : pc[t] = "idle"

\* The pages the owner has written.
WrittenInv ==
  /\ \A t \in Writers : ~Holding(t) => next[t] = 0
  /\ \A t \in Writers, p \in Pages :
       pc[t] = "write" /\ p < next[t] => page[p] = ImageOf(tmp[t])[p]
  /\ \A t \in Writers, p \in Pages :
       pc[t] = "settle" /\ p <= next[t] => page[p] = ImageOf(tmp[t])[p]
  /\ pc["boot"] = "load" => Valid(page)

LockInv   == TypeOK /\ MutexInv /\ BootInv
EepromInv == TypeOK /\ MutexInv /\ BootInv /\ WrittenInv /\ WholeWhenFree

LEMMA ImageOfType ==
  ASSUME NEW s \in Settings
  PROVE  ImageOf(s) \in [Pages -> PageValues]
BY DEF ImageOf, PageValues, Settings

LEMMA WriterFacts ==
  /\ "boot" \in Writers /\ "free" \notin Writers
  /\ \A t \in Writers : t = "boot" \/ t \in Savers
BY DEF Writers, Savers

LEMMA PageFacts == 0 \in Pages /\ LastPage \in Nat /\ LastPage \in Pages
BY EepromAssumption DEF Pages, LastPage

LEMMA DefaultIsSettings == Default \in Settings
BY EepromAssumption DEF Default, Settings

\* A writer that has written the last page has written its whole image.
LEMMA LastPageMeansWhole ==
  ASSUME EepromInv, NEW t \in Writers, pc[t] = "settle", next[t] = LastPage
  PROVE  page = ImageOf(tmp[t]) /\ Valid(page)
<1>1. \A p \in Pages : page[p] = ImageOf(tmp[t])[p]
  BY PageFacts DEF EepromInv, WrittenInv, Pages
<1>2. tmp[t] \in Settings /\ page \in [Pages -> PageValues]
  BY DEF EepromInv, TypeOK
<1>3. ImageOf(tmp[t]) \in [Pages -> PageValues]
  BY <1>2, ImageOfType
<1>4. page = ImageOf(tmp[t])
  BY <1>1, <1>2, <1>3
<1> QED BY <1>2, <1>4 DEF Valid

LEMMA InitEepromInv == Init => EepromInv
<1> SUFFICES ASSUME Init PROVE EepromInv
  OBVIOUS
<1>1. page \in [Pages -> PageValues]
  <2>1. CASE page \in {ImageOf(s) : s \in Settings}
    BY <2>1, ImageOfType
  <2>2. CASE page \in {[p \in Pages |-> Garbage]}
    BY <2>2 DEF PageValues
  <2> QED BY <2>1, <2>2 DEF Init
<1>2. TypeOK
  <2>1. /\ db \in Settings /\ sysp \in Settings
        /\ tmp \in [Writers -> Settings]
        /\ seen \in [cmd : SUBSET Cmds, cal : SUBSET Cals]
    BY DefaultIsSettings, EepromAssumption DEF Init
  <2>2. /\ next \in [Writers -> Pages] /\ queue \in Seq(Writers)
        /\ cuts \in 0 .. MaxCuts /\ errors \in 0 .. MaxErrors
    BY PageFacts, EepromAssumption DEF Init
  <2> QED BY <1>1, <2>1, <2>2 DEF Init, TypeOK
<1>3. MutexInv
  BY WriterFacts DEF Init, MutexInv, Holding
<1>4. BootInv /\ WrittenInv /\ WholeWhenFree
  BY WriterFacts DEF Init, BootInv, WrittenInv, WholeWhenFree, Holding, Savers, Writers
<1> QED BY <1>2, <1>3, <1>4 DEF EepromInv
-----------------------------------------------------------------------------
(* Types.                                                                    *)

\* What a queue holds once t has been put in place k of it.
LEMMA InsertedQueue ==
  ASSUME queue \in Seq(Writers), NEW t \in Writers, NEW k \in Places(t),
         queue' = [i \in 1 .. Len(queue) + 1 |->
                     IF i = k THEN t ELSE queue[IF i < k THEN i ELSE i - 1]]
  PROVE  /\ queue' \in Seq(Writers) /\ Len(queue') = Len(queue) + 1
         /\ k \in 1 .. Len(queue') /\ queue'[k] = t
         /\ \A i \in 1 .. Len(queue') :
              i # k => /\ (IF i < k THEN i ELSE i - 1) \in 1 .. Len(queue)
                       /\ queue'[i] = queue[IF i < k THEN i ELSE i - 1]
<1>1. k \in 1 .. Len(queue) + 1 /\ Len(queue) \in Nat
  BY DEF Places
<1>2. \A i \in 1 .. Len(queue) + 1 :
        i # k => (IF i < k THEN i ELSE i - 1) \in 1 .. Len(queue)
  BY <1>1
<1>3. \A i \in 1 .. Len(queue) + 1 :
        (IF i = k THEN t ELSE queue[IF i < k THEN i ELSE i - 1]) \in Writers
  <2> SUFFICES ASSUME NEW i \in 1 .. Len(queue) + 1, i # k
               PROVE  queue[IF i < k THEN i ELSE i - 1] \in Writers
    OBVIOUS
  <2> DEFINE j == IF i < k THEN i ELSE i - 1
  <2>1. j \in 1 .. Len(queue)
    BY <1>2
  <2> HIDE DEF j
  <2>2. queue[j] \in Writers
    BY <2>1
  <2> QED BY <2>2 DEF j
<1>4. queue' \in Seq(Writers) /\ Len(queue') = Len(queue) + 1
  BY <1>1, <1>3
<1> QED BY <1>1, <1>2, <1>4

LEMMA ChangeTypes ==
  ASSUME TypeOK, ModbusWrite \/ WcmdSave \/ DiSave \/ ShellSave
  PROVE  TypeOK'
<1> USE DEF TypeOK, Goto
<1>1. ASSUME NEW c \in Cmds, InUse([db EXCEPT !.cmd = c])
      PROVE  db' \in Settings /\ seen' \in [cmd : SUBSET Cmds, cal : SUBSET Cals]
  BY <1>1 DEF InUse, SeenAlso, Settings
<1>2. ASSUME NEW c \in Cals, InUse([db EXCEPT !.cal = c])
      PROVE  db' \in Settings /\ seen' \in [cmd : SUBSET Cmds, cal : SUBSET Cals]
  BY <1>2 DEF InUse, SeenAlso, Settings
<1>3. CASE ModbusWrite
  BY <1>1, <1>3 DEF ModbusWrite, savers
<1>4. CASE WcmdSave
  BY <1>4 DEF WcmdSave
<1>5. CASE DiSave
  BY <1>1, <1>5 DEF DiSave
<1>6. CASE ShellSave
  BY <1>1, <1>2, <1>6 DEF ShellSave
<1> QED BY <1>3, <1>4, <1>5, <1>6

LEMMA SaveTypes ==
  ASSUME TypeOK, NEW t \in Writers, SaveStep(t)
  PROVE  TypeOK'
<1> USE DEF TypeOK, Goto
<1>1. CASE SaveCopy(t)
  <2>1. sysp' \in Settings
    BY <1>1 DEF SaveCopy, Settings
  <2> QED BY <1>1, <2>1 DEF SaveCopy
<1>2. CASE SaveBuild(t)
  <2>1. tmp' \in [Writers -> Settings]
    <3>1. /\ [tmp[t] EXCEPT !.cmd = sysp.cmd] \in Settings
          /\ [tmp[t] EXCEPT !.cal = sysp.cal] \in Settings
      BY DEF Settings
    <3>2. tmp' = [tmp EXCEPT ![t] = [tmp[t] EXCEPT !.cmd = sysp.cmd]]
            \/ tmp' = [tmp EXCEPT ![t] = [tmp[t] EXCEPT !.cal = sysp.cal]]
      BY <1>2 DEF SaveBuild
    <3> QED BY <3>1, <3>2
  <2> QED BY <1>2, <2>1 DEF SaveBuild
<1>3. CASE TakeLock(t)
  <2>1. pc' \in [Writers -> {"idle", "copy", "copy_cal", "build", "build_cal",
                            "take", "queued", "write", "settle", "load"}]
    BY <1>3 DEF TakeLock
  <2>2. lock' \in Writers \cup {"free"}
    BY <1>3 DEF TakeLock
  <2>3. queue' \in Seq(Writers)
    BY <1>3, InsertedQueue DEF TakeLock
  <2> QED BY <1>3, <2>1, <2>2, <2>3 DEF TakeLock
<1>4. CASE WritePage(t)
  <2>1. ImageOf(tmp[t]) \in [Pages -> PageValues] /\ Garbage \in PageValues
    BY ImageOfType DEF PageValues
  <2>2. page' \in [Pages -> PageValues] /\ errors' \in 0 .. MaxErrors
    BY <1>4, <2>1, EepromAssumption DEF WritePage
  <2> QED BY <1>4, <2>2 DEF WritePage
<1>5. CASE NextPage(t)
  <2>1. next[t] + 1 \in Pages
    BY <1>5, PageFacts DEF NextPage, Pages
  <2> QED BY <1>5, <2>1 DEF NextPage
<1>6. CASE SaveDone(t)
  <2>1. next' \in [Writers -> Pages] /\ tmp' \in [Writers -> Settings]
    BY <1>6, PageFacts, DefaultIsSettings DEF SaveDone
  <2>2. lock' \in Writers \cup {"free"} /\ queue' \in Seq(Writers)
    BY <1>6 DEF SaveDone, Release
  <2>3. \A u \in Writers : pc'[u] \in {pc[u], "load", "idle", "write"}
    BY <1>6 DEF SaveDone
  <2>4. pc' \in [Writers -> {"idle", "copy", "copy_cal", "build", "build_cal",
                            "take", "queued", "write", "settle", "load"}]
    BY <1>6, <2>3 DEF SaveDone
  <2> QED BY <1>6, <2>1, <2>2, <2>4 DEF SaveDone
<1> QED BY <1>1, <1>2, <1>3, <1>4, <1>5, <1>6 DEF SaveStep

LEMMA BootTypes ==
  ASSUME TypeOK, BootStep \/ PowerCut
  PROVE  TypeOK'
<1> USE DEF TypeOK
<1>1. ASSUME NEW s \in Settings
      PROVE  SeenAlso(s) \in [cmd : SUBSET Cmds, cal : SUBSET Cals]
  BY DEF SeenAlso, Settings
<1>2. CASE BootLoad
  <2>1. Loaded(page) \in Settings
    BY <1>2 DEF BootLoad, Valid, Loaded
  <2> QED BY <1>1, <1>2, <2>1 DEF BootLoad, savers
<1>3. CASE BootDefault
  BY <1>3, WriterFacts, DefaultIsSettings, EepromAssumption DEF BootDefault
<1>4. CASE BootUse
  BY <1>4, DefaultIsSettings DEF BootUse, Goto
<1>5. CASE PowerCut
  <2>1. page' \in [Pages -> PageValues]
    <3>1. \A t \in Writers : [page EXCEPT ![next[t]] = Garbage] \in [Pages -> PageValues]
      BY DEF PageValues
    <3> QED BY <1>5, <3>1 DEF PowerCut
  <2>2. cuts' \in 0 .. MaxCuts
    BY <1>5, EepromAssumption DEF PowerCut
  <2>3. /\ pc' \in [Writers -> {"idle"}] /\ tmp' \in [Writers -> Settings]
        /\ next' \in [Writers -> Pages] /\ queue' \in Seq(Writers)
    BY <1>5, PageFacts, DefaultIsSettings DEF PowerCut
  <2> QED BY <1>5, <2>1, <2>2, <2>3, DefaultIsSettings DEF PowerCut
<1> QED BY <1>2, <1>3, <1>4, <1>5 DEF BootStep
-----------------------------------------------------------------------------
(* Steps: the mutex and its queue, whether transfers fail or not.            *)

\* A thread that neither holds the mutex nor waits for it, before and after.
LEMMA QuietLock ==
  ASSUME LockInv, NEW t \in Writers, NEW to,
         pc[t] \notin {"write", "settle", "queued"},
         to \notin {"write", "settle", "queued"},
         pc' = [pc EXCEPT ![t] = to],
         UNCHANGED <<lock, queue>>
  PROVE  /\ MutexInv'
         /\ \A u \in Writers : Holding(u)' <=> Holding(u)
         /\ \A u \in Writers : pc'[u] = "queued" <=> pc[u] = "queued"
<1> USE DEF LockInv, TypeOK
<1>1. \A u \in Writers : Holding(u)' <=> Holding(u)
  BY DEF Holding
<1>2. \A i \in 1 .. Len(queue) : queue[i] # t /\ queue[i] \in Writers
  BY DEF MutexInv
<1>3. MutexInv'
  BY <1>1, <1>2 DEF MutexInv
<1> QED BY <1>1, <1>3

\* While eeprom_init runs it is the only writer, and it is none afterwards.
LEMMA WhoSaves ==
  ASSUME LockInv, NEW t \in Writers, pc[t] # "idle"
  PROVE  power = "boot" <=> t = "boot"
BY WriterFacts DEF LockInv, TypeOK, BootInv

LEMMA BootKeeps ==
  ASSUME LockInv, NEW t \in Writers, pc[t] # "idle", power' = power,
         \A u \in Writers \ {t} : pc'[u] = pc[u]
  PROVE  BootInv'
<1>1. CASE t = "boot"
  BY <1>1, WhoSaves DEF LockInv, BootInv, Savers, Writers
<1>2. CASE t # "boot"
  BY <1>2, WhoSaves, WriterFacts DEF LockInv, TypeOK, BootInv
<1> QED BY <1>1, <1>2

LEMMA ChangeLock ==
  ASSUME LockInv, ModbusWrite \/ WcmdSave \/ DiSave \/ ShellSave
  PROVE  LockInv'
<1>1. TypeOK'
  BY ChangeTypes DEF LockInv
<1>2. CASE ModbusWrite
  BY <1>1, <1>2 DEF ModbusWrite, LockInv, MutexInv, BootInv, Holding, savers
<1>3. ASSUME NEW t \in Savers, Goto(t, "idle", "copy"), power = "up",
             UNCHANGED <<power, lock, queue>>
      PROVE  LockInv'
  <2>1. MutexInv'
    BY <1>3, QuietLock DEF Goto, Writers
  <2>2. BootInv'
    BY <1>3 DEF LockInv, BootInv, TypeOK, Goto, Savers, Writers
  <2> QED BY <1>1, <2>1, <2>2 DEF LockInv
<1> QED BY <1>2, <1>3 DEF WcmdSave, DiSave, ShellSave, Savers

\* Before it asks for the mutex a saver does not touch it.
LEMMA PrepareLock ==
  ASSUME LockInv, NEW t \in Writers, SaveCopy(t) \/ SaveBuild(t)
  PROVE  LockInv'
<1>1. PICK from \in {"copy", "copy_cal", "build", "build_cal"},
           to \in {"copy_cal", "build", "build_cal", "take"} : Goto(t, from, to)
  BY DEF SaveCopy, SaveBuild
<1>2. UNCHANGED <<power, lock, queue>> /\ TypeOK'
  BY SaveTypes DEF SaveCopy, SaveBuild, SaveStep, LockInv
<1>3. MutexInv'
  BY <1>1, <1>2, QuietLock DEF Goto
<1>4. BootInv'
  BY <1>1, <1>2, BootKeeps DEF Goto, LockInv, TypeOK
<1> QED BY <1>2, <1>3, <1>4 DEF LockInv

\* Where those that waited stand in the queue once t has joined it in place k.
LEMMA JoinedQueue ==
  ASSUME LockInv, NEW t \in Writers, TakeLock(t), lock # "free"
  PROVE  \E k \in Places(t) :
           /\ Len(queue') = Len(queue) + 1 /\ Len(queue) \in Nat
           /\ k \in 1 .. Len(queue') /\ queue'[k] = t
           /\ \A i \in 1 .. Len(queue') :
                i # k => /\ (IF i < k THEN i ELSE i - 1) \in 1 .. Len(queue)
                         /\ queue'[i] = queue[IF i < k THEN i ELSE i - 1]
<1>1. queue \in Seq(Writers) /\ Len(queue) \in Nat
  BY DEF LockInv, TypeOK
<1>2. PICK k \in Places(t) :
        queue' = [i \in 1 .. Len(queue) + 1 |->
                    IF i = k THEN t ELSE queue[IF i < k THEN i ELSE i - 1]]
  BY DEF TakeLock
<1> QED BY <1>1, <1>2, InsertedQueue

\* rt_mutex_take: the caller owns a free mutex, or has a place in its queue.
LEMMA TakesLock ==
  ASSUME LockInv, NEW t \in Writers, TakeLock(t)
  PROVE  LockInv'
<1> USE DEF LockInv, TypeOK
<1>1. TypeOK'
  BY SaveTypes DEF SaveStep
<1>2. /\ pc[t] = "take" /\ power' = power
      /\ \A u \in Writers \ {t} : pc'[u] = pc[u]
  BY DEF TakeLock, Goto
<1>3. lock # t
  BY <1>2 DEF MutexInv, Holding
<1>4. BootInv'
  BY <1>2, BootKeeps
<1>5. CASE lock = "free"
  <2>1. pc'[t] = "write" /\ lock' = t /\ queue' = queue /\ queue = <<>>
    BY <1>5 DEF TakeLock, Goto, MutexInv
  <2>2. MutexInv'
    BY <1>2, <1>5, <2>1, WriterFacts DEF MutexInv, Holding
  <2> QED BY <1>1, <1>4, <2>2
<1>6. CASE lock # "free"
  <2> DEFINE from(i, k) == IF i < k THEN i ELSE i - 1
  <2>1. PICK k \in Places(t) :
          /\ Len(queue') = Len(queue) + 1 /\ Len(queue) \in Nat
          /\ k \in 1 .. Len(queue') /\ queue'[k] = t
          /\ \A i \in 1 .. Len(queue') :
               i # k => /\ from(i, k) \in 1 .. Len(queue)
                        /\ queue'[i] = queue[from(i, k)]
    BY <1>6, JoinedQueue
  <2>2. pc'[t] = "queued" /\ lock' = lock
    BY <1>6 DEF TakeLock, Goto
  <2>3. \A i, j \in 1 .. Len(queue') : i # k /\ j # k /\ from(i, k) = from(j, k) => i = j
    BY <2>1
  <2> HIDE DEF from
  <2>4. \A u \in Writers : Holding(u)' <=> lock' = u
    BY <1>2, <1>3, <2>2 DEF MutexInv, Holding
  <2>5. \A i \in 1 .. Len(queue) : queue[i] # t /\ queue[i] \in Writers
    BY <1>2 DEF MutexInv
  <2>6. \A i \in 1 .. Len(queue') : pc'[queue'[i]] = "queued"
    BY <1>2, <2>1, <2>2, <2>5 DEF MutexInv
  <2>7. \A i, j \in 1 .. Len(queue') : queue'[i] = queue'[j] => i = j
    <3> SUFFICES ASSUME NEW i \in 1 .. Len(queue'), NEW j \in 1 .. Len(queue'),
                        queue'[i] = queue'[j]
                 PROVE  i = j
      OBVIOUS
    <3>1. i = k <=> j = k
      BY <2>1, <2>5
    <3>2. CASE i # k /\ j # k
      <4>1. queue[from(i, k)] = queue[from(j, k)]
        BY <2>1, <3>2
      <4>2. from(i, k) = from(j, k)
        BY <2>1, <3>2, <4>1 DEF MutexInv
      <4> QED BY <2>3, <3>2, <4>2
    <3> QED BY <3>1, <3>2
  <2> QED BY <1>1, <1>4, <1>6, <2>2, <2>4, <2>6, <2>7 DEF MutexInv
<1> QED BY <1>5, <1>6

LEMMA PageLock ==
  ASSUME LockInv, NEW t \in Writers, WritePage(t) \/ NextPage(t)
  PROVE  LockInv'
<1> USE DEF LockInv, TypeOK
<1>1. TypeOK'
  BY SaveTypes DEF SaveStep
<1>2. /\ Holding(t) /\ Holding(t)' /\ UNCHANGED <<power, lock, queue>>
      /\ \A u \in Writers \ {t} : pc'[u] = pc[u]
  BY DEF WritePage, NextPage, Goto, Holding
<1>3. \A u \in Writers : Holding(u)' <=> lock' = u
  BY <1>2 DEF MutexInv, Holding
<1>4. \A i \in 1 .. Len(queue) : queue[i] \in Writers \ {t}
  BY <1>2 DEF MutexInv, Holding
<1>5. \A i \in 1 .. Len(queue) : pc'[queue[i]] = "queued"
  BY <1>2, <1>4 DEF MutexInv
<1>6. BootInv'
  BY <1>2, BootKeeps DEF Holding
<1> QED BY <1>1, <1>2, <1>3, <1>5, <1>6 DEF MutexInv

\* rt_mutex_release: the first in the queue, if there is one, becomes the owner.
LEMMA HandedOn ==
  ASSUME LockInv, NEW t \in Writers, SaveDone(t), queue # <<>>
  PROVE  /\ lock' = queue[1] /\ queue[1] \in Writers \ {t, "boot"} /\ Len(queue) \in Nat
         /\ Len(queue) > 0 /\ t # "boot" /\ power = "up"
         /\ pc[queue[1]] = "queued" /\ pc'[queue[1]] = "write" /\ pc'[t] = "idle"
         /\ \A u \in Writers \ {t, queue[1]} : pc'[u] = pc[u]
         /\ Len(queue') = Len(queue) - 1
         /\ \A i \in 1 .. Len(queue') : queue'[i] = queue[i + 1] /\ i + 1 \in 1 .. Len(queue)
<1> USE DEF LockInv, TypeOK
<1>1. /\ queue[1] \in Writers /\ Len(queue) \in Nat \ {0} /\ Head(queue) = queue[1]
      /\ queue' = Tail(queue) /\ lock' = queue[1]
  BY DEF SaveDone, Release
<1>2. pc[queue[1]] = "queued" /\ pc[t] = "settle"
  BY <1>1 DEF MutexInv, SaveDone
<1>3. t # "boot" /\ queue[1] # "boot" /\ power = "up"
  BY <1>1, <1>2, WhoSaves
<1>4. /\ pc'[t] = "idle" /\ pc'[queue[1]] = "write"
      /\ \A u \in Writers \ {t, queue[1]} : pc'[u] = pc[u]
  BY <1>1, <1>2, <1>3 DEF SaveDone
<1>5. /\ Len(queue') = Len(queue) - 1
      /\ \A i \in 1 .. Len(queue') : queue'[i] = queue[i + 1] /\ i + 1 \in 1 .. Len(queue)
  BY <1>1
<1> QED BY <1>1, <1>2, <1>3, <1>4, <1>5

LEMMA DoneLock ==
  ASSUME LockInv, NEW t \in Writers, SaveDone(t)
  PROVE  LockInv'
<1> USE DEF LockInv, TypeOK
<1>1. TypeOK'
  BY SaveTypes DEF SaveStep
<1>2. /\ pc[t] = "settle" /\ power' = power /\ lock = t
      /\ \A u \in Writers \ {t} : ~Holding(u)
  BY DEF SaveDone, MutexInv, Holding
<1>3. CASE queue = <<>>
  <2>1. /\ lock' = "free" /\ queue' = <<>> /\ pc'[t] \in {"idle", "load"}
        /\ \A u \in Writers \ {t} : pc'[u] = pc[u]
    BY <1>3, WriterFacts DEF SaveDone, Release
  <2>2. \A u \in Writers : ~Holding(u)'
    BY <1>2, <2>1 DEF Holding
  <2>3. MutexInv' /\ BootInv'
    BY <1>2, <2>1, <2>2, BootKeeps, WriterFacts DEF MutexInv
  <2> QED BY <1>1, <2>3
<1>4. CASE queue # <<>>
  <2> DEFINE h == queue[1]
  <2>1. /\ lock' = h /\ h \in Writers \ {t, "boot"} /\ Len(queue) \in Nat
        /\ Len(queue) > 0 /\ t # "boot" /\ power = "up"
        /\ pc[h] = "queued" /\ pc'[h] = "write" /\ pc'[t] = "idle"
        /\ \A u \in Writers \ {t, h} : pc'[u] = pc[u]
        /\ Len(queue') = Len(queue) - 1
        /\ \A i \in 1 .. Len(queue') : queue'[i] = queue[i + 1] /\ i + 1 \in 1 .. Len(queue)
    BY <1>4, HandedOn
  <2>2. \A i \in 1 .. Len(queue') : queue'[i] \in Writers \ {t, h} /\ pc[queue'[i]] = "queued"
    BY <1>2, <2>1 DEF MutexInv
  <2>3. \A i, j \in 1 .. Len(queue') : queue'[i] = queue'[j] => i = j
    <3> SUFFICES ASSUME NEW i \in 1 .. Len(queue'), NEW j \in 1 .. Len(queue'),
                        queue'[i] = queue'[j]
                 PROVE  i = j
      OBVIOUS
    <3>1. i + 1 = j + 1
      BY <2>1 DEF MutexInv
    <3> QED BY <2>1, <3>1
  <2> HIDE DEF h
  <2>4. \A u \in Writers : Holding(u)' <=> lock' = u
    BY <1>2, <2>1 DEF Holding
  <2>5. \A i \in 1 .. Len(queue') : pc'[queue'[i]] = "queued"
    BY <2>1, <2>2
  <2>6. BootInv'
    BY <1>2, <2>1, WriterFacts DEF BootInv
  <2> QED BY <1>1, <2>1, <2>3, <2>4, <2>5, <2>6, WriterFacts DEF MutexInv
<1> QED BY <1>3, <1>4

LEMMA BootLock ==
  ASSUME LockInv, BootStep \/ PowerCut
  PROVE  LockInv'
<1>1. TypeOK'
  BY BootTypes DEF LockInv
<1>2. CASE BootLoad
  BY <1>1, <1>2 DEF BootLoad, LockInv, MutexInv, BootInv, Holding, savers
<1>3. CASE BootDefault
  <2>1. MutexInv'
    BY <1>3, QuietLock, WriterFacts DEF BootDefault
  <2>2. BootInv'
    BY <1>3, WriterFacts DEF BootDefault, LockInv, TypeOK, BootInv, Savers
  <2> QED BY <1>1, <2>1, <2>2 DEF LockInv
<1>4. CASE BootUse
  <2>1. MutexInv'
    BY <1>4, QuietLock, WriterFacts DEF BootUse, Goto
  <2>2. BootInv'
    BY <1>4, WriterFacts DEF BootUse, Goto, LockInv, TypeOK, BootInv
  <2> QED BY <1>1, <2>1, <2>2 DEF LockInv
<1>5. CASE PowerCut
  BY <1>1, <1>5, WriterFacts DEF PowerCut, LockInv, MutexInv, BootInv, Holding, Savers,
     Writers
<1> QED BY <1>2, <1>3, <1>4, <1>5 DEF BootStep

LEMMA NextLock == LockInv /\ [Next]_vars => LockInv'
<1> SUFFICES ASSUME LockInv, [Next]_vars PROVE LockInv'
  OBVIOUS
<1>1. ASSUME NEW t \in Writers, SaveStep(t) PROVE LockInv'
  BY <1>1, PrepareLock, TakesLock, PageLock, DoneLock DEF SaveStep
<1>2. CASE UNCHANGED vars
  BY <1>2 DEF vars, savers, LockInv, TypeOK, MutexInv, BootInv, Holding
<1> QED BY <1>1, <1>2, ChangeLock, BootLock DEF Next
-----------------------------------------------------------------------------
(* Steps: the pages, while no transfer fails.                                *)

\* A thread that does not write, before and after.
LEMMA QuietPages ==
  ASSUME EepromInv, NEW t \in Writers, ~Holding(t), pc'[t] \notin {"settle", "load"},
         \A u \in Writers \ {t} : pc'[u] = pc[u] /\ tmp'[u] = tmp[u],
         UNCHANGED <<next, page>>
  PROVE  WrittenInv'
<1> USE DEF EepromInv, TypeOK, Holding
<1>1. next[t] = 0 /\ \A u : ImageOf(u)' = ImageOf(u)
  BY DEF WrittenInv, ImageOf, Pages, LastPage
<1>2. \A u \in Writers : ~Holding(u)' => next'[u] = 0
  BY <1>1 DEF WrittenInv
<1>3. \A u \in Writers, p \in Pages :
        pc'[u] = "write" /\ p < next'[u] => page'[p] = ImageOf(tmp'[u])[p]
  BY <1>1 DEF WrittenInv, Pages
<1>4. \A u \in Writers, p \in Pages :
        pc'[u] = "settle" /\ p <= next'[u] => page'[p] = ImageOf(tmp'[u])[p]
  BY DEF WrittenInv
<1>5. pc'["boot"] = "load" => Valid(page')
  BY WriterFacts DEF WrittenInv
<1> QED BY <1>1, <1>2, <1>3, <1>4, <1>5 DEF WrittenInv, Valid

LEMMA ChangePages ==
  ASSUME EepromInv, ModbusWrite \/ WcmdSave \/ DiSave \/ ShellSave
  PROVE  WrittenInv' /\ WholeWhenFree'
<1>1. CASE ModbusWrite
  BY <1>1 DEF ModbusWrite, EepromInv, WrittenInv, WholeWhenFree, Holding, Valid, savers
<1>2. ASSUME NEW t \in Savers, Goto(t, "idle", "copy"),
             UNCHANGED <<power, tmp, next, lock, page>>
      PROVE  WrittenInv' /\ WholeWhenFree'
  <2>1. WrittenInv'
    BY <1>2, QuietPages DEF Goto, EepromInv, TypeOK, Writers, Holding
  <2> QED BY <1>2, <2>1 DEF EepromInv, WholeWhenFree, Valid
<1> QED BY <1>1, <1>2 DEF WcmdSave, DiSave, ShellSave, Savers

LEMMA PreparePages ==
  ASSUME EepromInv, NEW t \in Writers, SaveCopy(t) \/ SaveBuild(t) \/ TakeLock(t)
  PROVE  WrittenInv' /\ WholeWhenFree'
<1> USE DEF EepromInv, TypeOK
<1>1. /\ ~Holding(t) /\ pc'[t] \notin {"settle", "load"}
      /\ \A u \in Writers \ {t} : pc'[u] = pc[u] /\ tmp'[u] = tmp[u]
      /\ UNCHANGED <<power, next, page>>
  BY DEF SaveCopy, SaveBuild, TakeLock, Goto, Holding
<1>2. lock' = "free" => lock = "free"
  BY WriterFacts DEF SaveCopy, SaveBuild, TakeLock
<1>3. WrittenInv'
  BY <1>1, QuietPages
<1> QED BY <1>1, <1>2, <1>3 DEF WholeWhenFree, Valid

\* The owner writes a page, or goes on to the next.
LEMMA WritePages ==
  ASSUME NoErrors, EepromInv, NEW t \in Writers, WritePage(t) \/ NextPage(t)
  PROVE  WrittenInv' /\ WholeWhenFree'
<1> USE DEF EepromInv, TypeOK
<1>1. /\ Holding(t) /\ Holding(t)' /\ UNCHANGED <<power, tmp, lock, queue>>
      /\ \A u \in Writers \ {t} : pc'[u] = pc[u]
  BY DEF WritePage, NextPage, Goto, Holding
<1>2. lock = t /\ \A u \in Writers \ {t} : ~Holding(u) /\ next'[u] = 0
  BY <1>1 DEF MutexInv, WrittenInv, WritePage, NextPage
<1>3. \A u \in Writers : ~Holding(u)' => next'[u] = 0
  BY <1>1, <1>2
<1>4. \A u \in Writers \ {t} : pc'[u] \notin {"write", "settle"}
  BY <1>1, <1>2 DEF Holding
<1>5. pc'["boot"] # "load"
  <2>1. CASE t = "boot"
    BY <1>1, <2>1 DEF Holding
  <2>2. CASE t # "boot"
    BY <1>1, <2>2, WhoSaves, WriterFacts DEF LockInv, Holding, BootInv
  <2> QED BY <2>1, <2>2
<1>6. CASE WritePage(t)
  <2>1. /\ pc[t] = "write" /\ pc'[t] = "settle" /\ next' = next
        /\ page' = [page EXCEPT ![next[t]] = ImageOf(tmp[t])[next[t]]]
    BY <1>6, EepromAssumption DEF WritePage, Goto, NoErrors
  <2>2. \A p \in Pages : p <= next[t] => page'[p] = ImageOf(tmp[t])[p]
    BY <2>1 DEF WrittenInv, Pages
  <2> QED BY <1>1, <1>2, <1>3, <1>4, <1>5, <2>1, <2>2, WriterFacts
          DEF WrittenInv, WholeWhenFree
<1>7. CASE NextPage(t)
  <2>1. /\ pc[t] = "settle" /\ pc'[t] = "write" /\ page' = page
        /\ next'[t] = next[t] + 1
    BY <1>7 DEF NextPage, Goto
  <2>2. \A p \in Pages : p < next'[t] => page'[p] = ImageOf(tmp[t])[p]
    BY <2>1, PageFacts DEF WrittenInv, Pages
  <2> QED BY <1>1, <1>2, <1>3, <1>4, <1>5, <2>1, <2>2, WriterFacts
          DEF WrittenInv, WholeWhenFree
<1> QED BY <1>6, <1>7

\* The whole image is written when the mutex is released.
LEMMA DonePages ==
  ASSUME EepromInv, NEW t \in Writers, SaveDone(t)
  PROVE  WrittenInv' /\ WholeWhenFree'
<1> USE DEF EepromInv, LockInv, TypeOK
<1>1. /\ pc[t] = "settle" /\ Valid(page)'
      /\ next' = [next EXCEPT ![t] = 0]
  BY LastPageMeansWhole DEF SaveDone, Valid
<1>2. \A u \in Writers \ {t} : ~Holding(u) /\ next[u] = 0
  BY <1>1 DEF MutexInv, WrittenInv, Holding
<1>3. \A u \in Writers : next'[u] = 0 /\ pc'[u] # "settle"
  BY <1>1, <1>2 DEF SaveDone, Holding
<1> QED BY <1>1, <1>3 DEF WrittenInv, WholeWhenFree, Pages

LEMMA BootPages ==
  ASSUME NoErrors, EepromInv, BootStep \/ PowerCut
  PROVE  WrittenInv' /\ WholeWhenFree'
<1> USE DEF EepromInv, TypeOK
<1>1. CASE BootLoad
  BY <1>1 DEF BootLoad, WrittenInv, WholeWhenFree, Holding, Valid, savers
<1>2. CASE BootDefault
  <2>1. WrittenInv'
    BY <1>2, QuietPages, WriterFacts DEF BootDefault, Holding
  <2> QED BY <1>2, <2>1 DEF BootDefault, WholeWhenFree
<1>3. CASE BootUse
  <2>1. WrittenInv'
    BY <1>3, QuietPages, WriterFacts DEF BootUse, Goto, Holding
  <2> QED BY <1>3, <2>1 DEF BootUse, Goto, WrittenInv, WholeWhenFree, Valid
<1>4. CASE PowerCut
  BY <1>4, WriterFacts DEF PowerCut, WrittenInv, WholeWhenFree, Holding
<1> QED BY <1>1, <1>2, <1>3, <1>4 DEF BootStep

LEMMA NextEepromInv ==
  ASSUME NoErrors PROVE EepromInv /\ [Next]_vars => EepromInv'
<1> SUFFICES ASSUME EepromInv, [Next]_vars PROVE EepromInv'
  OBVIOUS
<1>1. LockInv'
  BY NextLock DEF EepromInv, LockInv
<1>2. ASSUME NEW t \in Writers, SaveStep(t) PROVE WrittenInv' /\ WholeWhenFree'
  <2>1. CASE SaveCopy(t) \/ SaveBuild(t) \/ TakeLock(t)
    BY <2>1, PreparePages
  <2>2. CASE WritePage(t) \/ NextPage(t)
    BY <2>2, WritePages
  <2>3. CASE SaveDone(t)
    BY <2>3, DonePages
  <2> QED BY <1>2, <2>1, <2>2, <2>3 DEF SaveStep
<1>3. UNCHANGED vars => WrittenInv' /\ WholeWhenFree'
  BY DEF vars, savers, EepromInv, WrittenInv, WholeWhenFree, Holding, Valid
<1>4. WrittenInv' /\ WholeWhenFree'
  BY <1>2, <1>3, ChangePages, BootPages DEF Next
<1> QED BY <1>1, <1>4 DEF EepromInv, LockInv

-----------------------------------------------------------------------------
\* Every step keeps every variable in its range, whether transfers fail or not;
\* no writer goes past the last page (at24cxx.c:371-393).
THEOREM EepromTypeCorrect == Spec => []TypeOK
<1>1. Init => TypeOK
  BY InitEepromInv DEF EepromInv
<1>2. TypeOK /\ [Next]_vars => TypeOK'
  <2>1. TypeOK /\ UNCHANGED vars => TypeOK'
    BY DEF TypeOK, vars, savers
  <2> QED BY <2>1, ChangeTypes, SaveTypes, BootTypes DEF Next
<1> QED BY <1>1, <1>2, PTL DEF Spec

\* As long as no transfer fails, the EEPROM holds a whole image whenever the
\* regulator runs and nobody holds the mutex (at24cxx.c:366-401), for any number
\* of pages, settings and losses of power.
THEOREM PagesNeverMixed ==
  ASSUME NoErrors PROVE Spec => []WholeWhenFree
<1>1. EepromInv /\ [Next]_vars => EepromInv'
  BY NextEepromInv
<1>2. EepromInv => WholeWhenFree
  BY DEF EepromInv
<1> QED BY InitEepromInv, <1>1, <1>2, PTL DEF Spec

\* As long as no transfer fails, a call of at24cxx_page_write that returns leaves
\* in the EEPROM the image it was given (at24cxx.c:352).
THEOREM WritesAreWhole ==
  ASSUME NoErrors PROVE Spec => OkMeansWritten
<1>1. EepromInv /\ [Next]_vars => EepromInv'
  BY NextEepromInv
<1>2. EepromInv /\ [Next]_vars
        => [\A t \in Writers :
              pc[t] = "settle" /\ pc'[t] \in {"idle", "load"} /\ cuts' = cuts
                => page = ImageOf(tmp[t])]_vars
  <2> SUFFICES ASSUME EepromInv, Next, NEW t \in Writers, pc[t] = "settle",
                      pc'[t] \in {"idle", "load"}, cuts' = cuts
               PROVE  page = ImageOf(tmp[t])
    OBVIOUS
  <2>1. ASSUME NEW u \in Writers, SaveDone(u) PROVE page = ImageOf(tmp[t])
    <3>1. t = u
      BY <2>1 DEF SaveDone, EepromInv, MutexInv, Holding
    <3> QED BY <2>1, <3>1, LastPageMeansWhole DEF SaveDone
  <2>2. ASSUME NEW u \in Writers,
               SaveCopy(u) \/ SaveBuild(u) \/ TakeLock(u) \/ WritePage(u) \/ NextPage(u)
        PROVE  FALSE
    BY <2>2 DEF SaveCopy, SaveBuild, TakeLock, WritePage, NextPage, Goto, EepromInv, TypeOK
  <2>3. CASE ModbusWrite \/ WcmdSave \/ DiSave \/ ShellSave \/ BootStep \/ PowerCut
    BY <2>3, EepromAssumption DEF ModbusWrite, WcmdSave, DiSave, ShellSave, BootStep,
       BootLoad, BootDefault, BootUse, PowerCut, Goto, savers, EepromInv, TypeOK
  <2> QED BY <2>1, <2>2, <2>3 DEF Next, SaveStep
<1> QED BY InitEepromInv, <1>1, <1>2, PTL DEF Spec, OkMeansWritten
-----------------------------------------------------------------------------
(* The mutex and its queue.                                                  *)

\* Who waits is in the queue, the most urgent first.
QueueInv ==
  /\ \A t \in Writers : pc[t] = "queued" => \E i \in 1 .. Len(queue) : queue[i] = t
  /\ \A i, j \in 1 .. Len(queue) : i < j => Prio[queue[i]] <= Prio[queue[j]]

WaitInv == LockInv /\ QueueInv

Prios == {10, 12, 20}

LEMMA PrioType == \A t \in Writers : Prio[t] \in Prios
BY DEF Prio, Prios, Writers, Savers

LEMMA TakesQueue ==
  ASSUME WaitInv, NEW t \in Writers, TakeLock(t) PROVE QueueInv'
<1> USE DEF WaitInv, LockInv, TypeOK
<1>1. \A u \in Writers \ {t} : pc'[u] = pc[u]
  BY DEF TakeLock, Goto
<1>2. CASE lock = "free"
  <2>1. pc'[t] = "write" /\ queue' = queue
    BY <1>2 DEF TakeLock, Goto
  <2> QED BY <1>1, <2>1 DEF QueueInv
<1>3. CASE lock # "free"
  <2> DEFINE from(i, k) == IF i < k THEN i ELSE i - 1
  <2>1. PICK k \in Places(t) :
          /\ Len(queue') = Len(queue) + 1 /\ Len(queue) \in Nat
          /\ k \in 1 .. Len(queue') /\ queue'[k] = t
          /\ \A i \in 1 .. Len(queue') :
               i # k => /\ from(i, k) \in 1 .. Len(queue)
                        /\ queue'[i] = queue[from(i, k)]
    BY <1>3, JoinedQueue
  <2>2. \A u \in Writers : pc'[u] = "queued" => \E i \in 1 .. Len(queue') : queue'[i] = u
    <3> SUFFICES ASSUME NEW u \in Writers, pc'[u] = "queued", u # t
                 PROVE  \E i \in 1 .. Len(queue') : queue'[i] = u
      BY <2>1
    <3>1. PICK j \in 1 .. Len(queue) : queue[j] = u
      BY <1>1 DEF QueueInv
    <3> DEFINE i == IF j < k THEN j ELSE j + 1
    <3>2. i \in 1 .. Len(queue') /\ i # k /\ from(i, k) = j
      BY <2>1
    <3> QED BY <2>1, <3>1, <3>2
  <2>3. /\ \A i \in 1 .. k - 1 : Prio[queue[i]] <= Prio[t]
        /\ k <= Len(queue) => Prio[t] < Prio[queue[k]]
    BY DEF Places
  <2>4. /\ \A i, j \in 1 .. Len(queue) : i < j => Prio[queue[i]] <= Prio[queue[j]]
        /\ \A i \in 1 .. Len(queue) : Prio[queue[i]] \in Int
        /\ Prio[t] \in Int
    BY PrioType DEF QueueInv, Prios
  <2>5. \A i \in k .. Len(queue) : Prio[t] <= Prio[queue[i]]
    BY <2>1, <2>3, <2>4
  <2>6. ASSUME NEW i \in 1 .. Len(queue'), NEW j \in 1 .. Len(queue'), i < j
        PROVE  Prio[queue'[i]] <= Prio[queue'[j]]
    <3>1. CASE i = k
      <4>1. j # k /\ from(j, k) = j - 1 /\ j - 1 \in k .. Len(queue)
        BY <2>1, <2>6, <3>1
      <4> QED BY <2>1, <2>5, <3>1, <4>1
    <3>2. CASE j = k
      <4>1. i # k /\ from(i, k) = i /\ i \in 1 .. k - 1
        BY <2>1, <2>6, <3>2
      <4> QED BY <2>1, <2>3, <3>2, <4>1
    <3>3. CASE i # k /\ j # k
      <4>1. from(i, k) < from(j, k)
        BY <2>1, <2>6, <3>3
      <4> HIDE DEF from
      <4> QED BY <2>1, <2>4, <3>3, <4>1
    <3> QED BY <3>1, <3>2, <3>3
  <2> QED BY <2>2, <2>6 DEF QueueInv
<1> QED BY <1>2, <1>3

LEMMA DoneQueue ==
  ASSUME WaitInv, NEW t \in Writers, SaveDone(t) PROVE QueueInv'
<1> USE DEF WaitInv, LockInv, TypeOK
<1>1. CASE queue = <<>>
  <2>1. \A u \in Writers : pc[u] # "queued"
    BY <1>1 DEF QueueInv
  <2>2. queue' = <<>> /\ \A u \in Writers : pc'[u] \in {pc[u], "idle", "load", "write"}
    BY <1>1 DEF SaveDone, Release
  <2> QED BY <2>1, <2>2 DEF QueueInv
<1>2. CASE queue # <<>>
  <2>1. /\ Len(queue) \in Nat /\ Len(queue) > 0 /\ Len(queue') = Len(queue) - 1
        /\ pc'[queue[1]] = "write" /\ pc'[t] = "idle"
        /\ \A u \in Writers \ {t, queue[1]} : pc'[u] = pc[u]
        /\ \A i \in 1 .. Len(queue') : queue'[i] = queue[i + 1] /\ i + 1 \in 1 .. Len(queue)
    BY <1>2, HandedOn
  <2>2. \A u \in Writers : pc'[u] = "queued" => \E i \in 1 .. Len(queue') : queue'[i] = u
    <3> SUFFICES ASSUME NEW u \in Writers, pc'[u] = "queued"
                 PROVE  \E i \in 1 .. Len(queue') : queue'[i] = u
      OBVIOUS
    <3>1. u # queue[1] /\ pc[u] = "queued"
      BY <2>1
    <3>2. PICK j \in 1 .. Len(queue) : queue[j] = u
      BY <3>1 DEF QueueInv
    <3>3. j - 1 \in 1 .. Len(queue') /\ (j - 1) + 1 = j
      BY <2>1, <3>1, <3>2
    <3> QED BY <2>1, <3>2, <3>3
  <2>3. ASSUME NEW i \in 1 .. Len(queue'), NEW j \in 1 .. Len(queue'), i < j
        PROVE  Prio[queue'[i]] <= Prio[queue'[j]]
    <3>1. /\ i + 1 \in 1 .. Len(queue) /\ j + 1 \in 1 .. Len(queue) /\ i + 1 < j + 1
          /\ queue'[i] = queue[i + 1] /\ queue'[j] = queue[j + 1]
      BY <2>1, <2>3
    <3>2. Prio[queue[i + 1]] <= Prio[queue[j + 1]]
      BY <3>1 DEF QueueInv
    <3> QED BY <3>1, <3>2
  <2> QED BY <2>2, <2>3 DEF QueueInv
<1> QED BY <1>1, <1>2

LEMMA NextWait == WaitInv /\ [Next]_vars => WaitInv'
<1> SUFFICES ASSUME WaitInv, [Next]_vars PROVE QueueInv'
  BY NextLock DEF WaitInv
<1> USE DEF WaitInv, LockInv, TypeOK
<1>1. ASSUME queue' = queue, \A u \in Writers : pc'[u] = "queued" => pc[u] = "queued"
      PROVE  QueueInv'
  BY <1>1 DEF QueueInv
<1>2. ASSUME NEW t \in Writers, SaveStep(t) PROVE QueueInv'
  <2>1. CASE SaveCopy(t) \/ SaveBuild(t) \/ WritePage(t) \/ NextPage(t)
    BY <1>1, <2>1 DEF SaveCopy, SaveBuild, WritePage, NextPage, Goto
  <2> QED BY <1>2, <2>1, TakesQueue, DoneQueue DEF SaveStep
<1>3. CASE ModbusWrite \/ WcmdSave \/ DiSave \/ ShellSave \/ UNCHANGED vars
  BY <1>1, <1>3 DEF ModbusWrite, WcmdSave, DiSave, ShellSave, Goto, vars, savers
<1>4. CASE BootStep
  BY <1>1, <1>4 DEF BootStep, BootLoad, BootDefault, BootUse, Goto, savers
<1>5. CASE PowerCut
  BY <1>5 DEF PowerCut, QueueInv
<1> QED BY <1>2, <1>3, <1>4, <1>5 DEF Next

LEMMA InitWait == Init => WaitInv
<1> SUFFICES ASSUME Init PROVE WaitInv
  OBVIOUS
<1>1. LockInv
  BY InitEepromInv DEF EepromInv, LockInv
<1>2. QueueInv
  BY DEF Init, QueueInv
<1> QED BY <1>1, <1>2 DEF WaitInv

\* The least of some priorities is one of them.
LEMMA LeastPrio ==
  ASSUME NEW P \in SUBSET Prios, P # {} PROVE \E p \in P : \A q \in P : p <= q
<1>1. CASE 10 \in P
  BY <1>1 DEF Prios
<1>2. CASE 10 \notin P /\ 12 \in P
  BY <1>2 DEF Prios
<1>3. CASE P = {20}
  BY <1>3
<1> QED BY <1>1, <1>2, <1>3 DEF Prios

LEMMA CurrentPrioType ==
  ASSUME WaitInv, NEW t \in Writers PROVE CurrentPrio(t) \in Prios
<1> DEFINE P == {Prio[t]} \cup Inherited(t)
<1>1. \A i \in 1 .. Len(queue) : queue[i] \in Writers
  BY DEF WaitInv, LockInv, TypeOK
<1>2. P \in SUBSET Prios /\ P # {}
  BY <1>1, PrioType DEF Inherited
<1> HIDE DEF P
<1>3. \E p \in P : \A q \in P : p <= q
  BY <1>2, LeastPrio
<1> QED BY <1>2, <1>3 DEF CurrentPrio, P

\* Of the savers that are not blocked the most urgent can run.
LEMMA SomebodyRuns ==
  ASSUME WaitInv, NEW t \in Writers, pc[t] \notin {"idle", "queued"}
  PROVE  \E u \in Writers : pc[u] \notin {"idle", "queued"} /\ CanRun(u)
<1>1. CASE \A u \in Writers : Blocked(u)
  BY <1>1 DEF CanRun
<1>2. CASE \E u \in Writers : ~Blocked(u)
  <2> DEFINE P == {CurrentPrio(u) : u \in {v \in Writers : ~Blocked(v)}}
  <2>1. P \in SUBSET Prios /\ P # {}
    BY <1>2, CurrentPrioType
  <2>2. PICK p \in P : \A q \in P : p <= q
    <3> HIDE DEF P
    <3> QED BY <2>1, LeastPrio
  <2>3. PICK u \in Writers : ~Blocked(u) /\ CurrentPrio(u) = p
    BY <2>2
  <2>4. CanRun(u)
    BY <2>2, <2>3 DEF CanRun
  <2> QED BY <2>3, <2>4 DEF Blocked
<1> QED BY <1>1, <1>2

\* The savers never wait for each other in a ring, nor for a mutex nobody is left
\* to release: with at24cxx_page_write as it takes and releases it, waiting for
\* ever (at24cxx.c:366-401), one of them can always run.
THEOREM NoSaverStuck == Spec => []SomeoneGoesOn
<1>1. WaitInv => SomeoneGoesOn
  <2> SUFFICES ASSUME WaitInv, NEW t \in Writers, pc[t] # "idle"
               PROVE  \E u \in Writers : pc[u] \notin {"idle", "queued"} /\ CanRun(u)
    BY DEF SomeoneGoesOn
  <2>1. CASE pc[t] # "queued"
    BY <2>1, SomebodyRuns
  <2>2. CASE pc[t] = "queued"
    <3>1. queue # <<>>
      BY <2>2 DEF WaitInv, QueueInv
    <3>2. lock \in Writers /\ Holding(lock)
      BY <3>1 DEF WaitInv, LockInv, MutexInv, TypeOK
    <3> QED BY <3>2, SomebodyRuns DEF Holding
  <2> QED BY <2>1, <2>2
<1> QED BY InitWait, NextWait, <1>1, PTL DEF Spec

\* rt_mutex_release hands the mutex to the most urgent of those that wait
\* (ipc.c:1085-1194), so that nobody is overtaken by a saver less urgent.
THEOREM MostUrgentNext == Spec => UrgentFirst
<1>1. WaitInv /\ [Next]_vars
        => [\A t, u \in Writers :
              lock' = u /\ lock # u /\ pc[t] = "queued" => Prio[u] <= Prio[t]]_vars
  <2> SUFFICES ASSUME WaitInv, Next, NEW t \in Writers, NEW u \in Writers,
                      lock' = u, lock # u, pc[t] = "queued"
               PROVE  Prio[u] <= Prio[t]
    OBVIOUS
  <2>1. PICK j \in 1 .. Len(queue) : queue[j] = t
    BY DEF WaitInv, QueueInv
  <2>2. queue # <<>> /\ lock # "free"
    BY <2>1 DEF WaitInv, LockInv, MutexInv
  <2>3. PICK v \in Writers : SaveDone(v)
    BY <2>2, WriterFacts DEF Next, SaveStep, SaveCopy, SaveBuild, TakeLock, WritePage, NextPage,
       ModbusWrite, WcmdSave, DiSave, ShellSave, BootStep, BootLoad, BootDefault, BootUse,
       PowerCut, savers
  <2>4. u = queue[1] /\ Len(queue) \in Nat
    BY <2>2, <2>3, HandedOn DEF WaitInv
  <2>5. CASE j = 1
    BY <2>1, <2>4, <2>5, PrioType DEF Prios
  <2>6. CASE j # 1
    BY <2>1, <2>4, <2>6 DEF WaitInv, QueueInv
  <2> QED BY <2>5, <2>6
<1> QED BY InitWait, NextWait, <1>1, PTL DEF Spec, UrgentFirst
-----------------------------------------------------------------------------
(* The promise of SettingsStore.                                             *)

\* eeprom_init writes the defaults over a bad image only, and uses them once
\* they are written.
BootAtWork ==
  /\ pc["boot"] \in {"idle", "take", "write", "settle", "load"}
  /\ tmp["boot"] = Default
  /\ pc["boot"] = "take" => ~Valid(page)
  /\ pc["boot"] = "load" => page = ImageOf(Default)

InSeen(s) == s.cmd \in seen.cmd /\ s.cal \in seen.cal

\* Page p is garbage, or holds what the settings have been.
PageSeen(p) ==
  \/ page[p] = Garbage
  \/ \E s \in Settings : InSeen(s) /\ page[p] = ImageOf(s)[p]

\* What is copied, saved and stored has been in use, but for a good image that
\* has not been loaded yet.
SeenInv ==
  /\ InSeen(Default) /\ InSeen(db) /\ InSeen(sysp)
  /\ \A t \in Writers : InSeen(tmp[t])
  /\ \/ \A p \in Pages : PageSeen(p)
     \/ power = "boot" /\ pc["boot"] = "idle" /\ Valid(page)

StoreInv == EepromInv /\ BootAtWork /\ SeenInv

LEMMA ImagesTell ==
  ASSUME NEW s \in Settings, NEW u \in Settings,
         ImageOf(s)[LastPage] = ImageOf(u)[LastPage]
  PROVE  s = u
BY PageFacts, EepromAssumption DEF ImageOf, LastPage

LEMMA GoodImage ==
  /\ \A pg : Valid(pg) => Loaded(pg) \in Settings /\ pg = ImageOf(Loaded(pg))
  /\ \A s \in Settings : Valid(ImageOf(s)) /\ Loaded(ImageOf(s)) = s
<1>1. ASSUME NEW pg, Valid(pg)
      PROVE  Loaded(pg) \in Settings /\ pg = ImageOf(Loaded(pg))
  BY <1>1 DEF Valid, Loaded
<1>2. ASSUME NEW s \in Settings PROVE Valid(ImageOf(s)) /\ Loaded(ImageOf(s)) = s
  <2>1. Valid(ImageOf(s))
    BY DEF Valid
  <2>2. Loaded(ImageOf(s)) \in Settings /\ ImageOf(s) = ImageOf(Loaded(ImageOf(s)))
    BY <1>1, <2>1
  <2>. QED
    BY <2>1, <2>2, ImagesTell
<1>. QED
  BY <1>1, <1>2

\* A good image whose pages are seen is one of settings that are.
LEMMA SeenImage ==
  ASSUME TypeOK, Valid(page), \A p \in Pages : PageSeen(p)
  PROVE  InSeen(Loaded(page))
<1>1. Loaded(page) \in Settings /\ page = ImageOf(Loaded(page))
  BY GoodImage
<1>2. page[LastPage] # Garbage
  BY <1>1, PageFacts, EepromAssumption DEF ImageOf, Garbage, LastPage
<1>3. PICK s \in Settings : InSeen(s) /\ page[LastPage] = ImageOf(s)[LastPage]
  BY <1>2, PageFacts DEF PageSeen
<1>. QED
  BY <1>1, <1>3, ImagesTell

\* The same as one formula, of which a step may use the primed form.
LEMMA SeenIfGood ==
  TypeOK /\ Valid(page) /\ (\A p \in Pages : PageSeen(p)) => InSeen(Loaded(page))
BY SeenImage

LEMMA InitStoreInv == Init => StoreInv
<1> SUFFICES ASSUME Init PROVE StoreInv
  OBVIOUS
<1>1. EepromInv
  BY InitEepromInv
<1>2. BootAtWork
  BY WriterFacts DEF Init, BootAtWork
<1>3. InSeen(Default) /\ InSeen(db) /\ InSeen(sysp) /\ \A t \in Writers : InSeen(tmp[t])
  BY DEF Init, InSeen, Default
<1>4. (\A p \in Pages : PageSeen(p)) \/ Valid(page)
  BY DEF Init, PageSeen, Valid
<1>. QED
  BY <1>1, <1>2, <1>3, <1>4, WriterFacts DEF StoreInv, SeenInv, Init

\* A step that leaves the pages alone, and of the settings that have been in use
\* forgets none.
LEMMA PagesStay ==
  ASSUME StoreInv, TypeOK', page' = page,
         seen.cmd \subseteq seen'.cmd, seen.cal \subseteq seen'.cal,
         \/ power' = power /\ pc'["boot"] = pc["boot"]
         \/ \A p \in Pages : PageSeen(p)
  PROVE  \/ \A p \in Pages : PageSeen(p)'
         \/ power' = "boot" /\ pc'["boot"] = "idle" /\ Valid(page)'
<1>1. ASSUME \A p \in Pages : PageSeen(p) PROVE \A p \in Pages : PageSeen(p)'
  <2>1. \A s, p : ImageOf(s)[p]' = ImageOf(s)[p]
    BY DEF ImageOf, Pages, LastPage
  <2>. QED
    BY <1>1, <2>1 DEF PageSeen, InSeen
<1>2. Valid(page)' <=> Valid(page)
  <2>1. \A s : ImageOf(s)' = ImageOf(s)
    BY DEF ImageOf, Pages, LastPage
  <2>. QED
    BY <2>1 DEF Valid
<1>. QED
  BY <1>1, <1>2 DEF StoreInv, SeenInv

\* A step of another thread than eeprom_init's leaves BootAtWork as it is.
LEMMA BootStays ==
  ASSUME StoreInv, UNCHANGED page, pc'["boot"] = pc["boot"], tmp'["boot"] = tmp["boot"]
  PROVE  BootAtWork'
<1>1. \A s : ImageOf(s)' = ImageOf(s)
  BY DEF ImageOf, Pages, LastPage
<1>. QED
  BY <1>1 DEF StoreInv, BootAtWork, Valid, Default

LEMMA ChangeSeen ==
  ASSUME StoreInv, TypeOK', ModbusWrite \/ WcmdSave \/ DiSave \/ ShellSave
  PROVE  BootAtWork' /\ SeenInv'
<1>1. /\ UNCHANGED <<power, sysp, tmp, page>> /\ pc'["boot"] = pc["boot"]
      /\ \/ UNCHANGED <<db, seen>>
         \/ \E s \in Settings : InUse(s)
  <2>1. TypeOK
    BY DEF StoreInv, EepromInv
  <2>2. ASSUME NEW c, c \in Cmds PROVE [db EXCEPT !.cmd = c] \in Settings
    BY <2>1, <2>2 DEF TypeOK, Settings
  <2>3. ASSUME NEW c, c \in Cals PROVE [db EXCEPT !.cal = c] \in Settings
    BY <2>1, <2>3 DEF TypeOK, Settings
  <2>4. CASE ModbusWrite
    BY <2>2, <2>4 DEF ModbusWrite, savers
  <2>5. CASE WcmdSave
    BY <2>5, <2>1, WriterFacts DEF WcmdSave, Goto, TypeOK
  <2>6. CASE DiSave
    BY <2>2, <2>6, <2>1, WriterFacts DEF DiSave, Goto, TypeOK
  <2>7. CASE ShellSave
    BY <2>2, <2>3, <2>7, <2>1, WriterFacts DEF ShellSave, Goto, TypeOK
  <2>. QED
    BY <2>4, <2>5, <2>6, <2>7
<1>2. /\ seen.cmd \subseteq seen'.cmd /\ seen.cal \subseteq seen'.cal
      /\ InSeen(db)'
  BY <1>1 DEF InUse, SeenAlso, StoreInv, SeenInv, InSeen
<1>3. BootAtWork'
  BY <1>1, BootStays
<1>4. \/ \A p \in Pages : PageSeen(p)'
      \/ power' = "boot" /\ pc'["boot"] = "idle" /\ Valid(page)'
  BY <1>1, <1>2, PagesStay
<1>. QED
  BY <1>1, <1>2, <1>3, <1>4 DEF StoreInv, SeenInv, InSeen, Default

LEMMA SaveSeen ==
  ASSUME StoreInv, TypeOK', NEW t \in Writers,
         SaveCopy(t) \/ SaveBuild(t) \/ TakeLock(t) \/ NextPage(t)
  PROVE  BootAtWork' /\ SeenInv'
<1>1. TypeOK /\ UNCHANGED <<page, power, db, seen>> /\ pc[t] # "idle"
  BY DEF SaveCopy, SaveBuild, TakeLock, NextPage, Goto, StoreInv, EepromInv
<1>2. \A p \in Pages : PageSeen(p)
  BY <1>1, WhoSaves DEF StoreInv, EepromInv, LockInv, SeenInv
<1>3. \/ \A p \in Pages : PageSeen(p)'
      \/ power' = "boot" /\ pc'["boot"] = "idle" /\ Valid(page)'
  BY <1>1, <1>2, PagesStay
<1>4. CASE SaveCopy(t) \/ SaveBuild(t)
  <2>1. t # "boot"
    BY <1>4 DEF SaveCopy, SaveBuild, Goto, StoreInv, BootAtWork
  <2>2. pc'["boot"] = pc["boot"] /\ tmp'["boot"] = tmp["boot"]
    BY <1>1, <1>4, <2>1, WriterFacts DEF SaveCopy, SaveBuild, Goto, TypeOK
  <2>3. BootAtWork'
    BY <1>1, <2>2, BootStays
  <2>4. InSeen(sysp)' /\ \A u \in Writers : InSeen(tmp[u])'
    <3>1. CASE SaveCopy(t)
      BY <1>1, <3>1 DEF SaveCopy, StoreInv, SeenInv, InSeen, TypeOK, Settings
    <3>2. CASE SaveBuild(t)
      <4>1. sysp' = sysp /\ \A u \in Writers \ {t} : tmp'[u] = tmp[u]
        BY <1>1, <3>2 DEF SaveBuild, TypeOK
      <4>2. /\ tmp'[t].cmd \in {tmp[t].cmd, sysp.cmd}
            /\ tmp'[t].cal \in {tmp[t].cal, sysp.cal}
        <5>1. tmp[t] \in Settings /\ t \in DOMAIN tmp
          BY <1>1 DEF TypeOK
        <5>. QED
          BY <3>2, <5>1 DEF SaveBuild, Settings
      <4>. QED
        BY <1>1, <4>1, <4>2 DEF StoreInv, SeenInv, InSeen
    <3>. QED
      BY <1>4, <3>1, <3>2
  <2>. QED
    BY <1>1, <1>3, <2>3, <2>4 DEF StoreInv, SeenInv, InSeen, Default
<1>5. CASE TakeLock(t) \/ NextPage(t)
  <2>1. /\ UNCHANGED <<tmp, sysp>>
        /\ \/ pc'["boot"] = pc["boot"]
           \/ t = "boot" /\ pc'["boot"] \in {"write", "queued"}
    <3>1. PICK to \in {"write", "queued"} : pc' = [pc EXCEPT ![t] = to]
      BY <1>5 DEF TakeLock, NextPage, Goto
    <3>2. UNCHANGED <<tmp, sysp>>
      BY <1>5 DEF TakeLock, NextPage
    <3>3. pc'[t] = to /\ \A u \in Writers \ {t} : pc'[u] = pc[u]
      BY <1>1, <3>1 DEF TypeOK
    <3>4. CASE t = "boot"
      <4>1. pc'["boot"] \in {"write", "queued"}
        BY <3>1, <3>3, <3>4
      <4>. QED
        BY <3>2, <3>4, <4>1
    <3>5. CASE t # "boot"
      <4>1. pc'["boot"] = pc["boot"]
        BY <3>3, <3>5, WriterFacts
      <4>. QED
        BY <3>2, <4>1
    <3>. QED
      BY <3>4, <3>5
  <2>2. pc'["boot"] # "queued"
    <3>1. CASE t = "boot" /\ TakeLock(t)
      <4>1. lock = "free"
        BY <1>1, <3>1, WhoSaves, WriterFacts
        DEF StoreInv, EepromInv, TypeOK, MutexInv, BootInv, Holding, TakeLock, Goto
      <4>. QED
        BY <1>1, <3>1, <4>1, WriterFacts DEF TakeLock, Goto, TypeOK
    <3>2. CASE ~(t = "boot" /\ TakeLock(t))
      BY <1>1, <1>5, <3>2, WriterFacts
      DEF TakeLock, NextPage, Goto, TypeOK, StoreInv, BootAtWork
    <3>. QED
      BY <3>1, <3>2
  <2>3. BootAtWork'
    <3>1. CASE pc'["boot"] = pc["boot"]
      BY <1>1, <2>1, <3>1, BootStays
    <3>2. CASE pc'["boot"] # pc["boot"]
      BY <2>1, <2>2, <3>2 DEF StoreInv, BootAtWork, Default
    <3>. QED
      BY <3>1, <3>2
  <2>. QED
    BY <1>1, <1>3, <2>1, <2>3 DEF StoreInv, SeenInv, InSeen, Default
<1>. QED
  BY <1>4, <1>5

LEMMA WriteSeen ==
  ASSUME NoErrors, StoreInv, TypeOK', NEW t \in Writers, WritePage(t)
  PROVE  BootAtWork' /\ SeenInv' /\ \A p \in Pages : PageSeen(p)'
<1>1. /\ TypeOK /\ pc[t] = "write" /\ pc' = [pc EXCEPT ![t] = "settle"]
      /\ UNCHANGED <<power, db, sysp, tmp, seen>>
      /\ page' = [page EXCEPT ![next[t]] = ImageOf(tmp[t])[next[t]]]
  BY DEF WritePage, Goto, StoreInv, EepromInv, TypeOK, NoErrors
<1>2. \A p \in Pages : PageSeen(p)
  BY <1>1, WhoSaves DEF StoreInv, EepromInv, LockInv, SeenInv
<1>3. \A p \in Pages : PageSeen(p)'
  <2>1. \A s, p : ImageOf(s)[p]' = ImageOf(s)[p]
    BY DEF ImageOf, Pages, LastPage
  <2>2. tmp[t] \in Settings /\ InSeen(tmp[t]) /\ page \in [Pages -> PageValues]
    BY <1>1 DEF TypeOK, StoreInv, SeenInv
  <2> SUFFICES ASSUME NEW p \in Pages PROVE PageSeen(p)'
    OBVIOUS
  <2>3. CASE p = next[t]
    <3>1. page'[p] = ImageOf(tmp[t])[p]
      BY <1>1, <2>2, <2>3
    <3>. QED
      BY <1>1, <2>1, <2>2, <3>1 DEF PageSeen, InSeen
  <2>4. CASE p # next[t]
    <3>1. page'[p] = page[p]
      BY <1>1, <2>2, <2>4
    <3>. QED
      BY <1>1, <1>2, <2>1, <3>1 DEF PageSeen, InSeen
  <2>. QED
    BY <2>3, <2>4
<1>4. BootAtWork'
  <2>1. pc'["boot"] \in {"idle", "write", "settle"}
    BY <1>1, WhoSaves, WriterFacts DEF TypeOK, StoreInv, EepromInv, LockInv, BootAtWork
  <2>. QED
    BY <1>1, <2>1 DEF StoreInv, BootAtWork, Default
<1>. QED
  BY <1>1, <1>3, <1>4 DEF StoreInv, SeenInv, InSeen, Default

LEMMA DoneSeen ==
  ASSUME StoreInv, TypeOK', NEW t \in Writers, SaveDone(t)
  PROVE  BootAtWork' /\ SeenInv'
<1>1. /\ TypeOK /\ pc[t] = "settle" /\ UNCHANGED <<power, db, sysp, page, seen>>
      /\ tmp' = [tmp EXCEPT ![t] = Default]
  BY DEF SaveDone, StoreInv, EepromInv
<1>2. page = ImageOf(tmp[t])
  BY <1>1, LastPageMeansWhole DEF SaveDone, StoreInv
<1>3. \A p \in Pages : PageSeen(p)
  BY <1>1, WhoSaves DEF StoreInv, EepromInv, LockInv, SeenInv
<1>4. \/ \A p \in Pages : PageSeen(p)'
      \/ power' = "boot" /\ pc'["boot"] = "idle" /\ Valid(page)'
  BY <1>1, <1>3, PagesStay
<1>5. BootAtWork'
  <2>1. CASE t = "boot"
    <3>1. pc'["boot"] = "load" /\ tmp'["boot"] = Default /\ page = ImageOf(Default)
      BY <1>1, <1>2, <2>1, WriterFacts DEF SaveDone, TypeOK, StoreInv, BootAtWork
    <3>2. \A s : ImageOf(s)' = ImageOf(s)
      BY DEF ImageOf, Pages, LastPage
    <3>. QED
      BY <1>1, <3>1, <3>2 DEF BootAtWork, Default
  <2>2. CASE t # "boot"
    <3>1. lock' # "boot"
      <4>1. CASE queue = <<>>
        BY <4>1, WriterFacts DEF SaveDone, Release
      <4>2. CASE queue # <<>>
        <5>1. 1 \in 1 .. Len(queue) /\ Head(queue) = queue[1]
          BY <1>1, <4>2 DEF TypeOK
        <5>2. pc[Head(queue)] = "queued"
          BY <5>1 DEF StoreInv, EepromInv, MutexInv
        <5>. QED
          BY <4>2, <5>2 DEF SaveDone, Release, StoreInv, BootAtWork
      <4>. QED
        BY <4>1, <4>2
    <3>2. pc'["boot"] = pc["boot"] /\ tmp'["boot"] = tmp["boot"]
      BY <1>1, <2>2, <3>1, WriterFacts DEF SaveDone, TypeOK
    <3>. QED
      BY <1>1, <3>2, BootStays
  <2>. QED
    BY <2>1, <2>2
<1>6. \A u \in Writers : InSeen(tmp[u])'
  BY <1>1 DEF StoreInv, SeenInv, InSeen, TypeOK
<1>. QED
  BY <1>1, <1>4, <1>5, <1>6 DEF StoreInv, SeenInv, InSeen, Default

LEMMA BootSeen ==
  ASSUME NoErrors, StoreInv, TypeOK', BootStep
  PROVE  BootAtWork' /\ SeenInv'
<1>1. TypeOK
  BY DEF StoreInv, EepromInv
<1>2. CASE BootLoad
  <2>1. Loaded(page) \in Settings /\ page = ImageOf(Loaded(page))
    BY <1>2, GoodImage DEF BootLoad
  <2>2. /\ InSeen(db)' /\ InSeen(sysp)' /\ UNCHANGED <<pc, tmp, page>>
        /\ seen.cmd \subseteq seen'.cmd /\ seen.cal \subseteq seen'.cal
    BY <1>2 DEF BootLoad, InSeen, SeenAlso, savers
  <2>3. BootAtWork'
    BY <2>2, BootStays
  <2>4. \A p \in Pages : PageSeen(p)'
    <3>1. \A s, p : ImageOf(s)[p]' = ImageOf(s)[p]
      BY DEF ImageOf, Pages, LastPage
    <3>2. PICK s \in Settings : s = db' /\ page = ImageOf(s)
      BY <1>2, <2>1 DEF BootLoad
    <3>. QED
      BY <2>2, <3>1, <3>2 DEF PageSeen, InSeen
  <2>. QED
    BY <2>2, <2>3, <2>4 DEF StoreInv, SeenInv, InSeen, Default
<1>3. CASE BootDefault
  <2>1. /\ ~Valid(page) /\ UNCHANGED <<power, db, sysp, page, seen>>
        /\ pc' = [pc EXCEPT !["boot"] = "take"]
        /\ tmp' = [tmp EXCEPT !["boot"] = Default]
    BY <1>1, <1>3 DEF BootDefault, NoErrors, TypeOK
  <2>2. pc'["boot"] = "take" /\ tmp'["boot"] = Default
        /\ \A u \in Writers \ {"boot"} : tmp'[u] = tmp[u]
    BY <1>1, <2>1, WriterFacts DEF TypeOK
  <2>3. \/ \A p \in Pages : PageSeen(p)'
        \/ power' = "boot" /\ pc'["boot"] = "idle" /\ Valid(page)'
    BY <2>1, PagesStay DEF StoreInv, SeenInv
  <2>4. BootAtWork'
    <3>1. \A s : ImageOf(s)' = ImageOf(s)
      BY DEF ImageOf, Pages, LastPage
    <3>. QED
      BY <2>1, <2>2, <3>1 DEF BootAtWork, Valid, Default
  <2>. QED
    BY <2>1, <2>2, <2>3, <2>4 DEF StoreInv, SeenInv, InSeen, Default
<1>4. CASE BootUse
  <2>1. /\ pc["boot"] = "load" /\ pc'["boot"] = "idle"
        /\ db' = Default /\ sysp' = Default /\ UNCHANGED <<tmp, page, seen>>
    BY <1>1, <1>4, WriterFacts DEF BootUse, Goto, TypeOK
  <2>2. \/ \A p \in Pages : PageSeen(p)'
        \/ power' = "boot" /\ pc'["boot"] = "idle" /\ Valid(page)'
    BY <2>1, PagesStay DEF StoreInv, SeenInv
  <2>3. BootAtWork'
    BY <2>1 DEF StoreInv, BootAtWork, Default
  <2>. QED
    BY <2>1, <2>2, <2>3 DEF StoreInv, SeenInv, InSeen, Default
<1>. QED
  BY <1>2, <1>3, <1>4 DEF BootStep

LEMMA CutSeen ==
  ASSUME StoreInv, TypeOK', PowerCut
  PROVE  BootAtWork' /\ SeenInv'
<1>1. /\ TypeOK /\ seen' = seen /\ db' = Default /\ sysp' = Default
      /\ power' = "boot" /\ pc'["boot"] = "idle"
      /\ \A t \in Writers : tmp'[t] = Default
  BY WriterFacts DEF PowerCut, StoreInv, EepromInv
<1>2. BootAtWork'
  BY <1>1, WriterFacts DEF BootAtWork, Default
<1>3. \/ \A p \in Pages : PageSeen(p)'
      \/ power' = "boot" /\ pc'["boot"] = "idle" /\ Valid(page)'
  <2>1. CASE page' = page
    <3>1. \/ \A p \in Pages : PageSeen(p)
          \/ Valid(page)
      BY DEF StoreInv, SeenInv
    <3>2. CASE Valid(page)
      <4>1. \A s : ImageOf(s)' = ImageOf(s)
        BY DEF ImageOf, Pages, LastPage
      <4>. QED
        BY <1>1, <2>1, <3>2, <4>1 DEF Valid
    <3>. QED
      BY <1>1, <2>1, <3>1, <3>2, PagesStay
  <2>2. ASSUME NEW t \in Writers, pc[t] = "settle",
               page' = [page EXCEPT ![next[t]] = Garbage]
        PROVE  \A p \in Pages : PageSeen(p)'
    <3>1. \A p \in Pages : PageSeen(p)
      BY <2>2, WhoSaves DEF StoreInv, EepromInv, LockInv, SeenInv
    <3>2. \A s, p : ImageOf(s)[p]' = ImageOf(s)[p]
      BY DEF ImageOf, Pages, LastPage
    <3>3. \A p \in Pages : page'[p] \in {page[p], Garbage}
      BY <1>1, <2>2 DEF TypeOK
    <3>4. Garbage' = Garbage
      BY DEF Garbage
    <3>. QED
      BY <1>1, <3>1, <3>2, <3>3, <3>4 DEF PageSeen, InSeen
  <2>3. page' = page \/ \E t \in Writers : /\ pc[t] = "settle"
                                           /\ page' = [page EXCEPT ![next[t]] = Garbage]
    BY DEF PowerCut
  <2>. QED
    BY <2>1, <2>2, <2>3
<1>. QED
  BY <1>1, <1>2, <1>3 DEF StoreInv, SeenInv, InSeen, Default

LEMMA NextStoreInv ==
  ASSUME NoErrors, StoreInv, [Next]_vars PROVE StoreInv'
<1>1. EepromInv' /\ TypeOK'
  BY NextEepromInv DEF StoreInv, EepromInv
<1>2. CASE ModbusWrite \/ WcmdSave \/ DiSave \/ ShellSave
  BY <1>1, <1>2, ChangeSeen DEF StoreInv
<1>3. ASSUME NEW t \in Writers, SaveStep(t) PROVE StoreInv'
  BY <1>1, <1>3, SaveSeen, WriteSeen, DoneSeen DEF StoreInv, SaveStep
<1>4. CASE BootStep
  BY <1>1, <1>4, BootSeen DEF StoreInv
<1>5. CASE PowerCut
  BY <1>1, <1>5, CutSeen DEF StoreInv
<1>6. CASE UNCHANGED vars
  <2>1. BootAtWork'
    BY <1>6, BootStays DEF vars, savers
  <2>2. \/ \A p \in Pages : PageSeen(p)'
        \/ power' = "boot" /\ pc'["boot"] = "idle" /\ Valid(page)'
    BY <1>1, <1>6, PagesStay DEF vars, savers
  <2>. QED
    BY <1>1, <1>6, <2>1, <2>2 DEF vars, savers, StoreInv, SeenInv, InSeen, Default
<1>. QED
  BY <1>2, <1>3, <1>4, <1>5, <1>6 DEF Next

\* As long as no transfer fails, a good image survives every power-up: no write
\* over it is begun (i2c_app.c:66-92), whatever cut the power and when.
THEOREM GoodImageSurvives ==
  ASSUME NoErrors PROVE Spec => GoodImageKept
<1>1. ASSUME StoreInv, Next, power = "boot", lock = "free", Valid(page)
      PROVE  lock' = "free"
  <2>1. TypeOK /\ \A t \in Writers : pc[t] \in {"idle"} \/ t = "boot"
    BY <1>1, WhoSaves DEF StoreInv, EepromInv, LockInv
  <2>2. pc["boot"] \in {"idle", "load"}
    BY <1>1, WriterFacts DEF StoreInv, BootAtWork, EepromInv, MutexInv, Holding
  <2>3. ASSUME NEW t \in Writers, SaveStep(t) PROVE FALSE
    <3>1. pc[t] \notin {"idle", "load"}
      BY <2>3 DEF SaveStep, SaveCopy, SaveBuild, TakeLock, WritePage, NextPage, SaveDone, Goto
    <3>. QED
      BY <2>1, <2>2, <3>1
  <2>. QED
    BY <1>1, <2>3 DEF Next, ModbusWrite, WcmdSave, DiSave, ShellSave, BootStep,
       BootLoad, BootDefault, BootUse, PowerCut, savers
<1>2. StoreInv /\ [Next]_vars
        => [power = "boot" /\ lock = "free" /\ Valid(page) => lock' = "free"]_vars
  BY <1>1
<1>3. StoreInv /\ [Next]_vars => StoreInv'
  BY NextStoreInv
<1>. QED
  BY InitStoreInv, <1>2, <1>3, PTL DEF Spec, GoodImageKept

-----------------------------------------------------------------------------
(* Pages, mutex and CRC implement SettingsStore.                             *)

LEMMA CopyPrimes == (Valid(page)' <=> Valid(page')) /\ Loaded(page)' = Loaded(page')
BY DEF Valid, Loaded, ImageOf, Pages, LastPage, Settings

\* What a good image is of can be told from TornImage.
LEMMA GoodIsNotTorn == \A pg : Valid(pg) => Loaded(pg) # TornImage
BY GoodImage, EepromAssumption DEF Settings

\* An image one of whose pages is garbage is not good.
LEMMA GarbageIsTorn ==
  ASSUME NEW pg, NEW p \in Pages, pg[p] = Garbage PROVE ~Valid(pg)
BY EepromAssumption DEF Valid, ImageOf, Garbage, Pages, LastPage

LEMMA MapInit == Init => Store!StoreInit
<1> SUFFICES ASSUME Init PROVE Store!StoreInit
  OBVIOUS
<1>1. (IF Valid(page) THEN Loaded(page) ELSE TornImage) \in Settings \cup {TornImage}
  BY GoodImage
<1>. QED
  BY <1>1 DEF Init, Default, Settings, Store!StoreInit, Store!Default, Store!Settings

\* The settings, the copy and the mutex are left alone.
LEMMA MapStutter ==
  ASSUME UNCHANGED <<db, seen, page, power, lock>> PROVE UNCHANGED Store!sVars
BY CopyPrimes DEF Store!sVars

LEMMA MapChange ==
  ASSUME StoreInv', ModbusWrite \/ DiSave \/ ShellSave PROVE Store!Change
<1>1. /\ power = "up" /\ seen' = SeenAlso(db')
      /\ UNCHANGED <<page, power, lock>>
  BY DEF ModbusWrite, DiSave, ShellSave, InUse, savers
<1>2. db' \in Settings
  BY DEF StoreInv, EepromInv, TypeOK, Settings
<1>. QED
  BY <1>1, <1>2, CopyPrimes DEF Store!Change, SeenAlso, Settings, Store!SeenAlso, Store!Settings

LEMMA MapTake ==
  ASSUME StoreInv, NEW t \in Writers, TakeLock(t)
  PROVE  Store!Begin \/ UNCHANGED Store!sVars
<1>1. pc[t] = "take" /\ UNCHANGED <<db, seen, page, power>>
  BY DEF TakeLock, Goto
<1>2. CASE lock = "free" /\ lock' = t
  <2>1. power = "up" \/ ~Valid(page)
    BY <1>1, WriterFacts DEF StoreInv, BootAtWork, EepromInv, BootInv, TypeOK
  <2>. QED
    BY <1>1, <1>2, <2>1, WriterFacts, CopyPrimes DEF Store!Begin
<1>3. CASE UNCHANGED lock
  BY <1>1, <1>3, MapStutter
<1>. QED
  BY <1>2, <1>3 DEF TakeLock

LEMMA MapWrite ==
  ASSUME NoErrors, StoreInv, StoreInv', NEW t \in Writers, WritePage(t)
  PROVE  Store!Put
<1>1. UNCHANGED <<db, seen, power, lock>> /\ lock # "free"
  BY WriterFacts DEF WritePage, Goto, StoreInv, EepromInv, MutexInv, Holding
<1>2. (\A p \in Pages : PageSeen(p))'
  BY WriteSeen DEF StoreInv, EepromInv, Pages, LastPage
<1>3. (TypeOK /\ Valid(page) /\ (\A p \in Pages : PageSeen(p)) => InSeen(Loaded(page)))'
  BY SeenIfGood, PTL
<1>4. Valid(page') => Loaded(page') \in [cmd : seen.cmd, cal : seen.cal]
  BY <1>1, <1>2, <1>3, CopyPrimes, GoodImage DEF StoreInv, EepromInv, InSeen, Settings
<1>. QED
  BY <1>1, <1>4, CopyPrimes DEF Store!Put

LEMMA MapDone ==
  ASSUME StoreInv, NEW t \in Writers, SaveDone(t) PROVE Store!Finish
<1>1. Valid(page) /\ lock # "free" /\ UNCHANGED <<db, seen, page, power>>
  BY LastPageMeansWhole, WriterFacts
  DEF SaveDone, StoreInv, EepromInv, MutexInv, Holding
<1>2. (lock' # "free") \in BOOLEAN
  OBVIOUS
<1>. QED
  BY <1>1, <1>2, CopyPrimes, GoodIsNotTorn DEF Store!Finish

\* eeprom_init loads with nobody at the mutex.
LEMMA LoadsAlone ==
  ASSUME StoreInv, power = "boot", pc["boot"] \in {"idle", "load"}
  PROVE  lock = "free"
BY WriterFacts DEF StoreInv, EepromInv, MutexInv, Holding, BootInv, TypeOK

LEMMA MapBoot ==
  ASSUME StoreInv, BootStep PROVE Store!Load \/ UNCHANGED Store!sVars
<1>1. CASE BootLoad
  BY <1>1, LoadsAlone, CopyPrimes, GoodIsNotTorn
  DEF BootLoad, SeenAlso, savers, Store!Load, Store!SeenAlso
<1>2. CASE BootDefault
  BY <1>2, MapStutter DEF BootDefault
<1>3. CASE BootUse
  <2>1. /\ pc["boot"] = "load" /\ power' = "up" /\ db' = Default
        /\ UNCHANGED <<page, seen, lock>>
    BY <1>3 DEF BootUse, Goto
  <2>2. power = "boot" /\ lock = "free"
    BY <2>1, LoadsAlone DEF StoreInv, EepromInv, BootInv, TypeOK
  <2>3. Valid(page) /\ Loaded(page) = Default
    BY <2>1, GoodImage, DefaultIsSettings DEF StoreInv, BootAtWork
  <2>4. seen = SeenAlso(Default)
    <3>1. seen \in [cmd : SUBSET Cmds, cal : SUBSET Cals] /\ InSeen(Default)
      BY DEF StoreInv, EepromInv, TypeOK, SeenInv
    <3>. QED
      BY <3>1 DEF SeenAlso, InSeen
  <2>. QED
    BY <2>1, <2>2, <2>3, <2>4, CopyPrimes, GoodIsNotTorn
    DEF SeenAlso, Store!Load, Store!SeenAlso
<1>. QED
  BY <1>1, <1>2, <1>3 DEF BootStep

LEMMA MapCut ==
  ASSUME StoreInv, PowerCut PROVE Store!Cut
<1>1. db' = Default /\ power' = "boot" /\ lock' = "free" /\ seen' = seen
  BY DEF PowerCut
<1>2. page' = page \/ (lock # "free" /\ ~Valid(page'))
  <2>1. ASSUME NEW t \in Writers, pc[t] = "settle",
               page' = [page EXCEPT ![next[t]] = Garbage]
        PROVE  lock # "free" /\ ~Valid(page')
    <3>1. next[t] \in Pages /\ page'[next[t]] = Garbage
      BY <2>1 DEF StoreInv, EepromInv, TypeOK
    <3>. QED
      BY <2>1, <3>1, GarbageIsTorn, WriterFacts DEF StoreInv, EepromInv, MutexInv, Holding
  <2>. QED
    BY <2>1 DEF PowerCut
<1>. QED
  BY <1>1, <1>2, CopyPrimes DEF Store!Cut, Default, Store!Default

\* As long as no transfer fails, the pages, the mutex, the CRC and eeprom_init
\* together are a copy of the settings that a loss of power costs at most a
\* return to the defaults (i2c_app.c:52-124, at24cxx.c:352-401).
THEOREM KeepsSettings ==
  ASSUME NoErrors PROVE Spec => ImplementsStore
<1>1. StoreInv /\ StoreInv' /\ [Next]_vars => [Store!StoreNext]_(Store!sVars)
  <2> SUFFICES ASSUME StoreInv, StoreInv', [Next]_vars
               PROVE  Store!StoreNext \/ UNCHANGED Store!sVars
    BY DEF Store!StoreNext
  <2>1. CASE ModbusWrite \/ DiSave \/ ShellSave
    BY <2>1, MapChange DEF Store!StoreNext
  <2>2. CASE WcmdSave
    BY <2>2, MapStutter DEF WcmdSave
  <2>3. ASSUME NEW t \in Writers, SaveStep(t)
        PROVE  Store!StoreNext \/ UNCHANGED Store!sVars
    <3>1. CASE SaveCopy(t) \/ SaveBuild(t) \/ NextPage(t)
      BY <3>1, MapStutter DEF SaveCopy, SaveBuild, NextPage
    <3>. QED
      BY <2>3, <3>1, MapTake, MapWrite, MapDone DEF SaveStep, Store!StoreNext
  <2>4. CASE BootStep
    BY <2>4, MapBoot DEF Store!StoreNext
  <2>5. CASE PowerCut
    BY <2>5, MapCut DEF Store!StoreNext
  <2>6. CASE UNCHANGED vars
    BY <2>6, MapStutter DEF vars, savers
  <2>. QED
    BY <2>1, <2>2, <2>3, <2>4, <2>5, <2>6 DEF Next
<1>2. StoreInv /\ [Next]_vars => StoreInv'
  BY NextStoreInv
<1>. QED
  BY InitStoreInv, MapInit, <1>1, <1>2, PTL DEF Spec, ImplementsStore, Store!StoreSpec
=============================================================================
