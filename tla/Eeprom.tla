------------------------------- MODULE Eeprom -------------------------------
(***************************************************************************)
(* The settings in the AT24C02: write_sysdata_to_eeprom, called by di, by  *)
(* write_cmd and by the shell; at24cxx_page_write under it, which writes   *)
(* the image page by page and sleeps after each page; and eeprom_init,     *)
(* which loads the image at power-up.  Power may be cut at any moment and  *)
(* an I2C transfer may fail.                                               *)
(*                                                                         *)
(* An image of 46 bytes is 6 pages of 8: on_off, ctrl_mode and intensity   *)
(* are in the first, run times and coefficients in the others, the end of  *)
(* the last is a CRC over all of it.  The CRC is taken to be perfect: an   *)
(* image passes if and only if it is that of some settings.                *)
(***************************************************************************)
EXTENDS Integers, Sequences

CONSTANTS
  Cmds,        \* values of the command registers
  Cals,        \* values of the coefficients
  DefaultCmd, DefaultCal,     \* those of sys_default_para
  MidPages,    \* pages between the first and the last (4 in the code)
  MaxCuts,     \* bound on losses of power
  MaxErrors,   \* bound on failed I2C transfers
  TornImage    \* what an image that fails the CRC check stands for

ASSUME EepromAssumption ==
  /\ DefaultCmd \in Cmds /\ DefaultCal \in Cals
  /\ MidPages \in Nat /\ MaxCuts \in Nat /\ MaxErrors \in Nat
  /\ TornImage \notin [cmd : Cmds, cal : Cals]

Settings == [cmd : Cmds, cal : Cals]
Default  == [cmd |-> DefaultCmd, cal |-> DefaultCal]

LastPage == MidPages + 1
Pages    == 0 .. LastPage
Garbage  == <<"garbage">>

PageValues == {Garbage} \cup {<<"cmd", c>> : c \in Cmds} \cup {<<"cal", a>> : a \in Cals}
                        \cup {<<"crc", s>> : s \in Settings}

\* The image of settings s, with the CRC in its last page.
ImageOf(s) == [p \in Pages |-> IF p = 0 THEN <<"cmd", s.cmd>>
                               ELSE IF p < LastPage THEN <<"cal", s.cal>>
                               ELSE <<"crc", s>>]

Savers  == {"di", "wcmd", "shell"}
Writers == Savers \cup {"boot"}
Prio    == [di |-> 12, wcmd |-> 20, shell |-> 20, boot |-> 10]

VARIABLES
  power,      \* "boot": eeprom_init runs; "up": the threads do
  db,         \* the settings in g_ccr_data
  sysp,       \* g_sys_param, the structure all savers copy through
  dirty,      \* write_cmd has been asked to save
  pc,         \* where each saver is
  tmp,        \* the image each saver has built (as the settings it is of)
  next,       \* the page each saver writes next
  lock,       \* owner of mutex_at24cxx, or "free"
  queue,      \* the threads waiting for it, those of higher priority first
  page,       \* the EEPROM
  cuts, errors,
  seen        \* history: the values each setting has had, defaults included

savers == <<pc, tmp, next, lock, queue>>
vars   == <<power, db, sysp, dirty, savers, page, cuts, errors, seen>>

Valid(pg)  == \E s \in Settings : pg = ImageOf(s)
Loaded(pg) == CHOOSE s \in Settings : pg = ImageOf(s)

\* The owner of the mutex runs at the highest priority among those that wait for
\* it (the smallest number).
Inherited(t)   == IF lock = t THEN {Prio[queue[i]] : i \in 1 .. Len(queue)} ELSE {}
CurrentPrio(t) == CHOOSE p \in {Prio[t]} \cup Inherited(t) :
                    \A q \in {Prio[t]} \cup Inherited(t) : p <= q

\* A saver sleeps between calls, in the queue of the mutex and while the chip
\* programs a page; it runs when no saver of higher priority does.
Blocked(t) == pc[t] \in {"idle", "queued", "settle"}
CanRun(t)  == \A u \in Writers : Blocked(u) \/ CurrentPrio(t) <= CurrentPrio(u)

Goto(t, from, to) == /\ pc[t] = from
                     /\ CanRun(t)
                     /\ pc' = [pc EXCEPT ![t] = to]

Init ==
  /\ power = "boot"
  /\ db = Default /\ sysp = Default
  /\ dirty = FALSE
  /\ pc = [t \in Writers |-> "idle"]
  /\ tmp = [t \in Writers |-> Default]
  /\ next = [t \in Writers |-> 0]
  /\ lock = "free" /\ queue = <<>>
  /\ page \in {ImageOf(s) : s \in Settings} \cup {[p \in Pages |-> Garbage]}
  /\ cuts = 0 /\ errors = 0
  /\ seen = [cmd |-> {DefaultCmd}, cal |-> {DefaultCal}]

-----------------------------------------------------------------------------
(* Who changes the settings, and asks for them to be saved.                 *)

SeenAlso(s) == [cmd |-> seen.cmd \cup {s.cmd}, cal |-> seen.cal \cup {s.cal}]

InUse(s) == db' = s /\ seen' = SeenAlso(s)

\* eMBRegHoldingCB stores command registers and wakes write_cmd.
ModbusWrite ==
  /\ power = "up"
  /\ \E c \in Cmds : InUse([db EXCEPT !.cmd = c])
  /\ dirty' = TRUE
  /\ UNCHANGED <<power, sysp, savers, page, cuts, errors>>

WcmdSave ==
  /\ power = "up"
  /\ dirty
  /\ Goto("wcmd", "idle", "copy")
  /\ dirty' = FALSE
  /\ UNCHANGED <<power, db, sysp, tmp, next, lock, queue, page, cuts, errors,
                 seen>>

\* The selector has been turned: update_idensity, then the save.
DiSave ==
  /\ power = "up"
  /\ Goto("di", "idle", "copy")
  /\ \E c \in Cmds \ {db.cmd} : InUse([db EXCEPT !.cmd = c])
  /\ UNCHANGED <<power, sysp, dirty, tmp, next, lock, queue, page, cuts,
                 errors>>

\* set_un, set_In and set_idensity of the shell.
ShellSave ==
  /\ power = "up"
  /\ Goto("shell", "idle", "copy")
  /\ \/ \E c \in Cals : InUse([db EXCEPT !.cal = c])
     \/ \E c \in Cmds : InUse([db EXCEPT !.cmd = c])
  /\ UNCHANGED <<power, sysp, dirty, tmp, next, lock, queue, page, cuts,
                 errors>>

-----------------------------------------------------------------------------
(* write_sysdata_to_eeprom and at24cxx_page_write                           *)

\* update_ccr_data_to_sys_data copies the registers, then the coefficients.
SaveCopy(t) ==
  /\ \/ Goto(t, "copy", "copy_cal") /\ sysp' = [sysp EXCEPT !.cmd = db.cmd]
     \/ Goto(t, "copy_cal", "build") /\ sysp' = [sysp EXCEPT !.cal = db.cal]
  /\ UNCHANGED <<power, db, dirty, tmp, next, lock, queue, page, cuts, errors,
                 seen>>

\* So does the copy to the caller's stack, over which the CRC is computed.
SaveBuild(t) ==
  /\ \/ /\ Goto(t, "build", "build_cal")
        /\ tmp' = [tmp EXCEPT ![t].cmd = sysp.cmd]
     \/ /\ Goto(t, "build_cal", "take")
        /\ tmp' = [tmp EXCEPT ![t].cal = sysp.cal]
  /\ UNCHANGED <<power, db, sysp, dirty, next, lock, queue, page, cuts, errors,
                 seen>>

TakeLock_NoMutex(t) ==
  /\ Goto(t, "take", "write")
  /\ lock' = t
  /\ UNCHANGED <<power, db, sysp, dirty, tmp, next, queue, page, cuts, errors,
                 seen>>

Places_Fifo(t) == {Len(queue) + 1}

\* The place of t in the queue: behind all of its priority or a higher one.
Places(t) == {k \in 1 .. Len(queue) + 1 :
                /\ \A i \in 1 .. k - 1 : Prio[queue[i]] <= Prio[t]
                /\ k <= Len(queue) => Prio[t] < Prio[queue[k]]}

\* rt_mutex_create makes every queue one by priority, whatever flag it is given.
TakeLock(t) ==
  /\ \/ /\ lock = "free"
        /\ Goto(t, "take", "write")
        /\ lock' = t
        /\ UNCHANGED queue
     \/ /\ lock # "free"
        /\ Goto(t, "take", "queued")
        /\ \E k \in Places(t) :
             queue' = [i \in 1 .. Len(queue) + 1 |->
                         IF i = k THEN t ELSE queue[IF i < k THEN i ELSE i - 1]]
        /\ UNCHANGED lock
  /\ UNCHANGED <<power, db, sysp, dirty, tmp, next, page, cuts, errors, seen>>

\* One page: the transfer succeeds, or fails unnoticed, with nothing or only a
\* part of the page transferred (at24cxx_write_page compares with 0, and
\* rt_i2c_transfer returns a negative code on failure), so that the retries of
\* write_sysdata_to_eeprom are never made.
WritePage(t) ==
  /\ Goto(t, "write", "settle")
  /\ \/ /\ page' = [page EXCEPT ![next[t]] = ImageOf(tmp[t])[next[t]]]
        /\ UNCHANGED errors
     \/ /\ errors < MaxErrors
        /\ errors' = errors + 1
        /\ page' \in {page, [page EXCEPT ![next[t]] = Garbage]}
  /\ UNCHANGED <<power, db, sysp, dirty, tmp, next, lock, queue, cuts, seen>>

NextPage_PastEnd(t) ==
  /\ next[t] <= LastPage
  /\ Goto(t, "settle", "write")
  /\ next' = [next EXCEPT ![t] = @ + 1]
  /\ UNCHANGED <<power, db, sysp, dirty, tmp, lock, queue, page, cuts, errors,
                 seen>>

NextPage(t) ==
  /\ next[t] < LastPage
  /\ Goto(t, "settle", "write")
  /\ next' = [next EXCEPT ![t] = @ + 1]
  /\ UNCHANGED <<power, db, sysp, dirty, tmp, lock, queue, page, cuts, errors,
                 seen>>

Release_Forgets == /\ lock' = "free"
                   /\ queue' = queue

\* rt_mutex_release: the mutex passes to the first thread in its queue.
Release == /\ lock' = IF queue = <<>> THEN "free" ELSE Head(queue)
           /\ queue' = IF queue = <<>> THEN queue ELSE Tail(queue)

\* The call returns RT_EOK, and its stack is gone.  The boot writer goes on to
\* use the defaults.
SaveDone(t) ==
  /\ pc[t] = "settle" /\ next[t] = LastPage
  /\ CanRun(t)
  /\ Release
  /\ pc' = [u \in Writers |-> IF u = t THEN IF t = "boot" THEN "load" ELSE "idle"
                              ELSE IF u = lock' THEN "write"
                              ELSE pc[u]]
  /\ tmp' = [tmp EXCEPT ![t] = Default]
  /\ next' = [next EXCEPT ![t] = 0]
  /\ UNCHANGED <<power, db, sysp, dirty, page, cuts, errors, seen>>

SaveStep(t) == \/ SaveCopy(t) \/ SaveBuild(t) \/ TakeLock(t) \/ WritePage(t)
               \/ NextPage(t) \/ SaveDone(t)

-----------------------------------------------------------------------------
(* eeprom_init and read_sysdata_from_eeprom                                 *)

BootLoad_NoCrc ==
  /\ power = "boot" /\ pc["boot"] = "idle"
  /\ \E s \in Settings : /\ page[0] = ImageOf(s)[0]
                         /\ db' = s /\ sysp' = s
                         /\ seen' = SeenAlso(s)
  /\ power' = "up"
  /\ UNCHANGED <<dirty, savers, page, cuts, errors>>

\* The image passes the CRC check and is loaded.
BootLoad ==
  /\ power = "boot" /\ pc["boot"] = "idle"
  /\ Valid(page)
  /\ db' = Loaded(page) /\ sysp' = Loaded(page)
  /\ seen' = SeenAlso(Loaded(page))
  /\ power' = "up"
  /\ UNCHANGED <<dirty, savers, page, cuts, errors>>

BootDefault_Always ==
  /\ power = "boot" /\ pc["boot"] = "idle"
  /\ pc' = [pc EXCEPT !["boot"] = "take"]
  /\ tmp' = [tmp EXCEPT !["boot"] = Default]
  /\ UNCHANGED <<power, db, sysp, dirty, next, lock, queue, page, cuts, errors,
                 seen>>

\* It does not, or what was read is not what is stored: a failed transfer is
\* not reported by at24cxx_page_read either.  The defaults are written.
BootDefault ==
  /\ power = "boot" /\ pc["boot"] = "idle"
  /\ \/ ~Valid(page) /\ UNCHANGED errors
     \/ errors < MaxErrors /\ errors' = errors + 1
  /\ pc' = [pc EXCEPT !["boot"] = "take"]
  /\ tmp' = [tmp EXCEPT !["boot"] = Default]
  /\ UNCHANGED <<power, db, sysp, dirty, next, lock, queue, page, cuts, seen>>

BootUse ==
  /\ Goto("boot", "load", "idle")
  /\ db' = Default /\ sysp' = Default
  /\ power' = "up"
  /\ UNCHANGED <<dirty, tmp, next, lock, queue, page, cuts, errors, seen>>

BootStep == BootLoad \/ BootDefault \/ BootUse

-----------------------------------------------------------------------------
\* Memory is lost.  A page the chip is programming may come out as garbage.
PowerCut ==
  /\ cuts < MaxCuts
  /\ cuts' = cuts + 1
  /\ power' = "boot"
  /\ db' = Default /\ sysp' = Default /\ dirty' = FALSE
  /\ pc' = [t \in Writers |-> "idle"]
  /\ tmp' = [t \in Writers |-> Default]
  /\ next' = [t \in Writers |-> 0]
  /\ lock' = "free" /\ queue' = <<>>
  /\ page' \in {page} \cup {[page EXCEPT ![next[t]] = Garbage] :
                              t \in {u \in Writers : pc[u] = "settle"}}
  /\ UNCHANGED <<errors, seen>>

Next == \/ ModbusWrite \/ WcmdSave \/ DiSave \/ ShellSave
        \/ \E t \in Writers : SaveStep(t)
        \/ BootStep
        \/ PowerCut

Spec == Init /\ [][Next]_vars

\* A thread that can go on does: the kernel runs it when those above it sleep,
\* and the mutex is handed on in order.
FairSpec == /\ Spec
            /\ \A t \in Savers : SF_vars(SaveStep(t))
            /\ WF_vars(SaveStep("boot") \/ BootStep)

-----------------------------------------------------------------------------
TypeOK ==
  /\ power \in {"boot", "up"}
  /\ db \in Settings /\ sysp \in Settings
  /\ dirty \in BOOLEAN
  /\ pc \in [Writers -> {"idle", "copy", "copy_cal", "build", "build_cal", "take",
                         "queued", "write", "settle", "load"}]
  /\ tmp \in [Writers -> Settings]
  /\ next \in [Writers -> Pages]
  /\ lock \in Writers \cup {"free"}
  /\ queue \in Seq(Writers)
  /\ page \in [Pages -> PageValues]
  /\ cuts \in 0 .. MaxCuts /\ errors \in 0 .. MaxErrors
  /\ seen \in [cmd : SUBSET Cmds, cal : SUBSET Cals]

\* When the regulator runs and nobody holds the mutex, the EEPROM holds a whole
\* image: savers do not mix their pages (at24cxx.c:366-401).
WholeWhenFree == power = "up" /\ lock = "free" => Valid(page)

\* at24cxx_page_write "@return RT_EOK write ok" (at24cxx.c:352): when it has
\* returned, what the caller gave it is what the EEPROM holds.
OkMeansWritten ==
  [][ \A t \in Writers :
        pc[t] = "settle" /\ pc'[t] \in {"idle", "load"} /\ cuts' = cuts
          => page = ImageOf(tmp[t]) ]_vars

\* A good image survives a power-up: it is loaded, and no write over it is begun
\* (i2c_app.c:66-92: the defaults are for an image that fails the CRC check).
GoodImageKept ==
  [][power = "boot" /\ lock = "free" /\ Valid(page) => lock' = "free"]_vars

\* No save waits for itself: while one is under way, a saver that is not in the
\* queue of the mutex can run, whoever waits for whom at which priority
\* (at24cxx.c:366-401, ipc.c:909-1194).
SomeoneGoesOn ==
  (\E t \in Writers : pc[t] # "idle")
    => \E t \in Writers : pc[t] \notin {"idle", "queued"} /\ CanRun(t)

\* The mutex is handed to the most urgent of those that wait, whoever asked first:
\* a save of di waits for one other save at most, although the mutex is created
\* with RT_IPC_FLAG_FIFO (at24cxx.c:433).
UrgentFirst ==
  [][ \A t, u \in Writers :
        lock' = u /\ lock # u /\ pc[t] = "queued" => Prio[u] <= Prio[t] ]_vars

\* A save ends, whoever waits for whom (at24cxx.c:366-401, i2c_app.c:96-124).
SaveEnds ==
  \A t \in Writers : pc[t] = "take" ~> pc[t] = "idle"

-----------------------------------------------------------------------------
(* Pages, mutex and CRC implement the promise of SettingsStore.             *)

Store == INSTANCE SettingsStore WITH
           Torn    <- TornImage,
           store   <- IF Valid(page) THEN Loaded(page) ELSE TornImage,
           running <- power = "up",
           writing <- lock # "free"

ImplementsStore == Store!StoreSpec
=============================================================================
