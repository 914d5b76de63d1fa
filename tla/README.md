# The constant-current regulator in TLA+

`ccr` is the firmware of a constant-current regulator for airfield lighting: a
GD32F303 under RT-Thread that feeds a series circuit of lamps through a contactor and
a pair of SCRs, holds the current at one of five levels, trips on faults, takes
its orders from a selector on the front panel and from a Modbus master, and keeps
its settings in an AT24C02 EEPROM. The application is in `src/applications/`;
kernel, drivers, libc and the Modbus stack are vendored beside it.

This directory is a verification development of that application: TLA+ modules
translated from the source, TLC configurations that check them on small
instances, and theorems about them that TLAPS checks for every instance.

- [Inventory](#inventory)
- [Modules](#modules)
- [Runs](#runs): what is checked, the bounds, the fairness
- [Proofs](#proofs)
- [What the code does otherwise than its texts say](#divergences)
- [Not modelled](#not-modelled)
- [Plan](#plan)

To check a run: `tlc -config Control_local.cfg MCCcrControl`; to check proofs:
`tlapm CcrLocalProofs.tla`.

## Inventory

| Component | State it keeps | Operations | What is hard | What makes it correct |
|---|---|---|---|---|
| Contactor and intensity control (`pid_app.c`, `di_check.c`, `i2c_app.c`, `adc_sample.c`, `main.c`, the register callback of Modbus, the crossing interrupt) | the contactor pin `MK_PIN`, the registers of `g_ccr_data` (`on_off`, `ctrl_mode`, `intensity`, alarm and status words), `pid.ref`, the pass angle, `on_off_last`, the write-command semaphore | close with a 300 ms delay; open by fault, at level 0, by order; store registers in halves; msh commands | six threads of five priorities and an interrupt share all of it without a lock; state is read before a delay and used after it | contactor and status agree; soft start; no closing under a fault; opening has a cause; a fault trips; orders and the selector are followed |
| Settings in the EEPROM (`i2c_app.c`, `at24cxx.c`) | `g_sys_param`, the image of each saver on its stack, the mutex `mutex_at24cxx`, six pages of the chip | save (three threads and start-up), load with a CRC | an image is written page by page with a sleep after each; power cuts; transfers that fail unnoticed; a mutex with priority inheritance | pages of two savers never mix; after a cut the settings are an image that was saved or the defaults; a save ends |
| Alarm checks (`alarm.c`, `adc_sample.c`) | the alarm word, four static counters | `check_i_load`, `Check_SCR`, `Check_Fuse`, `Check_CircuitOpen`, trip | counters that outlive the condition they count, bytes, two branches with a counter each | a sustained fault trips, nothing else does |
| Zero crossings and SCR firing (`cross_zero_check.c`, `scr.c`, the hwtimer framework) | four one-shot timers, `int0_valid`, `stable_cnt`, the gate (PWM of timer0) | measure the half-wave, start the firing, delay by the pass angle, switch the gate on and off | five interrupts of three priorities; a timer may expire as it is stopped or restarted; crossings lost, interference | the gate is on only in its window; no half-wave stays dark; a good signal is recognised |
| PID regulator (`pid.c`) | weights, errors, output | `pid_calc`, limits | floating point | output within the limits of the angle |
| Sampling (`adc_sample.c`) | ring of readings with their mean in its last place, `count`, `i_load` | `get_rms` in the crossing interrupt, the reset by `adc` | the interrupt, `adc` and the opening at level 0 share `i_load`; the ring outlives openings | the checks see a mean of the last readings or 0; a load that has died down is disconnected at level 0 |
| Modbus RTU slave (`freemodbus-latest`, `mb_slave_poll`) | receiver and sender state, one frame buffer, a timer, events as bits, the static variables of `eMBPoll` | `eMBPoll`, the character interrupt, the time-out, the sending thread | events that are pending together match no case; one buffer for request and reply; a critical section that stops no interrupt; lost and garbled characters | one execution and one reply of its own for one good request; no assertion fails |
| RT-Thread (`rt-thread/src`) | ready queues, mutexes, semaphores | scheduling, `rt_mutex_take` and `release` | priority inheritance | taken as given, see below |

How they interact. The crossing interrupt is the clock of the regulator: it
starts the firing timers, computes the effective current and the PID step, and at
level 0 opens the contactor. `adc` checks the alarms every 20 ms and opens the
contactor. `pid_ctrl` closes it. `di` copies the selector into the level register
and saves. The Modbus callback stores registers and releases a semaphore that
wakes `write_cmd`, which obeys `on_off` and saves. The shell does any of these at
the lowest priority. They meet in `g_ccr_data` (no lock), in `mutex_at24cxx` and in
the EEPROM. Below the Modbus callback the stack turns characters into requests: the
receive interrupt and the tick fill its buffer and post events, `md_s_poll` checks,
executes and answers, `slave trans` puts the reply on the line.

The hazards, each at its line, are in `PROJECT.json`.

## Modules

| Module | Models | Composition |
|---|---|---|
| `CcrControl` | contactor and intensity control | instances in `MCCcrControl`; implements `Contactor` when only the selector commands; proofs in `CcrControlProofs`, `CcrLocalProofs`, `CcrOrderProofs` |
| `Contactor` | abstract specification: what the regulator promises of its contactor | |
| `Eeprom` | the settings, their savers, the driver's mutex, power cuts | instances in `MCEeprom`; implements `SettingsStore`; proofs in `EepromProofs` |
| `SettingsStore` | abstract specification: what the regulator promises about its settings | |
| `AlarmChecks` | the four checks of `alarm.c` and the trip | instances in `MCAlarmChecks`; proofs in `AlarmProofs` |
| `LoadProtection` | the current the checks see: the ring of `get_rms`, the opening at level 0, the reset by `adc` | extends `AlarmChecks` and composes it with the crossing interrupt; instances in `MCLoadProtection`; proofs in `LoadProofs` |
| `ScrFiring` | crossings, timers, gate | instances in `MCScrFiring`; proofs in `ScrProofs` |
| `ModbusRtu` | the slave's receiver, transmitter, timer, events, poll and buffer | instances in `MCModbusRtu`; implements `ModbusServer`; proofs in `ModbusProofs` |
| `ModbusServer` | abstract specification: what a slave promises a master | |

Definitions whose names end in `_Something` (`PidClose_KeepAngle`) are faults
that could have been made in the code. No specification uses them; each is
what a property was tested against, by putting it in the place of the
definition it is named after.

### CcrControl

One step is the code a thread runs between two points at which another actor can
touch the same data. `pc[t]` says where thread `t` is: `wait` (its sleep, semaphore
or key), or the label of its next step. `Goto` models the kernel: a thread steps
only while all threads of higher priority are blocked, threads of equal priority
(`wcmd`, `shell`) interleave, the crossing interrupt comes at any time.

| Code | Model |
|---|---|
| `MK_PIN` low / high | `pin` TRUE / FALSE |
| `g_ccr_data.ccr_reg`, registers 0, 1, 2, 29, 30 | `reg` |
| `pid_thread_entry` | `PidIdle`, `PidClose` (until the 300 ms delay), `PidSetStatus`, `PidSetRef` |
| `cross_zero_check_entry`, an even crossing | `ZeroCross(low)`; `low`: the averaged current is at most 1 A |
| `eMBRegHoldingCB` | `ModbusAccept`, `ModbusHigh` and `ModbusLow` for the halves of each register, `ModbusEnd` releases the semaphore |
| `di_thread_entry` | `DiRead`, `DiUpdate`, `DiSaved` |
| `adc_sample_thread_entry` | `AdcCheck` (a check latches a fault or does not), `AdcTest`, `AdcOffPin`, `AdcOffClr` |
| `write_cmd_thread_entry` | `WcmdTake` .. `WcmdSaved`, with its three reads of `on_off` apart |
| `RELAY_ON`, `RELAY_OFF` and the second write of the bit after them | `RelayOnStep`, `RelayOffStep` |
| msh commands | `ShellSetLevel`, `ShellApplyLevel`, `ShellRelay`, `ShellSetAngle`, `ShellPid` |

Time is abstract: a delay ends at any moment, but the closing delay of 300 ms not
before each thread that was awake when it began has waited once (`behind`), since
between two waits a thread needs microseconds. The pass angle is `min` or `wide`,
the PID's output is any angle. The engineer at the shell and the Modbus master give
orders whenever they like, beside each other and beside the selector. A fault is a bit
in the low byte of the alarm word; which one is the subject of `AlarmChecks`. A save is
a wait of any length.

`orders` is the history of the orders. `last`: the last switching of `write_cmd` was on.
`unheard`: `on_off` was loaded from the image or stored over Modbus, and no write has
ended with a command register since, so that `write_cmd` has not been woken for it.
`crossed`: the last switching of `write_cmd` and the shell was a RELAY_ON inside a
RELAY_OFF of the other (both have one priority, pin and bit are apart), or the master
has stored the run status since. The last two name the exceptions `OrderSeen` and
`OffMeansOpen` need; everything else is checked and proved for free interleaving.

`Contactor` has no threads, registers or status bits: a contactor that is open, closing, on or
opening, a fault, a level and an angle. `CcrControl` implements it while only the selector
commands, pin and status bit together being the state of the contactor (`ContactorState`). With
orders it does not: `Control_on_means_closed` ends in `opening` without a fault.

### Eeprom and SettingsStore

A saver goes through `update_ccr_data_to_sys_data` (`SaveCopy`, into the one
`g_sys_param` all savers share), the copy on its stack (`SaveBuild`), the mutex
(`TakeLock`), and for each page the transfer (`WritePage`) and the 5 ms sleep
(`settle`, left by `NextPage` or `SaveDone`). The mutex is that of `ipc.c`: a queue
ordered by priority, handed on at release, its owner running at the highest
priority that waits for it. Start-up is `BootLoad` or `BootDefault` then a save
and `BootUse`. `PowerCut` clears all memory, and a page being programmed may come
out as garbage. A failing transfer does what the code does: it is not
noticed. `seen` is a history variable.

Settings are abstracted to two parts, the command registers in the first page and
the coefficients in the middle ones; the last page holds the CRC, taken to be
perfect (an image that passes is the image of some settings). Run time is left out.

`SettingsStore` has no pages, no mutex and no CRC: a copy that is whole unless it is
being written, and that after a loss of power is an image of values the settings
had, or lost. `Eeprom` implements it with
`store <- IF Valid(page) THEN Loaded(page) ELSE TornImage`, `writing <- lock # "free"`.

### AlarmChecks

`Period(r)` is a round of the `adc` thread with the contactor closed: all checks on
the reading `r`, in the order of the code, then the trip. A reading says which side
of each threshold of `alarm.h` the measured values are on. Counters are bytes
(`ByteRange`). `stack` is the choice of what the variables `vscr` and `iload`, which
the code never assigns, hold. `WriteAlarms` is the Modbus master, which writes any word
of `AlarmWrites` over the alarm register. The history variables count runs of readings.

### LoadProtection

In `AlarmChecks` a reading is any reading. Here the current in it is what the code
hands to `check_i_load`. `Regulate(reading)` is a crossing at which the regulation is
due: `get_rms` stores the reading in the ring, its mean in the ring's last place and
in `i_load`, and at level 0 the interrupt opens the contactor if that mean is at most
1 A. It runs whole, above all threads. `AdcOn` is a round of `adc` with the status bit
set, its reading classified by the thresholds of `alarm.h`; `AdcOff` is a round without
it, in two steps: the test of the bit, and some time later the 0 in `i_load`. `Others`
are the threads that switch the contactor, write the alarm register or change the level. The
initial ring of zeros is that of the static variables. `recent` is history. A step of
`LoadProtection` is one of `AlarmChecks` or leaves its variables alone, which is
proved, so that what is proved of the checks holds with measured currents.

### ModbusRtu and ModbusServer

| Code | Model |
|---|---|
| `eRcvState`, `eSndState`, `ucRTUBuf`, `usRcvBufferPos`, `usSndBufferCount` | the same names |
| `xSlaveOsEvent`, `EVENT_SERIAL_TRANS_START` | `events`, `start` |
| the one-shot timer of 3 ticks | `timer`, ticks left, 0 when stopped |
| `xMBRTUReceiveFSM` by `serial_rx_ind` | `ReceiveFSM(c)`, by a character of the master (`LineChar`) or a disturbance (`Spurious`) |
| `xMBRTUTimerT35Expired` by the tick | `T35Expired`, in `Tick` |
| `eMBEnable`, then `eMBPoll` and a sleep for ever | `poll`: `enable`, `get`, `blocked`, the label of the event's case, `nap` |
| `eMBRTUReceive` | `PollCheck` (length and CRC), `PollAccept` (address and length, read again) |
| the function handler, and the error reply | `PollExecute` |
| `eMBRTUSend` | `PollSend`, `PollBuild`, `PollXmit`, `PollRxOff` |
| `serial_soft_trans_irq`, `xMBRTUTransmitFSM` | `TransmitFSM`: `PutChar`, `Finish` |

A step is the code between two points at which an interrupt can matter.
`ENTER_CRITICAL_SECTION` of this port is a semaphore (`port.c`) that no interrupt
takes: it excludes nothing, and the steps of `eMBRTUSend` are apart. `slave trans` has a
higher priority than `md_s_poll` and waits for each character, so the poll rests while
`start` is set. An `RT_ASSERT` that fails stops the controller (`failed`).

A character is its place in a request or in the reply to it, or garbled. The CRC is perfect: a frame
that passes is a frame of the master. The line loses and garbles characters and
brings others. The master sends a frame without gaps of a tick, then is silent for
`Patience` ticks or until it has the reply.

`ModbusServer` has no characters, no timer, no buffer and no events: a request heard whole is
taken in hand when none is, executed, and, if it was for this slave alone, answered with its
own reply. Requests may be lost. `ModbusRtu` implements it with
`done <- start \/ poll \in {"send", "build", "xmit", "rxoff"}`; `heard`, `owed`, `applied` and `answer`
are history variables.

### ScrFiring

Time is counted in ticks. `left[t]` is what one-shot timer `t` has to run, `irq[t]`
how far its interrupt has come: pending, in its callback, and within the callback
between its two statements. A tick passes only when every interrupt due has been
served. The crossing interrupt and timer2's have priority 0 and run whole
(`Entry`, `AngleIsr`); those of timer3, timer5 and timer6 are lower and the crossing
may come between any two of their steps. Stopping a timer does not withdraw an
interrupt that is already pending (`hwtimer.c`, `drv_hwtimer.c`).

| Code | Model |
|---|---|
| `cross_zero_check_entry` | `FirstCrossing`, `LaterCrossing`, by a `Crossing` of the mains or a `Glitch` |
| `cross_zero_period_check` | `StableAfter`, `ValidAfter`, `InRange` |
| `rt_hwtimer_read` of timer5 | `Measured`: a timer that has run out reads 0 or, its overflow counted, the full `PPeriod` |
| `rt_device_hwtimer_isr` | `Isr` |
| `triger_angle_timer_cb`, `timer_1ms_cb`, `single_stable_timer_cb`, `timer5_cb` | `AngleIsr`, `OneMsCallback`, `StableCallback`, `PeriodCallback` |

The mains is `poor` (a crossing may fail to come, interference may) until it
`Settle`s. The relay bit and the angle are changed by the threads at any time. `due`,
`fired`, `loaded` (the delay timer2 was started with in this half-wave) and `carried`
(the firing of an earlier one goes on) are history. `Late` is said of a half-wave whose
delay does not end before the single-stable time, or into which the firing of such a
one is carried: the properties name what may happen then.

## Runs

| Run | Shows | Bounds |
|---|---|---|
| `Control_local` | With the selector alone in command: contactor and status agree but in RELAY_OFF and the closing delay; regulation starts closed and from the minimum angle; opening has a cause; `Contactor` is implemented, which closes without a fault only; a fault trips; level 0 opens for good and another level is reached for good | positions 0, 2, 5; saved levels 0, 1, 2 |
| `Control_orders` | `on_off`, a level, a write that runs past the command registers and a run status over Modbus, interleaved freely with all msh commands: no order that woke `write_cmd` is overlooked; status off means open, but for two crossed orders and a written run status; a round of `adc` that ends under a fault leaves the contactor open | semaphore up to 1; levels 0 and 1; an image with `on_off` 0 or 1 |
| `Eeprom_cuts` | Savers, start-up, one power cut: pages never mixed, RT_EOK means written, a good image survives, `SettingsStore` is implemented | three pages, two values of each part, no failed transfer |
| `Eeprom_saves` | With a failed transfer: some saver can always run, the most urgent is next, every save ends | two pages |
| `Alarm_checks` | With the measured current: a sustained over-current trips; readings on both sides of the limit add up to none; the checks see the mean of the last readings or 0; at level 0 a load that has died down is disconnected | counters 3, 2, 2 in a byte of 4; a window of two; currents 1 A, 7.5 A, 10 A; a master that clears the alarms or sets the over-current |
| `Scr_firing` | The gate is on in its window; no half-wave due stays dark, none is fired twice; for every pass angle, with what the smallest ones do named; a good mains is recognised and stays so | ticks of about 1 ms, delays of 1 to 10, three good half-waves |
| `Modbus_rtu` | With a patient master: no assertion fails; two events never meet; nobody waits for what does not come; a request heard whole is taken in hand, and done with; `ModbusServer` is implemented | three requests (to this slave, to all, to another), frames of three characters, a buffer as long, patience 5 |
| `Control_on_means_closed`, `Control_order_obeyed`, `Alarm_strong`, `Scr_min_angle`, `Modbus_hasty` | Violations: see [below](#divergences) | |

Why the bounds are enough. Levels matter to the control logic only as 0, in the
table or beyond it, and as equal or not; three positions give a change between two
levels in either direction and to 0. In `Control_orders` the selector is at rest and a level
is 0 or not. The write-command semaphore at 1 lets an order arrive while
one is being obeyed; `MaxSem` disables the sender beyond that, which
a semaphore of 16 bits makes harmless; the proofs have any. `VIEW BearsOnOrders` leaves out the
reference, the angle and `orders.last`: no guard, no other variable's next value and no property of that run
reads them, so that states which differ in these alone have the same future. Types with orders
are left to `TypeCorrect`, which is proved. The alarm counters keep the order of the
code's (40 and 75 below 200, all below 256), and 3 steps allow every pattern of
interruption, opening and clearing the code can tell apart; the proofs have any. A window of two has a
place that wraps, a mean apart from it, and means on each side of both limits. Three pages are a
first, a middle and a last one; the proofs have any number.
In `Scr_firing` the times keep the order they have in the code: 9.32 ms < 9.5 ms < 9.52 ms < 10.53 ms are
8 < 9 < 10 < 12 ticks, and 1 ms and the delay, which `scr.c` clamps to 1 to 9 ms, add up to less than, just, and more
than each of the first three, never to the last; two half-waves of different length are in
range and one is timer5's own load, so that its interrupt meets the crossing's. 20 good half-waves are 3.

The passing run of `ScrFiring` has one restriction on the mains, stated as the assumption of the
theorems (`GoodMains`): no half-wave is shorter than 9.52 ms (52.5 Hz), and interference
comes earlier than 9.32 ms after a crossing. An interference between 9.32 and 9.52 ms
counts as a good half-wave but does not switch the gate off. On the pass angle there
is no restriction. At the smallest, with which every closing begins, the delay ends with
the half-wave (1 ms and 8.889 ms against 9.5 ms and 10 ms): the single-stable has then run
out, and the gate stays on until a crossing in range switches it off, or is switched on after that
crossing, which `Scr_min_angle` shows. `FiringWindow` and `FiredOnce` except such
half-waves and what they carry over (`Late`), no others; `EveryHalfWaveFired` excepts only a
crossing that comes before the delay has ended.

The rounds `RoundTrips` speaks of are those `adc` begins with the status on: with it off
it looks for no fault. `FaultTrips` is checked with the selector alone;
with orders the run has too many states for a liveness check, and `RoundTrips` says the same of
every such round.

A frame of three characters has an address, a PDU and a CRC; a buffer as long is overrun by one
disturbance. `Patience` 5 is the 3 ticks of the timer and two more: one in which the timer may
expire late, one for the sleep of the poll. That is what the theorems assume
(`PatientMaster`); with one tick less a character can come while the reply is being started, which `Modbus_hasty`
shows. On the line patience is asked of everybody: another slave that answers, or noise between frames,
counts as the master. The work of the poll between two sleeps takes less than a tick.

Deadlock is checked in every run. The regulator never stops: `adc`, `pid` and `di`
poll, and time passes.

Fairness. In `CcrControl` every thread has strong fairness: each sleeps in every
round of its loop and the steps between take microseconds, so that the processor
is free again and again and a thread that wants to run does; weak fairness would not do since
a thread is disabled whenever one above it is awake. The crossing with a low
current has weak fairness, since crossings keep coming and the current falls with
a reference of 0. Orders, the operator, and detecting a fault are not fair. In `Eeprom`
the savers have strong fairness for the same reason; nothing is assumed about
power or requests. In `ScrFiring` time, interrupts and crossings have weak fairness: the
mains may lose crossings for ever, but not the time. In `ModbusRtu` the tick, the poll and
`slave trans` have weak fairness: only `pid_ctrl` has a higher priority than these
threads, and it sleeps; no step of the line is fair, since a master need never send.

Liveness under these is model-checked, not proved: it is beyond the prover.

## Proofs

All theorems hold for every value of the constants under the named assumptions of
the module (`LevelAssumption`, `InputAssumption`, `EepromAssumption`,
`AlarmAssumption`, `WindowAssumption`, `TimeAssumption`, `RtuAssumption`), which say that inputs have the types the code gives
them and times the order they have in the code.

| Theorem | Says | Argument |
|---|---|---|
| `TypeCorrect` (`CcrControlProofs`) | `TypeOK`, for any selector, writes, commands and registers at start-up | inductive as it stands: the two clauses on the Modbus write say that a register is left to be written and the semaphore is below its bound |
| `LocalContactorMatchesStatus`, `LocalSoftStart`, `LocalOpensOnlyForCause` (`CcrLocalProofs`) | the safety properties of `Control_local`, under `LocalOperation` | `LocalInv`: threads without orders never leave their waits; a trip is under way only under a latched fault; between the two halves of RELAY_OFF the contactor is open; while pid is in its delay it is closed, the angle minimal, status off and no fault latched. The last is why the others hold: the interrupt and adc act only with status on |
| `LocalFaultyRoundsTrip`, `LocalContactor` (`CcrLocalProofs`) | `RoundTrips`, and every step of `CcrControl` is one of `Contactor` or a stutter (`ImplementsContactor`), under `LocalOperation` | `LocalInv`, one step at a time: a fault is latched in the state `on` only, because adc looks for one with the status bit set; the angle is left alone in `closing`, because adc sets it under a fault only |
| `NoOrderOverlooked` (`CcrOrderProofs`) | `OrderSeen`, for any image at start-up, any writes and any interleaving | `OrderInv`: if `on_off` differs from `on_off_last`, it is unheard, or the semaphore is up, or `write_cmd` has still to compare; a first half of `on_off` that has been stored is unheard |
| `StatusOffMeansOpen` (`CcrOrderProofs`) | `OffMeansOpen`, for any writes, commands, levels and interleaving | `OffInv`: half-way through a RELAY_OFF the contactor is open, or pid has closed it since, whose delay outlasts the rest (`behind`), or the other of `write_cmd` and the shell has, which is `crossed`; a closed contactor without its bit has a thread about to set it, or was crossed |
| `FaultyRoundsTrip` (`CcrOrderProofs`) | `RoundTrips`, while the master does not write the alarm word (`KeepsAlarms`), which it may at any step of `adc` | `TripInv`: a fault that `adc` has tested stays, and nobody closes between the pin and the end of its round: pid looks at the fault, and the others that close have a lower priority |
| `EepromTypeCorrect`, `PagesNeverMixed`, `WritesAreWhole` (`EepromProofs`) | `TypeOK`; `WholeWhenFree` and `OkMeansWritten` without failed transfers, for any number of pages and power cuts | `EepromInv`: who is between `write` and `settle` owns the mutex; nobody writes during start-up but the boot writer; the pages before the owner's next one are those of its image |
| `NoSaverStuck`, `MostUrgentNext` (`EepromProofs`) | `SomeoneGoesOn` and `UrgentFirst`, for any number of pages, power cuts and failed transfers | `WaitInv`: the mutex has an owner or an empty queue; who waits is in the queue, once, by priority. The owner does not wait, and runs at the priority of the first in the queue; so either it or a more urgent thread that has not asked yet can run |
| `GoodImageSurvives`, `KeepsSettings` (`EepromProofs`) | `GoodImageKept`; every step of `Eeprom` is one of `SettingsStore` or a stutter (`ImplementsStore`), without failed transfers | `StoreInv`: `EepromInv`, and `eeprom_init` writes the defaults over a bad image only, and every page is garbage or of settings that have been in use, but for a good image not loaded yet (the store may hold settings this history has not seen) |
| `AlarmTypeCorrect`, `OverCurrentTrips`, `OverCurrentSustained` (`AlarmProofs`) | `TypeOK`, `OverCurTrips`, `OverCurIsSustained`, for any thresholds below a byte | `AlarmInv`: the counter is at least the length of the run and at most the time since the current was below 105% |
| `MeasuringImplementsChecks` (`LoadProofs`) | every behaviour of `LoadProtection` is one of `AlarmChecks`, for any window, currents and limits | step by step: the interrupt opens or stutters, a round with a measured reading is a round |
| `MeasuredOverCurrentTrips`, `MeasuredOverCurrentSustained` (`LoadProofs`) | `OverCurTrips`, `OverCurIsSustained` of the measured current | the above and the theorems of `AlarmProofs` |
| `LoadIsMeasured`, `DiedDownOpens` (`LoadProofs`) | `MeasuredLoad` and `OpensWhenDied`, for any window, currents and limits | `RingInv`: the ring, from the place of the next reading on and around, is the last readings in their order, and `i_load` is their mean or 0. That both sums are then equal is an induction on the number of summands, made with the smallest number for which a sum would differ, since the library's induction theorems cannot be used; that readings of `LowCurrent` at most have such a mean (`TotalBound`) is made in the same way |
| `ScrTypeCorrect` (`ScrProofs`) | `TypeOK`; timer5 counts one overflow at most | `Types`: a running timer5 has not overflowed, one that is pending has not been counted |
| `FiresInWindow` (`ScrProofs`) | `FiringWindow`, for any pass angle, any loss of crossings and any length of a tick, on a `GoodMains` | `ScrInv`: a running timer was started in this half-wave, and what it has run and has left add up to its time; with the gate on the single-stable runs or is served; before 9.32 ms an interference is measured as one, or follows a missed half-wave and finds `stable_cnt` 0 |
| `NoneLeftDark`, `NoneFiredTwice` (`ScrProofs`) | `EveryHalfWaveFired` and `FiredOnce`, for any pass angle, on a `GoodMains`: a half-wave that is due and not `Late` is fired exactly once | `DarkInv`, `OnceInv`: in a half-wave due the gate has not been on yet if and only if timer3 or timer2 runs or has its interrupt on the way; early in it an interference is not taken for a half-wave in range, so that nothing stops timer2 |
| `TypeCorrect` (`ModbusProofs`) | `TypeOK`: nothing is stored beyond the buffer, whatever the line brings | inductive as `RtuTypes` |
| `AssertionsHold`, `EventsNeverMeet`, `KeepsPromise` (`ModbusProofs`) | `NoAssertFails`, `EventsApart`, `ImplementsServer`, for any requests, frame length, buffer and times with `PatientMaster`: patience at least T35 + 2 | `RtuInv` relates the silence left to the place of the poll: while a character may come the poll waits, or is done with the last frame; while a frame is in hand the line stays silent longer than the timer and the sleep of the poll take. Hence the receiver is idle while a reply is started or sent, a frame that passed the CRC stays in the buffer until it is executed, and its events are taken one by one |
| `NothingForgotten` (`ModbusProofs`) | `NobodyWaitsInVain`, with `PatientMaster` | `RtuInv`, and `ComesBack`: the timer runs whenever the receiver is not idle, once the poll has enabled it |

Each inductive invariant was checked with TLC before it was proved. All safety properties of the
passing runs are proved. Only model-checked is liveness, which is beyond the prover: `FaultTrips`,
`ZeroLevelOpens`, `SelectedLevelHeld`, `SaveEnds`, `HeardIsTaken`, `TakenIsDone`, `ValidAgain`. What four of
them need besides fairness is proved: `RoundTrips` for `FaultTrips`, `SomeoneGoesOn` for `SaveEnds`,
`NobodyWaitsInVain` for `HeardIsTaken` and `TakenIsDone`.

<a name="divergences"></a>
## What the code does otherwise than its texts say

With a run that shows it:

- `Control_on_means_closed`: pid sets the status bit 300 ms after closing without
  looking again; an order to open in between leaves status on with the contactor open.
- `Control_order_obeyed`: `write_cmd` latches `on_off` and reads it again to branch;
  a value stored in between is acted on but not latched, and the next equal order ignored.
- `Alarm_strong`: the strong over-current branch counts one counter and compares
  the other: a current that goes straight above 125%, without 40 readings between the limits before, never raises its alarm.
- `Scr_min_angle`: at the minimum pass angle timer2 expires with the half-wave; its
  interrupt, pending behind the crossing's, switches the gate on at once in the next one.
- `Modbus_hasty`: the receiver is tested (`mbrtu.c:196`), the reply built, and only then the
  receive interrupt switched off. A character between fails an assertion (229 or 288) instead of
  aborting the reply as the comment says, and the controller stops.

Met while modelling, one deterministic path each, without a run of their own:

- `pid_app.c:326` reads `Istd[intensity-1]` after the delay without the check made before
  it: with the level turned to 0 that is `Istd[-1]` (`OutOfTable`).
- `pid_ctrl` does not consult `on_off`, nor `di` `ctrl_mode` (`di_check.c:80`).
- Every register can be written over Modbus, the alarm word included, whose faults
  are called not clearable (`alarm.h:30`).
- A write that begins in the command area and ends beyond it does not wake
  `write_cmd` (`user_mb_app.c:149`).
- An off order equal to `on_off_last` does not open a contactor pid has closed.
- `write_cmd` and the shell have one priority: a RELAY_ON of one inside a RELAY_OFF of the other
  leaves status off with the contactor closed (`orders.crossed`); so does a run status the
  master writes.
- An `on_off` of 1 in the saved image is not obeyed at start-up, since `on_off_last` starts at 0
  and nothing wakes `write_cmd`; it is when a later write does (`orders.unheard`).
- `at24cxx_write_page` takes a negative result of the transfer for success
  (`at24cxx.c:176`), so that a page may be missing after RT_EOK (`at24cxx.c:352`): with `MaxErrors` 1
  `OkMeansWritten` fails.
- A failed read at start-up makes the defaults overwrite a good image (`at24cxx.c:144`).
- Images are built before the mutex is taken: two savers may write older settings over newer ones.
- The ring of readings is never cleared: the first means after a closing contain readings
  from before it (zeros at start-up). `i_load` keeps its last mean when
  crossings stop, or when the contactor is closed again within a round of `adc`.
- At level 0 the interrupt opens on the mean of ten readings, not on the current that flows: nine readings
  of 0 and one of 6.6 A have a mean below 1 A, and the contactor opens with 6.6 A
  flowing (`cross_zero_check.c:231`).
- `adc` stores its 0 in `i_load` some time after it found the status off: stored after a closing it
  makes one check calm and the over-current count start again (`adc_sample.c:195`).
- The strong over-current alarm can rise with the first strong reading, after enough that were merely
  over; and the count goes on over an opening, when nothing is read (`alarm.c:192`).
- Two events pending together match no case (`portevent.c:52`) and `eMBPoll` uses an unassigned
  event; with a patient master they never are.
- `slave trans` waits for every character of a reply above the priority of `adc` (`portserial.c:164`).
- The over-current counter outlives an opening of the contactor (`alarm.c:175`).
- A crossing that is lost is measured as 10.526 ms, which is in range and counts as good;
  `stable_cnt` is kept when timer5 times out, so one crossing makes the signal valid again.
- The static `g_ctrl_cycle` of `cross_zero_check_entry` hides the global one that is
  reset on an interference; the debounce of `Check_Fuse` is never reached; `vscr` and
  `iload` are used unassigned (`adc_sample.c:183`).

## Not modelled

- The arithmetic of the PID weights, the calibration of currents and voltages, and the
  frequency: floating point. `CcrControl` takes any angle for the PID's output, `LoadProtection`
  any currents.
- The recording of PID values: under `ENABLE_PID_DEBUG`, which `pid_app.h:7` comments out.
- The arithmetic of the firing delay (`scr.c`): the angle is always within 9 to 180 degrees, where
  nothing overflows; `ScrFiring` has any delays in the code's order.
- In `Eeprom` a Modbus write changes the command registers only: a write of the coefficients, which are set by
  the shell there, would be one more change of the settings while they are saved.
- `ModbusRtu` drops a character that comes while the receiver is off. The hardware keeps the
  last one and raises the interrupt when it is switched on again; a patient master sends none then.
- `ModbusRtu` begins with the timer in being: in the code the receive indication is set
  (`portserial.c:103`) before the timer is initialised (`porttimer.c:37`), and a character between
  would start a timer that does not exist yet.
- The Modbus function handlers below `PollExecute` but for the writes of holding registers, which
  are in `CcrControl`; coils, discrete inputs and input registers nobody uses. The two modules are not
  composed: a request that `ModbusRtu` executes once is a request `CcrControl` may accept at any time.
- The Modbus master, ASCII and TCP: not compiled in (`rtconfig.h`).
- Kernel, shell, device frameworks, firmware library: third-party; what the
  application relies on (priorities, sleeping, semaphore, mutex, one-shot timers, events) is
  in the modules that need it. They are most of the repository's lines.
- Board set-up and generated configuration; the lamps, the beeper, all output.

## Plan

Done, in this order: `CcrControl` and its proofs; `Eeprom`, `SettingsStore`;
`AlarmChecks`; `ScrFiring`; `ModbusServer`, `ModbusRtu` and their proofs; `LoadProtection`; status off means
open; `Eeprom` implements `SettingsStore`; the ring of readings; each half-wave fired
once; nobody stuck at the mutex or in the Modbus slave; `CcrControl` implements `Contactor`.

Next:

1. Theorems: what `Late` half-waves do at most, and the mains between 9.32 and 9.52 ms.
2. A composition of `ScrFiring` with the closing of `CcrControl`: the first firing after
   a closing is at the minimum angle.

Runs of finished questions are merged where they share an instance, so that each run asks one
question of the system.
