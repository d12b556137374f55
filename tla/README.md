# esp32-pio-emulator in TLA+

The repository is a native simulator of an ESP32: it gives Arduino sketches fake
libraries (`include/`, `src/platforms/arduino_esp32/`) over a simulated machine
(`include/esp32sim/`, `src/core/`), so that Unity tests and a pytest plugin can run them on
a host. This directory models the parts of it whose behaviour is hard to test, checks the
models with TLC and proves their safety properties with TLAPS.

All paths below are relative to the repository.

## The system and its components

Everything runs in one thread. There is no scheduler: time moves only when someone calls
`advance_us`, and what would be concurrent on the chip is *re-entrant* here. A callback of
the clock, an ISR or a listener is sketch code called from the middle of a loop of the
simulator, and it may call the simulator again. That is where the interleavings are. The
pytest plugin is the exception: it is a Python program with a child process.

| Component | State | Operations | What is hard |
|---|---|---|---|
| Virtual clock, `src/core/clock.cpp` | now, next handle, schedule (multimap) | `schedule_at`, `cancel`, `advance_us`, `reset` | callbacks that schedule, cancel and advance inside the loop of `advance_us`; times that go back |
| Hardware timers, `hwtimer.cpp` | a pool of timer states with the handle of their alarm | `timerBegin/End`, `timerAttachInterrupt`, `timerAlarmWrite/Enable/Disable` | the alarm's lambda reads the timer before and after an ISR that may change it; stale handles; periods rounded to zero |
| GPIO and interrupts, `pin_registry.cpp`, `interrupts.cpp` | level, mode and listeners of each pin; ISR slots | `set_level`, `set_mode`, `add_listener`, `attachInterrupt`, `detachInterrupt` | ISRs that write other pins in the middle of a listener loop; two tables that are undone in different places |
| Arduino core functions, `arduino.cpp` | none of their own | `pinMode`, `digitalWrite`, `digitalRead`, `delay`, `millis` | rules that judge a call by what earlier calls left, from ISRs inside other calls too |
| FreeRTOS shim, `rtos.cpp`, `freertos.cpp` | tasks by name, task slots, queues, semaphores | `xTaskCreate`, `vTaskDelete`, queue and semaphore calls | two tables for one task, handles that outlive resets, limits |
| Unity harness, `src/harness/unity/sim.cpp` | none of its own | `reset`, `runUntil`, `pulse`, event queries | deadlines against a `loop()` that itself moves the time; values read before an advance and written after |
| Event log, `event_log.cpp` | the events | `emit`, `filter`, `between` | timestamps when the clock goes back or is at 0 |
| I2C bus and Wire, SPI, fake peripherals | buffers, open transaction, devices, registers | `beginTransmission` ... `requestFrom` | calls out of order, full buffers, NACKs in the middle, register pointers that wrap |
| UART and `HardwareSerial` | rx and tx queues, tx history, `began_` of each object | `begin`, `print`, `printf`, `read`, `write`, `inject`, `drain_tx` | queues drained piecemeal, texts cut, sizes returned, flags that survive a wake |
| Network: WiFi, HTTP, MQTT | WiFi state, seeded responses, pending messages, records of what was sent | `deliver`, `loop`, `publish`, `subscribe`, `GET`/`POST`, `seed_http_response` | a callback that acts on the client whose loop calls it; messages lost without a callback; responses that serve once; common records |
| Storage, Preferences, deep sleep | NVS, open objects, files, wake causes, pending timer | `begin`, `put`/`get`, `remove`, `clear`, `esp_deep_sleep_start`, `setWake` | what survives a sleep and a reset; a key put again as another type |
| Strict mode, `strict.cpp` | enabled flag, violations | `enable`, `violation`, `reset` | rules that judge a call by what earlier calls left |
| pytest plugin, `harness/pytest_pio_emulator` | the child process, its pipe, a buffer | `start`, `expect`, `stop` | deadlines racing output, pipes nobody drains, signals ignored |
| ADC, PWM, BLE | what was last written | setters and getters | nothing over several steps |

`Sim::reset` (`sim.cpp:19-37`), called from each test's `setUp()`, clears most of these
singletons. It does not clear the timer pool, the ISR slots, the task slots, the pending
sleep timer, the ADC and PWM tables or the devices on the buses; each module models the
reset of its own component as it is, and "no state leaks into the next test" is a recurring
question of the project.

## Modules

| Module | What it models |
|---|---|
| `VirtualClock` | `esp32sim::VirtualClock`. `now`, `nextHandle`, `schedule` are its members, `stack` the `advance_us` calls in progress, each with its target and the callback it is running. `advance_us` is split where control leaves it: `EnterAdvance`, `FireNext` (up to the call), `CallbackReturn`, `LeaveAdvance`. |
| `ClockHistory` | The same clock with a record of the entries fired and the handles cancelled; the record adds no behaviour. |
| `AlarmBook` | The abstract specification: what `clock.h` promises, over a set of alarms. |
| `HwTimer` | The timers on top of `VirtualClock` (an `INSTANCE` of it). One action per function of the API; the alarm's lambda is `CallIsr` and `AlarmEnds`, because the ISR runs between them. `Other` is a callback that a test schedules on the same clock; being sketch code it stands for every other piece of code that may come between two steps of a timer, ISRs of other timers included. |
| `Gpio` | Pins, listeners, ISR slots. A `set_level` in its listener loop is a frame of `calls`; `CallListener`, `IsrReturns` and `SetLevelReturns` are the steps of the loop. |
| `Strict` | Strict mode: the list of violations, each with its code, severity and the object it is about. `Violation` is conjoined by the modules below, which know the rules. |
| `Arduino` (`MCArduino`) | `pinMode`, `digitalWrite` and `digitalRead` with their rules, over `Gpio` and `Strict`. `Gpio`'s own steps stay: tests and other fakes set levels without the rules. `outputs` and `bare` record what the sketch did, apart from the rules, for the properties to compare the reports with. |
| `Rtos` | The two task tables, queues and semaphores. A call either proceeds or is refused at once, so each is one step; the order in which a test runs its tasks is free. `tasks` has for each name the creation whose function it runs, so that a second task of a name replaces the first. A semaphore is a count: anyone may take while it is positive and give below its maximum; `holders` and `stray` record who did. |
| `SimRun` | The Unity harness on top of `VirtualClock`, with one pin and the timestamps of the event log. `pc` is where `runUntil` or `pulse` is, `deadline`, `hold` and `prev` are their locals. A write that changes the pin runs its listener, if it has one (`listening`): an interrupt routine, which may do what callbacks do, until `IsrReturns`; `isrs` counts those that are running, by the depth of the clock they run at. `pulse` is therefore in five steps: `Pulse` and `PulseRestores` write, `PulseHolds` and `PulseEnds` go on when the write has returned, and the hold between them is an advance. `runUntil` is split where it calls something: `RunUntil`, `CallLoop`, `LoopReturns` (the predicate, and the step of a millisecond), `StepReturns`, `TimeOut`. Test code, `loop()`, callbacks and routines may write the pin, schedule and delay; `runLoop` and `setLevel` are such code. |
| `Mqtt` | Incoming MQTT. `pending` is the queue of `Network`, which all clients share; a `loop()` in progress is a frame of `loops`, because its callback may do anything the test may, `loop()` included. |
| `Network` (`MCNetwork`) | `Mqtt` composed with the rest of the network: publish and subscribe, HTTP with its table of responses, WiFi, and the rules of `Strict` about them. Sketch code calls them at the top or from a callback of a loop in progress. A response is the number of its seeding. `Offence` says of each call whether it breaks a documented rule, `Wrong` whether the code checks it. |
| `HardwareSerial` | Serial ports over the UART channels. Every form of `print`, `println`, `printf` and `write` is an `Emit`: what was asked, what is emitted, how often `begin` is checked, and the size returned. A text is its length, that of a `printf` also the place of its first NUL, where `emit_` stops. |
| `Preferences` | Preferences objects over the store. A slot has a kind and a field for each kind, as in the code, so old fields stay in it. |
| `Boots` (`MCBoots`) | Deep sleep, and what a boot finds: composes `HardwareSerial`, `Preferences` and `Strict` with `Sleep` and the pending timer. `esp_deep_sleep_start` returns and the wake is a second `runSetup()` in the same process, so the sketch's globals keep their state. |
| `Dut` (`MCDut`) | The pytest plugin, with the child process, its pipe and the signals to it (external). A pattern is two sets of texts: those in which the call finds it (`found`) and those that its docstring says it matches (`meant`), which differ for `expect` of a compiled `Pattern`. `call` is where the test's thread is; `expect` is split where it blocks (`ReadLine`, `LineRead`) and where the deadline may pass, `stop` at its three waits. Real time is left out: a deadline or a wait may pass at any moment. |
| `I2c` (`MCI2c` gives the run's transfers) | Wire, the bus and one device. `users` are the transfers that code has in progress, innermost last: each is the calls one piece of sketch code still has to make, and others may begin theirs between any two, as an ISR or a clock callback does. `reported` is strict mode's list, as far as E020 and E022 go. |
| `SeqLemmas` | Lemmas: what inserting into, removing from and cutting a sequence do, also to its order and its numbering; least and greatest of a set of numbers. |
| `ClockProofs` | Theorems about `VirtualClock`, `ClockHistory` and, as a client of the clock, `SimRun`; see below for all of these. |
| `HwTimerProofs`, `RtosProofs`, `BootsProofs`, `NetworkProofs`, `DutProofs` | Theorems about the module of that name and those it is composed of. |
| `ArduinoProofs` | Theorems about `Gpio`, `Arduino` and, as the part of the Arduino API that it is, `I2c`. |

How the data is abstracted: a `std::function` is a model value; levels keep 0 and 1 (the
`SetLevel` input 2 stands for any other int); the multimap is the sequence it iterates over,
and `emplace` inserts at the upper bound; pins, timers and tasks are interchangeable; a
queue item is a model value. Refusals that change nothing (an invalid pin or handle, a full
queue) are steps that are not taken. `history` variables and fields are named as such and
are never read by a guard that models code; `SimRun!begun`, `loops`, `slept` and `rewritten`,
`Mqtt!delivered`, `handed` and `dropped`, `Network!calls`, `Gpio!attached` and `pulled`,
`Arduino!outputs` and `bare`, `HwTimer!owned`, `HwTimer!due`, `Rtos!created` and `mine`,
`I2c!misused` and `corrupted`, the last three fields of its `User`, the `holders` and `stray` of a
semaphore, the last seven variables of `HardwareSerial`, `Preferences!lastPut`, `Boots!timer`,
`arranged`, `slept` and `begun`, and of `Dut` the last three, `due` and the field `meant` of a
pattern are of this kind or say what a caller may do. A byte printed or injected is its port and its
number; how values are formatted is left out. `room` (in `Boots`, `Network`,
`Arduino`) is no state of the program: it is chosen in `Init`, never changes, and says which parts a
behaviour exercises and how far, so that one run has a few kinds of behaviour of which each is deep
enough, and not their product.

### What callers are assumed to do

The code refuses almost nothing, so some sequences of calls break any promise. Each such use is named in
a constant (`Overshoot`, `Liberties`). Unless said otherwise it is off in the passing runs, and it can
be switched on in the `.cfg` to see what it does:

- `Overshoot`: a callback advances past the time its caller waits for. The time then goes
  back when the outer call returns. `hwtimer` runs with it, `clock` and `sim_run` without;
  what is proved below without `~Overshoot` holds for both. In `SimRun` all properties but
  `EventsInTimeOrder` also hold with it.
- `HwTimer` `"rearm"`: an ISR disables and enables its own timer: two chains of alarms.
  `"rebegin"`: `timerBegin` on a timer with a booked alarm: the alarm fires into the new use.
  `"keep"`: a timer pointer is used after `Sim::reset`: its handle may name another callback.
- `I2c`: every transfer begins with `beginTransmission`. A `write` of code that forgets it, inside
  another's open transmission, looks to Wire like the other's, and strict mode cannot tell.
- `Gpio` (and `Arduino`) `"reattach"`: `attachInterrupt` twice on a pin. `"rewrite"`: an ISR changes the
  pin whose listeners are being called.
- `Boots` `"pending"`: a test ends with a timer wake-up enabled and not slept on. `Sim::reset` does not
  clear it, and `SleepExact` fails in the next test.
- `Dut`: of the firmware nothing is assumed but that it prints whole lines. It may fall silent for
  ever, and then `expect` never returns: `ExpectEnds` names that exception. One process stands for
  `pio` and the binary it runs.

## Runs

| Run | Checks | Shows |
|---|---|---|
| `clock` | `HTypeOK` `NothingOverdue` `HandlesAccounted` `FiringOrder` `ReturnsWithNothingDue` `ClockMonotone` `BookSpec` `AdvanceTerminates` | Whatever callbacks do, nothing is overdue, lost or fired twice, and every `advance_us` returns; with callbacks that advance no further than their caller time is monotone and the order of firing is the promised one; the schedule implements `AlarmBook`. |
| `clock_overshoot` | `FiringOrder`, violated | With callbacks that do advance further the promise of `clock.h` fails. |
| `hwtimer` | `OneAlarm` `AlarmOnTime` `OthersUntouched` `AdvanceTerminates` | The chain of alarms neither breaks nor forks, ISRs are on time, no stale handle cancels another's callback, over several tests. |
| `gpio` | `ListenersUpToDate` `ListenersKnow` `OneRunPerEdge` `BareWritesReported` `RunsOnlyAttached` `SetLevelTerminates` | ISRs that write the other pin, by `set_level` or by `digitalWrite` under strict mode: every listener hears of every change, once, and knows the level of its pin when the loops are over, unless `pinMode` pulled it; no ISR outlives its detach or its test; E001 names just the pins that were written in strict mode without being outputs. |
| `gpio_reattach` | `OneRunPerEdge`, violated | A second `attachInterrupt` makes one edge run the ISR twice, against the comment at `interrupts.cpp:32-33`. |
| `rtos` | `QueuesAreFifo` `HoldersBounded` `LiveTasksRun` | Bounded FIFO. A semaphore, which has no owner, admits as many holders as it has units and one more for each give by a task that had none: a mutex excludes if only holders give. The name of a live task runs it or, if there is one, a later task of that name: a name that is reused takes the older task's place for good. |
| `rtos_slots` | `RefusedOnlyWhenFull`, violated | Task slots leak across resets until `xTaskCreate` fails. |
| `sim_run` | `OneLoopPerMillisecond` `EventsInTimeOrder` `PulseExact` `RunReturns` | `runUntil` is as predictable as its comment says, whatever the callbacks of the clock do: one `loop()` per millisecond, no overrun; a pulse holds from the end of its first write for just its length, and restores what it found unless its second write makes sketch code write the pin again; the log is in the order of time; calls return. |
| `network` | `EachMessageOnce` `RequestsAnswered` `CallsSeen` `LoopsDrain` | Nested loops of two clients take every message once and in order, and leave none waiting; a seeded response answers the first request for its URL and no other; a test finds every request, publish and subscribe in the records, in the order of the calls, callbacks' calls included; each report of strict mode is about an offence of its own, and no offence that the code checks for is missing. |
| `boots` | `ReadsLastPut` `SerialExact` `SleepExact` `ReportsJustified` | Over wakes and tests: what is read of the store is what was last put there, as the type it was put as; nothing emitted or injected is lost or misdirected, and the sizes returned are those emitted and those that `printf` counts and loses behind a NUL; a sleep takes its own timer; strict mode accuses no object that was begun since the boot. |
| `dut` | `BufferExact` `ExpectHonest` `StopEnds` `ExpectEnds` | `expect` returns the first matching line ever read, or times out after its deadline with no such line, and reads at most one line after the deadline (a compiled `Pattern` given to `expect` is excepted by name); the buffer loses no line but those unread at `stop`, `stop` always leaves no process, `expect` ends but for a child that is silent for ever. |
| `i2c` | `CorruptionReported` `NoFalseReport` `TransfersExact` | Whoever gets into whose transfer, bytes that arrive wrong or at the wrong address are reported by strict mode by then, and code that keeps apart is never accused; an undisturbed transfer is exact, register pointer, mirrored register, full buffers and failed requests included. |

**Bounds.** The clock needs three entries to tell first, same time and later apart, four handles so that
one is booked from inside a callback while others are pending, and a nesting of three so that a frame
has a caller that itself has one. Time runs to 4 microseconds with advances of 0 to 3, so entries lie
before, at and after every target. `hwtimer` has one timer and dividers 80 (given as 0) and 120: with
120 an alarm of 1 tick is rounded down. `MaxHandle` is never reached by an alarm's own re-arming (it
would block the lambda, and `AdvanceTerminates` would fail). `gpio` has three kinds of behaviour
(`MCRooms`): two pins, so that an ISR of one can write the other, with two listeners each, an ISR's and
a test's, without strict mode; a flash pin and a number out of range with strict mode; a strapping and a
USB pin whose ISRs write each other with strict mode; at most two reports in both; `rtos` has two slots
and two names and creates three tasks a test, so that a name is reused while its task lives and after it
was deleted, and slots run out; a semaphore of two units is taken twice by one task and given twice by
one that has none. `sim_run` has milliseconds of two microseconds, so that calls begin and callbacks
fall on and between them, and timeouts of 0 and 2, so that a run has a first and a last iteration; a
pulse of one millisecond and delays of half of one, so that a routine makes its first write late and
callbacks fall into the hold; four events, so that both writes of a pulse, a routine's and one more are
logged; two nested advances, so that a callback or a routine delays inside the hold. `network` has four
kinds: two clients, four messages and loops three deep, so that a loop is called from a callback of
another client's loop and messages arrive at every depth; two HTTP clients, two URLs of which one is the
empty one, and four requests or seedings, so that a response is replaced, taken by the other client, and
missed; a client that publishes and subscribes, at the top and in callbacks two loops deep; strict mode,
with one look at WiFi that is checked and one that is not. `boots` has five: ports that print four
bytes, with texts of one and two and a `printf` cut at one, with and without a NUL in what is left;
ports that read three injected bytes, by numbers of which one has no channel; two objects on two names,
a long one included, with one key of two types; three sleeps, so that a wake is followed by another; a
port and an object over boots. `dut` has strings found in one of two texts and a regular expression that
matches both and is spelled in neither, a pipe of two lines, so that the child blocks, five lines and
two processes, so that lines of the first are matched while the second runs. `i2c` has transfers two
deep, buffers of three bytes and a pointer that goes one beyond the two registers, so that a write and a
read are cut, a read goes past the last register and the pointer wraps; one transfer addresses a device
that is not there, the others one that may come and go.

**Fairness.** One thread runs to completion: a loop of the simulator that can take a step does (weak
fairness of its steps, those of `pulse` between its writes included), and a piece of sketch code
returns. A callback can be suspended by an advance or a write of its own, and so can an interrupt
routine (`IsrReturns`); its return is not continuously enabled, and strong fairness is what "it is
finite code" means. Nothing is assumed about which calls a sketch makes. The bound on handles stands for
"callbacks schedule finitely often". `dut` assumes that time passes (`DeadlinePasses`, `WaitTimesOut`),
that the test's thread runs, and that the operating system completes a write when there is room and
delivers signals (`WriteEnds`, `Dies`); nothing makes the firmware print or exit.

## Theorems

Every safety property of the passing runs is proved, with the one exception given below: for every
set of callbacks, pins, clients, ports and so on, every value of the bounds, every room, and from the
assumptions of the modules about the types of their constants. Where a theorem needs that callers
keep from a use that the code does not refuse, it says so as the runs do: `~Overshoot`, or the liberty
that is not taken. Each rests on an inductive invariant, which is named here with the reason for it.

**Clock** (`ClockProofs`)

- `ClockInvariant`: `TypeOK` and `ClockInv`. `NothingOverdue` is not inductive: after `FireNext` the
  remaining entries are not overdue, and `LeaveAdvance` overtakes none, only because the first
  entry is the earliest. `ClockInv` adds `Sorted` (strictly by time, then by handle) and `Issued`
  (every handle in the schedule is below the next one), which is what makes an entry that is
  inserted after its equals also greater than they are.
- `NeverOverdue` and `NothingDueOnReturn` follow from it, the second from the exit test of the loop.
- `NestedInTime` and `Monotonic`, under `~Overshoot`. `TargetsNested`, which the first states, is a lemma for
  the second and no run checks it by itself.
- `ImplementsBook`: each step of the clock is a step of `AlarmBook` or a stutter. The lemmas
  `ScheduledSet`, `CancelledSet` and `FiredSet` say what the operations on the sequence do to the
  set of entries; that an entry occurs once in it follows from `Sorted` being strict.
- `EveryHandleAccounted`, with the inductive invariant `Accounted`, which speaks of the set.
- `FiresInOrder`, under `~Overshoot`: with `FiredBefore` (all that has fired precedes all that is
  pending, and none of it is in the future), which needs `Monotonic`.

**Unity harness** (in `ClockProofs`, so that the clock's theorems are at hand). `SimAssumption` says that
the advances which the harness and the sketch make are among the clock's `Delays`.

- `HarnessUsesClock`: a behaviour of the harness is one of the clock. All that is proved of the clock
  holds in it, and the next theorems use it.
- `LoopOnceAMillisecond`, `TimeoutsAreReal`, `PulsesAreExact`, with `HarnessInv`: one conjunct for each
  place the harness can be at. While a step of a millisecond or a pulse is on its way, what is
  fixed is not the time, which callbacks move, but the target of the outermost advance. The
  interrupt routines that a write runs are kept apart by the depth they run at (`NoRoutine`): only
  those at depth 0 delay a pulse by themselves, the others end before the advance they run in.
  `TimeoutsAreReal` (a `runUntil` that gives up has looked at the predicate after the last thing that
  could make it true) is of `NoFalseTimeout`, which is proved only and checked by no run.
- `LogInTimeOrder`, under `~Overshoot`: `LogInv` says that the last event is not in the future, and
  needs `Monotonic`.

**Hardware timers** (`HwTimerProofs`): `ChainOfAlarms`, `IsrsOnTime` and `OthersLeftAlone`, for
`Liberties = {}` and with any overshoot. `OneAlarm` speaks of positions in the schedule and of timers
that are enabled; to be kept by a step it needs that the booked alarm is the one `due` says
(`Armed`), that a timer has its lambda in one frame at most (`OneFrame`), that a lambda which has not
yet read its timer is in the innermost frame (`StartsOnTop`), and that whatever entry has the handle a
timer still holds is the timer's own (`Held`): this is what makes a stale handle harmless, and it
rests on handles being issued once (`Handles`).

**Pins** (`ArduinoProofs`)

- `EdgeRunsOnce`, if no pin is attached twice: `OneIsr`, one listener of a pin at most runs its ISR, and
  a loop that has run it is past it.
- `NobodyMissesAnEdge`, if no ISR changes the pin that is being announced; `OnlyAttachedRun` with
  `SlotInv`, since a slot alone may hold the ISR of an earlier test.
- `PinsAsInGpio`: the Arduino calls implement `Gpio`, so the theorems about `Gpio` hold for them.
- `OnlyPullsAreSilent`, on the same condition as `NobodyMissesAnEdge` and from its invariant: what a
  listener knows when no loop is going on is the level of its pin, but where `pinMode` pulled it.
- `BareWritesAreReported`, with `WritesInv`: the table of modes, which every test and ISR shares, holds
  OUTPUT just for the pins in `outputs`, and a report of E001 and an entry of `bare` come together.

**Wire** (in `ArduinoProofs`): `CorruptionIsReported` and
`NoReportWithoutMisuse`, for any nesting of transfers. As long as nothing is reported, what the wire
holds is what the one transfer that writes has said so far, and those started in the middle
of it have not begun (`Mine`); as long as nobody has misused the wire, it is open just when the innermost
transfer writes (`Kept`); and a transfer is as far as its calls have been counted (`Counted`).

**FreeRTOS shim** (`RtosProofs`): `Fifo`; `UnitsHeld`, with `UnitsKept`: the units in the semaphore and
those held are those it began with and the stray ones; `LiveTasksCanRun`, with `TaskInv`: a name is
registered for its last creation, and no slot holds a creation that is not of its name.

**Sketch over boots** (`BootsProofs`)

- `StoreIsExact`, with `StoreInv`: a slot has the kind, and in that kind's field the value, that was
  last put; the fields of other kinds may hold anything.
- `SleepIsExact`, if no test leaves a timer pending.
- `Justice` (an action property): what has been begun since the boot and not ended is begun for the code
  too, since nothing but an end undoes it (`BegunInv`).
- `PortsAreExact`, with `SerialInv`: the bytes sent to a port are numbered upwards and below the number
  of those printed. The sizes returned exceed the bytes emitted by those that `printf` hides behind a NUL.

**Network** (`NetworkProofs`)

- `MessagesHandedOnce`, with `MqttInv`: the messages that wait are the last ones delivered, those
  before them are handed over or dropped, not both.
- `AnswersAreExact`, with `RequestInv`: what the table of responses holds for an URL is the last seeding
  that no request has followed. The record of calls only grows at its end; the lemmas about `AskedIn`
  and `OwnIn` say what one more call does to the last one asked for.
- `CallsAccountedFor`, with `SeenInv`: the lists are those of the calls that belong in them, in order
  (`Lists`), and there is a number of a call for each report (`Accounts`). What it says of the reports
  goes both ways, but the way from the offence to the report for those only that the code checks for.

**pytest plugin** (`DutProofs`): `NothingLost`, with `LinesInv`: lines are numbered by their place
among those printed, and there is room for the one being written.
`Honesty`, with `HonestInv`: `expect` goes on only while it finds its pattern in nothing that was read,
and it reads at most one line after its deadline. That what it looks for is what its docstring calls a
match is proved of every call but `expect` of a compiled `Pattern`, which the property excepts by name.

Further `TypeCorrect` for the clock, the timers, the shim, the boots and the plugin; for the other modules
the types that a proof needs are part of its invariant.

The steps of these proofs follow the actions: one lemma says what an operation does to the data
(an insertion, a removal, a new top of the stack), and the step of the invariant uses only that.

**Only model-checked**

- `AdvanceTerminates`, `SetLevelTerminates`, `RunReturns`, `LoopsDrain`, `StopEnds` and `ExpectEnds`:
  liveness under fairness is out of the prover's reach.
- `TransfersExact` for Wire: what a fold over the bytes of a write leaves in the registers is induction
  over data. It is also about programs such as the run's: those that read write no more than a register
  number first, and none writes a register before the one that mirrors into it.
- The three violated properties, which are false: `FiringOrder` with `Overshoot`, `OneRunPerEdge` with
  `"reattach"`, and `RefusedOnlyWhenFull`.

## Where the code and its documentation disagree

Three disagreements are runs of their own, with a counterexample: `clock_overshoot`, `gpio_reattach` and
`rtos_slots`. In the following the models do what the code does, and the properties that speak of the
matter except it by name, so no passing run says that these promises are kept:

| Code | Documentation |
|---|---|
| `attachInterrupt` checks no pin rule (`interrupts.cpp:29`). | E002 and E003 are about any "GPIO operation" on a flash pin or one out of range (`strict-mode.md:80-81`). |
| Only `pinMode` checks for E007 (`arduino.cpp:86`). | "GPIO 19 or 20 used as GPIO" (`strict-mode.md:84`). |
| `publish` of bytes on a client that is not connected reports nothing (`pubsub_client.cpp:31`). | E052 is "`PubSubClient::publish` on a disconnected client" (`strict-mode.md:112`). |
| `WiFi.SSID()` reports nothing (`wifi.cpp:63`). | E050 lists `SSID()` with `localIP()` and `RSSI()` (`strict-mode.md:110`). |
| `expect` looks for the `str()` of a compiled `Pattern` (`plugin.py:101,150-152`), so it times out with a matching line in the buffer. | A `Pattern` is matched as a regular expression (`plugin.py:97-98`). |
| `_read_line` ignores `max_wait` (`plugin.py:177`): a line printed after the deadline is still returned, and with a silent child `expect` never returns. | `DutTimeout` "if no match within timeout seconds" (`plugin.py:98-99`); calls block until a match or until "the deadline expires" (`pytest-plugin-architecture.md:38-39`). |

## Plan

1. Done: clock, timers, GPIO, FreeRTOS shim, Unity harness, incoming MQTT, I2C; the clock's
   theorems.
2. Done: strict mode's rules where they are called, the Arduino calls on pins, serial ports,
   Preferences, deep sleep and boots, the rest of the network, the pytest plugin.
3. Done: the proofs of the safety properties of all runs but `TransfersExact`.
4. Left: theorems that the compositions implement their parts, as `PinsAsInGpio` does for the pins
   (`Boots` its ports and its store, `Network` its `Mqtt`); that nothing is overdue on a clock whose
   callbacks are timers; the type invariants of `Network` and `I2c`.

## Not modelled

- The text of log lines and of strict-mode messages, and how numbers are formatted: the buffer of
  `print(long, BIN)` is too short for a long of more than 33 bits, which is undefined behaviour.
- The file system of `storage.cpp`, a map from path to contents with one call per operation.
- SPI: one selected device, and a table of devices. What code that selects another device in the
  middle may expect is nowhere stated, so there is nothing to check it against.
- ADC, PWM and BLE, which are tables of what was last written, and with them the rule E004; E021 and
  E040, which judge one argument of one call.
- MQTT topics and payloads, HTTP headers and status codes, WiFi credentials, addresses and signal
  strength: data that the code passes along. Subscriptions are recorded and never looked at.
- In `SimRun`, `detachInterrupt` and more than one listener: `Gpio` has them.
- The internal arithmetic of the fake sensors; wrap-around of 64-bit times.
- How a regular expression of the plugin matches, its fixtures, and output that ends without a newline.
- Undefined behaviour that the code cannot survive: appending to a listener vector that is being
  iterated over, replacing a task's function while it runs.
