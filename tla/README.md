# A verification project for TimeSwipe

TimeSwipe is a measurement board for the Raspberry Pi.  `src/src/firmware` is the
program of its microcontroller (SAM E54), `src/src/*.cpp, *.hpp` the C++ driver that
runs on the Raspberry Pi.  Both speak over SPI; the measured data come over a
parallel bus of GPIO pins.  This directory holds TLA+ models of the parts whose
correctness depends on order, concurrency and failure, the TLC configurations that
check them, and proofs for every value of the constants.

Paths below are relative to `src/`; `driver.cpp:383` means `src/driver.cpp`, line 383,
and `firmware/...` means `src/firmware/...`.

- [1. The system](#1-the-system)
- [2. The modules](#2-the-modules)
- [3. Runs, bounds and fairness](#3-runs-bounds-and-fairness)
- [4. Proofs](#4-proofs)
- [5. Where code and documents disagree](#5-where-code-and-documents-disagree)
- [6. What is not modelled](#6-what-is-not-modelled)
- [7. Plan](#7-plan)

## 1. The system

| Component | State | Operations | Hard behaviour | What makes it correct | Module |
|---|---|---|---|---|---|
| Measurement pipeline (`driver.cpp`, class `iDriver`) | `threads_`, `is_threads_running_`, `is_measurement_started_`, `record_queue_`, `record_error_count_`, `read_skip_count_`, `burst_buffer_`, `resampler_`, `calibration_slopes_` | `start_measurement`, `stop_measurement`, `set_driver_settings`, the threads `data_reading` and `data_processing` | two threads and a caller, possibly the handler itself; a lock-free queue that is safe for one producer and one consumer only; exceptions halfway through a start or stop | data in order, to the right handler, no loss that is not counted; no thread and no record outlives its session; calls return | `Measurement`, refines `RecordStream` |
| Character link (`bcmspi.hpp`, `synccom.hpp`, `serial.hpp`; `firmware/base/SPIcomm.cpp`, `firmware/sam/SamSPIbase.cpp`) | flow control of each side, FIFOs, the character in the SPI data register | `execute` in the driver; interrupt routine, main loop and `send` in the firmware | two processors, an interrupt, time-outs, answers that come late | each request executed once, in order, answered with its own answer | `SyncCom`, refines `RemoteCall` |
| Board (`firmware/board.cpp`, `channel.hpp`, `dms_channel.*`, `pga280.*`, `hat.hpp`, `control/ADpointSearch.*`) | mode and gain of each channel, amplifier registers, offset DACs, EEPROM cache, errors, ADC enable | setting requests, calibration writes, menu, offset search, start-up | settings in any order; failed transfers; loss of power while the EEPROM is written | every DAC holds the offset of the present mode and gain; cache and chip agree; entries are not lost | `Board` |
| EEPROM master (`firmware/sam/i2c_eeprom_master.cpp`) | `state_`, `io_buffer_`, `page_bytes_left_`, `eeprom_current_address_` | `send`, `receive`, self-test, interrupt routine | main loop and interrupt share the transfer; time-outs, retries, a busy chip | success means that the chip has the image; `send` ends | `Eeprom` |
| Drift compensation and driver settings (`driver.cpp:182-261, 444-566, 640-689, 1120-1168`, `driver_settings.*`) | settings, reference file, cached references, deltas, the guard's stash | set and merge settings, calculate, read and clear references and deltas | a measurement inside a call; a wait for a handler in another thread; settings changed and restored; a killed process, a restarted board | references in use are on record, deltas are not there without any; drift is measured under the settings meant for it; a call that gives a result has ended its threads | `Drift` |
| Settings protocol (`firmware/settings.hpp`) | the parser's state, the settings' values | lines character by character, get and set, `all` and `basic` | broken lines; writes that fail half way | a line is answered by itself; a write sets a prefix | `Settings` |
| Settings documents (`board_settings.*`, `driver_settings.*`) | a JSON document each | constructors, setters, getters, merging | types and edges of integers; settings that exclude each other | what was given is what is read | `Documents` |
| Resampler and filter (`resampler.hpp`, `fir_resampler.hpp`) | last rows, phase, offset, rows still to crop | `apply`, `flush` | any cut of the stream into chunks | the cut does not show; right number of rows; buffers filled exactly | `Resampler`; `Measurement` has rows held back and flushed |
| Data bus (`Gpio_data`, `read_data` in `driver.cpp`) | bytes of a set, the skip count | clock, read, skip, append | bits of four channels spread over eight bytes; the end of a bank told in the middle of a set | a table is a bank | `DataBus` |
| Process lock (`pidfile.hpp`) | the file, its name, its lock | open, lock, write, close, unlink | other processes between any two system calls, processes that die | one owner, whom the next one meets | `PidFile` |
| Button, menus, views (`firmware/pin_button.hpp`, `control/NewMenu.*`, `control/View.*`) | times and flags of a click, menu position, view and its delayed step | a turn of the main loop, markers, search | delayed steps of one view meet the next one | no press counted twice; display and menu in step | `Panel` (effects on settings in `Board`) |
| LEDs (`firmware/led/nodeLED.*`, `CViewChannel`) | on, colour, phase, count | views, data, flashes | each operation sends the pixel itself | what is lit is what was told | `Led` |
| HAT image (`hat.hpp`, `firmware/sam/SamI2Cmem.*`) | image, atoms, address, byte loaded | start of the board, calibration writes, the slave's interrupts | atoms that grow in place; a byte loaded ahead | the image is its atoms; the Pi reads in sequence | `Hat`, its data in `Atoms` |
| Amplifiers and shift register (`firmware/pga280.*`, `shiftreg.*`, `pin.hpp`) | registers, image of the shift register, what the driver remembers | set mode, set gains, select, pins | one line and one shift register for all; writes lost, answers garbled | pins keep their state; a write confirmed is a write done | `Amplifier` |
| Receive buffers (`serial.hpp`, `firmware/base/SPIcomm.cpp`) | two buffers, sinks | receive in the interrupt, hand over in the loop | memory swapped between the two | the loop hands over the frame it has taken | `Fifo` |
| Voltage output (`firmware/adcdac.hpp`, `base/dac_max5715.cpp`) | value, raw number, factors | construct, connect, set, enable, calibrate | value, factors and switch set in any order; frames lost | the chip puts out the value that is answered | `Voltage` |
| Fan (`firmware/base/FanControl.*`, `PINPWM.*`, `PWM.h`) | speed, frequency, timer | update, settings, compare registers | the timer counts while its period is written | the fan does what was set | `Fan` |
| Everything else | | | | | see [6](#6-what-is-not-modelled) |

How they interact.  The application calls `iDriver`; `iDriver` sends each request over
the character link (`execute`) and waits for the answer.  The firmware's main loop
(`firmware.cpp`) polls the link, lets the settings dispatcher execute a request, and
between requests runs the button, the menu and the offset search; a handler changes the
board.  A calibration write ends in the EEPROM master, which blocks the main loop.  Once
the ADCs are enabled (`channelsAdcEnabled`), data sets arrive at the driver's reader
thread without further requests.

So the models are connected as follows.  `Measurement` takes an exchange with the board
to have one of three ends: carried out and answered, carried out and failed, not carried
out and failed.  `SyncCom` shows when a link exchange is a call (`RemoteCall`) and what is
left of it when the firmware is slower than the driver's patience.  `Board` treats a
request as one step, which the main loop justifies: nothing else changes the board's state
while a handler runs.  It takes the write of the EEPROM to succeed with the new image, or
to fail with the old, a damaged, or the new one; `Eeprom` shows when the first is true.
`Drift` takes a measurement to be a handler that may be called between start and stop, which
`Measurement` justifies.  `Hat` has the image of which `Board` knows one atom, and `Atoms`
the bytes of an atom, which `Hat` moves as a whole.

The hazards we looked for, each at its line with the properties that catch it, are listed
in `PROJECT.json`.  Where several lie close together, one entry stands for them.

## 2. The modules

### Measurement

State: the fields of `iDriver` by name (see the comments at the declarations), one program
counter per thread and session (`reader[s]`, `proc[s]`), one for the API call in progress
(`call`), and three history variables (`lost`, `delivered`, `reported`).  A row is
`<<s, k>>`: the session whose reader read it and the number of the data set since the ADCs
were enabled, which is all that order and loss need.

One action per stretch of code between two accesses to shared state:

| Actions | Code |
|---|---|
| `StartCheck`, `StartRefused`, `StartPrepare`, `StartEnable`, `StartFlags`, `SpawnReader`, `SpawnProcessor`, `SpawnFailed`, `Unwind` | `start_measurement`, 268-403, with its catch block |
| `StopCheck`, `StopSignal`, `StopJoin`, `StopDisable` | `stop_measurement`, 417-442, and `join_threads`, 1099-1111 |
| `AskBoard`, `SetDriverSettings` | `is_measurement_started(true)`, burst buffer size and resampler |
| `ReaderStep(s)`: `ReaderCheck`, `SkipInvalid`, `ReadData`, `Push` | `data_reading`, 918-975: check the flag, read, skip, push or count the loss |
| `ProcessorStep(s)`: `Pop`, `FetchErrors`, `Process`, `Flush`, `HandlerReturns` | `data_processing`, 977-1039: pop, fetch the error count, resample, buffer, call the handler, flush |
| `BoardRestart` | the firmware restarts and forgets `channelsAdcEnabled` |

The resampler is modelled by what the pipeline sees: it holds up to `hold` rows back and
gives them up in `flush`.  That its output is not its input is data.

`RecordStream` is the promise to a data handler, free of threads: a first-in first-out
stream.  A data set that has arrived enters it or is refused (`Refuse`), which is possible
only behind `Capacity` others and is counted; what has entered is handed over or, once the
measurement is told to stop and nothing is left to arrive, thrown away (`Discard`).
`MeasurementStream` gives the refinement mapping: the stream is burst buffer, resampler,
popped batch and queue, one behind the other, what has arrived is the row in the reader's
hand, and the measurement is on while `is_threads_running_` is.

### SyncCom

Both ends of the SPI link.  The driver is the master: each clock exchanges one character.
`Begin`, `SendRequest`, `AddClock`, `ReceiveAnswer` are the phases of `Bcm_spi::execute`;
`Update` is a round of the firmware's main loop, `Work(n)` the execution of a request with
an answer of `n` characters, `Reply` the answer character by character, `GiveUp` the
firmware's time-out inside it.  Every clock runs the interrupt routine.  `CSyncSerComFSM`,
which both ends use, is one operator on a record (state, counter, target), translated
from `synccom.hpp` state by state.  `0x80` and `256` are the constants `Flag` and `Radix`,
so that lengths of two bytes occur with short messages.

`RemoteCall` states what a link has to be: a call is executed once, while it is in
progress, and returns the answer given to it.  `SyncComCall` is the mapping.

### Board

State: see the declarations.  Channel settings and their effects (`SetMode`, `SetGain`,
`SetDac`), amplifier transfers that fail unseen (`Amplify`), `EnableAdc`,
`EnableCalibration`, the menu (`MenuGain`), the offset search (`StartSearch`,
`SearchStep`), calibration writes (`WriteData`), writes cut by a loss of power
(`WriteCutShort`), restarts (`Restart`), the self-test of the chip (`SelfTest`).  `build`
holds the compile-time options and is chosen once.

Offsets are a small set in which 0 stands for the default (2048, 4344 for the supply).
History: `known` is what the chip was last told and has acknowledged for each calibration
entry; `blind` marks a start that could not read the chip; `tested` a self-test, which
overwrites part of the image by design.

### Eeprom

`Sam_i2c_eeprom_master::send`, its helpers `submit__`, `write_next_page` and
`read_back_and_compare__`, the interrupt routine `handle_irq` and the chip.

| Variables | Code |
|---|---|
| `step` | where `send` is; each wait loop (333, 366) is a value of its own |
| `state`, `dir`, `attached`, `addr`, `pageLeft` | `state_` (the address bytes are part of `"start"`), `io_direction_`, `io_buffer_ != nullptr`, `eeprom_current_address_`, `page_bytes_left_` |
| `cursor` | the read position of the FIFO both sides share |
| `reading` | the chip is sending, so each byte raises the interrupt "slave on bus"; that branch (442-464) does not look at `state_` |
| `chip`, `at`, `latch`, `busy` | CAT24C32, modelled from how the code uses it: bytes of a page are stored at the stop condition, and no address is acknowledged meanwhile |

Of that branch, `ReadByte` compares a byte, `EndOfRead` ends a comparison (all bytes seen, a
difference, or no buffer any more), and `SlaveNack` is a byte that the master is told was not acknowledged
(444-448): the transfer is halted wherever the comparison stands.  An interrupt that comes
behind an error overwrites it: `errTransfer` becomes halted too.

The wait's end and the reading of `state_` at 372 are two actions (`CompareEnds`,
`CompareResult`), because the interrupt may come between them.  The same holds for the
clock and the state in `write_next_page` (`PageTimeout` does not look at the state).
Byte `i` of the image is the number `i`; everything else is `Foreign`: which wrong byte
the chip holds makes no difference.

### Drift

The calls of the application are single steps (`SetDriverSettings`, `ReadReferences`,
`ClearReferences`, `ClearDeltas`, `Start`, `Stop`), a calculation is a series of them, one
for each place where an exchange may fail or another thread act: `Stash`, `ChangeModes`,
`ChangeRate` (the guard's constructor, 652-680), `StartCollecting`, `Wait`, `StopCollecting`
(1123-1161), `RestoreDriver`, `RestoreBoard` (the destructor), `WriteFile`,
`CacheReferences`.  `Killed` ends the process at any of them and `BoardRestart` the firmware.
A board that has forgotten its modes, a file that was cut short, a level that drifts are
values of `mode`, `file` and `level`.

`start_measurement` and `stop_measurement` ask the board, not the driver, whether it measures.
So `handlers` is a set: after a restart of the board the threads of the measurement live on
and a second pair can be begun beside them.  `Begun`, `NotBegun`, `Stopped`, `NotDisabled`,
`NothingToStop` and `NotAsked` are the ends that starting and stopping have, for the
application and for a calculation alike; `Read`, `Process`, `Collect` and `Notify` are the
threads.  `queue` is the modes under which what is on its way to a handler was measured.
`start_measurement` does not drain it, so rows of an earlier measurement may be in it.
History: `base`, the references the deltas were computed from, and `orphans`, that the
board has restarted under threads or rows which no stop has removed since.

### Parts

Thirteen modules describe parts that share no state with others.  `Parts` puts them side by
side for one run: `part` chooses at the start which of them a behaviour is about, the others
rest.  In each of them the code's names are kept, with a prefix that tells the modules apart.

| Module | Steps | Property |
|---|---|---|
| `PidFile` | one per system call of one process; a crash at each | `PidExclusive`: one owner, and its file is the one of that name, unless an unlink has come late |
| `Resampler` | `RsApply` with a chunk of any size, `RsFlush`; an output row is the phase and the window of input rows it is computed from | `StreamIsWhole`: the rows are those of filtering the extended stream at once, as many as the factors ask for, in buffers of exactly the right size |
| `DataBus` | a clock edge pair, the skipping and the appending of a set; the layout of bits and pins is translated | `BanksArriveWhole`: a table is a bank, sample for sample; the driver stays in step with the board |
| `Settings` | a token of a line: name, type, value, end | `LinesAnswered`: a broken line changes nothing, a read changes nothing and tells the values, a write of several sets a prefix |
| `Panel` | a turn of the main loop with any level of the button | `PanelInStep`: no press in two clicks; no late step closes an open menu or keeps a closed one |
| `Led` | the operations of views, data and time on one LED | `LedTruthful`: the pixel is what the state says; n flashes are n |
| `Hat` | start of the board, calibration writes, the slave's interrupts | `ImageReadable`: image and chip read back as their atoms; each byte the Pi gets is the next |
| `Amplifier` | one register write with its read back; pins in between | `WritesReachTheirChip`: pins keep their level; a call that returned true has set its amplifier |
| `Fan` | writes of the compare registers, the check behind them, counts of the timer | `FanObeys`: the timer counts as set, never beyond its period |
| `Atoms` | filling, dumping and resetting the object of an atom, images of other firmware | `AtomsReadBack`: what was dumped is read back; a refused reset changes nothing |
| `Documents` | setters, merges, texts | `DocumentsHold`: values come back in a type wide enough; burst buffer size and frequency are never both set |
| `Fifo` | characters of a frame, the swap, the hand-over, sinks that come and go | `FramesHandedOver`: the loop hands over the frame it has taken, in order and completely, while the next comes in |
| `Voltage` | start-up, setting of value, raw number, calibration and switch, lost frames | `OutputIsValue`: when the bridge can be on, the chip puts out the value that is answered |

## 3. Runs, bounds and fairness

Each property has a mutant, a plausible bug in one definition (the operators named `Bug...`)
under which the run finds it violated.

| Run | Bounds | Shows |
|---|---|---|
| `measurement` | 2 sessions, 5 data sets each, 2 faults, queue of 2, pop of 2, 1 invalid data set, burst sizes 0 and 2, 0 or 1 rows held back | `TypeOK`, `SingleProducerSingleConsumer`, `SessionsStandAlone`, `DeliveredInOrder`, `NothingVanishes`, `BlocksReachBurstSize`, `MarkersNotInvented` and the refinement `ImplementsStream` |
| `measurement_live` | 1 session, 4 data sets, 1 fault, 1 restart, handlers that stop | `CallsReturn`, `BuffersFlushed` |
| `loss_reported` | 1 session, 8 data sets, queue of 3, burst size 3 | counterexample to `GapsAreMarked` |
| `synccom` | 3 requests, lengths 1, 2, 5 (5 has a high byte), a firmware at most as slow as the driver is patient | `EveryRequestAnswered` and the refinement `ImplementsCall` |
| `synccom_slow` | 3 requests, a firmware up to 8 times slower than the patience, a buffer of 2 for messages of 2 and 3, one pause of the driver | `UndisturbedIsTrue`, `ExecutedWithinBounds`, `ExchangesEnd` |
| `stale_answer` | 2 requests | counterexample to `AnswerIsToTheRequest` |
| `board` | 2 channels, 2 offsets, 1 gain besides the default, 1 calibration write | `CalibrationInEffect`, `MeasurementConfigured`, `CacheMatchesEeprom`, `EntriesSurvive`, `FrozenOnDms` |
| `eeprom` | an image of 3 bytes in pages of 2, 3 attempts, 2 disturbed transfers and 1 time-out in each `send`, any number of them | `SentIsStored`, `GivesUpForAReason`, `SendEnds` |
| `drift` | 4 rows instead of 240, 2 channels, 1 sample rate, a level that drifts by 1, 2 faults, 1 killed process, 1 restart of the board | `DriftDataHold`, `CollectsUnderDriftSettings`, `HandlersEndOrAreReported`, `DeltasStableWhileProcessed` |
| `drift_dies` | the same without faults | counterexample to `CalculationSurvives` |
| `parts` | see below | the properties of [`Parts`](#parts) |
| `resampler_dies` | the filter length of the code, rates 1000 and 24000 of 48000 | counterexample to `FlushSurvives` |

Why the bounds are enough.

- *Measurement*.  Leaks from one session to another need two; a wrong session number, a
  thread that survives, a queue or buffer that is not empty would show in the second.  Five
  data sets fill the queue, the resampler and the burst buffer together and overflow.  Two
  faults allow a failed start and a failed stop in one behaviour, and a stop that fails
  twice.  In the code the queue holds 3000, a pop takes 10, 32 sets are skipped; the small
  numbers keep the relation "queue not smaller than a pop" and make full and empty common.
- *SyncCom*.  An exchange depends on what the one before has left behind in the
  interrupt routine, the data register and the main loop; a third shows that the
  disturbance of the first is over or is passed on.  The lengths include one whose low
  byte is 1 and whose high byte is not 0.  `MaxDelay` counts characters, the only time
  both sides have in common.
- *Board*.  Channels are independent but for calibration writes, the menu and the ADC
  enable, which affect all; two show that one is not forgotten.  One write with two modes
  can lose an entry of another mode.  One channel with two gains and two writes (248
  thousand states) was checked with the same result; the theorems of
  [4](#4-proofs) hold for any number.
- *Eeprom*.  Three bytes in pages of two have a full and a partial page, so a repeated page
  can start in its middle and end in the next.  Two disturbances and one time-out are enough
  to use up all three attempts.
- *Drift*.  Two faults and a restart reach every pair of exchanges of a calculation, and a
  calculation beside the threads of the measurement before; a file of two numbers can lack
  none, one, or a digit of the last.  Modes are the same for all channels.  The application's
  settings are a rate or none: burst size and frequency are data to the properties (the
  theorems are for any).
- *Parts*.  The theorems about the parts are for any values of the bounds named here.  `PidFile`:
  two processes and two crashes.
  `Resampler`: factors up to 3, chunks shorter than, as long as and longer than the filter's
  state, streams of up to 14 rows; all five extrapolations that have a row for a value.
  `DataBus`: two data sets whose bits tell every position apart, banks of one or two sets, the
  first two of three skipped.  `Settings`: lines of four tokens (one more than a request),
  objects of two members, one of which may fail.  `Panel`: the code's four menus and times
  in tenths of a second.  `Hat`: a chip of 20 cells, which the buffer can outgrow; calibration
  maps that come, grow and shrink.  `Amplifier`: two amplifiers, whose numbers differ in
  both select bits; gains 0 and 3.  `Fan`: temperatures on both sides of the thresholds.
  `Atoms`: bytes of 32 values, strings of none, two and more than a length byte can tell.
  `Fifo`: a buffer of two, frames of up to three.  `Voltage`: values and raw numbers inside
  and outside of their ranges, three calibrations.

Deadlock is checked everywhere but in the configurations of `SyncCom`, whose system really
stops after `MaxRequests`, and of `Parts` and `Resampler`, where a stream that was flushed,
a process that ended or a last bank is the end.

Fairness (only in the runs with a liveness property).

- `Measurement`: weak fairness of each thread and of the call in progress.  The operating
  system schedules runnable threads; a handler is assumed to return.  Nothing is assumed
  of the application, of faults and of the board.
- `SyncCom`: weak fairness of the driver's exchange and of the firmware's main loop, which
  both poll without blocking.  Not of the beginning of an exchange.
- `Eeprom`: weak fairness of the main loop, of the interrupt routine, and of the chip's
  write cycle (5 ms by its data sheet, against a time-out of 500 ms).  Not of `Send`, of
  disturbances and of time-outs: `send` ends without them as well.

What the runs do *not* claim is part of the properties' statements: `SentIsStored` excludes
a comparison halted before its last byte (a byte not acknowledged, or the buffer taken away
by a time-out or an error while the chip still sends); the three action properties of `Drift`
exclude threads and rows a restart of the board has left (`orphans`); `PidExclusive` excludes an unlink
that came late; `SessionsStandAlone` is about threads, records and the skip counter, and not
about the count of lost records; `EntriesSurvive` excludes failed writes, self-tests and
writes after a start that could not read the chip, because in these cases the code does
lose entries.

## 4. Proofs

The theorems hold for every value of the constants that satisfies the `ASSUME`s of the
module; TLC evaluates these in every run.  Each inductive invariant is a conjunction of
named parts, and its proof has a lemma for each action.  A theorem about a single part takes
the assumption of its module (`FifoAssumption`, `LedAssumption`, ...) as a hypothesis, which
the assumption of `Parts` contains.  Other hypotheses are named with the theorem.

**`MeasurementProofs`**

- `TypeCorrect == Spec => []TypeOK`.  The type invariant is not inductive: that `spawn`
  writes to `reader[session]` is well typed only if `session` is a session number while a
  start is in progress (`SessionNumbered`), so `TypeInv` adds it.
- `ThreadDiscipline`: without firmware restarts (`MaxResets = 0`) and without handlers that
  stop (`HandlerStops = FALSE`) the queue has one producer and one consumer, sessions start
  clean, and after a stop no thread is left, for any number of faults; `SessionsAlone` draws
  from it the property the run checks.  Clean means no thread, no record and a full skip
  counter; `record_error_count_` outlives a session and is not in it.  The inductive
  invariant `ControlInv` relates the program counters to the fields: every live thread is
  owned by `threads_` (`LiveOwned`), threads exist only while the measurement is on, or a
  call is removing them (`ThreadsWhileOn`, `OnDuringCalls`, `OffWhenStopped`), the queue is
  empty and the skip counter full when nothing runs (`QueueReset`), and only the processing
  thread of the session touches burst buffer and resampler (`BuffersOwned`).  Both
  assumptions are needed: with a restart `stop_measurement` believes that nothing runs, and
  a handler that stops the measurement is not waited for.
- `LossReportedOnce == Spec => []MarkersNotInvented`, without these two assumptions: restarts
  and handlers that stop do not make a marker out of nothing.  With the types the property is
  inductive; the work is in the sum over the sessions, a recursive function.  That it exists
  (`SumsExist`) and moves with one session's count (`TotalMoves`) is shown by taking the
  least number of sessions for which it does not.

**`StreamProofs`**, under the same two assumptions

- `DataKept` (`DeliveredInOrder`) and `DataAccountedFor` (`NothingVanishes`).  `StreamInv` adds to `ControlInv` that
  every thread in `threads_` is one of the present session (`ThreadsCurrent`), that a session which has
  not run has delivered and lost nothing (`NotRunYet`), that the numbers begin anew when the ADCs
  are enabled (`CountRestarted`), where the reader's row and the popped batch are empty
  (`HandsEmptied`, `BatchesEmptied`), and then what it is for: the whole pipeline is
  in order (`AllInOrder`) and, with the losses, complete (`AllCounted`).
- `PipelineImplementsStream`: the refinement `ImplementsStream`, one step of `RecordStream` or
  none for each step of the threads and calls.  `RecordStream` guards its losses, so the proof
  has to show that the row in the reader's hand is the only one that is ever refused, and that with a queue's
  worth before it; and that a queue that is drained, or a buffer that is found empty, is so after the stop
  with no reader left (`HandsEmptied`).  What is gone when a start begins was gone already:
  `AllInOrder` makes the pipeline of a new session empty.
- `BlocksLongEnough`: the action property `BlocksReachBurstSize`.  `FlushWhenStopped` is the
  reason the short block at the end comes only when the measurement was stopped.

**`LinkProofs`**

The assumption `LengthsFit` says that a length has 15 bits, as many as its two characters
carry.  The code does not check it (see [5](#5-where-code-and-documents-disagree)).

- `ExecutedInTurn`: `ExecutedWithinBounds`, however slow the firmware and impatient the driver
  is.  `LinkInv` says that the driver's and the interrupt routine's flow control are at the
  same place of the request, and that buffer and rest make it up (`RequestComes`), and
  that what was executed and what is at work came before what is on its way (`InTurn`).
- `NotMisled`: `UndisturbedIsTrue`.  `AnswerInv` follows the answer through its stages:
  the silence before it, each character of its length put into the register and taken from it, the
  text (`InSilence`, `HighPut`, `HighComes`, `LowPut`, `LowComes`, `TextComes`); before it,
  the line is silent (`LineSilent`), so nothing of an earlier exchange can be taken for a length.
- `AnswersComeBack`, `LinkImplementsCall`: `EveryRequestAnswered` and the refinement
  `ImplementsCall`, for requests that fit the buffer, a driver that does not pause and a
  firmware whose delay is within the driver's patience (`Prompt`).  `PromptInv` adds that between two exchanges the
  firmware has nothing left to do (`Rest`), and that the zeros there have been and those to come are
  fewer than the driver accepts (`InTime`): neither side ever times out.
- `FramesHandedOn`: `FramesHandedOver` of `Fifo` for buffers of any size and frames of any length.
  `FifoInv` says that the two buffers never share memory (`Apart`), that the one of the
  interrupt routine has what has come of a frame that fits (`ComesIn`), and that the other
  one has the whole of the frame that was taken (`IsTaken`) while the sinks were given what
  has been read of it (`AllGiven`).  `Apart` is what taking over by swapping the memory is for.

**`BoardProofs`**

- `BoardTypeCorrect`, and `CalibrationHeld == Spec => []CalibrationInEffect` for any number
  of channels, gains and writes.
- `CacheAndChipAgree`, `EntriesKept`: from `CalibrationInv`, the conjunction of the two
  with `KnownIsCached`: when anything is known of the chip and the start was not blind, the
  cache is what the chip holds.  Without it a write would be allowed to replace the chip's entries by a
  cache that never had them.
- `ChipToDac`: the two ends together.  With calibration enabled, no error and no test, an
  entry the chip has acknowledged is the offset in the DAC that uses it.
- `Configured`, `Frozen`: a measuring board is configured, a DMS board frozen.

**`EepromProofs`**

- `SentImageStored == Spec => []SentIsStored`, for every length of the image, every page
  size, number of attempts, disturbances and time-outs.  Writing does not matter for it:
  the invariant `SendInv` says that a comparison only reads (`ReadingOnly`), that what it
  has passed up to the cursor is the image (`Progress`), that after a success the bus
  is quiet, so that nothing can change what was compared (`Quiet`), and that a read is halted
  early only for one of the two reasons the property names (`Reasons`).  It does not say that these successes are
  true: the code does report false ones.  The lemma `EmptyStop`
  is the reason a disturbance during a comparison stores nothing.
- `FailuresHaveReasons == Spec => []GivesUpForAReason`.  Here writing does matter.
  `AttemptInv` counts disturbances, and late transfers twice, against the attempts that have
  failed (`Accounted`); when nothing is left over, this attempt is as it should be (`Smooth`):
  its pages begin at page addresses with all before them stored, what the chip has
  latched is what has been sent of the page, and the comparison reads behind the cursor.  The lemmas
  `WholePages`, `PageAddress` and `PageStored` are the arithmetic of pages, up to a last one
  that is partial.  The two for a late transfer are needed: its interrupt may take a byte of
  the next attempt.

**`DriftProofs`**

- `DriftDataKept` (`DriftDataHold`), `CollectsAsMeant` (`CollectsUnderDriftSettings`),
  `CallEndsItsThreads` (`HandlersEndOrAreReported`) and `DeltasStable`
  (`DeltasStableWhileProcessed`), the last three action properties, for any settings, levels, number of rows, faults,
  killed processes and restarts of the board.  `DriftDataHold` has no exception: what it says
  of deltas is that there are references, and that they were computed from such as some calculation measured, not that
  these are still the ones the driver has.  The action properties except what `orphans` marks; a failed
  stop, a failed start and the threads and rows they leave are not excepted.  All follow from `DriftInv`: the file, the
  references wherever they are, and the mean on its way to them are what a calculation has
  made (`OnRecord`); a calculation of deltas has references, which nobody clears under it
  (`Related`); the threads have the handler of a call only after it has begun to measure, and
  it is gone before the next begins (`HandlerFits`); what the guard has set stays set while rows are awaited
  (`SettingsHeld`); and threads, rows and the cached flag go with a board that measures, unless it
  has restarted under them (`KnownToBoard`).

**`PartsProofs`**

- `OneOwner == PidSpec => []PidExclusive`, for any set of processes and any number of
  crashes.  `PidInv` adds that a process has the file open exactly between open and close,
  that what it owns is locked by it alone (`DescriptorsFit`), and that before a late unlink
  every open file is the one of that name (`OpenIsNamed`), without which a process could
  lock a file nobody else will meet.
- `BanksRead`: `BanksArriveWhole` for any samples, number of invalid banks and lengths of banks.
  `BusInv` says that in the middle of a set the bytes on the bus and the bytes read make up
  one set of the board (`ChunkFits`), that the table is what was sent after the
  invalid banks (`TableFits`, `BanksCounted`), and that a call ends between two banks
  (`BetweenBanks`).  `ChunkIsWhole` is the layout of the bits: the eight bytes of a set give
  back its four samples, `BitsOfByte` by taking the byte off the pins (no two lines share
  one, `PinsApart`), `DigitsAre` by following the word as two bits are shifted in, eight
  times.
- `DocumentsKept`: `DocumentsHold` for any names, limits of rates and numbers tried.  `DocInv` says that
  the document has exactly the members that were given, each as the JSON of its type
  (`BoardFits`), and that of two settings that exclude each other one at most is set
  (`Consistent`).  `GivenIsRead` goes through the types: what the getter returns for each of
  them is the value, if its range has it.
- `LinesHeld`: `LinesAnswered` for lines and objects of any length.  `SetInv` says that what the
  parser holds is what the line so far is made of (`LineFits`): after an error it holds
  nothing that counts, before the mark it has the name alone.  `BehindOneMore` is a step of a
  write of several settings: the values are those of a prefix, and a prefix ends before the
  member at fault; `WriteAllIs` follows from it by the least length for which it fails.
- `StreamKeptWhole`: `StreamIsWhole` for any factors, sample rates, extrapolations, lengths of
  streams and sizes of chunks, from `RsAssumption` (the default length is that of ten taps on
  either side; two are enough).  `ResamplerInv` says that between two calls the phase and the
  offset are where the rows made so far have brought the filter, in steps of the down factor
  (`PlacesFit`), that the rows made and those still to crop add up, and that the filter's state
  holds the values of the extended stream before the next chunk (`StateFits`).  `CursorsAre`
  follows the loop over a chunk: where each cursor stands and that it stops after the number of
  rows computed ahead; `FilteredIs` takes from it the place of each row's window, `RowsRight`
  from that and the invariant what the row is.  `ExtrapolatedIs` and `ExtraIs` go through the
  modes at both ends, `LengthIs` counts what `flush` leaves, `TwoAreLeft` why it leaves something.
- `AtomsRead`: the action property `AtomsReadBack` for any values of a byte, shape of the
  calibration map, strings and images of other firmware.  `AtInv` says that the object and
  the one that was dumped are of the kind (`Holds`: a map has the shape of the code), and that
  the image is the data of the latter until other firmware writes one.  What remains is the
  codec, `ObjectIsRead`.  For strings it is where each starts, and `ByteOfSmall` for their
  lengths.  For a map, `FlatAt` says where in the data each atom starts, `AtomIsRead` that a
  reset of an atom takes exactly its own data, and `MapIsRead` that after n of them the first n
  are those dumped and what is left is what the others were dumped to.  `FlatteningExists`,
  `CountingExists` and `ResettingExists` are that the recursive functions exist, which a theorem
  about one has to show first.

**`PeripheralProofs`**

- `LedTells`: `LedTruthful` for any colours and any order of operations.  `LedInv` says that
  the pixel sent last is the one of the state (`PixelFits`), that with no menu open nothing
  blinks and the data have the LED (`BackgroundFits`), and that the counter is one flash behind
  (`CountFits`).
- `TimerObeys`: `FanObeys` for any temperatures and periods.  `FanInv` follows a call through
  its writes: what is written stands from its write on (`WrittenStands`), the count is
  within the period from the check on (`WithinPeriod`), and a fan that is stopped neither
  counts nor has its pin high (`RunsWhenStarted`).
- `OutputHolds`: `OutputIsValue` for any values, raw numbers and factors.  `VoInv` says that
  from the constructor on the raw number is the one of the value by the factors the object
  has, and the chip's if no frame was lost (`ObjectFits`); that the factors are those in
  effect once the board is connected (`FactorsFit`); and that the bridge is not on before
  (`BridgeLate`).  The lemma `FrameArrives` is the layout of the frame: the chip takes out of
  its two bytes the 12 bits that were put in.
- `ChipsAndPinsHold`: `WritesReachTheirChip` for any amplifiers, pins and gains.  `AmpInv`
  says that the register holds the image and the image the levels written
  (`ImageFits`), and that `SetMode` comes to its second write only if the first was confirmed
  (`SwitchesFirst`).  The lemma `HearsIs` is that selecting an amplifier makes it, and no other, hear the
  write, and moves no pin.
- `MenuInStep`: `PanelInStep` for any menus and any sequence of levels.  `PnlInv` says that a
  press is reported as a long one in the turn in which it becomes one (`LongInTime`), that the press
  going on and the first of a double click are not reported yet (`Unreported`), and that a
  delayed step that would close the view is over before the press that could open a
  menu is long enough to count (`StepFits`, `SearchFits`): their times, not a flag, keep them apart.
- `ImageStaysReadable`: `ImageReadable` for any calibration values and addresses, on a chip
  that has room for the atoms of the code (`RoomEnough`: 18 cells, of which TLC's has 20 and the
  code's more).  `HatInv` says that buffer and chip begin with the image of their atoms
  (`ImagesHeld`), and that the slave's index and the Pi's address counter mean the same byte but
  for the one that is loaded ahead (`InSequence`).  The lemmas `AtomAdded` and `AtomExchanged` are what `set_atom` does to an
  image, whether the atom grows or shrinks: every atom behind it moves, none changes.  `StartIs` says
  that the walk over the headers, a recursive function, finds each of them; `ReadIsImage`
  that a part of a chip that verifies has the whole image; `OnChipReads` that the image that is
  written is the one that will be read.

Only model-checked: everything about liveness (`CallsReturn`, `BuffersFlushed`,
`ExchangesEnd`, `SendEnds`).  It rests on fairness and `ENABLED`, which the prover does not
support.

## 5. Where code and documents disagree

Four disagreements are runs that expect a counterexample; `PROJECT.json` quotes the lines.

1. `loss_reported`: a count of lost records that was fetched in a turn without a handler
   call is dropped (`driver.cpp:983`).
2. `stale_answer`: after a time-out the late answer is returned for the next request
   (`bcmspi.hpp:197`).
3. `drift_dies`: every drift calculation merges settings into an object that has been moved
   from (`driver.cpp:655`, `driver_settings.cpp:267`, `:292`).
4. `resampler_dies`: the length of the filter is computed for the factors 1 and 1, so at a
   sample rate that needs a large factor the assertion at `resampler.hpp:507` fails when a
   measurement stops.

Claims that the modules state and the code does not keep, found by TLC with the property as
an invariant (or, for the second, as a property):

- `Board!ApplyErrorTold`: the error of applying calibration data is overwritten with success
  before anybody can read it (`firmware/board.cpp:58` and `:74`; `board.hpp:292`).
- `Board!SetOnlyWhenStopped`: an IEPE board takes modes and gains while it measures
  (`firmware/channel.hpp:167`), the API document says that it does not.
- `Measurement!CallsAreStrong`: `start_measurement` that fails in switching on the board has
  already replaced the slopes (`driver.cpp:386`); `stop_measurement` that fails in switching
  it off has joined its threads already.  Their guarantee is "strong" (`driver.hpp:236`).
- `Panel!ShowsWhatItSets`: the step that ends an applied setting may overwrite the view
  inside of another menu (`firmware/control/View.h:386`).
- `Hat!SlaveServesImage`: the slave is given the address of the buffer before the manager
  verifies it and makes it grow (`firmware/firmware.cpp:130-138`).

Others were met while modelling.

Measurement, settings and drift compensation:

- A marker of lost data can reach the handler of the next session, for the counter outlives
  the session.
- After a restart of the firmware `stop_measurement` returns at once and leaves the threads
  running, because it decides by the state of the board (`driver.cpp:423`).
  `start_measurement` then begins a second reader and a second processing thread on the same
  queue (`driver.cpp:341`, `:1125`), a data race; a calculation takes rows of either, and the
  deltas may be cleared under the older thread.
- A `stop_measurement` that cannot ask the board leaves the threads running as well and throws.  In a
  drift calculation their handler then uses variables of a call that has returned
  (`driver.cpp:1135`, `:1161`).
- A start whose second thread cannot be created joins the first and leaves in the queue what
  that has read; the board stays on, so the next start is refused until a stop drains it
  (`driver.cpp:394-398`).
- Deltas outlive the references they were computed from: a calculation of new references
  (`driver.cpp:471`) and `drift_references(true)` replace these and keep the deltas.
- The handler of a drift calculation notifies without holding the mutex (`driver.cpp:1150`):
  a caller between its test and its sleep misses it, and the call does not return.  So
  `Drift` claims no liveness.
- After a drift calculation the modes are never restored: `basic` contains
  `channelsAdcEnabled`, which `set_board_settings` refuses, and the guard swallows the error.
- Deltas that are calculated while deltas are set measure the rest (`driver.cpp:990`).
- `burst_buffer_size_` is not updated when sample rate and frequency are set one after the
  other; `set_driver_settings` drops its resampler argument.
- Setting `burstBufferSize` or `frequency` to null erases the other.  `Driver_settings`
  accepts JSON arrays and numbers, and setting a value in one fails an assertion.
- `Board_settings` throws `bad_any_cast` for 8 and 16 bit integers although
  `board_settings.hpp:90-96` lists them; a double comes back rounded to a float.  `names()`
  lists `calibrationDataValid`, which the firmware does not serve, and omits
  `calibrationDataApplyError` and `calibrationDataEepromError`.
- The documented defaults of the driver settings and of calibration differ from the code's;
  the DACs of an IEPE board start at 4045, the document says 2048.

Resampler, data bus, process lock:

- A stream shorter than the rows cropped at its start keeps too many rows; `swap` leaves
  out two flags; symmetric extrapolation from a first chunk shorter than the state puts
  zeros next to the signal.
- The overflow pin of the data bus is not checked, and a set is appended although reading
  it failed.  `quotient_ceil` (`math.hpp`) is wrong for even remainders; nothing uses it.
- `unlock` closes and then unlinks: a third process may lock a new file beside the second's.
  `read_pid` makes a string of two characters, so an old file's digits mix with the new ones.

Firmware:

- A length has 15 bits, and nothing checks that a message is shorter (`synccom.hpp`): one of
  32768 characters and more would announce another length.
- Requests longer than the firmware's 4096 characters are never complete and never answered:
  the frame wraps, and its tail alone would be handed over.
- A write of several settings that fails keeps what it has set, although
  `set_board_settings` is documented as strong.  The answer to a write of `all` is nested,
  `doc/firmware-api.md:190-196` shows it flat.  A setter without a getter answers an error.
- `WriteRegister` ignores whether the read back succeeded: a lost write of 0 with a garbled
  answer is confirmed (`pga280.hpp:522-527` promises false on any error).  A soft reset never
  reads back.  `Dms_channel` ignores the result of `SetMode` and answers success when
  `SetGains` fails.
- The voltage output holds raw 120, 24 V, until it has factors, while its value is 2.5 V; the
  bridge is off then (`firmware.cpp:268`).  The result of the SPI frame is ignored, and setting
  the raw number leaves the value as it was.
- Headers of the calibration atoms count 8 bytes for an entry of which 6 are dumped; a map
  with other counts and the same number of atoms is read out of step; data that are cut
  short leave old entries and are accepted.  Vendor strings of 256 bytes and more truncate
  their length.
- `m_last_time_upd_mS` of the fan is never updated, so after 5 s it controls every turn; the
  temperature is read uninitialised in the first 5 s.  `CDacPWMht` is constructed and never
  started.
- A second click that starts exactly 400 ms after the first ended loses both; a short click
  before a medium or long one is lost.  `is_led_enabled` answers the opposite.  A channel
  colour of 0 darkens an LED until the menu is used.
- A long press that should reset the settings does nothing: `import_settings` is never
  called, so no setting is registered (`firmware.cpp:427`).
- A comparison that was timed out counts as a success when the interrupt halts it between
  `i2c_eeprom_master.cpp:371` and `:372`; so does one of which a byte is reported as not
  acknowledged (`:444-448` halts whatever is left to compare), and an interrupt that comes behind an
  error replaces the error by "halted" (`:443-464` do not look at `state_`).  And the interrupt of a transfer that was timed out
  can take a byte of the next attempt's buffer, which costs that attempt
  (`GivesUpForAReason` counts a time-out twice for this reason).

## 6. What is not modelled

Pure input and output (ADC and DAC drivers, QSPI, clocks, the NeoPixel driver) has no
protocol to check.  The text of JSON is parsed by vendored code; tables are containers.
The filter coefficients and their design are floating point, and so are the conversions of
temperatures and of samples to millivolts.  `RawBinStorage` is dead code: nothing registers
with it.  `CDacPWMht` is never started.  The calibration station's test and the brightness
computed from the data decide nothing else.

Within the modelled parts: the reset of an I2C bus that hangs, the write protection pin,
`receive`, settings that are one assignment to a pin nothing else reads, translation offsets
and slopes, checksum mode of the amplifiers, three extrapolations whose values are no row of
the stream, and time as such: a time-out may expire whenever its wait is going on, up to a
bound, and the periods of LEDs and clicks are tenths of a second.

## 7. Plan

Done: the modules of [2](#2-the-modules) and the proofs of [4](#4-proofs).

What proving could add: `ThreadDiscipline` with firmware restarts, in the weaker form that
holds.

What modelling could add: the write of `Board` as the abstract specification of `Eeprom`'s
`send`; `Drift` on top of `Measurement` instead of beside it; a board that is late with a bank.
