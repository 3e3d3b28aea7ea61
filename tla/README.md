# M1-ENG in TLA+

M1-ENG is the firmware of a hand-held PM2.5 monitor: an ATxmega64D4 with an
infrared (laser) dust detector, a fan, an OLED display, three keys (POWER,
MODE, SELECT), a battery with a charger, a serial port for commands and
calibration, and an EEPROM. The application is about 3700 lines of C under
`src/M1-ENG/MAI_M0/src/` (all paths below are relative to that directory);
`ASF/` is Atmel's vendored driver framework. The repository has no
documentation and no tests, so the code and its comments are the only
statement of what it should do.

This directory holds TLA+ modules of the parts of the firmware that keep
state, configurations that check them with TLC, and proofs checked by TLAPS.

- [1. The system](#1-the-system)
- [2. The plan](#2-the-plan)
- [3. The modules and the code](#3-the-modules-and-the-code)
- [4. What is checked](#4-what-is-checked)
- [5. What is proved](#5-what-is-proved)
- [6. What the code does that one would not expect](#6-what-the-code-does-that-one-would-not-expect)
- [7. What is assumed, and what is not modelled](#7-what-is-assumed-and-what-is-not-modelled)

To run a check: `tlc -config MCHistory.cfg MCHistory`. To check proofs: `tlapm
HistoryProofs.tla`.

## 1. The system

### How it runs

There is one main program and there are a few interrupts; no operating system.
`main` initialises, then polls a timer and calls `circle_callback` once per
overflow (16 ms): one *circle*. A circle reads the keys, takes at most one
command, decides on the status, switches the supplies, and does one long
thing: refreshes the display (one circle in 64), calibrates the dust detector
(the circle before that), or samples it (all others). When the device is off
it sleeps at the end of the circle. What interrupts it:

| interrupt | code | shares with the main program |
|---|---|---|
| received byte | `main.c` `USARTD0_RXC_vect`, `serial/serial.c` `Analyse_Receive_Char` | `g_receive_struct` |
| RTC overflow, RTC alarm | `ASF/xmega/drivers/rtc/rtc.c`, `main.c` `rtc_callback` | `rtc_data`, the EEPROM |
| power key | `main.c` `PORTE_INT0_vect` | the counts of the power key, the sleep enable bit |
| charger | `main.c` `PORTD_INT0_vect` | the sleep enable bit |

A reset (by pin, brown-out, or the battery running empty) can come at any
point. Only the EEPROM and the reset flags survive it.

### The components

| component | state | operations | what makes it correct |
|---|---|---|---|
| **History** `history/` | 64 slots of 8 bytes and two one-byte indices in the EEPROM, a static read offset | write, read next, erase | bounded; only whole measurements are read back; a reset loses at most the measurement being saved and the oldest one |
| **Serial port** `serial/serial.c` | the receive state machine, type and digits of a frame, the command last taken | receive a byte, take, return, deal with a calibration, drop it | never stores past its buffer; a waiting frame is intact; the port does not block for good |
| **Commands and calibration** `main.c` `check_uart`, `serial/serial.c` | the lock `g_main_unlock_step`, the latched `CommandType`, a count of steady readings, the calibration pair in the EEPROM | five commands, the delayed calibration, erase, correction of a reading | each change of the calibration needs an unlock of its own; nothing stays pending for good; the pair stays a pair over power cuts |
| **Keys** `main.c` `scan_key` | level and two counts for each of three keys, the status to return to | sample, click, hold, long hold; wake-up by interrupt | short presses and bounces do not add up; one press acts once |
| **Main circle** `main.c` `circle_callback` | the status, hold, distances to the last operation, refresh and power-save start, low battery countdown, supplies | one: the circle | off the charger the laser never burns unattended for long; all is dark in sleep; what is displayed was read |
| **Pulse detector** `algorithm/algorithm.c` `caldust` | a wave state machine over the samples of a circle, a sum for each size | one pass per sample, light strength, restart | noise is not counted; pulses do not overlap |
| **Dust averaging** `algorithm/algorithm.c` `algorithm_calculate`, `ASF/common/services/fifo` | a fifo of samples, the smoothed value, counts of how long the average has been on one side | measure, forget (`preclear`) | the average is of what was taken; the value moves towards it and comes down, as far as a float can tell |
| **Battery gauge** `battery/`, `oled/oled.c` `oled_update_battery` | the last level, the running symbol | read, draw | follows the reading, does not flicker, draws a symbol that exists |
| **Calendar time** `rtc.c`, `rtc_callback`, `history_store_rtc`, `history_resume_rtc` | a 16-bit counter in hardware, its high half in memory, an alarm, the time in the EEPROM | tick, overflow, alarm, save, resume | the time read is right; the time resumed is recent |
| **Conversion curve** `main.c` `data2pm25`, `pm252data`, `serial/serial.c` `pm25_set_correction` | none | two piecewise linear functions, a correction between sensor and curve | monotone; a calibrated device shows what the master showed; where 32 bits wrap, heavy dust is not shown as little |
| **Age of a measurement** `oled/oled.c` `oled_history_mode`, `main.c` | the time stored with a measurement | division into two units | the age shown is the age, across resets |
| **Start-up and sleep** `main`, end of `circle_callback`, the interrupt handlers | enabled interrupt levels, interrupt flags, sleep enable bit | initialise; look, clear, enable, sleep, wake | no key press or charger is slept through for long; no handler runs before its data exist |
| **AD converter** `ad/`, `ASF/xmega/drivers/adc` | input, reference, enable count, clock, flag and result of one converter | select, enable, start, wait, disable, by three programs in turn | each program gets conversions of its own input and reference |
| **Display** `oled/oled.c` | what is on the panel, the last status, two battery symbols | refresh in four modes, acknowledge a command | the panel shows the last refresh and nothing else; numbers are readable and right |
| **Panel driver**, **device pins**, **debug output**, **rest of ASF** | registers | | not modelled |

### How they interact

- *Keys* and *commands* change the status and report to the *circle* what
  changed. The circle's later blocks change the status again (time limits, low
  battery, an empty history), so a status chosen by a key may last for part of
  a circle only.
- The *circle* calls the *history* when a held measurement is saved or
  SYSTEM_HISTORY is displayed, and erases it after a reset by the pin.
- The *serial port* hands a command to `check_uart`. A calibration command is
  only latched there; it is carried out many circles later, from within the
  refresh of the display (`data2pm25` calls `pm25_get_correction`), once the
  reading has been steady.
- The *pulse detector* feeds the *averaging*, which feeds the *curve*, which
  the display, the history and the calibration read.
- The *battery gauge*, the calibration of the detector and the *pulse
  detector* share the one channel of the *AD converter*.
- The *display* shows the status, the reading or a measurement of the history
  with its *age*, and the battery; an acknowledged command blanks a part of
  it.
- The *calendar time* is saved to the same EEPROM by an interrupt, and stamps
  the entries of the *history*.

### What is hard to test in it

Everything that takes an unlikely moment: a reset between two EEPROM writes, a
byte that arrives between two statements, the alarm in the same second as an
overflow. And everything that takes a long sequence of legal steps: key
bounces, lock and unlock commands with sleep and key presses between, a low
battery during a hold, hours of steady air, a short age after a long one.
`PROJECT.json` lists these hazards one by one, at their lines, with the
properties that look after them.

## 2. The plan

The order is by what would hurt most if it were wrong: first what survives in
the EEPROM or is shared with an interrupt, then the control of the device,
then the numbers.

| step | modules | status |
|---|---|---|
| 1. the history and its abstract log | `HistoryLog`, `History`, `HistoryProofs` | done, safety and refinement proved |
| 2. the serial port and its abstract mailbox | `CommandPort`, `Serial`, `InputProofs` | done, safety and refinement proved |
| 3. commands and calibration, on top of the mailbox; the stored pair and its correction | `Calibration`, `CalibrationStore`, `Curve`, `Correction`, `ReadingProofs` | done, safety proved |
| 4. keys; main circle | `Keys`, `InputProofs`, `Circle`, `CircleProofs` | done, safety proved |
| 5. pulses; averaging; the number shown | `Pulse`, `InputProofs`, `Dust`, `Reading`, `ReadingProofs` | done, safety proved |
| 6. calendar time; age of a measurement | `Rtc`, `Age`, `RtcAge`, `RtcProofs` | done, proved |
| 7. start-up and sleep, statement by statement, with the converter | `Sleep`, `SleepProofs`, `Adc` | done, safety proved |
| 8. the display: battery symbol, numbers, the panel | `Battery`, `Number`, `Display`, `DisplayProofs` | done; level and panel proved, digits model-checked |

How the modules compose. `Serial` implements `CommandPort`, and `Calibration`
is built on `CommandPort` (by `INSTANCE`), so what is checked of the commands
holds of the receiver with its interrupt. `History` implements `HistoryLog`.
`Correction` puts the pair of `CalibrationStore` in front of `Curve`, and
`Reading` puts `Dust` in front of it; `RtcAge` dates a measurement by the
clock of `Rtc` and reads its `Age`; `Display` draws the level of `Battery`,
the digits of `Number` and an `Age`; `Sleep` runs the programs of `Adc`
between its statements. `Circle` takes as inputs what the other components may
produce: key events (module `Keys`), commands that meet an open lock (module
`Calibration`), a battery level (module `Battery`); `Keys` and `Sleep` in turn
treat the rest of the circle as an arbitrary change of the status, `Display`
as arbitrary inputs. `Dust` takes any sequence of what `Pulse` may sum up.

Every specification takes its sizes, widths and time limits as constants with
named assumptions. A module `MC...` and its `.cfg` give them values for TLC;
proofs are in `...Proofs`, for all values the assumptions allow. Components
that meet in a reading, on the display or at the inputs of the device share a
module of proofs: `InputProofs` is about `Serial`, `Keys` and `Pulse`;
`ReadingProofs` about `Dust`, `Reading`, `Curve`, `Correction`,
`CalibrationStore` and `Calibration`; `DisplayProofs` about `Display`, the
level of `Battery` and the units of `Age`; `RtcProofs` about `Rtc` and
`RtcAge`. `Arithmetic` holds the lemmas on quotients, products and sums that
several of them need. No module declares a recursive operator.

Where a definition is preceded by a line `\* Mutant for P`, it is a variant of
the definition below it, as a slip in the code might make it. No specification
uses it. It documents what property P is able to notice: with the variant in
place of the definition, TLC finds P violated.

## 3. The modules and the code

`PROJECT.json` maps each definition to its lines; this is the short form.

**History** (`history/history.c`, blocks of `circle_callback`). `write_index`
and `read_index` are the EEPROM bytes 0x200 and 0x201; they run over twice the
number of slots (`RING`) so that a full ring and an empty one differ, and
start as 0xff, an erased byte, outside the ring. `history_write` is
`WriteBegin` (reads both indices), `WriteDrop` (a full ring first gives up its
oldest entry), `WriteTime`, `WriteData`, `WriteCommit`: one EEPROM write per
step, `pc` between them. The erase of `circle_callback` after a reset by the
pin is `EraseWriteIndex` and `EraseReadIndex`. `ReadNext` is
`history_read_next`, whose recursion is one deep. `Reset` may come anywhere,
and may leave the dword being written `Torn`. The ghost `cut_erase` remembers
an erase that was begun and not completed. **HistoryLog** is the promise: a
sequence of at most `SIZE` measurements, read from the newest back and round
again.

**Serial** (`serial/serial.c`). One action per case of `Analyse_Receive_Char`,
of any byte; the main program's calls as steps between which bytes may arrive:
`CheckTake` / `CheckReturn` (`CheckUART2Rev`, which draws on the display for
milliseconds between the two), `DealRead` / `DealClear` / `DealFinish`
(`DealUART2Data` and the EEPROM writes after it), `Drop`. Ghosts: `heard`, the
bytes of the frame under way, and `wiped`, that `memset` cleared digits since
it began. **CommandPort** is the promise: a mailbox for one command, which the
line may disturb at any moment while it is empty.

**Calibration** (`check_uart`, `pm25_get_correction`, `WriteGasParameter`,
`erasePm25Clibration`). Actions `PowerOn`, `Switch`, `Calibrate`, `Unlock`,
`Erase`, `OtherCommand` are the branches of `check_uart`; `Refresh` is a call
of `pm25_get_correction` from the display; `Clear` and `Write` finish a
calibration. Keys and limits are `OtherStatus`; `Sleep` locks. The EEPROM pair
is one value here. **CalibrationStore** is the pair itself: two dwords, master
first, with a power cut before, between and inside the writes.

**Curve** (`data2pm25`, `pm252data`) is the two functions over tables `dx` and
`dy`: the loop of the code ends at `SegmentOf`, with what it has subtracted
and added until then in `Start`. **Correction** (`pm25_set_correction`) is a
third: `Corrected` with its branches in the order of the code. The invariants
are about what the *stored* pair makes of every value of the sensor, so the
functions are checked for every pair that interrupted writes can leave.

**Keys** (`scan_key`, `PORTE_INT0_vect`). `Scan(down)` is one call of
`scan_key` with the pins of `down` low: `Sampled` debounces, `HeldFor`,
`Clicked`, `TurnsOn`, `TurnsOff`, `Changes` are its conditions. `WakeByKey`
overwrites the counts as the interrupt does. Ghosts count the samples of each
key independently of the code's own counts.

**Circle** (`circle_callback`). One step is one call. The state is one record
`c`; each block of the function is an operator from a record to a record, and
the action `Circle` composes them in the order of the code, each bound name
the state that a block leaves. `circle_index` is only compared with three
remembered indices, so the record holds the distances: `since`, `oled_due`,
`calc_due`. The ghost `quiet` counts the circles since the device was last
operated, was on the charger or began a period of power save: the code's own
index of the last operation, behind `since`, is set back by the charger.

**Pulse** (`caldust`). One step per sample: `Starts` in WAVE_LOW; `Rise`,
`Fall`, `Stay` in WAVE_HIGH; `Plateau` with the assignment `last2=last1` that
stands in its condition; `Added` is the window and the overflow check;
`MeasureLight` and `TooHigh` the end of the function.

**Dust** (`algorithm_calculate`, `fifo.h`). `Calculate` is a whole call: pull
from a full fifo, push, sum of the whole buffer over the number in use,
hysteresis counts of 16 bits, step, smoothed value. `Whole` rounds the sum of
the smoothed value and the step as a float of `BITS` bits does and cuts it to
an integer. `Preclear` is the call with `preclear` set.

**Reading** (`data2pm25` of an uncalibrated device): `Unlit` is the difference
of an `int32_t` and a `uint32_t`, `Data` what goes on the curve.

**Rtc** (`rtc.c`, `rtc_callback`, `history_store_rtc`, `history_resume_rtc`):
one action per tick of the hardware and per step of the two interrupt
handlers. `ResetInWrite` is a reset between two of the four byte writes of the
saved time, `Cuts` what the second, third and fourth byte count in. **Age** (`oled_history_mode`) is the loop that divides a time into
two units; **RtcAge** puts it behind the clock: `Measured` is the
`history_write` of `circle_callback`, `Displayed` what the display makes of it
at any later moment. The ghost `age` counts seconds since then.

**Sleep** (`main`, `circle_callback`, the four handlers): one action per
statement that sleep depends on, `pc` between them; everything else of a
circle is one choice, `Measure`, `EndCircle` or `Off`, and module `Circle`
says when. `Interrupt` serves the highest enabled level before or after any
statement. The edges of the key, the charger, the serial line and the alarm
are actions of the environment. **Adc** (`ad.c`, `adc.c`, `adc.h`,
`adc_bcd.c`, and the loops of `caldust`, `algorithm_calibrate` and
`battery_get_level_uncharging`): a program is a sequence of calls, each call
an action; `Complete` is the converter.

**Battery** (`battery_get_level_uncharging`, `oled_update_battery`): the level
of a reading and the symbol of a level. **Number** (`oled_show_num`,
`oled_shownote`): the digits of a number, and the drawing of a digit from its
note: a pass of the loop over the rows is `Pass`, of that over the columns
`Column`. **Display** (`oled_update` and its modes): the panel is a set of
items with their rectangles; `Painted` blanks and draws, `RealtimeMode`,
`PowersaveMode`, `HistoryMode` list what each mode paints, in its order, at
the code's positions. `Refresh` is the block of `circle_callback` that calls
`oled_update`.

## 4. What is checked

| run | constants | distinct states | properties |
|---|---|---|---|
| `history` | 2 slots, bytes of 8, 3 measurements (symmetric) | 13033 | `SizeBounded`, `ReadableWhole`, `DropsOnlyWhenFull`; `ImplementsLog` (refinement) |
| `serial` | 2 digits, 5 bytes, one of each kind | 108352 | `StoresInBounds`, `WaitingFrameIntact`; `FramesTaken` (liveness); `ImplementsPort` (refinement) |
| `serial_return` | the same | 3095 | `ReturnsTakenCommand`: **violated**, see section 6 |
| `calibration` | 6 type bytes, 3 contents of the digits (a number, 0, cleared), steady after 2 | 549504 | `EachChangeUnlocked`; `PendingResolved` (liveness) |
| `correction` | the code's tables in thousands, 10 calibrations, 282 values of the sensor | 4408 | `PairOfOneCalibration`, `CalibratedReadsMaster`, `ShownMonotone` |
| `keys` | times 2 < 4 < 6 < 8, stop 10; any one key | 509800 | `PowerOnDeliberate`, `PressTurnsOnce`, `OneActPerPress` |
| `circle` | periods 3 < 4 < 5 < 6 < 7, countdown 5 | 26953 | `LaserLimited`, `HistoryShowsRecord`, `MessageStaysLit`, `GroundRenewed`; `PowerSaveMeasures` (liveness) |
| `pulse` | 8 samples of 5 levels, 2 windows | 61725 | `RisesCounted`, `EnergyBounded` |
| `reading` | 2 slots, integers of 5 and 8 bits, floats of 9, 3 samples, 2 lights, a curve of 4 segments | 220475 | `AverageOfTaken`, `StepsTowards`, `ReadingTrueOrTop`; `ComesDown` (liveness) |
| `display` | the code's notes, sizes, positions, units and 8 thresholds | 5760 | `LevelFollows`, `NothingLeftOver`, `NumbersReadable` |
| `rtc_age` | counter of 16, 16 rounds, bytes of 4, alarm every 3, units of 2, 3, 2, 2 | 626190 | `ReadsTrueTime`, `ResumeClose`, `CutWriteClose`, `AgeHonest` |
| `sleep` | 2 conversions per program | 21412 | `SleepsThrough`, `PointerSet`, `ReadsItsOwn`; `PressNoticed` (liveness) |

Each property is stated in words above its definition. Together they say:

- **The EEPROM is safe from resets.** Wherever a reset falls, a measurement
  that can be read back was written whole, and a save costs no more than the
  oldest measurement, and only in a full ring (`history`). The exception is a
  cut erase, which the ghost `cut_erase` excludes until the next completed
  one: the two index writes are not atomic, and between them the indices may
  span more entries than there are slots. A correction in effect always stems
  from one calibration, unless a calibration made *over* an old one is cut
  between its two dwords, or a dword is torn (`correction`).
- **The interrupt and the main program share the receiver safely**: no
  overrun, no change of a waiting frame but by the `memset` of a calibration
  still being finished, no frame left waiting while the charger is connected
  (`serial`).
- **The lock does what it is for**: one unlock, one change, in any order of
  commands, keys, refreshes, sleeps and resets; the latch of a calibration is
  always freed (`calibration`).
- **A calibration does what it is for**: what the device read then is shown as
  what the master showed, through two tables, two dwords and a quotient; and
  whatever pair is stored, more dust shows as less only where the product of
  the curve wraps, and then still as heavy dust (`correction`).
- **Keys**: turning on takes an uninterrupted press; the press that turned the
  device on does not turn it off; holding a key acts once (`keys`).
- **Off the charger the device does not burn its laser or its battery
  unattended** (on the charger it measures without end); the low-battery message stays for all of its countdown; SYSTEM_HISTORY never
  shows a measurement that was not read; a ground taken from a detector
  without supply is soon replaced; power save goes on measuring for ever
  (`circle`).
- **Sleep misses little and not for long**: asleep, a key is down or a charger
  connected unnoticed only if the edge fell into a few statements, and the RTC
  ends that; the handler of the key never runs before its pointer is set; and
  no program takes a conversion that another one asked for (`sleep`).
- **The numbers**: slow drift makes no dust, the pulses of a circle weigh no
  more than one as long as the circle (`pulse`); the average is that of the
  samples taken except while flushed slots remain, then it is too high and
  never too low; the smoothed value moves towards it and comes down in steady
  air, to it or as near as its float can tell; the number shown is that of the
  smoothed value or, where a difference or a product wraps, one of the last
  segment of the curve (`reading`); the time is right at every moment, the
  saved one recent, and an age the time that went by, but for a few seconds
  after a reset and for one that cuts the write of the time (`rtc_age`).
- **The display shows its last refresh and nothing else**: no remains of
  another mode or a longer number, all digits legible at their size, the
  battery's level within one of the reading and without flicker (`display`).

Deadlock is checked in every run.

### The bounds, and why they are enough

- `history`: two slots are the fewest for which "the oldest" and "the newest"
  differ, and bytes of eight are twice the ring, so that an index wraps as a
  byte and as a ring index. The proofs cover all sizes.
- `serial`: two digits distinguish the first from the last; the receiver tells
  apart 'S', 'E' and the rest, the main program 'M', 0 and the rest.
- `calibration`: the commands differ only by branch. Digits matter only as
  0 (which writes nothing), as cleared (which makes a number as any other) and
  as a number; a reading is steady after two instead of six.
- `correction`: the tables are the code's, divided by a thousand, and `WORD`
  and `MOST` with them. The calibrations have factors inside the limits and
  beyond each of them, a target in every segment and one the tables do not
  hold, one below and one above half of the range, and a device that read
  nothing. More than two are needed for a third written over a torn pair. What
  the sensor delivers is every value up to behind the last segment, and a
  stretch on both sides of where the products wrap.
- `keys`: the counts are only compared with five limits, kept in their order;
  the smallest times for which a bounce, a click, a hold, a long hold and an
  ignored hold differ. One key is pressed in a behaviour: the three share no
  state but the status, which `OtherChange` changes arbitrarily.
- `circle`: the real periods are 64 < 1000 < 17750 < 32768 < 35500 circles;
  the small ones keep their order, and the power-save period stays a multiple
  of that of the refresh, on which the equality that re-arms power save
  depends. `since` and `quiet` stop one beyond the largest limit.
- `pulse`: eight samples hold two complete pulses with a plateau and a bounce;
  the levels lie below, at and above each threshold.
- `reading`: the proportions of the code: the factor wraps when distance times
  4 times 2^13 is about a sixth of 1/KVALUE. Two slots are the fewest in which
  a flushed one can remain. The curve has four segments as in the code, a last
  one steep enough for its product to wrap in 8 bits; a light of 10 can be
  above the smoothed dust or below. With the smallest factor a float of 9 bits
  loses falls of less than about a sixth of the value (1.2 percent with the 24
  bits of the code), so that falls both lost and made occur within the reach of
  the samples.
- `display`: nothing is reduced but the inputs: ages on both sides of each
  change of unit and of number of digits, the age that a clock set back gives,
  concentrations of every number of digits, and each of the ten digits in each
  of the three sizes.
- `rtc_age`: 16 is larger than the period with room for every phase. Four bytes
  of four values each make the calendar of sixteen rounds, so that a carry can
  meet a cut at each of the three places where there is one. The time of a new EEPROM (all
  ones) and the end of a round are initial states. Ages are followed up to
  `AGE_BOUND`, beyond the length of a month.
- `sleep`: the loops of conversions (2^14 for the ground, 2048 of a
  circle) are two long, so that there is a first, a last and a repetition.

### Fairness, and why the code justifies it

- `serial`: weak fairness of taking, returning and of the two steps that
  finish a calibration. The main loop never ends, and none of its calls waits
  for anything. Nothing is assumed of the line.
- `calibration`: weak fairness of the steps the main program is in the middle
  of and of obeying the command it has taken, and strong fairness of
  `Refresh`: display refreshes come at the latest every 64 circles and in
  every circle that obeyed a command, so commands may interrupt but not
  prevent them.
- `circle`: weak fairness of the next circle: the timer overflows for ever,
  and the RTC ends a sleep after ten seconds at most.
- `reading`: weak fairness of measuring.
- `sleep`: weak fairness of the main program, of each interrupt, of the alarm
  and of the converter. An AVR executes an instruction of the main program
  between two handlers, the handlers are short against the rate of what
  requests them, the alarm is set anew every ten seconds, and a conversion
  ends. Nothing is assumed of keys, charger and line.

## 5. What is proved

| theorem | for every | statement |
|---|---|---|
| `HistoryProofs!TypeCorrect` | ring size, byte width, set of measurements | `Spec => []TypeOK` |
| `HistoryProofs!RingBounded` | the same | `Spec => []SizeBounded` |
| `HistoryProofs!EntriesWhole` | the same | `Spec => []ReadableWhole` |
| `HistoryProofs!LosesOnlyOldest` | the same | `Spec => DropsOnlyWhenFull` |
| `HistoryProofs!RingImplementsLog` | the same | `Spec => ImplementsLog` |
| `InputProofs!ReceiverInBounds` | alphabet, number of digits | `SpecSerial => []StoresInBounds` |
| `InputProofs!ReceiverCorrect` | the same | `SpecSerial => [](TypeOK /\ WaitingFrameIntact)` |
| `InputProofs!SerialImplementsPort` | the same | `SpecSerial => ImplementsPort` |
| `ReadingProofs!LockProtects` | sets of bytes and digits, number of steady readings | `Spec => EachChangeUnlocked` |
| `ReadingProofs!PairStaysOne` | set of readings | `SpecStore => []PairOfOneCalibration` |
| `ReadingProofs!ReadsAsMaster` | tables, widths of numbers, sets of readings | `SpecStore => []CalibratedReadsMaster` |
| `ReadingProofs!MoreShowsAsMore` | the same | `SpecStore => []ShownMonotone` |
| `InputProofs!KeysInvariant` | times in their order, keys that can be pressed | `Spec => []KeysInv` |
| `InputProofs!PowersOnDeliberately` | the same | `Spec => []PowerOnDeliberate` |
| `InputProofs!PressTurnsOnlyOnce` | the same | `Spec => PressTurnsOnce` |
| `InputProofs!PressActsOnce` | the same | `Spec => OneActPerPress` |
| `CircleProofs!CircleInvariant` | periods, limits, inputs | `Spec => []CircleInv` |
| `CircleProofs!QuietInvariant` | the same | `Spec => []QuietInv` |
| `CircleProofs!LaserIsLimited` | the same | `Spec => []LaserLimited` |
| `CircleProofs!HistoryShows` | the same | `Spec => []HistoryShowsRecord` |
| `CircleProofs!MessageIsLit` | the same | `Spec => []MessageStaysLit` |
| `CircleProofs!GroundIsRenewed` | the same | `Spec => []GroundRenewed` |
| `InputProofs!OnlyRisesCount` | levels, thresholds, windows, number of samples | `Spec => []RisesCounted` |
| `InputProofs!CircleBoundsDust` | the same | `Spec => []EnergyBounded` |
| `ReadingProofs!AveragesTaken` | size of the buffer, set of samples | `SpecDust => []AverageOfTaken` |
| `ReadingProofs!Smooths` | the same, width of the counts and of the float, speed of the smoothing | `SpecDust => StepsTowards` |
| `ReadingProofs!ReadingMeasures` | the same, set of lights | `FairReading => SpecDust` |
| `ReadingProofs!ReadsTrueOrTop` | the same, tables, width of a word | `FairReading => [](InRange => ReadingTrueOrTop)` |
| `RtcProofs!RtcInvariant` | width of both halves of the time, period of the alarm | `Spec => []RtcInv` |
| `RtcProofs!TimeIsTrue` | the same | `Spec => []ReadsTrueTime` |
| `RtcProofs!ResumesClose` | the same | `Spec => []ResumeClose` |
| `RtcProofs!CutIsClose` | the same, places of a cut | `Spec => CutWriteClose` |
| `RtcProofs!AgeIsHonest` | the same, and list of units | `SpecAge => []AgeHonest` |
| `DisplayProofs!LevelStaysNear` | number of thresholds, sets of inputs | `SpecDisplay => []LevelFollows` |
| `DisplayProofs!NothingIsLeft` | the same, sizes of digits, list of units | `SpecDisplay => []NothingLeftOver` |
| `SleepProofs!PointerIsSet` | number of conversions | `FairSpec => []PointerSet` |
| `SleepProofs!NothingSleptThrough` | the same | `FairSpec => []SleepsThrough` |
| `SleepProofs!ConversionsOwned` | the same | `FairSpec => []ReadsItsOwn` |

Assumed are only the `ASSUME`s of the modules, which TLC evaluates for the
small values and which the code's values meet:

- `History`: the ring has slots and its double divides the byte width
  (`HISTORY_EEPROM_MASK` is 0x7f, bytes have 256 values).
- `Serial`: there is at least one digit.
- `Calibration`: the codes of the commands are different characters, and none
  of them is 0 (`CodeAssumption`; they are 'P', 'W', 'M', 'L' and 'R').
- `Keys`: click < hold < long hold < ignored hold.
- `Circle`: a hold limit is at most the time to power off; the countdown of
  the low battery is at most the power-save period (150 circles of 32768), so
  that it is over before power save measures again.
- `Pulse`: levels, ground and thresholds are natural.
- `Dust`: the buffer has slots, a count of 16 bits is signed, and the step is
  a fraction (`AVG_BUFFER_SIZE`, `HALF`, `SLOWNESS` and `MVALUE` are 64, 2^15,
  about 2 * 10^5 and 4); `Power` is the table of the powers of two
  (`FloatAssumption`; a float has 24 bits).
- `Curve`: the segments have positive widths, and the product of the two
  widths of one fits a word (`TableAssumption`: 70000 * 42000 < 2^32); the
  display's largest number fits as well. `Reading`: the last segment begins
  far below where a difference wraps (`WideAssumption`: 80000 and 2^32).
  `Correction`: what the tables hold, the display can show (`HeldAssumption`:
  70000 micrograms, 99999).
- `Battery`: the thresholds are even in number and more than the 3 the level
  begins at (8). `Display`: five digits with their gap, two of an age and
  their height stay within the places the code draws them at
  (`SizesAssumption`: 18 x 30, 12 x 20 and 12 x 16 pixels); a concentration
  has at most five digits.
- `Rtc`: a period and a second are shorter than a round of the counter, and no
  longer than what the lowest byte of the time counts; a byte counts in a part
  of the calendar (`CutAssumption`: 11 seconds, 2^8, 2^16, 2^24 and 2^32).
  `Age`, `RtcAge`: a unit is at most a hundred of the one below it, since two
  digits show it (60, 60, 24, 30); and what the display calls a month is no
  longer than the calendar (`MonthAssumption`).

The argument is the same everywhere: an inductive invariant that implies the
property, one step per action. What the invariants add to the properties is
what one has to know of the code to believe them.

**History.** `SizeBounded` and `ReadableWhole` are not inductive. A save
advances `write_index` at its very end, which is safe only because (`RoomInv`)
after the drop there is room for one more entry in all its later steps, and
(`NextSlotInv`) the slot it is about to make readable holds this measurement's
time, then its data. An erase is kept apart by `EraseInv`. `RingInv` is their
conjunction. The slots are found by reducing the index modulo the number of
slots while the indices live modulo twice that number; lemmas on `%` of
`Arithmetic` (`RemainderUnique`, `ModShift`, `ModDiffers`) lead to
`SizeAfterCommit`, `SizeAfterDrop` and `SlotDiffers` (two indices less than
`SIZE` apart select different slots), from which `NextSlotHidden` follows:
what a save writes is not readable yet, so a reset anywhere leaves what was
readable whole. The refinement (`StepOfRing`) reads the log off the ring as
`Stored`: the steps of a save before its last, and the resets that tear them,
leave it as it is (`WriteHidden`), the drop takes its head (`DropIsTail`), the
last step appends (`CommitAppends`), and reading back walks it as the log is
walked (`ReadIsLogRead`).

**Serial.** `FrameInv` says at each step of the receiver how many bytes were
heard and that the digits stored are those heard. With it every step of
`Serial` maps to a step of `CommandPort` or changes nothing of it
(`StepOfPort`): the bytes of a frame to `Disturb`, the last one to `Arrive`.
The proof takes `SpecSerial` only, not fairness.

**Calibration.** A calibration is latched at one moment and carried out at
another, with a lock, keys and sleep between. `LockInv` names the three
places an unlock can be in: an open lock, a latched calibration with the lock
at READY, and one being carried out; in each the ghost `unlocked` is set.
`DealReady` is what makes it inductive: while a calibration is being carried
out the lock is still READY, so that the unlock it uses up is not a new one.
**CalibrationStore.** Between the two writes of a pair the first dword is
already new; `StoreInv` says so for each value of `pc`, and that elsewhere the
pair is one, but for the cuts the flags remember.

**Curve and Correction.** A table of widths makes one segment for every value
(`SegmentWithin`), and later values have no earlier segments (`WithinOrder`).
Within a segment a product and a quotient grow (`ProductFits`, `DivMonotone`),
and one segment ends no higher than the next begins (`SegmentEnds`); so
`CurveOrder`. `CorrectedOrder` does the same for the correction, whose two
parts meet at `HighThreshold` for every factor. `ThereAndBack` follows a
target through both tables, by two quotients that lose less than the widths of
its segment. Behind the last segment products wrap, from a value on that
`ProductWraps` tells; `ShownMonotone` is about both sides of it, the wrapped
one by `LastSegment` below.

**Dust.** `FifoHolds` says where in the buffer each sample taken is, by the
masked indices of the fifo; a measurement gives up the slot behind the oldest
(`PullHolds`) and fills a free one (`PushHolds`), since different numbers of
samples after the oldest are different slots (`NthDiffers`). So the sum over
the slots in use is that of the samples (`FilledSum`), and what the other
slots add is none, or not negative (`DustInv`). `Smooths` is about one step:
a fraction of a distance between none and half of it, rounded to a float and
cut towards zero, stays between the value and the average (`CutBetween`,
`StepLimited`): rounding to a grid that has all integers on it does not go
past one (`WholeBetween`), however fine the grid (`PartsIs`).

**Reading.** `TrueOrLate` goes through the ways a difference and a product can
wrap. A wrapped difference, with the light added again, lies in the last
segment, where no product makes less than the segment's beginning
(`LastSegment`), and a product wraps nowhere else (`WrapsLate`). It takes `InRange`, that the smoothed dust is a number its
`int32_t` can hold, which it is in all states of the run.

**Keys.** `scan_key` judges a press by two counts for each key, which are
reset by the count of the other level. `KeysInv` relates them to the samples:
`RunKept` (a key that counts as down went up only within the click time of its
start), `PressCounted` (it was sampled down as often as it counts, or has
acted, or was released) and `Since` (after a hold has acted, the same press
goes on until the key was up for a click time). `TurnedOn` is `Since` for the
press that turned the device on, and the reason why it cannot turn it off: to
reach `KEY_IGNORE_HOLD_TIME` it has to be held on for the difference.

**Circle.** A step is the composition of all blocks of `circle_callback`, so
its proof is that of a sequential program: a lemma for each block takes an
assertion about the record it meets to one about the record it leaves.
Between two circles they add up to `CircleInv`. `LaserLimited` and
`MessageStaysLit` need `Supplied`, `Blown` and `Powered` (which supply goes
with which status); that the laser's limit is one of real time takes
`QuietInv`: `quiet` never exceeds `since`, as all that sets `since` back also
begins `quiet` anew (`OperationSetsSince`, `DecisionsKeepSince`). `GroundRenewed` needs `Renewing`, `Calibrated`,
`MessageInPeriod` and `Fresh`: where the refresh is while a ground without
supply is in use, and that only the end of a message can move it.

**Pulse.** `Risen` strengthens `RisesCounted`: not only a counted sum but also
a pulse under way implies the steep rise. `EnergyBounded` takes another invariant, `EnergyInv`: what a pulse adds
depends on its width and height when it is over, so the samples of the pulse
under way are set aside until then, and its height stays below the highest
sample of the circle. What remains are products that grow with their factors
(`TimesGrows`, `ValueBelow`, `AddedBelow`).

**Rtc.** `CountsTrue` makes the count, with the overflow that was not served,
the time. That the stored time is recent depends on the alarm: only the low
half of a time is compared in hardware, so `Waiting` says that the time is at
most a period and a second after the stored one, and `MatchIsOne` that within
a round of the counter only one time matches. In the callback the match was
one second ago (`Fired`), but for the alarm in the last second of the
calendar. For a cut write `PartsClose` compares the upper bytes of the old and
the new time: they are the same, and the cut leaves the new time, or one
apart, around the end of the calendar too, and it leaves the new time less
what the first of them counts.

**RtcAge.** The display sees the difference of two times, which wraps. `Round`
says that it is the age up to whole calendars, which every reset keeps since
it takes the same from both. `Recent` bounds what the next reset may take from
an age by what has gone by since the last save. `ShownAge` is about `Age`
alone: the units that `Length` computes by recursion are products
(`LengthFun`, `LengthIs`), and dividing by one after the other is dividing by
their product (`NestedDiv`), so the two numbers shown are the age, cut below
the second of them.

**Sleep.** `Registers` says what each statement of `main` may rely on.
`KeySeen` and `ChargerSeen` follow an edge through the last statements before
the sleep: until `sleep_enable` it is late, after it either its flag is
pending or its handler has taken back the permission to sleep.

**Adc.** The state of the converter is told by the call that comes next
(`Ready`): before "wait" a conversion of what was asked for is under way or
done, before "start" none is, before an input is selected the converter is
off. What makes that inductive is the order of the calls, which `Follows`
lists in pairs: the loops of the programs keep it for every number of
conversions (`RepeatPair`), and so do programs put together of parts
(`PartConcat`).

**Battery.** `Follows` needs no more of the state than that the level is a
number: from whatever level, a reading brings it next to itself, and two
neighbours in turn settle on the even one.

**Display.** What a mode paints is a `Page`: its paintings lie side by side on
the screen, their items cover no more than an area, and the paintings blank no
less; pages that do not touch make one (`PageConcat`). The area depends on the
mode alone (`AreaOf`, `ModePage`), whatever tag, number, symbol or age is
drawn: an age, of one pair or two, of one digit or two, fills its strip of 116
pixels to the last (`ThenStrip`, `AgeStripIs`). So the invariant is that what
is on the panel lies on the screen and on the area of the mode drawn last
(`Within`): if the mode stays, the next page blanks that area
(`RemainsNothing`), if it changes, the screen is cleared. Rectangles are
compared pixel by pixel (`In`, `Holds`), since what is left of one beside
another comes in up to four parts (`LeftIs`, `ClearedIs`). That a battery
symbol is one of the table is `SymbolIs`.

**Sums.** The library's sums and cardinalities are folds that pick elements in
an order of their own. `Arithmetic` proves what they compute without
induction, which the provers cannot instantiate: a set of counterexamples has
a smallest one (`SmallestSubset`, `SmallestNumber`, from the well-foundedness
of finite sets), and that one is not. `AddsExists` so makes the recursion of
the fold a function, `SumTakes` lets it begin with any element.

**Model-checked only.**

- All liveness properties (`FramesTaken`, `PendingResolved`,
  `PowerSaveMeasures`, `ComesDown`, `PressNoticed`): fairness is about what is
  enabled, for which the prover has no rules.
- `NumbersReadable` of `Display`: it is about the notes of the code as they
  are, and the value of a number is a fold over its digits. The run takes
  every note in every size.

## 6. What the code does that one would not expect

**A command that was not sent is obeyed** (`serial/serial.c:245`, run
`serial_return`). `CheckUART2Rev` re-opens the receiver, latches the type of
the frame, draws on the display for milliseconds, and then returns
`g_receive_struct.command_type`, read again. A byte takes 87 microseconds, so
the interrupt may have stored the type of the next frame by then. The comment
at line 237 says "check if a valid data stream transfered and if is ,return
command type". `EachChangeUnlocked` therefore excludes commands that were
exchanged like this (ghost `raced`).

The following contradict no comment; they are facts the models had to take
over, each a place to look at.

Measuring:

- After `fifo_flush` the sum still runs over all slots of the buffer while the
  divisor is the number in use (`algorithm.c:250-252`): right after turning
  on, the average is up to 64 times too high, if the buffer was full before.
- The factor of the smoothing step is an `int` of 16 bits (`algorithm.c:275`).
  After 2^13 measurements on one side of the average it wraps to a negative
  number, and the smoothed value then moves *away* from the average for as
  many measurements, below zero even. The counts wrap at 2^15, although they
  are compared with `UINT16_MAX-1`. `ComesDown` shows that too high a reading
  still comes down in the end.
- A rise of the smoothed value of less than one is cut to nothing
  (`algorithm.c:280`); a rise may stop short of the average for good. A fall
  of less than one takes off a whole one (`algorithm.c:284`), unless it is so
  small against the value that the float loses it. With the smallest factor,
  the one that a count at its end leaves for good, a value up to 1.2 percent
  above the average stays there.
- `last2=last1` in the plateau condition (`algorithm.c:113`) is an assignment;
  it moves the threshold of line 117 and the history of the next sample.
- `light_strength` is shifted again for each size (`algorithm.c:205`).
- The share of the light is subtracted from the smoothed dust without a look
  at which is larger (`main.c:111`): when the light has just risen, the
  difference wraps and a number of the last segment is shown, mostly the
  largest.
- The product of the curve exceeds 32 bits for data of about 509500 and more
  (`main.c:144`): instead of 99999 about 60000 is shown, and more dust then
  shows as less. `ReadingTrueOrTop` and `ShownMonotone` show that neither of
  the two wraps makes a small number.
- On the charger `last_operate_index` is set back whenever a limit of it is
  reached (`main.c:447`, `main.c:491`): a device that is left there measures,
  and burns its laser, without end. `LaserLimited` is about the time off the charger.
- `pm252data` bounds its loop by `sizeof(dy)/sizeof(uint16_t)` although the
  table's elements have four bytes (`main.c:158`): for a target beyond the
  table it reads the memory behind it. `CalibratedReadsMaster` leaves such
  targets out. A calibration by 0 of a device that reads 0 makes the factor
  0/0; `HasRatio` excludes it.
- The ground of the detector is also calibrated while a measurement is held or
  the history is shown, when the detector has no supply. The first
  measurements afterwards use it, until the next calibration; `GroundRenewed`
  bounds that by two periods of the refresh (two and not one since the end of
  the low battery message moves the refresh).
- `ad_init` leaves the reference of the battery's input as it is for the
  detector, until the first reading of the battery swaps it.

Commands, sleep and time:

- A new frame's digits may be cleared by the `memset` of a calibration being
  finished (`serial.c:117`); the frame then waits with four bytes 0x00.
  `DealUART2Data` takes '0' off these as well, -48 each, so they make a large
  number that passes its test for 0 and would be written. What keeps it from
  being written is the lock: it is still at READY when that frame is obeyed,
  which closes it.
- A frame that arrives while the charger is being unplugged waits until it is
  plugged in again, and is then obeyed.
- An edge of the power key between the clearing of the interrupt flags and
  `sleep_enable`, or of the charger between its sampling and `sleep_enable`
  (a whole circle), is served before the sleep and does not prevent it. The
  RTC's alarm ends it within ten seconds (`SleepsThrough`, `PressNoticed`).
- A reset in the middle of the EEPROM write of the time leaves its low bytes
  new and its high bytes old. If a carry went into these, which is once in
  four minutes, 18 hours or 194 days, the calendar goes back by just that long
  (`CutWriteClose`). The alarm of the calendar's last second is passed over.
- A cut between the index writes of an erase leaves indices up to twice the
  slots apart; reading then shows slots twice, until the next erase is
  completed.

Display:

- Ages of 30 days and more are shown with their days labelled as months and
  their hours as days (`oled.c:693-711`). A measurement saved just before a
  reset may be younger than the resumed clock; its negative age is then shown
  as 99 months, for at most eleven seconds (`AgeHonest`).
- The buffer for a scaled picture has 180 bytes and the caption of the air
  quality `leveldes` 192: its last row shows what lies behind the buffer
  (`oled.c:183`, `oled.c:214`).
- The panel addresses columns in pairs: a picture at x = 33 is drawn at 32,
  a line one wide is two wide. The `Assert`s of `oled_draw_rectangle`
  contradict its callers; they are compiled out.

## 7. What is assumed, and what is not modelled

Assumed of the hardware and the compiler: an EEPROM byte is written entirely
or not at all, a dword may be torn between any two of its bytes, of which the
lowest is written first (avr-libc); `int` has 16 bits and conversions and
overflows wrap as avr-gcc makes them; of the avr `double` (32 bits) the
rounding of the sum and difference at `algorithm.c:280` and `284` is modelled,
its ties upwards, while the step and the average themselves are exact (the
code's are off by less than one in 2^22), and so are the factors of the
correction; the RTC's interrupts are served within the second of their request and
`CNT` is read as it is; at most one byte arrives during a few consecutive
assignments.

Simplified in the models:

- In `Circle` the charger is sampled once per circle, the wrap of
  `circle_index` (after two years) is left out, and sleep is entered in one
  step; `Sleep` takes that step apart.
- In `Sleep` an interrupt may be served late, after any number of statements,
  which allows more than the hardware does. A reset is a new start. The locks
  of the sleep manager go up and down with `adca_enable_count` and are never
  consulted.
- In `Keys` one key is used at a time.
- `Dust` and `Reading` follow the first of the two sizes, whose sums stay
  below 32 bits. That of the second size, shown in power save only, may not,
  because of the shift of `algorithm.c:205`.
- In `Battery` the filter of the voltage is part of the reading.
- In `Display` a picture is its rectangle and its name.

Not modelled:

- The pictures, and which of those of one size is chosen for the air quality:
  pure appearance. The panel driver (`oled/oled_driver.c`), a write cycle
  without state, and the names of the pins.
- `debug.c`, which is not part of the build, and `battery_store_last_level`,
  which is never called.
- EEPROM writes by the alarm interrupt in the middle of those of the main
  program (`main.c:187`). avr-libc's EEPROM routines are not re-entrant, so
  the address and data registers of an interrupted write may be overwritten.
  Whether they are depends on a few instructions of avr-libc, which is not in
  the repository.
- The rest of `ASF/`. The RTC, the fifo, the converter and the interrupt
  levels are modelled where the firmware uses them; what remains are clock,
  port, timer and USART drivers that write registers, drivers that the
  firmware does not call, and headers that are mostly documentation. That is
  most of the repository's lines, and the reason why most of them correspond
  to nothing here: of the firmware's own code the larger part is mapped.
