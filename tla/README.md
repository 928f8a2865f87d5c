# Verification of the fire and occupancy monitor

TLA+ modules, TLC configurations and TLAPS proofs for the two boards of this repository: a sensor node
(`sensor_node/`) that samples the room and offers its measurements as an I2C register map, and a base station
(`base_station/`) that reads them, sounds a fire alarm and lets a user change settings. Both are Zephyr applications.

    cd tla
    tlc -workers 2 -config FireSafety.cfg MCFireSystemHistory
    tlapm FireSystemProofs.tla

## 1. Inventory

### Sensor node

| Part | State | Operations | What makes it correct |
|---|---|---|---|
| Register map, `registers/register_map.c` | `regs[256]`, `t_obj_high_latched`, one mutex-like spin lock | `regmap_read`, `regmap_write` (one byte), `regmap_publish_*` (one sensor's block), `raise_irq` | STATUS and INT_SRC agree; the interrupt is raised once per excursion above a threshold somebody chose |
| I2C target, `i2c/i2c_target.c` | `reg_ptr`, `ptr_loaded` | five callbacks of the bus driver | the byte reaches the register the master means, whatever was aborted before |
| Interrupt pump, `main.c: irq_pump_entry` | level of GPIO16 | every 20 ms: INT_SRC to pin | the line follows INT_SRC |
| Sensor threads, `main.c` | `i2c0_mutex`, last applied radar configuration | test CTRL, measure, publish, sleep | the two on `i2c0` never meet there; a slow or dead sensor delays the others by a bounded time; a sensor switched off goes quiet |
| Radar, `sensors/mmwave/mmwave.c` | ring buffer, line buffer, `cur_state`, receiver on/off | `uart_isr`, `parse_work_handler`, `mmwave_apply_config`, `mmwave_is_occupied` | only whole lines count; silence is no occupancy, unless the radar is switched off; the radar gets the settings when it is on |
| MLX90614 driver | none | two SMBus words with a checksum, conversion | nothing garbled becomes an object temperature |
| BME680 driver | calibration | start, poll for new data, burst read | every failure ends the measurement, and the wait is bounded |
| SPW2430 driver | baseline | calibrate, peak and RMS of a window | a failed sample ends the window and publishes nothing |
| Start-up, `main.c: main` | CTRL register, threads | probe the sensors, start threads | CTRL tells which sensors have a thread; a missing one leaves the others working |

### Base station

| Part | State | Operations | What makes it correct |
|---|---|---|---|
| `remote_pico` driver | `buf` (last burst) | `sample_fetch`, `channel_get`, `attr_set` | the snapshot is one state of the node |
| Interrupt path, `remote_pico_interrupts.c` | `remote_sensor_lock`, `remote_irq_work`, `fire_threshold_centi_c`, `interrupt_demo_configured` | edge interrupt, work item, `try_configure`, `set_fire_threshold` | every interrupt is answered; node and base station agree on the threshold |
| Main loop, `main.c` | `current_mode` | poll, stop the alarm, run the menu | a cool object ends the alarm, a hot one does not |
| Mode button, `main.c: button_task` | `btn_sem`, `last_accepted_press_ms` | `button_isr`, debounce, toggle | one press, one toggle |
| Configuration mode, `config_mode.c` | line buffer, shown settings | line editor, parsers, dialogue | always left when asked; what is set is what was typed; what it shows is what the node has |
| Fire alarm, `fire_alarm.c` | `alarm_active`, `alarm_flash_red`, `alarm_start_sem` | `fire_alarm_trigger`, `fire_alarm_stop`, `alarm_thread` | a siren that follows what was last asked for |
| Display, `remote_pico_display.c` | none | print | a printed temperature reads as the one measured |

### How they interact

    MLX90614 thread -> regmap_publish_mlx90614 -> INT_SRC -> irq pump -> GPIO16 =edge=> remote_irq_isr -> work item
    work item: lock, burst read, INT_SRC set? -> fire_alarm_trigger; write INT_SRC = 0; unlock
    main:      lock, burst read, try_configure (first success arms the node), temp <= threshold? -> fire_alarm_stop; unlock
    menu:      lock, set_fire_threshold = { INT_EN = 0; T_OBJ_HIGH (bytes); INT_SRC = 0; INT_EN = T_OBJ_HIGH }; unlock
    alarm thread: semaphore from trigger; loops while alarm_active; lamp if alarm_flash_red
    button isr -> semaphore -> button_task -> current_mode -> main loop and every prompt of the menu
    main of the node: probe sensors -> CTRL -> threads;  bus master -> CTRL -> each thread's next round
    BME680 thread, MLX90614 thread: lock i2c0_mutex, transfers, unlock (handed over) -> regmap_publish_*
    menu -> MMW registers -> mmWave thread -> mmwave_apply_config (receiver paused) -> radar -> lines -> occupancy

### What is hard

- A *level* at the node becomes an *edge* at the base station, which answers by a write over a bus that can fail.
- A threshold is reconfigured by several bus writes while readings are published; the register lock is per byte.
- Two threads of the base station share one snapshot buffer and hand a mutex over.
- Both boards can restart alone. Nothing is persisted, so one board's belief about the other goes stale.
- Trigger and stop race with the alarm thread's last test; a semaphore token can outlive its reason.
- The button's thread is starved by main, and debounces with a clock it reads late.
- The BME680 thread sleeps and polls for up to 670 ms with the mutex in hand that the MLX90614 thread, the source of the fire
  alarm, needs every 500 ms. Every transfer can fail, and every early return must still give the mutex up.
- Numbers pass through hand-written scanners, two roundings towards zero and split signs.
- The radar's text is cut by pauses of the receiver, and mixed with binary replies.
- Any bus master may clear and set a sensor's bit of CTRL at any time; its thread looks at the bit once per turn.

`PROJECT.json` lists each hazard at its line, with the properties that cover it or the reason why none does.

## 2. Modules

| Module | Models | Composition |
|---|---|---|
| `RegisterMap` | `register_map.c`: registers, writes with their masks, publications, latch, `raise_irq` | base of the next two, `MmWave` and `SensorNode` |
| `I2CTarget` | `i2c_target.c` and a bus master that stops or restarts after any byte | extends `RegisterMap` |
| `FireSystem` | node publications, pump, line, work item, main, configuration, alarm flags, faults, restarts | extends `RegisterMap` |
| `FireSystemHistory` | history variables for `FireSystem`: which threshold an interrupt is about, whether it was cool | extends `FireSystem` |
| `FireMonitor` | abstract: an alarm begins only with an interrupt, an interrupt is dropped only when it was answered, no alarm stops while one is answered | implemented by `FireSystem` |
| `Siren` | abstract: a siren that follows what is asked for | |
| `FireAlarm` | `fire_alarm.c`: callers, flags, semaphore, thread, lamp, tone | implements `Siren` |
| `ModeButton` | button, its thread, main and the dialogue, with the priorities | |
| `MmWave` | radar, receiver, parser, mmWave thread with its test of CTRL, menu settings, a master that switches the radar off and on, restarts of either board | extends `RegisterMap` |
| `Mlx90614` | `mlx90614.c`: checksum, words, conversion; the sensor's own checksum as a polynomial remainder | |
| `SensorNode` | `main.c` of the node: start-up, CTRL, the threads of the BME680, the MLX90614 and the microphone, `i2c0_mutex`; the drivers' control flow | extends `RegisterMap`, `Mlx90614` |
| `Console` | `config_mode.c` key by key: editor, parsers, menu; printing and conversion of temperatures on the base station | |
| `*Proofs` | theorems about the module of that name; `FireSystemProofs` also those about `FireSystemHistory` and `FireMonitor`, `SensorNodeProofs` those about `Mlx90614` | extends it |
| `MC*` | sets of values for the configurations | extends it |

**Bytes.** The code's integers are bytes in little-endian registers. `RegisterMap` has a constant `Radix` in place of 256
and two bytes per value: what matters is that a value needs more than one bus byte, that a mixture of two values can be a
third one, and the sign of the whole (two's complement over two digits). `TH_DISABLED` is the largest value, as
`INT32_MAX` is. In base 6, thresholds 2 = <<2,0>> and 7 = <<1,1>> differ in both bytes, and so do the readings
5 = <<5,0>> and 8 = <<2,1>>, whose mixture <<2,0>> is at the threshold 2. Flag registers hold sets of flags.

**Granularity.** One step is one critical section: a byte of a bus transfer (the node locks per byte), one publication
(locked as a whole), one access to an atomic or to the base station's shared state. `I2CTarget` shows that a bus byte
reaches the register it is meant for, whatever came before it; `FireSystem` and `MmWave` use this and address registers directly.

**FireSystem and the code.** `pc["main"]` and `pc["work"]` are the two users of the sensor lock.
`StartPoll`, `MainLock`, `MainFetch`, `try_configure`, `update_fire_alarm_state`, `MainUnlock` follow the loop in `main.c`;
`Disable`, `WriteLow`, `WriteHigh`, `ClearForMain`, `Enable` are the writes of
`remote_pico_interrupts_set_fire_threshold`, each with a disjunct for an error that is reported before or after the
write has had its effect; `WorkStart` .. `WorkUnlock` follow `remote_irq_work_handler` with its early exits.
`NodeRestart` applies `regmap_init` (the transfer under way fails); `BaseRestart` gives the base station's variables their
initial values and looks at the level of the line, as `remote_pico_interrupts_init` does.
The alarm thread is assumed to run; `FireAlarm` has the case where it does not.

**FireAlarm and the code.** `fire_alarm_trigger` is `TriggerFlash`, `TriggerCas`, `TriggerGive`, `fire_alarm_stop` is
`StopCas`, `StopFlash`. The callers hold `remote_sensor_lock`, so that one call runs at a time (`SensorLockHeld` of `FireSystem`);
the thread takes its steps in between. The tone is one step per half period; the lamp's toggling time counts those.

**ModeButton and the code.** `mpc` is main at the granularity of its tests and waits; `Blocked` names the states in which
main waits, the only ones in which the button's thread (priority 5 below main's 0) takes a step. The clock wraps at `ClockRange`.
Contacts bounce when they close and when they open.

**FireMonitor and FireSystem.** `irq` is INT_SRC # {}; `told` is the work item from the byte of the burst that brought it INT_SRC to
its clearing write or its giving up; `setting` is main from the write that disarms the node to the one that arms it. A
failed transfer is `GiveUp`, or leaves `setting` with the interrupt still there.

**MmWave and the code.** A text line is cut into two fragments, the places where a pause can tear it; `?` is a piece of a binary
reply. The number of a fragment is a range's digit, or tells the line it is from, which the parser does not look at. `TestCtrl` is the
test of CTRL_EN_MMWAVE at the head of every turn: with the bit clear the thread sleeps and leaves the registers as they
are. `ReadConfig` .. `Publish` are the rest of the turn; `Pause`, `SendFrame`, `Resume` are `mmwave_apply_config`. `WriteCtrl` writes
CTRL at any moment and as often as it likes. `skipped` is a history variable: a turn has been skipped since the last publication.
Ages are counted in periods of the thread. `NodeRestart` resets what RAM holds (CTRL has the radar's bit again: a thread exists
only when `mmwave_init` has succeeded, which `SensorNode` models) while the radar keeps its configuration and goes on in the middle of a
line; `BaseRestart` may fall between the two bytes of a delay.

**SensorNode and the code.** `boot` walks through `main`; `pc` is each thread at the granularity of its waits and transfers.
`TestCtrl`, `Lock`, `Unlock`, `Wake` serve both bus threads; `Unlock` hands the mutex to a waiting thread as
`k_mutex_unlock` does. `StartMeasurement`, `Poll`, `Burst` are `bme680_read_all`, each with its failure; `ReadAmbient` and
`ReadObject` are the two halves of `mlx90614_read`, whose possible results are computed by `smbus_read_word` from every word,
every listed error on the bus and the reply to the wrong command. Time advances in polls of 10 ms, and only when neither bus
thread can run: a transfer takes far less than a poll.

**Mlx90614 and the code.** A byte is the set of its bits. `crc8` and `smbus_read_word` are the driver's; `Pec` is the sensor's
side, stated as what a checksum is (the remainder by x^8 + x^2 + x + 1), so that agreement of the two says something.

**Console and the code.** `buf` is the line buffer, `screen` what echo and backspace leave visible. The scanners are written as
positions in the line (`Past`, `AfterSign`); the reference `Said` is a grammar: it cuts the line in four places and asks
whether the pieces are blanks, a sign, digits, a fraction. Signed overflow wraps, as on the target. `INT32_MAX`, `ULONG_MAX` and
the limits of the settings are scaled down, so that five keys reach them.

## 3. Runs

Every configuration that checks only invariants and action properties uses a specification without fairness.

| Run | Asks | Bounds and why they are enough |
|---|---|---|
| `i2c_target` | does the register pointer survive every mixture of aborts, repeated starts, wraps; do the flags agree (the types are proved) | transfers of up to 3 bytes from every kind of register, the last one before the wrap included; longer ones repeat the same step |
| `fire_safety` | lock discipline; what the node compares with while armed; no interrupt of an old threshold survives; no alarm ends although it should go on; refinement of `FireMonitor` | two readings, cool and hot; thresholds 2 (default) and 7, differing in both bytes; one fault and one restart anywhere (a second fault meets states like those of the first: the code has no retry counter) |
| `fire_liveness` | is every interrupt answered, does cool end the alarm, is an armed node's excursion ever missed, is a failed setup tried again | one fault, one restart; threshold changed between 2 (the default) and 7 at any time; the readings are 0 and 5, so that 2 is exceeded and 7 is not |
| `fire_alarm` | the alarm thread against its callers, refinement of `Siren`, lamp and sweep (the types are proved) | range 4..9 and step 2: the step does not divide the range, so both clamps happen; lamp period of 2 |
| `mode_button` | one toggle per press, not undone, menu opens, normal mode polls (the types are proved) | debounce 4, bounce 1, delay 2, clock of 8: bounce + delay < debounce, tight by one; the clock wraps |
| `radar` | whole lines only, no stale presence; radar, registers and menu converge | a buffer of 2 fragments and a backlog of 1 (a line of 2 fits, with one torn piece more it does not); three kinds of lines, each fragment of one kind (the range is 0 cm: nothing depends on it); staleness 0, so that presence goes stale within the shortest run; a gate or a delay of 7 against the default 5, differing in both bytes; one failed write, one restart; CTRL written any number of times, with the radar's bit or without |
| `sensor_node` | who is on the bus, how late can the MLX90614 be, what can reach the registers, do CTRL, threads and publications agree, is every sensor tried again | periods of 3 and 6 polls and at most 4 polls: a measurement of the BME680 is longer than a period of the MLX90614, as 670 ms are against 500 ms; bursts of up to 8 bits and all pairs of bits inverted on the bus; words with and without error flag; CTRL written once, anywhere |
| `console` | is what is parsed what was typed and shown; does a printed number read as its value | every line of up to 5 keys out of a sign, a point, a blank, `q` and five digits, and two lines: the choice and the answer; `INT32_MAX` is 2047 so that four digits overflow, `ULONG_MAX` 99 so that "-99" wraps to 1 |
| `arming_race`, `lost_interrupt`, `node_restart`, `torn_reading` | violations, see section 5 | the smallest instance that shows each |

`NoStopWhileHot` in `fire_safety` is checked with the readings 0 and 5, of which no mixture of bytes is a third value; with readings
whose bytes mix (0, 5, 8) it is violated, which is `torn_reading`. `StopsOnlyCooled` proves it for all readings of which no two mix
to one below both.

`PendingIrqIsForCurrentThreshold` is claimed while nothing failed and nothing restarted: after a failed clear an old interrupt
may stay. `RadarMatchesMenu` likewise is claimed while no write has failed and no board has restarted: the menu keeps its own copies
and is simply wrong after either. `ConfigConverges` needs no such excuse, but that the radar is not switched off for ever or again and again.
`PresenceIsFresh` excuses the time from a skipped turn to the next publication, however that came about: with its bit of CTRL clear the
thread leaves `REG_MMW_PRESENT` at 1 for as long as the bit is clear. `DisabledGoesQuiet` speaks of the three threads of `SensorNode`, not of
the radar's. `MlxKeepsPace` is about waiting for the bus and for the period: transfers take no time, and the microphone's thread, of
higher priority and without the bus, does not keep the processor from the others. `ThresholdIsTyped` is claimed below the overflow of `whole * 100`,
`SettingsAreTyped` for numbers without a minus sign (`strtoul` accepts some of them), and the printed values outside -0.99 .. -0.01, where the sign
gets lost. `OnePressOneToggle` is claimed while the button is
held: the code debounces from the accepted press only, so that the release of a long press, if its contacts bounce, can toggle
the mode back. No text of the repository speaks of the release.

### Fairness

- `FireSystem`: weak fairness of the pump (every 20 ms) and of publishing the same temperature again (the MLX90614 thread
  publishes every 500 ms whether or not the value changed: `SensorNode` shows that it keeps trying); of main and of the work item (the kernel schedules both, and every
  wait of theirs, for the lock or a transfer, ends). Strong fairness of `StartPoll`: a user does not stay in the menu for ever,
  and main, when it sleeps, may either poll or change a threshold. Strong fairness of `Attempt`: `try_configure` is called on every
  poll, and the time of IRQ_CONFIG_RETRY_MS that may make it return early passes. No fairness of faults or restarts.
- `SlowSensor` (the liveness and the violation runs about liveness): a reading is published only when the interrupt path has
  settled. Readings are 500 ms apart, the pump's period is 20 ms and the handler's transfers take a few milliseconds, so that
  an excursion lasts longer than the path unless main holds the lock through its own transfers. Without it, an excursion that
  ends before the work item reads is stopped at once by main, which is intended. The safety runs do not assume it.
- `FireAlarm`: a call that has begun returns; the thread is scheduled. Triggers and stops themselves are not fair.
- `ModeButton`: weak fairness of main (its waits end); strong fairness of the button's steps, which are enabled over and over,
  each time main waits: a thread of priority 0 that sleeps leaves the processor to one of priority 5.
- `MmWave`: the thread is periodic, a transfer that has begun ends (or the board restarts, which the bound allows once). No fairness of
  `WriteCtrl`: `ConfigConverges` is claimed of a radar that is on from some moment.
- `SensorNode`: weak fairness of `main`, of each thread and of time: a thread that can run does, since all of them sleep for most of
  their periods. No fairness of success: every transfer may fail for ever, and `SensorsKeepTrying` holds all the same.

## 4. Proofs

All theorems hold for every value of the constants that satisfies the named assumptions (`RadixAssumption`,
`ReadingsAssumption`, `MasterAssumption`, `FireAssumption`, `FrequencyAssumption`, `ButtonAssumption`, `MmWaveAssumption`,
`SensorNodeAssumption`, `MeasuredAssumption`, `WireAssumption`, `ConsoleAssumption`; TLC evaluates them in every run): any
radix, set of readings, thresholds, number of faults and restarts, tone range and step, debounce time, periods, polls, words on
the bus, lines and settings of the radar, lines typed and limits of integers. Two assumptions say something about the world:
`WireAssumption`, that what is inverted on the wire are up to eight bits in a row or any two bits, and `MeasuredAssumption`,
that the readings of the register map include what the sensor measures. Every invariant and every safety action property of a
run without violation is stated by a theorem.

- `RegisterMapProofs`: lemmas. A write stores a value of the register's type; `StoreLE` followed by `LoadLE` gives the value
  back; publications and writes preserve the types; STATUS and INT_SRC stay in agreement; which object temperature the registers
  hold.
- `I2CTargetProofs`: `TypeCorrect`, `PendingAgrees`, `PointerAgrees`, `WritesAreAddressed`. The pointer's theorem is inductive
  by itself once the master's phase is in the type: outside "idle" and "pointer", `reg_ptr = first + moved` modulo the size.
- `FireSystemProofs`: `TypeCorrect`, `LockHeld`, `FlashOnlyInAlarm`, `ArmingHolds`, `ThresholdsAgree`, `RaisesOnChosen`. The
  inductive invariant is `TypeOK /\ SensorLockHeld /\ FlashImpliesActive /\ ArmingInv`. `ArmedThresholdAgrees` is not inductive:
  a failed write may have had its effect, so one has to know that the node is disarmed from the first byte of a new threshold to
  the end, and that an armed node has a whole threshold, the one believed or none. That is `ArmingInv`, proved as `ArmingHolds`.
  `RaisesOnChosen` follows from `ArmingInv`, since the node raises only while INT_EN is set and never on `TH_DISABLED`.
  - `RefinesMonitor`: `FireSystem` implements `FireMonitor`, step by step. Besides `Inv` it needs `AnswerInv`: a work item that
    is about to sound the alarm or to clear the source has read T_OBJ_HIGH, and when it clears, the alarm sounds. This holds
    because main is outside the lock meanwhile (`LockHeld`).
  - `PendingIsCurrent`: no interrupt of an old threshold survives. `RaisedInv` adds that nothing is pending when main is about
    to arm the node: INT_SRC was cleared by the write before, and a node that is disarmed (`ArmingInv`) raises no new interrupt.
  - `StopsOnlyCooled`: an alarm ends only if the object has been cool. `HeatInv`: as long as it has not been, each of the two
    bytes in main's snapshot is that of a temperature above the threshold, possibly of two different ones. The theorem's
    hypothesis `Untorn` is that no mixture of the bytes of two readings is below both; it holds in `fire_safety`, and
    `torn_reading` shows that it is needed.
- `SensorNodeProofs`: `BusExclusive`, `KeepsPace`, `CtrlMatchesReady`, `GoesQuiet`, `OnlyMeasured`, `TypeCorrect`. `KeepsPace`
  rests on `Remaining`, how many polls the BME680 thread may still hold the mutex: time can pass while the MLX90614 thread waits
  only if the other one is between two polls, and then `pace` grows by what `Remaining` loses; the mutex is handed over, so that
  no second measurement can come in between. `CtrlMatchesReady` needs what main's copy of CTRL holds half-way through the boot:
  the sensors that answered and those not tried yet. `GoesQuiet` needs that a thread that has published without leave is back
  before its test of CTRL.
  - `ChecksumExact`: a transfer returns nothing or the word that was measured, and an undisturbed one returns the word. Four
    parts. `PecIsCrc`: eight steps of the long division by x^8 + x^2 + x + 1 are one call of `crc8`, so that after five bytes
    the remainder is the driver's checksum. `ErrorIsMessage`: `crc8` is linear over the sets of bits (symmetric difference), so
    that an error passes only if it is itself two bytes with their checksum. `Caught`: it is not if it is a burst (`Spanning`:
    the rounds go up from one byte and down from the next without losing a bit, and cannot meet) or a pair (`Powers`: the
    remainders of x^8 to x^23 have more than one bit). `OtherRejected`: every round is injective, so that the checksum over
    another command differs.
  - `OnlyMeasured` follows with `DataInv`: the registers hold a measured object temperature or the 0 of the start, and so does
    the thread's local result whenever it is alive. `TypeCorrect` is a consequence.
- `MmWaveProofs`: `PresenceFresh` (the age a published presence may have, for each place of the thread, if no turn was skipped since;
  a write to CTRL changes neither the presence nor the settings), `MenuIsApplied` (the
  radar has the thread's last configuration, or the one being sent; the registers have the menu's, or its low byte already),
  `LinesAreWhole` and `TypeCorrect`. An accepted line is one the radar sent: only the first half of a line names what it is
  about, and wherever such a half stands, in what the radar has still to send (`SentInv`), in the ring (`RingInv`) or at the end
  of the line buffer (`BufferInv`), the next one is its other half, or is still awaited from the radar. The end of a pause
  empties the ring and the buffer, and what is left of a line after it names nothing. The set of lines is arbitrary: with one in which
  no two lines share a fragment, the halves of an accepted line come from the same line, not only from two that make a legal third.
- `ConsoleProofs`: `TypeCorrect`, `ScreenIsLine`, `TempsExact`, `SettingsTyped`, `ThresholdTyped`, for lines and numbers of
  every length. The invariant `ConsoleInv` is about the editor; the rest are lemmas on the scanners. `Decimal` appends a digit
  as `10 * n + d`, by induction on the number of digits; a scan (`Past`, `AfterSign`) ends at the only place where the grammar
  of `Said` can cut; below the overflow `Wrapped` is the identity. The printed temperature is read back from its two halves,
  rounded towards zero, for every value but those whose sign gets lost.
- `FireAlarmProofs`: `TypeCorrect`, `NoStartLost`, `Quiet`, and `RefinesSiren`: every step of the alarm is a step of `Siren` or
  leaves its variables unchanged (the safety part of the refinement).
- `ModeButtonProofs`: `TypeCorrect`, `NotUndone`, and `OneToggle`, whose invariant `EdgesInTime` says that after an accepted
  press any edge still to be handled will be compared with the clock before the debounce time is over. It needs `BounceTime +
  MaxDelay < DEBOUNCE_MS`: contacts bouncing for a few milliseconds, and the button's thread not kept waiting by main's
  transfers and printing for the rest of the 50 ms. The code does not enforce this.

The library's induction theorems take an operator, which the provers cannot instantiate. `LeastElement` and `Induction`, in the
two modules that need them, draw induction for a *set* of naturals from the well-foundedness of `<`; recursive functions are
unfolded by giving a function that satisfies their equation (`RoundsExist`, `DivisionExists`, `DecimalCounts`).

Only model-checked, because liveness is out of the proof system's reach: `RaisedIrqIsAnswered`, `CoolStopsAlarm`,
`ArmedExcursionsAlarm`, `ConfigurationIsRetried`, `PressOpensMenu`, `NormalModePolls`, `ConfigConverges`, `SensorsKeepTrying`,
`OccupiedAlarmFlashes`, `ToneSweeps`, and the fairness part of `ImplementsSiren`.

## 5. Findings

The comment at `base_station/src/main.c:19` says that the program "triggers the fire alarm if the object temperature >= threshold".

1. `arming_race`: an object already hot while the node is disarmed sets the latch; arming later finds no step to raise an
   interrupt on. The alarm stays silent for as long as the object stays hot.
2. `lost_interrupt`: one failed transfer in the work item leaves INT_SRC set and the line high; no later edge comes.
3. `node_restart`: after a restart of the node alone the base station never arms it again.
4. `torn_reading`: a burst that mixes the bytes of two hot readings can look cool and stop the alarm.

The same comment is also wrong at the threshold itself, where the node compares with `>` and the stop with `<=`: give `arming_race`
the single reading 2 (`AtThresholdOnly` in `MCFireSystem`) and `FireSoundsAlarm` is violated without any race.

`ArmedExcursionsAlarm` is what does hold: when no transfer has failed, an armed node whose object goes from cool to hot again and
again keeps sounding the alarm.

Met while modelling, with no text of the repository that says otherwise: a change of the threshold that fails after its first write
leaves the node disarmed for good (`interrupt_demo_configured` is still true); a radar that is switched off in CTRL while the room is
occupied leaves `REG_MMW_PRESENT` at 1 until it is switched on again, and only CTRL tells; the menu shows settings that a restarted board
does not have; "-0.50" is set as it is but shown as "0.50"; a gate of "-4294967295" is accepted as 1.

## 6. Not modelled

- The compensation formulas of the BME680 (temperature, humidity, gas, heater): arithmetic of its data sheet, of which the
  repository has no reference values; `load_calibration` likewise. `bme680_init` succeeds or fails as a whole.
- The sample registers of the BME680 and the microphone, the range the radar publishes, the humidity and the other channels that the
  base station only prints: nothing depends on them. The sums of the SPW2430 (baseline, peak, RMS of a window):
  its calibration and a window succeed or fail as a whole.
- The bytes of a command frame to the radar and the 65535 limit of a range.
- Wording, debug output.
- The register map's burst functions: nobody calls them. The driver's chip-ID check: its result is not used.
- Priorities of the node's threads, except that the receiver's work item runs before all of them, and the time that transfers on the bus
  and computations take.
- CTRL and the radar's thread in one module with those of the other sensors: `MmWave` has the radar's bit, `SensorNode` the others.
- The 49.7-day wrap of the button's clock is in the model, but no property claims that a press in that window is accepted.
- What a signed overflow in `parse_centi_c` may do besides wrapping.

## 7. What could come next

1. Inverted bits in what the node itself sends to the MLX90614: the model has the reply to the other command, not an inverted address or
   command byte. `CrcLinear` and `CrcInjective` serve for these as well.
2. The safety half of the liveness properties about interrupts: a measure that each step of an answer makes smaller, so that fairness has
   to add one step at a time.
