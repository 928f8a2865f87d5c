------------------------------ MODULE SensorNode ------------------------------
(***************************************************************************)
(* The sensor node from main to its sensor threads (sensor_node/src/main.c *)
(* with the drivers of the BME680, the MLX90614 and the SPW2430): which    *)
(* sensors answer at boot, the bits of CTRL that switch their threads on   *)
(* and off, the mutex of the bus i2c0 that two of the threads share, and   *)
(* what they publish.                                                      *)
(*                                                                         *)
(* Time passes in units of MEAS_POLL_INTERVAL_MS, and only when neither of *)
(* the threads that use the bus can run; a transfer takes no time.  The    *)
(* microphone's thread runs at any time.  Priorities are left out: they    *)
(* would only remove behaviours.  A thread's local variables are cleared   *)
(* where their values die.  The mmWave thread is in module MmWave.         *)
(***************************************************************************)
EXTENDS RegisterMap, Mlx90614

CONSTANTS
  AmbientWords, ObjectWords,  \* words the MLX90614 may measure
  Errors,                     \* bits that may be inverted on the bus
  MLX_PERIOD, BME680_PERIOD,  \* the threads' sleeps, in polls
  PollLimit,                  \* (meas_wait_ms + MEAS_POLL_TIMEOUT_MS), in polls
  CtrlWrites, MaxWrites       \* what a bus master writes to CTRL; bound: how often

ASSUME WireAssumption ==
  /\ AmbientWords \cup ObjectWords \subseteq SUBSET (0 .. 15)
  /\ \A e \in Errors : e \subseteq 0 .. 23 /\ (BurstError(e) \/ PairError(e))

ASSUME SensorNodeAssumption ==
  /\ MLX_PERIOD \in Nat \ {0} /\ BME680_PERIOD \in Nat \ {0} /\ PollLimit \in Nat \ {0}
  /\ CtrlWrites \subseteq BusByte(REG_CTRL) /\ MaxWrites \in Nat

BME680   == "BME680"
MLX90614 == "MLX90614"
MIC      == "MIC"
Threads  == {BME680, MLX90614, MIC}
BusThreads == {BME680, MLX90614}
NoThread == "none"

VARIABLES
  boot, enabled, ready,   \* main: what it does next, its copy of CTRL, *_ready
  pc, timer,              \* the threads
  owner,                  \* of i2c0_mutex
  pace,                   \* polls since the MLX90614 thread last ended a round
  flagged, reading,       \* mlx90614_read: error flag of the ambient word; result
  first, elapsed, sample, \* bme680_entry and bme680_read_all
  writes, late            \* history: publications since CTRL last forbade them

mainVars == <<boot, enabled, ready>>
busVars  == <<pc, timer, owner, pace>>
mlxVars  == <<flagged, reading>>
bmeVars  == <<first, elapsed, sample>>
masterVars == <<writes, late>>
vars == <<regVars, mainVars, busVars, mlxVars, bmeVars, masterVars>>

-----------------------------------------------------------------------------
(* What smbus_read_word may return for a command: a measured word, or      *)
(* nothing when the transfer fails or its checksum does not fit -- bits    *)
(* were inverted, or the sensor took the command for the other one.        *)
ReadResults(cmd, words, other, others) ==
  {{}} \cup {smbus_read_word(cmd, Reply(cmd, w)) : w \in words}
       \cup {smbus_read_word(cmd, Garbled(Reply(cmd, w), e)) : w \in words, e \in Errors}
       \cup {smbus_read_word(cmd, Reply(other, w)) : w \in others}

AmbientResults == ReadResults(RAM_TA, AmbientWords, RAM_TOBJ1, ObjectWords)
ObjectResults  == ReadResults(RAM_TOBJ1, ObjectWords, RAM_TA, AmbientWords)

IsMeasurement(w) == ERROR_FLAG \notin w

MeasuredTemps == {CentiC(w) : w \in {v \in ObjectWords : IsMeasurement(v)}}

ASSUME MeasuredAssumption == MeasuredTemps \subseteq Readings

-----------------------------------------------------------------------------
Init ==
  /\ RegInit
  /\ boot = BME680 /\ enabled = Sensors /\ ready = {}
  /\ pc = [t \in Threads |-> NoThread] /\ timer = [t \in BusThreads |-> 0]
  /\ owner = NoThread /\ pace = 0
  /\ flagged = FALSE /\ reading = {}
  /\ first = TRUE /\ elapsed = 0 /\ sample = FALSE
  /\ writes = 0 /\ late = [t \in Threads |-> 0]

(* main initialises one sensor after the other; the ones that fail lose    *)
(* their bit of CTRL and get no thread.                                    *)
Initialised(sensor, ok, next) ==
  /\ boot = sensor /\ boot' = next
  /\ enabled' = IF ok THEN enabled ELSE enabled \ {sensor}
  /\ ready' = IF ok THEN ready \cup {sensor} ELSE ready
  /\ UNCHANGED <<regVars, busVars, mlxVars, bmeVars, masterVars>>

bme680_init == \E ok \in BOOLEAN : Initialised(BME680, ok, MLX90614)

(* Its test read must succeed; what it reads does not matter. *)
mlx90614_init ==
  \E r \in AmbientResults : Initialised(MLX90614, r # {}, "MMWAVE")

mmwave_init == \E ok \in BOOLEAN : Initialised("MMWAVE", ok, MIC)

ForgottenBit ==
  \/ \E ok \in BOOLEAN : Initialised(MIC, ok, "launch")
  \/ /\ boot = MIC /\ boot' = "launch"       \* not calibrated, but enabled
     /\ UNCHANGED <<regVars, enabled, ready, busVars, mlxVars, bmeVars, masterVars>>

(* Both spw2430_init and spw2430_calibrate must succeed. *)
spw2430_init == \E ok \in BOOLEAN : Initialised(MIC, ok, "launch")

FirstReadUnlocked ==
  /\ boot = "launch" /\ boot' = "run"
  /\ regmap_write(REG_CTRL, enabled)
  /\ pc' = [t \in Threads |-> IF t \notin ready THEN NoThread
                              ELSE IF t = BME680 THEN "read" ELSE "ctrl"]
  /\ UNCHANGED <<enabled, ready, timer, owner, pace, mlxVars, bmeVars, masterVars>>

(* CTRL is set before the target answers and the threads exist; the BME680 *)
(* thread begins with a reading that it throws away.                       *)
Launch ==
  /\ boot = "launch" /\ boot' = "run"
  /\ regmap_write(REG_CTRL, enabled)
  /\ pc' = [t \in Threads |-> IF t \notin ready THEN NoThread
                              ELSE IF t = BME680 THEN "lock" ELSE "ctrl"]
  /\ UNCHANGED <<enabled, ready, timer, owner, pace, mlxVars, bmeVars, masterVars>>

-----------------------------------------------------------------------------
(* The rounds of the threads. *)

Goes(t, to)    == pc' = [pc EXCEPT ![t] = to]
Sleeps(t, n)   == Goes(t, "sleep") /\ timer' = [timer EXCEPT ![t] = n]
Period(t)      == IF t = BME680 THEN BME680_PERIOD ELSE MLX_PERIOD
IsEnabled(t)   == t \in regs[REG_CTRL]
Late(t)        == IF IsEnabled(t) THEN 0 ELSE IF late[t] < 2 THEN late[t] + 1 ELSE 2
Published(t)   == late' = [late EXCEPT ![t] = Late(t)] /\ UNCHANGED writes

(* A round of the MLX90614 thread has ended. *)
PaceAfter(t) == IF t = MLX90614 THEN 0 ELSE pace

EnabledForGood(t) ==
  /\ pc[t] = "ctrl"
  /\ Goes(t, "lock")
  /\ UNCHANGED <<regVars, mainVars, timer, owner, pace, mlxVars, bmeVars, masterVars>>

TestCtrl(t) ==
  /\ pc[t] = "ctrl"
  /\ IF IsEnabled(t) THEN Goes(t, "lock") /\ UNCHANGED <<timer, pace>>
                     ELSE Sleeps(t, Period(t)) /\ pace' = PaceAfter(t)
  /\ UNCHANGED <<regVars, mainVars, owner, mlxVars, bmeVars, masterVars>>

Lock(t) ==
  /\ pc[t] = "lock"
  /\ IF owner = NoThread THEN owner' = t /\ Goes(t, "read")
                         ELSE Goes(t, "wait") /\ UNCHANGED owner
  /\ UNCHANGED <<regVars, mainVars, timer, pace, mlxVars, bmeVars, masterVars>>

(* k_mutex_unlock hands the mutex over to a thread that waits for it. *)
Unlock(t, to) ==
  /\ pc[t] = "unlock"
  /\ IF \E u \in BusThreads : pc[u] = "wait"
     THEN \E u \in BusThreads :
            /\ pc[u] = "wait"
            /\ owner' = u /\ pc' = [pc EXCEPT ![t] = to, ![u] = "read"]
     ELSE owner' = NoThread /\ Goes(t, to)
  /\ UNCHANGED <<regVars, mainVars, timer, pace, mlxVars, masterVars>>

Wake(t) ==
  /\ pc[t] = "sleep" /\ timer[t] = 0
  /\ Goes(t, "ctrl")
  /\ UNCHANGED <<regVars, mainVars, timer, owner, pace, mlxVars, bmeVars, masterVars>>

-----------------------------------------------------------------------------
(* mlx90614_read: the ambient word, then the object word.  Both must come; *)
(* the error flags are looked at afterwards.                               *)

ReadAmbient ==
  /\ pc[MLX90614] = "read"
  /\ \E r \in AmbientResults :
       IF r = {} THEN Goes(MLX90614, "unlock") /\ UNCHANGED flagged
       ELSE Goes(MLX90614, "object") /\ flagged' = (\E w \in r : ~IsMeasurement(w))
  /\ UNCHANGED <<regVars, mainVars, timer, owner, pace, reading, bmeVars, masterVars>>

ReadObject ==
  /\ pc[MLX90614] = "object"
  /\ \E r \in ObjectResults :
       reading' = {CentiC(w) : w \in {v \in r : ~flagged /\ IsMeasurement(v)}}
  /\ flagged' = FALSE
  /\ Goes(MLX90614, "unlock")
  /\ UNCHANGED <<regVars, mainVars, timer, owner, pace, bmeVars, masterVars>>

mlx_publish ==
  /\ pc[MLX90614] = "done"
  /\ \/ \E obj \in reading : regmap_publish_mlx90614(obj) /\ Published(MLX90614)
     \/ reading = {} /\ UNCHANGED <<regVars, masterVars>>
  /\ reading' = {}
  /\ Sleeps(MLX90614, MLX_PERIOD) /\ pace' = PaceAfter(MLX90614)
  /\ UNCHANGED <<mainVars, owner, flagged, bmeVars>>

mlx_entry ==
  \/ TestCtrl(MLX90614) \/ Lock(MLX90614)
  \/ ReadAmbient \/ ReadObject
  \/ Unlock(MLX90614, "done") /\ UNCHANGED bmeVars
  \/ mlx_publish \/ Wake(MLX90614)

-----------------------------------------------------------------------------
(* bme680_read_all: start a measurement, poll until there is new data, and *)
(* read it.  Every transfer can fail; "sample" says that none has.         *)

BmeEnds(ok) == Goes(BME680, "unlock") /\ sample' = ok /\ elapsed' = 0

StartMeasurement ==
  /\ pc[BME680] = "read"
  /\ \/ /\ Goes(BME680, "poll") /\ timer' = [timer EXCEPT ![BME680] = 1]
        /\ elapsed' = 0 /\ UNCHANGED sample
     \/ BmeEnds(FALSE) /\ UNCHANGED timer
  /\ UNCHANGED <<regVars, mainVars, owner, pace, mlxVars, first, masterVars>>

PollAgain ==
  Goes(BME680, "poll") /\ timer' = [timer EXCEPT ![BME680] = 1] /\ UNCHANGED sample

StuckElapsed ==
  /\ pc[BME680] = "poll" /\ timer[BME680] = 0
  /\ \/ Goes(BME680, "burst") /\ UNCHANGED <<timer, elapsed, sample>>
     \/ PollAgain /\ UNCHANGED elapsed
     \/ BmeEnds(FALSE) /\ UNCHANGED timer
  /\ UNCHANGED <<regVars, mainVars, owner, pace, mlxVars, first, masterVars>>

(* New data, one more poll, or the end: -ETIMEDOUT or a failed transfer.   *)
Poll ==
  /\ pc[BME680] = "poll" /\ timer[BME680] = 0
  /\ \/ Goes(BME680, "burst") /\ UNCHANGED <<timer, elapsed, sample>>
     \/ elapsed + 1 < PollLimit /\ elapsed' = elapsed + 1 /\ PollAgain
     \/ BmeEnds(FALSE) /\ UNCHANGED timer
  /\ UNCHANGED <<regVars, mainVars, owner, pace, mlxVars, first, masterVars>>

Burst ==
  /\ pc[BME680] = "burst"
  /\ \E ok \in BOOLEAN : BmeEnds(ok)
  /\ UNCHANGED <<regVars, mainVars, timer, owner, pace, mlxVars, first, masterVars>>

LeakedLock ==
  /\ IF sample THEN Unlock(BME680, IF first THEN "ctrl" ELSE "done")
     ELSE /\ pc[BME680] = "unlock" /\ Goes(BME680, IF first THEN "ctrl" ELSE "done")
          /\ UNCHANGED <<regVars, mainVars, timer, owner, pace, mlxVars, masterVars>>
  /\ first' = FALSE
  /\ UNCHANGED <<elapsed, sample>>

BmeUnlock ==
  /\ Unlock(BME680, IF first THEN "ctrl" ELSE "done")
  /\ first' = FALSE
  /\ UNCHANGED <<elapsed, sample>>

bme_publish ==
  /\ pc[BME680] = "done"
  /\ IF sample THEN regmap_publish_bme680 /\ Published(BME680)
               ELSE UNCHANGED <<regVars, masterVars>>
  /\ sample' = FALSE
  /\ Sleeps(BME680, BME680_PERIOD)
  /\ UNCHANGED <<mainVars, owner, pace, mlxVars, first, elapsed>>

bme680_entry ==
  \/ TestCtrl(BME680) \/ Lock(BME680)
  \/ StartMeasurement \/ Poll \/ Burst \/ BmeUnlock
  \/ bme_publish \/ Wake(BME680)

-----------------------------------------------------------------------------
(* The microphone's thread needs no bus, and may be anywhere in its period. *)

MicTest ==
  /\ pc[MIC] = "ctrl" /\ IsEnabled(MIC)
  /\ Goes(MIC, "read")
  /\ UNCHANGED <<regVars, mainVars, timer, owner, pace, mlxVars, bmeVars, masterVars>>

(* spw2430_read_level, whose arithmetic is left out: a level, or nothing   *)
(* as soon as one sample fails.                                            *)
MicRead ==
  /\ pc[MIC] = "read"
  /\ Goes(MIC, "done") \/ Goes(MIC, "ctrl")
  /\ UNCHANGED <<regVars, mainVars, timer, owner, pace, mlxVars, bmeVars, masterVars>>

mic_publish ==
  /\ pc[MIC] = "done"
  /\ regmap_publish_mic /\ Published(MIC)
  /\ Goes(MIC, "ctrl")
  /\ UNCHANGED <<mainVars, timer, owner, pace, mlxVars, bmeVars>>

mic_entry == MicTest \/ MicRead \/ mic_publish

-----------------------------------------------------------------------------
(* A bus master may switch sensors on and off. *)
WriteCtrl ==
  /\ boot = "run"
  /\ writes < MaxWrites /\ writes' = writes + 1
  /\ \E v \in CtrlWrites : regmap_write(REG_CTRL, v)
  /\ late' = [t \in Threads |-> 0]
  /\ UNCHANGED <<mainVars, busVars, mlxVars, bmeVars>>

(* A thread that only the clock, or another thread, can move. *)
Blocked(t) ==
  \/ pc[t] \in {NoThread, "wait"}
  \/ pc[t] \in {"sleep", "poll"} /\ timer[t] > 0

Tick ==
  /\ boot = "run" /\ \A t \in BusThreads : Blocked(t)
  /\ timer' = [t \in BusThreads |-> IF timer[t] > 0 THEN timer[t] - 1 ELSE 0]
  /\ pace' = IF pc[MLX90614] = NoThread \/ pace > MLX_PERIOD + PollLimit THEN pace ELSE pace + 1
  /\ UNCHANGED <<regVars, mainVars, pc, owner, mlxVars, bmeVars, masterVars>>

main == bme680_init \/ mlx90614_init \/ mmwave_init \/ spw2430_init \/ Launch

Next == main \/ mlx_entry \/ bme680_entry \/ mic_entry \/ WriteCtrl \/ Tick

Spec == Init /\ [][Next]_vars

(* A thread that can run does run in the end, and time goes on. *)
FairSpec ==
  /\ Spec
  /\ WF_vars(main) /\ WF_vars(mlx_entry) /\ WF_vars(bme680_entry) /\ WF_vars(mic_entry)
  /\ WF_vars(Tick)

-----------------------------------------------------------------------------
States == {NoThread, "ctrl", "lock", "wait", "read", "object", "poll", "burst",
           "unlock", "done", "sleep"}

TypeOK ==
  /\ RegTypeOK
  /\ boot \in Sensors \cup {"launch", "run"}
  /\ enabled \subseteq Sensors /\ ready \subseteq Sensors
  /\ pc \in [Threads -> States]
  /\ timer[BME680] \in 0 .. BME680_PERIOD /\ timer[MLX90614] \in 0 .. MLX_PERIOD
  /\ owner \in BusThreads \cup {NoThread}
  /\ pace \in 0 .. MLX_PERIOD + PollLimit + 1
  /\ flagged \in BOOLEAN /\ reading \subseteq Readings
  /\ first \in BOOLEAN /\ elapsed \in 0 .. PollLimit /\ sample \in BOOLEAN
  /\ writes \in 0 .. MaxWrites /\ late \in [Threads -> 0 .. 2]

(* Between taking the mutex of i2c0 and giving it up a thread is the only  *)
(* one on the bus: no transfer of the MLX90614's two words falls into a    *)
(* measurement of the BME680, first throw-away reading included, and every *)
(* way out of a reading gives the mutex up.                                *)
OnBus(t) == pc[t] \in {"read", "object", "poll", "burst", "unlock"}
BusIsExclusive == \A t \in BusThreads : OnBus(t) <=> owner = t

(* However slow or sick the BME680 is, no round of the MLX90614 thread     *)
(* takes longer than its period and one measurement of the BME680          *)
(* together: none of its failures, time-outs and polls holds the object    *)
(* temperature, and with it the fire alarm, back for longer.  (A transfer  *)
(* takes no time here, and the processor is free when a thread wakes up.)  *)
MlxKeepsPace == pace <= MLX_PERIOD + PollLimit

(* The object temperature in the register map is one that the sensor has   *)
(* measured, or the 0 of a node that has none yet: no word with a bad      *)
(* checksum, an error flag, or of the other sensor inside the MLX90614     *)
(* gets there.                                                             *)
PublishedIsMeasured ==
  ObjectTemp = 0 \/ ObjectTemp \in MeasuredTemps

(* Until a master writes to CTRL, it shows the sensors that answered at    *)
(* boot, each with a thread of its own (that of the mmWave radar is not    *)
(* modelled here) and with both halves of its initialisation done.         *)
CtrlTellsReady ==
  (boot = "run" /\ writes = 0) =>
    /\ regs[REG_CTRL] = ready
    /\ \A t \in Threads : t \in ready <=> pc[t] # NoThread

(* A sensor that CTRL switches off publishes the reading under way, if     *)
(* any, and no other.                                                      *)
DisabledGoesQuiet == \A t \in Threads : late[t] <= 1

(* A sensor that answered at boot and stays enabled is read again and      *)
(* again, whatever fails on the bus in between.                            *)
SensorsKeepTrying ==
  \A t \in BusThreads :
    []((t \in ready /\ boot = "run") => <>(pc[t] = "read" \/ ~IsEnabled(t)))

=============================================================================
