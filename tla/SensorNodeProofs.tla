--------------------------- MODULE SensorNodeProofs ---------------------------
(***************************************************************************)
(* Theorems about the sensor node, for every period of its threads, every  *)
(* number of polls, every set of words on the bus and every sequence of    *)
(* writes to CTRL.                                                         *)
(***************************************************************************)
EXTENDS SensorNode, RegisterMapProofs, WellFoundedInduction

ThreadTypes ==
  /\ pc \in [Threads -> States]
  /\ timer \in [BusThreads -> Nat]
  /\ owner \in BusThreads \cup {NoThread}
  /\ pace \in Nat
  /\ elapsed \in 0 .. PollLimit - 1

(* Where each thread can be; before Launch there is none. *)
Places ==
  /\ pc[MLX90614] \notin {"poll", "burst"}
  /\ pc[BME680] # "object"
  /\ pc[MIC] \in {NoThread, "ctrl", "read", "done"}
  /\ boot # "run" =>
       /\ \A t \in Threads : pc[t] = NoThread
       /\ owner = NoThread /\ pace = 0

(* A thread that waits waits for the other one; a poll is one unit away.   *)
Waits ==
  /\ pc[BME680] = "wait" => owner = MLX90614
  /\ pc[MLX90614] = "wait" => owner = BME680
  /\ pc[BME680] = "poll" => timer[BME680] <= 1

(* How long the BME680 thread may still hold the mutex, in polls. *)
Remaining ==
  IF pc[BME680] = "read" THEN PollLimit
  ELSE IF pc[BME680] = "poll" THEN timer[BME680] + (PollLimit - 1 - elapsed) ELSE 0

PaceInv ==
  /\ pc[MLX90614] = NoThread => pace = 0
  /\ pc[MLX90614] = "sleep" => pace + timer[MLX90614] <= MLX_PERIOD
  /\ pc[MLX90614] \in {"ctrl", "lock"} => pace <= MLX_PERIOD
  /\ pc[MLX90614] = "wait" => pace + Remaining <= MLX_PERIOD + PollLimit
  /\ pace <= MLX_PERIOD + PollLimit

BusInv == ThreadTypes /\ Places /\ BusIsExclusive /\ Waits /\ PaceInv

USE DEF BME680, MLX90614, MIC, NoThread, BusThreads, Threads, States

LEMMA InitBus == Init => BusInv
  BY SensorNodeAssumption
  DEF Init, BusInv, ThreadTypes, Places, BusIsExclusive, OnBus, Waits, PaceInv

(* While main initialises the sensors no thread moves. *)
LEMMA InitialisedBus ==
  ASSUME BusInv, NEW sensor, NEW ok, NEW next, boot # "run",
         Initialised(sensor, ok, next)
  PROVE  BusInv'
  BY DEF Initialised, busVars, bmeVars, BusInv, ThreadTypes, Places, BusIsExclusive, OnBus,
         Waits, PaceInv, Remaining

LEMMA LaunchBus == BusInv /\ Launch => BusInv'
  BY SensorNodeAssumption
  DEF Launch, bmeVars, BusInv, ThreadTypes, Places, BusIsExclusive, OnBus, Waits, PaceInv,
      Remaining

LEMMA TestCtrlBus ==
  ASSUME BusInv, NEW t \in BusThreads, TestCtrl(t)
  PROVE  BusInv'
  <1> USE SensorNodeAssumption
      DEF TestCtrl, Goes, Sleeps, Period, PaceAfter, mainVars, bmeVars, BusInv, ThreadTypes,
          Places, BusIsExclusive, OnBus, Waits, PaceInv, Remaining
  <1>1. CASE IsEnabled(t)
    BY <1>1
  <1>2. CASE ~IsEnabled(t) /\ t = BME680
    BY <1>2
  <1>3. CASE ~IsEnabled(t) /\ t = MLX90614
    BY <1>3
  <1> QED
    BY <1>1, <1>2, <1>3

LEMMA LockBus ==
  ASSUME BusInv, NEW t \in BusThreads, Lock(t)
  PROVE  BusInv'
  <1> USE SensorNodeAssumption
      DEF Lock, Goes, mainVars, bmeVars, BusInv, ThreadTypes, Places, BusIsExclusive, OnBus,
          Waits, PaceInv, Remaining
  <1>1. CASE owner = NoThread
    BY <1>1
  <1>2. CASE owner # NoThread /\ t = BME680
    BY <1>2
  <1>3. CASE owner # NoThread /\ t = MLX90614
    <2>1. owner = BME680 /\ Remaining <= PollLimit
      BY <1>3
    <2>2. pc' = [pc EXCEPT ![MLX90614] = "wait"] /\ Remaining' = Remaining
      BY <1>3
    <2> QED
      BY <1>3, <2>1, <2>2
  <1> QED
    BY <1>1, <1>2, <1>3

LEMMA UnlockBus ==
  ASSUME BusInv, NEW t \in BusThreads, NEW to \in {"ctrl", "done"}, Unlock(t, to),
         t = MLX90614 => to = "done",
         UNCHANGED elapsed
  PROVE  BusInv'
  BY SensorNodeAssumption
  DEF Unlock, Goes, mainVars, bmeVars, BusInv, ThreadTypes, Places, BusIsExclusive, OnBus,
      Waits, PaceInv, Remaining

LEMMA WakeBus ==
  ASSUME BusInv, NEW t \in BusThreads, Wake(t)
  PROVE  BusInv'
  BY SensorNodeAssumption
  DEF Wake, Goes, mainVars, bmeVars, BusInv, ThreadTypes, Places, BusIsExclusive, OnBus, Waits,
      PaceInv, Remaining

LEMMA MlxReadsBus ==
  ASSUME BusInv, ReadAmbient \/ ReadObject \/ mlx_publish
  PROVE  BusInv'
  <1> USE SensorNodeAssumption
      DEF Goes, Sleeps, PaceAfter, mainVars, bmeVars, BusInv, ThreadTypes, Places,
          BusIsExclusive, OnBus, Waits, PaceInv, Remaining
  <1>1. CASE ReadAmbient
    <2>1. pc' = [pc EXCEPT ![MLX90614] = "unlock"] \/ pc' = [pc EXCEPT ![MLX90614] = "object"]
      BY <1>1 DEF ReadAmbient
    <2> QED
      BY <1>1, <2>1 DEF ReadAmbient
  <1>2. CASE ReadObject
    BY <1>2 DEF ReadObject
  <1>3. CASE mlx_publish
    BY <1>3 DEF mlx_publish
  <1> QED
    BY <1>1, <1>2, <1>3

LEMMA BmeReadsBus ==
  ASSUME BusInv, StartMeasurement \/ Poll \/ Burst \/ bme_publish
  PROVE  BusInv'
  <1> USE SensorNodeAssumption
      DEF Goes, Sleeps, PollAgain, BmeEnds, mainVars, bmeVars, BusInv, ThreadTypes, Places,
          BusIsExclusive, OnBus, Waits, PaceInv, Remaining
  <1>1. CASE StartMeasurement
    BY <1>1 DEF StartMeasurement
  <1>2. CASE Poll
    BY <1>2 DEF Poll
  <1>3. CASE Burst
    BY <1>3 DEF Burst
  <1>4. CASE bme_publish
    BY <1>4 DEF bme_publish
  <1> QED
    BY <1>1, <1>2, <1>3, <1>4

LEMMA OthersBus ==
  ASSUME BusInv, mic_entry \/ WriteCtrl
  PROVE  BusInv'
  BY DEF mic_entry, MicTest, MicRead, mic_publish, WriteCtrl, Goes, mainVars, busVars, bmeVars,
         BusInv, ThreadTypes, Places, BusIsExclusive, OnBus, Waits, PaceInv, Remaining

(* Time passes only while the MLX90614 thread sleeps, or waits for a       *)
(* BME680 thread that is between two polls.                                *)
LEMMA TickBus == BusInv /\ Tick => BusInv'
  <1> SUFFICES ASSUME BusInv, Tick PROVE BusInv'
    OBVIOUS
  <1> USE SensorNodeAssumption
      DEF Tick, Blocked, mainVars, bmeVars, BusInv, ThreadTypes, Places, BusIsExclusive, OnBus,
          Waits, PaceInv, Remaining
  <1>1. timer' \in [BusThreads -> Nat]
    OBVIOUS
  <1>2. CASE pc[MLX90614] = NoThread
    BY <1>1, <1>2
  <1>3. CASE pc[MLX90614] = "sleep"
    BY <1>1, <1>3
  <1>4. CASE pc[MLX90614] = "wait"
    <2>1. pc[BME680] = "poll" /\ timer[BME680] > 0
      BY <1>4
    <2> QED
      BY <1>1, <1>4, <2>1
  <1> QED
    BY <1>2, <1>3, <1>4

LEMMA StepBus == BusInv /\ [Next]_vars => BusInv'
  <1> SUFFICES ASSUME BusInv, [Next]_vars PROVE BusInv'
    OBVIOUS
  <1>1. CASE main
    <2>1. CASE Launch
      BY <2>1, LaunchBus
    <2>2. CASE \E sensor \in Sensors, ok \in BOOLEAN, next \in {MLX90614, "MMWAVE", MIC, "launch"} :
                 Initialised(sensor, ok, next) /\ sensor # "run"
      <3>1. boot # "run"
        BY <2>2 DEF Initialised
      <3> QED
        BY <2>2, <3>1, InitialisedBus
    <2>3. CASE bme680_init
      BY <2>2, <2>3 DEF bme680_init, Sensors
    <2>4. CASE mlx90614_init
      BY <2>2, <2>4 DEF mlx90614_init, Sensors
    <2>5. CASE mmwave_init
      BY <2>2, <2>5 DEF mmwave_init, Sensors
    <2>6. CASE spw2430_init
      BY <2>2, <2>6 DEF spw2430_init, Sensors
    <2> QED
      BY <1>1, <2>1, <2>3, <2>4, <2>5, <2>6 DEF main
  <1>2. CASE mlx_entry
    <2>1. CASE Unlock(MLX90614, "done") /\ UNCHANGED bmeVars
      BY <2>1, UnlockBus DEF bmeVars
    <2> QED
      BY <1>2, <2>1, TestCtrlBus, LockBus, WakeBus, MlxReadsBus DEF mlx_entry
  <1>3. CASE bme680_entry
    <2>1. CASE BmeUnlock
      BY <2>1, UnlockBus DEF BmeUnlock
    <2> QED
      BY <1>3, <2>1, TestCtrlBus, LockBus, WakeBus, BmeReadsBus DEF bme680_entry
  <1>4. CASE mic_entry \/ WriteCtrl
    BY <1>4, OthersBus
  <1>5. CASE Tick
    BY <1>5, TickBus
  <1>6. CASE UNCHANGED vars
    BY <1>6 DEF vars, mainVars, busVars, bmeVars, BusInv, ThreadTypes, Places,
                BusIsExclusive, OnBus, Waits, PaceInv, Remaining
  <1> QED
    BY <1>1, <1>2, <1>3, <1>4, <1>5, <1>6 DEF Next

THEOREM BusInvHolds == Spec => []BusInv
  BY InitBus, StepBus, PTL DEF Spec

(* No two threads are ever on the bus i2c0 at once, and the mutex is held  *)
(* by the one that is (BusIsExclusive), for every timing.                  *)
THEOREM BusExclusive == Spec => []BusIsExclusive
  BY BusInvHolds, PTL DEF BusInv

(* The MLX90614 thread ends a round at least once in its period and one    *)
(* measurement of the BME680 (MlxKeepsPace), for all periods and any       *)
(* number of polls: what the BME680 thread may still hold the mutex is     *)
(* bounded, and the mutex is handed over when it is given up.              *)
THEOREM KeepsPace == Spec => []MlxKeepsPace
  <1>1. BusInv => MlxKeepsPace
    BY DEF BusInv, PaceInv, MlxKeepsPace
  <1> QED
    BY <1>1, BusInvHolds, PTL

-----------------------------------------------------------------------------
(* CTRL *)

Tried ==
  {s \in Sensors :
     \/ boot \in {"launch", "run"}
     \/ s = BME680 /\ boot # BME680
     \/ s = MLX90614 /\ boot \in {"MMWAVE", MIC}
     \/ s = "MMWAVE" /\ boot = MIC}

(* At every moment of main, its copy of CTRL holds the sensors that have   *)
(* answered and those not tried yet.                                       *)
BootInv ==
  /\ DOMAIN regs = Addr
  /\ boot \in Sensors \cup {"launch", "run"}
  /\ ready \subseteq Tried
  /\ enabled = ready \cup (Sensors \ Tried)
  /\ boot = "run" => \A t \in Threads : t \in ready <=> pc[t] # NoThread
  /\ (boot = "run" /\ writes = 0) => regs[REG_CTRL] = ready
  /\ writes \in Nat

(* Only a thread that has not passed its test of CTRL since the last write *)
(* can have published without leave.                                       *)
QuietInv ==
  /\ late \in [Threads -> 0 .. 1]
  /\ boot # "run" => \A t \in Threads : late[t] = 0
  /\ \A t \in Threads :
       late[t] = 1 => ~IsEnabled(t) /\ pc[t] \in {"sleep", "ctrl"}

CtrlInv == BootInv /\ QuietInv

LEMMA PublishKeepsCtrl ==
  ASSUME DOMAIN regs = Addr,
         (\E obj \in reading : regmap_publish_mlx90614(obj)) \/ regmap_publish_bme680
           \/ regmap_publish_mic
  PROVE  DOMAIN regs' = Addr /\ regs'[REG_CTRL] = regs[REG_CTRL]
  <1> USE DEF REG_STATUS, REG_CTRL, REG_INT_SRC, REG_MLX_OBJ_0, REGMAP_SIZE, Addr, DataReady
  <1>1. ASSUME NEW obj \in reading, regmap_publish_mlx90614(obj)
        PROVE  DOMAIN regs' = Addr /\ regs'[REG_CTRL] = regs[REG_CTRL]
    <2> DEFINE stored == DataReady(StoreLE(regs, REG_MLX_OBJ_0, obj))
    <2>1. regs' = stored \/ regs' = raise_irq(stored)
      BY <1>1, Zenon DEF regmap_publish_mlx90614
    <2> QED
      BY <2>1 DEF StoreLE, raise_irq, Pending
  <1> QED
    BY <1>1 DEF regmap_publish_bme680, regmap_publish_mic

LEMMA WritesCtrl ==
  ASSUME DOMAIN regs = Addr, NEW v, regmap_write(REG_CTRL, v)
  PROVE  DOMAIN regs' = Addr /\ regs'[REG_CTRL] = v
  BY DEF regmap_write, Written, is_writable, sanitize_interrupt_write, REG_CTRL, REG_INT_SRC,
         REG_INT_EN, Addr, REGMAP_SIZE

LEMMA InitCtrl == Init => CtrlInv
  BY DEF Init, CtrlInv, BootInv, QuietInv, RegInit, InitialRegs, Tried, Sensors

LEMMA InitialisedCtrl ==
  ASSUME CtrlInv, BusInv, NEW ok \in BOOLEAN, NEW sensor, NEW next,
         Initialised(sensor, ok, next),
         <<sensor, next>> \in {<<BME680, MLX90614>>, <<MLX90614, "MMWAVE">>, <<"MMWAVE", MIC>>,
                              <<MIC, "launch">>}
  PROVE  CtrlInv'
  <1> USE DEF CtrlInv
  <1>1. boot \in Sensors /\ boot' \in Sensors \cup {"launch"} /\ regs' = regs /\ pc' = pc
        /\ writes' = writes /\ late' = late
    BY DEF Initialised, regVars, busVars, masterVars, Sensors
  <1>2. Tried' = Tried \cup {sensor} /\ sensor \in Sensors /\ sensor \notin Tried
    BY DEF Initialised, Tried, Sensors
  <1>3. ready' \subseteq Tried' /\ enabled' = ready' \cup (Sensors \ Tried')
    <2>1. CASE ok
      BY <1>2, <2>1 DEF Initialised, BootInv
    <2>2. CASE ~ok
      BY <1>2, <2>2 DEF Initialised, BootInv
    <2> QED
      BY <2>1, <2>2
  <1>4. BootInv'
    BY <1>1, <1>3 DEF BootInv, Sensors
  <1>5. QuietInv'
    BY <1>1 DEF QuietInv, Sensors
  <1> QED
    BY <1>4, <1>5

LEMMA LaunchCtrl ==
  ASSUME CtrlInv, Launch
  PROVE  CtrlInv'
  <1> USE DEF CtrlInv, BootInv
  <1>1. boot = "launch" /\ boot' = "run" /\ ready' = ready /\ enabled' = enabled
        /\ writes' = writes /\ late' = late
    BY DEF Launch, masterVars
  <1>2. Tried = Sensors /\ Tried' = Sensors
    BY <1>1 DEF Tried
  <1>3. DOMAIN regs' = Addr /\ regs'[REG_CTRL] = ready
    BY <1>2, WritesCtrl DEF Launch
  <1>4. \A t \in Threads : t \in ready' <=> pc'[t] # NoThread
    BY DEF Launch
  <1>5. BootInv'
    BY <1>1, <1>2, <1>3, <1>4
  <1>6. QuietInv'
    BY <1>1 DEF QuietInv
  <1> QED
    BY <1>5, <1>6

(* A step of a thread that leaves the registers and CTRL's history alone.  *)
LEMMA SilentCtrl ==
  ASSUME CtrlInv, BusInv, NEW t \in Threads, NEW to \in States \ {NoThread},
         pc[t] # NoThread, pc' = [pc EXCEPT ![t] = to],
         late[t] = 0 \/ to \in {"sleep", "ctrl"},
         UNCHANGED <<regVars, mainVars, masterVars>>
  PROVE  CtrlInv'
  <1> USE DEF CtrlInv, BusInv, ThreadTypes, Places, regVars, mainVars, masterVars
  <1>1. boot = "run"
    OBVIOUS
  <1>2. Tried' = Tried
    BY DEF Tried
  <1>3. \A u \in Threads : pc'[u] = IF u = t THEN to ELSE pc[u]
    OBVIOUS
  <1>4. BootInv'
    BY <1>1, <1>2, <1>3 DEF BootInv
  <1>5. QuietInv'
    BY <1>1, <1>3 DEF QuietInv, IsEnabled
  <1> QED
    BY <1>4, <1>5

LEMMA TestCtrlCtrl ==
  ASSUME CtrlInv, BusInv, NEW t \in BusThreads, TestCtrl(t)
  PROVE  CtrlInv'
  <1> USE DEF TestCtrl, Goes, Sleeps
  <1>1. CASE IsEnabled(t)
    <2>1. late[t] = 0
      BY <1>1 DEF CtrlInv, QuietInv
    <2> QED
      BY <1>1, <2>1, SilentCtrl
  <1>2. CASE ~IsEnabled(t)
    BY <1>2, SilentCtrl
  <1> QED
    BY <1>1, <1>2

(* A thread that is neither asleep nor about to test CTRL. *)
LEMMA BusyCtrl ==
  ASSUME CtrlInv, BusInv, NEW t \in Threads, NEW to \in States \ {NoThread},
         pc[t] \notin {NoThread, "sleep", "ctrl"}, pc' = [pc EXCEPT ![t] = to],
         UNCHANGED <<regVars, mainVars, masterVars>>
  PROVE  CtrlInv'
  <1>1. late[t] = 0
    BY DEF CtrlInv, QuietInv
  <1> QED
    BY <1>1, SilentCtrl

LEMMA UnlockCtrl ==
  ASSUME CtrlInv, BusInv, NEW t \in BusThreads, NEW to \in {"ctrl", "done"}, Unlock(t, to)
  PROVE  CtrlInv'
  <1>1. CASE \E u \in BusThreads : pc[u] = "wait"
    <2>1. PICK u \in BusThreads :
            pc[u] = "wait" /\ pc' = [pc EXCEPT ![t] = to, ![u] = "read"]
      BY <1>1 DEF Unlock
    <2> USE <2>1 DEF Unlock, CtrlInv, BusInv, ThreadTypes, Places, regVars, mainVars, masterVars
    <2>2. boot = "run" /\ late[t] = 0 /\ late[u] = 0
      BY DEF QuietInv
    <2>3. Tried' = Tried
      BY DEF Tried
    <2>4. \A v \in Threads : pc'[v] = IF v = u THEN "read" ELSE IF v = t THEN to ELSE pc[v]
      OBVIOUS
    <2>5. BootInv'
      BY <2>2, <2>3, <2>4 DEF BootInv
    <2>6. QuietInv'
      BY <2>2, <2>4 DEF QuietInv, IsEnabled
    <2> QED
      BY <2>5, <2>6
  <1>2. CASE ~ \E u \in BusThreads : pc[u] = "wait"
    BY <1>2, BusyCtrl DEF Unlock, Goes
  <1> QED
    BY <1>1, <1>2

(* The end of a round that publishes: CTRL stays, and if it forbids the    *)
(* reading the thread is back where it tests CTRL before the next one.     *)
LEMMA PublishCtrl ==
  ASSUME CtrlInv, BusInv, NEW t \in Threads, NEW to \in {"sleep", "ctrl"},
         pc[t] = "done", pc' = [pc EXCEPT ![t] = to], Published(t), UNCHANGED mainVars,
         DOMAIN regs' = Addr, regs'[REG_CTRL] = regs[REG_CTRL]
  PROVE  CtrlInv'
  <1> USE DEF CtrlInv, BusInv, ThreadTypes, Places, mainVars, Published
  <1>1. boot = "run" /\ late[t] = 0
    BY DEF QuietInv
  <1>2. Late(t) \in 0 .. 1 /\ (Late(t) = 1 => ~IsEnabled(t))
    BY <1>1 DEF Late
  <1>3. late' = [late EXCEPT ![t] = Late(t)]
    OBVIOUS
  <1>4. \A u \in Threads : pc'[u] = IF u = t THEN to ELSE pc[u]
    OBVIOUS
  <1>5. BootInv'
    <2>1. Tried' = Tried
      BY DEF Tried
    <2> QED
      BY <1>1, <1>4, <2>1 DEF BootInv
  <1>6. QuietInv'
    <2>1. late' \in [Threads -> 0 .. 1]
      BY <1>2, <1>3 DEF QuietInv
    <2>2. ASSUME NEW u \in Threads, late'[u] = 1
          PROVE  ~IsEnabled(u)' /\ pc'[u] \in {"sleep", "ctrl"}
      <3>1. CASE u = t
        BY <1>2, <1>3, <1>4, <2>2, <3>1 DEF QuietInv, IsEnabled
      <3>2. CASE u # t
        BY <1>3, <1>4, <2>2, <3>2 DEF QuietInv, IsEnabled
      <3> QED
        BY <3>1, <3>2
    <2> QED
      BY <1>1, <2>1, <2>2 DEF QuietInv
  <1> QED
    BY <1>5, <1>6

LEMMA MlxCtrl ==
  ASSUME CtrlInv, BusInv, mlx_entry
  PROVE  CtrlInv'
  <1> USE DEF Goes, Sleeps
  <1>1. CASE TestCtrl(MLX90614)
    BY <1>1, TestCtrlCtrl
  <1>2. CASE Lock(MLX90614)
    BY <1>2, BusyCtrl DEF Lock
  <1>3. CASE ReadAmbient
    <2>1. pc' = [pc EXCEPT ![MLX90614] = "unlock"] \/ pc' = [pc EXCEPT ![MLX90614] = "object"]
      BY <1>3 DEF ReadAmbient
    <2> QED
      BY <1>3, <2>1, BusyCtrl DEF ReadAmbient
  <1>4. CASE ReadObject
    BY <1>4, BusyCtrl DEF ReadObject
  <1>5. CASE Unlock(MLX90614, "done")
    BY <1>5, UnlockCtrl
  <1>6. CASE mlx_publish
    <2>1. CASE \E obj \in reading : regmap_publish_mlx90614(obj) /\ Published(MLX90614)
      <3>1. DOMAIN regs' = Addr /\ regs'[REG_CTRL] = regs[REG_CTRL]
        BY <2>1, PublishKeepsCtrl DEF CtrlInv, BootInv
      <3> QED
        BY <1>6, <2>1, <3>1, PublishCtrl DEF mlx_publish
    <2>2. CASE UNCHANGED <<regVars, masterVars>>
      BY <1>6, <2>2, BusyCtrl DEF mlx_publish
    <2> QED
      BY <1>6, <2>1, <2>2 DEF mlx_publish
  <1>7. CASE Wake(MLX90614)
    BY <1>7, SilentCtrl DEF Wake
  <1> QED
    BY <1>1, <1>2, <1>3, <1>4, <1>5, <1>6, <1>7 DEF mlx_entry

LEMMA BmeCtrl ==
  ASSUME CtrlInv, BusInv, bme680_entry
  PROVE  CtrlInv'
  <1> USE DEF Goes, Sleeps
  <1>1. CASE TestCtrl(BME680)
    BY <1>1, TestCtrlCtrl
  <1>2. CASE Lock(BME680)
    BY <1>2, BusyCtrl DEF Lock
  <1>3. CASE StartMeasurement
    BY <1>3, BusyCtrl DEF StartMeasurement, BmeEnds
  <1>4. CASE Poll
    BY <1>4, BusyCtrl DEF Poll, PollAgain, BmeEnds
  <1>5. CASE Burst
    BY <1>5, BusyCtrl DEF Burst, BmeEnds
  <1>6. CASE BmeUnlock
    BY <1>6, UnlockCtrl DEF BmeUnlock
  <1>7. CASE bme_publish
    <2>1. CASE sample
      <3>1. DOMAIN regs' = Addr /\ regs'[REG_CTRL] = regs[REG_CTRL]
        BY <1>7, <2>1, PublishKeepsCtrl DEF bme_publish, CtrlInv, BootInv
      <3> QED
        BY <1>7, <2>1, <3>1, PublishCtrl DEF bme_publish
    <2>2. CASE ~sample
      BY <1>7, <2>2, BusyCtrl DEF bme_publish
    <2> QED
      BY <2>1, <2>2
  <1>8. CASE Wake(BME680)
    BY <1>8, SilentCtrl DEF Wake
  <1> QED
    BY <1>1, <1>2, <1>3, <1>4, <1>5, <1>6, <1>7, <1>8 DEF bme680_entry

LEMMA MicCtrl ==
  ASSUME CtrlInv, BusInv, mic_entry
  PROVE  CtrlInv'
  <1> USE DEF Goes
  <1>1. CASE MicTest
    <2>1. late[MIC] = 0
      BY <1>1 DEF MicTest, CtrlInv, QuietInv
    <2> QED
      BY <1>1, <2>1, SilentCtrl DEF MicTest
  <1>2. CASE MicRead
    <2>1. pc' = [pc EXCEPT ![MIC] = "done"] \/ pc' = [pc EXCEPT ![MIC] = "ctrl"]
      BY <1>2 DEF MicRead
    <2> QED
      BY <1>2, <2>1, BusyCtrl DEF MicRead
  <1>3. CASE mic_publish
    <2>1. DOMAIN regs' = Addr /\ regs'[REG_CTRL] = regs[REG_CTRL]
      BY <1>3, PublishKeepsCtrl DEF mic_publish, CtrlInv, BootInv
    <2> QED
      BY <1>3, <2>1, PublishCtrl DEF mic_publish
  <1> QED
    BY <1>1, <1>2, <1>3 DEF mic_entry

LEMMA WriteCtrlCtrl == CtrlInv /\ WriteCtrl => CtrlInv'
  <1> SUFFICES ASSUME CtrlInv, WriteCtrl PROVE CtrlInv'
    OBVIOUS
  <1> USE DEF WriteCtrl, CtrlInv
  <1>1. boot = "run" /\ boot' = "run" /\ ready' = ready /\ enabled' = enabled /\ pc' = pc
        /\ writes' = writes + 1 /\ writes \in Nat
    BY DEF mainVars, busVars, BootInv
  <1>2. DOMAIN regs' = Addr
    BY WritesCtrl DEF BootInv
  <1>3. Tried' = Tried
    BY <1>1 DEF Tried
  <1>4. BootInv'
    BY <1>1, <1>2, <1>3 DEF BootInv
  <1>5. QuietInv'
    BY <1>1 DEF QuietInv
  <1> QED
    BY <1>4, <1>5

LEMMA IdleCtrl ==
  ASSUME CtrlInv, UNCHANGED <<regVars, mainVars, pc, masterVars>>
  PROVE  CtrlInv'
  BY DEF CtrlInv, BootInv, QuietInv, Tried, IsEnabled, regVars, mainVars, masterVars

LEMMA StepCtrl == CtrlInv /\ BusInv /\ [Next]_vars => CtrlInv'
  <1> SUFFICES ASSUME CtrlInv, BusInv, [Next]_vars PROVE CtrlInv'
    OBVIOUS
  <1>1. CASE main
    BY <1>1, InitialisedCtrl, LaunchCtrl
    DEF main, bme680_init, mlx90614_init, mmwave_init, spw2430_init
  <1>2. CASE Tick
    BY <1>2, IdleCtrl DEF Tick
  <1>3. CASE UNCHANGED vars
    BY <1>3, IdleCtrl DEF vars, busVars
  <1> QED
    BY <1>1, <1>2, <1>3, MlxCtrl, BmeCtrl, MicCtrl, WriteCtrlCtrl DEF Next

THEOREM CtrlInvHolds == Spec => []CtrlInv
  BY InitCtrl, StepCtrl, BusInvHolds, PTL DEF Spec

(* Until a bus master writes to it, CTRL shows exactly the sensors whose   *)
(* whole initialisation succeeded, and these are the ones with a thread    *)
(* (CtrlTellsReady), whatever fails at boot.                               *)
THEOREM CtrlMatchesReady == Spec => []CtrlTellsReady
  <1>1. CtrlInv => CtrlTellsReady
    BY DEF CtrlInv, BootInv, CtrlTellsReady
  <1> QED
    BY <1>1, CtrlInvHolds, PTL

(* A sensor that CTRL has switched off publishes at most the reading that  *)
(* was under way (DisabledGoesQuiet), wherever its thread was and however  *)
(* often CTRL is written.                                                  *)
THEOREM GoesQuiet == Spec => []DisabledGoesQuiet
  <1>1. CtrlInv => DisabledGoesQuiet
    BY DEF CtrlInv, QuietInv, DisabledGoesQuiet
  <1> QED
    BY <1>1, CtrlInvHolds, PTL

-----------------------------------------------------------------------------
(* The checksum of the MLX90614.  A call of crc8 is linear over the sets   *)
(* of bits and loses nothing, so that an error passes unseen only if it is *)
(* itself a message with its checksum; a burst and a pair of bits are not. *)
(* That the sensor's remainder is the driver's checksum is shown step by   *)
(* step of the long division.  Induction on naturals is drawn from the     *)
(* least element of a set, which needs no operator as a parameter.         *)

LEMMA LeastElement ==
  ASSUME NEW T, T \subseteq Nat, T # {}
  PROVE  \E m \in T : \A k \in T : m <= k
  <1> DEFINE R == OpToRel(<, Nat)
  <1>1. IsWellFoundedOn(R, Nat)
    BY NatLessThanWellFounded
  <1>2. \A x, y \in T : <<y, x>> \in R <=> y < x
    BY DEF OpToRel
  <1> HIDE DEF R
  <1>3. PICK x \in T : \A y \in T : ~(<<y, x>> \in R)
    BY <1>1, WFMin
  <1>4. \A y \in T : ~(y < x) /\ x \in Nat /\ y \in Nat
    BY <1>2, <1>3
  <1>5. \A y \in T : x <= y
    BY <1>4
  <1> QED
    BY <1>5

LEMMA Induction ==
  ASSUME NEW S, 0 \in S, \A n \in Nat : n \in S => n + 1 \in S
  PROVE  Nat \subseteq S
  <1> SUFFICES ASSUME Nat \ S # {} PROVE FALSE
    OBVIOUS
  <1>1. PICK m \in Nat \ S : \A k \in Nat \ S : m <= k
    BY LeastElement
  <1>2. m # 0 /\ m - 1 \in Nat
    BY <1>1
  <1>3. m - 1 \in S
    BY <1>1, <1>2
  <1> QED
    BY <1>1, <1>2, <1>3

-----------------------------------------------------------------------------
Byte == SUBSET (0 .. 7)

LEMMA DiffIs ==
  \A A, B, x : x \in SymDiff(A, B) <=> IF x \in B THEN x \notin A ELSE x \in A
  BY DEF SymDiff

LEMMA ByteDiff == \A a, b \in Byte : SymDiff(a, b) \in Byte
  BY DEF SymDiff, Byte

LEMMA DiffFacts ==
  \A A, B : /\ SymDiff(A, {}) = A /\ SymDiff({}, A) = A /\ SymDiff(A, A) = {}
            /\ SymDiff(A, B) = {} => A = B
            /\ SymDiff(A, B) = SymDiff(B, A)
  BY DEF SymDiff

LEMMA DiffSwap ==
  \A A, B, C, D : SymDiff(SymDiff(A, B), SymDiff(C, D)) = SymDiff(SymDiff(A, C), SymDiff(B, D))
  BY DEF SymDiff

(* Bit by bit: shift, and invert the last three if a bit fell out. *)
LEMMA RoundIs ==
  ASSUME NEW r \in Byte
  PROVE  /\ Round(r) \in Byte
         /\ \A i \in 0 .. 7 : i \in Round(r) <=> IF 7 \in r /\ i \in 0 .. 2 THEN i - 1 \notin r
                                                ELSE i - 1 \in r
  <1> DEFINE sh == {i + 1 : i \in r \ {7}}
  <1>1. r \subseteq 0 .. 7
    BY DEF Byte
  <1>2. sh \in Byte /\ \A i \in 0 .. 7 : i \in sh <=> i - 1 \in r
    <2>1. sh \subseteq 0 .. 7
      BY <1>1
    <2>2. ASSUME NEW i \in 0 .. 7, i - 1 \in r PROVE i \in sh
      <3>1. i - 1 \in r \ {7} /\ i = (i - 1) + 1
        BY <2>2
      <3> QED
        BY <3>1
    <2>3. ASSUME NEW i \in 0 .. 7, i \in sh PROVE i - 1 \in r
      <3>1. PICK j \in r \ {7} : i = j + 1
        BY <2>3
      <3>2. i - 1 = j
        BY <1>1, <3>1
      <3> QED
        BY <3>2
    <2> QED
      BY <2>1, <2>2, <2>3 DEF Byte
  <1>3. Round(r) = IF 7 \in r THEN SymDiff(sh, {0, 1, 2}) ELSE sh
    BY DEF Round
  <1> HIDE DEF sh
  <1>4. {0, 1, 2} \in Byte /\ \A i \in 0 .. 7 : i \in {0, 1, 2} <=> i \in 0 .. 2
    BY DEF Byte
  <1>5. CASE 7 \in r
    <2>1. Round(r) = SymDiff(sh, {0, 1, 2})
      BY <1>3, <1>5
    <2>2. Round(r) \in Byte
      BY <1>2, <1>4, <2>1, ByteDiff
    <2> QED
      BY <1>2, <1>4, <1>5, <2>1, <2>2, DiffIs
  <1>6. CASE 7 \notin r
    BY <1>2, <1>3, <1>6
  <1> QED
    BY <1>5, <1>6

LEMMA RoundLinear ==
  ASSUME NEW a \in Byte, NEW b \in Byte
  PROVE  Round(SymDiff(a, b)) = SymDiff(Round(a), Round(b))
  <1> DEFINE c == SymDiff(a, b)
  <1>1. c \in Byte /\ \A x : x \in c <=> IF x \in b THEN x \notin a ELSE x \in a
    BY ByteDiff, DiffIs
  <1>2. Round(c) \in Byte /\ SymDiff(Round(a), Round(b)) \in Byte
    BY <1>1, RoundIs, ByteDiff
  <1> HIDE DEF c
  <1>3. ASSUME NEW i \in 0 .. 7
        PROVE  i \in Round(c) <=> IF i \in Round(b) THEN i \notin Round(a) ELSE i \in Round(a)
    <2>1. /\ i \in Round(a) <=> IF 7 \in a /\ i \in 0 .. 2 THEN i - 1 \notin a ELSE i - 1 \in a
          /\ i \in Round(b) <=> IF 7 \in b /\ i \in 0 .. 2 THEN i - 1 \notin b ELSE i - 1 \in b
          /\ i \in Round(c) <=> IF 7 \in c /\ i \in 0 .. 2 THEN i - 1 \notin c ELSE i - 1 \in c
      BY <1>1, RoundIs
    <2>2. /\ i - 1 \in c <=> IF i - 1 \in b THEN i - 1 \notin a ELSE i - 1 \in a
          /\ 7 \in c <=> IF 7 \in b THEN 7 \notin a ELSE 7 \in a
      BY <1>1
    <2> QED
      BY <2>1, <2>2
  <1>4. \A i \in 0 .. 7 : i \in Round(c) <=> i \in SymDiff(Round(a), Round(b))
    BY <1>3, DiffIs
  <1>5. Round(c) = SymDiff(Round(a), Round(b))
    BY <1>2, <1>4 DEF Byte
  <1> QED
    BY <1>5 DEF c

(* Nothing is lost in a round, since the polynomial has a constant term. *)
LEMMA RoundKernel == ASSUME NEW a \in Byte, Round(a) = {} PROVE a = {}
  <1>1. 7 \notin a
    <2>1. -1 \notin a
      BY DEF Byte
    <2>2. 0 \in Round(a) <=> IF 7 \in a /\ 0 \in 0 .. 2 THEN 0 - 1 \notin a ELSE 0 - 1 \in a
      BY RoundIs
    <2> QED
      BY <2>1, <2>2
  <1>2. \A i \in 0 .. 6 : i \notin a
    <2> SUFFICES ASSUME NEW i \in 0 .. 6 PROVE i \notin a
      OBVIOUS
    <2>1. i + 1 \in 0 .. 7 /\ (i + 1) - 1 = i
      OBVIOUS
    <2>2. i + 1 \in Round(a) <=> i \in a
      BY <1>1, <2>1, RoundIs
    <2> QED
      BY <2>2
  <1> QED
    BY <1>1, <1>2 DEF Byte

LEMMA RoundInjective ==
  ASSUME NEW a \in Byte, NEW b \in Byte, Round(a) = Round(b)
  PROVE  a = b
  <1>1. Round(SymDiff(a, b)) = {}
    BY RoundLinear, DiffFacts
  <1>2. SymDiff(a, b) = {}
    BY <1>1, ByteDiff, RoundKernel
  <1> QED
    BY <1>2, DiffFacts

-----------------------------------------------------------------------------
(* Successive rounds.  *)
Rounds(u, a, n) ==
  /\ u \in [0 .. n -> Byte] /\ u[0] = a
  /\ \A k \in 1 .. n : u[k] = Round(u[k - 1])

LEMMA RoundsExist ==
  ASSUME NEW a \in Byte, NEW m \in Nat
  PROVE  \E u : Rounds(u, a, m)
  <1> DEFINE S == {n \in Nat : \E u : Rounds(u, a, n)}
  <1>1. 0 \in S
    <2>1. Rounds([k \in 0 .. 0 |-> a], a, 0)
      BY DEF Rounds
    <2> QED
      BY <2>1
  <1>2. ASSUME NEW n \in Nat, n \in S PROVE n + 1 \in S
    <2>1. PICK u : Rounds(u, a, n)
      BY <1>2
    <2> DEFINE w == [k \in 0 .. n + 1 |-> IF k <= n THEN u[k] ELSE Round(u[n])]
    <2>2. u \in [0 .. n -> Byte] /\ u[0] = a /\ \A k \in 1 .. n : u[k] = Round(u[k - 1])
      BY <2>1 DEF Rounds
    <2>3. u[n] \in Byte
      BY <2>2
    <2>4. Round(u[n]) \in Byte
      BY <2>3, RoundIs
    <2>5. w \in [0 .. n + 1 -> Byte] /\ w[0] = a
      BY <2>2, <2>4
    <2>6. \A k \in 1 .. n + 1 : w[k] = Round(w[k - 1])
      <3> SUFFICES ASSUME NEW k \in 1 .. n + 1 PROVE w[k] = Round(w[k - 1])
        OBVIOUS
      <3>1. CASE k <= n
        <4>1. k \in 1 .. n /\ w[k] = u[k] /\ w[k - 1] = u[k - 1]
          BY <3>1
        <4> QED
          BY <2>2, <4>1
      <3>2. CASE k = n + 1
        <4>1. w[k] = Round(u[n]) /\ w[k - 1] = u[n]
          BY <3>2
        <4> QED
          BY <4>1
      <3> QED
        BY <3>1, <3>2
    <2>7. Rounds(w, a, n + 1)
      BY <2>5, <2>6 DEF Rounds
    <2> QED
      BY <2>7
  <1>3. Nat \subseteq S
    BY <1>1, <1>2, Induction
  <1> QED
    BY <1>3

(* Two rounds from sums are the sums of the rounds. *)
LEMMA RoundsLinear ==
  ASSUME NEW n \in Nat, NEW a \in Byte, NEW b \in Byte, NEW u, NEW v, NEW w,
         Rounds(u, a, n), Rounds(v, b, n), Rounds(w, SymDiff(a, b), n)
  PROVE  \A k \in 0 .. n : w[k] = SymDiff(u[k], v[k])
  <1> DEFINE S == {k \in Nat : k <= n => w[k] = SymDiff(u[k], v[k])}
  <1>1. 0 \in S
    BY DEF Rounds
  <1>2. ASSUME NEW k \in Nat, k \in S PROVE k + 1 \in S
    <2> SUFFICES ASSUME k + 1 <= n PROVE w[k + 1] = SymDiff(u[k + 1], v[k + 1])
      OBVIOUS
    <2>1. k + 1 \in 1 .. n /\ (k + 1) - 1 = k /\ k \in 0 .. n /\ k <= n
      OBVIOUS
    <2>2. w[k] = SymDiff(u[k], v[k])
      BY <1>2, <2>1
    <2>3. u[k] \in Byte /\ v[k] \in Byte
      BY <2>1 DEF Rounds
    <2>4. u[k + 1] = Round(u[k]) /\ v[k + 1] = Round(v[k]) /\ w[k + 1] = Round(w[k])
      BY <2>1 DEF Rounds
    <2> QED
      BY <2>2, <2>3, <2>4, RoundLinear
  <1>3. Nat \subseteq S
    BY <1>1, <1>2, Induction
  <1> QED
    BY <1>3

LEMMA RoundsUnique ==
  ASSUME NEW n \in Nat, NEW a, NEW u, NEW v, Rounds(u, a, n), Rounds(v, a, n)
  PROVE  \A k \in 0 .. n : u[k] = v[k]
  <1> DEFINE S == {k \in Nat : k <= n => u[k] = v[k]}
  <1>1. 0 \in S
    BY DEF Rounds
  <1>2. ASSUME NEW k \in Nat, k \in S PROVE k + 1 \in S
    <2> SUFFICES ASSUME k + 1 <= n PROVE u[k + 1] = v[k + 1]
      OBVIOUS
    <2>1. k + 1 \in 1 .. n /\ (k + 1) - 1 = k /\ k <= n
      OBVIOUS
    <2>2. u[k] = v[k]
      BY <1>2, <2>1
    <2> QED
      BY <2>1, <2>2 DEF Rounds
  <1>3. Nat \subseteq S
    BY <1>1, <1>2, Induction
  <1> QED
    BY <1>3

(* The loop of crc8. *)
LEMMA CrcRounds ==
  ASSUME NEW a \in Byte, NEW b \in Byte
  PROVE  \E u : Rounds(u, SymDiff(a, b), 8) /\ crc8(a, b) = u[8]
  <1> DEFINE x == SymDiff(a, b)
             round[i \in 0 .. 8] == IF i = 0 THEN SymDiff(a, b) ELSE Round(round[i - 1])
             Body(f) == [i \in 0 .. 8 |-> IF i = 0 THEN SymDiff(a, b) ELSE Round(f[i - 1])]
  <1>1. x \in Byte
    BY ByteDiff
  <1>2. PICK u : Rounds(u, SymDiff(a, b), 8)
    BY <1>1, RoundsExist
  <1>3. u = Body(u)
    BY <1>2 DEF Rounds
  <1>4. round = Body(round)
    BY <1>3
  <1>5. crc8(a, b) = round[8]
    BY DEF crc8
  <1> HIDE DEF round
  <1>6. round[0] = SymDiff(a, b) /\ \A k \in 1 .. 8 : round[k] = Round(round[k - 1])
    <2>1. \A k \in 0 .. 8 : round[k] = IF k = 0 THEN SymDiff(a, b) ELSE Round(round[k - 1])
      BY <1>4
    <2> QED
      BY <2>1
  <1> DEFINE S == {k \in Nat : k <= 8 => round[k] = u[k]}
  <1>7. 0 \in S
    BY <1>2, <1>6 DEF Rounds
  <1>8. ASSUME NEW k \in Nat, k \in S PROVE k + 1 \in S
    <2> SUFFICES ASSUME k + 1 <= 8 PROVE round[k + 1] = u[k + 1]
      OBVIOUS
    <2>1. k + 1 \in 1 .. 8 /\ (k + 1) - 1 = k /\ k <= 8
      OBVIOUS
    <2>2. round[k] = u[k]
      BY <1>8, <2>1
    <2> QED
      BY <1>2, <1>6, <2>1, <2>2 DEF Rounds
  <1>9. Nat \subseteq S
    BY <1>7, <1>8, Induction
  <1>10. round[8] = u[8]
    BY <1>9
  <1> QED
    BY <1>2, <1>5, <1>10

LEMMA CrcTyped == ASSUME NEW a \in Byte, NEW b \in Byte PROVE crc8(a, b) \in Byte
  <1>1. PICK u : Rounds(u, SymDiff(a, b), 8) /\ crc8(a, b) = u[8]
    BY CrcRounds
  <1> QED
    BY <1>1 DEF Rounds

LEMMA CrcLinear ==
  ASSUME NEW a \in Byte, NEW b \in Byte, NEW c \in Byte, NEW d \in Byte
  PROVE  crc8(SymDiff(a, b), SymDiff(c, d)) = SymDiff(crc8(a, c), crc8(b, d))
  <1>1. PICK u : Rounds(u, SymDiff(a, c), 8) /\ crc8(a, c) = u[8]
    BY CrcRounds
  <1>2. PICK v : Rounds(v, SymDiff(b, d), 8) /\ crc8(b, d) = v[8]
    BY CrcRounds
  <1>3. SymDiff(a, b) \in Byte /\ SymDiff(c, d) \in Byte /\ SymDiff(a, c) \in Byte /\ SymDiff(b, d) \in Byte
    BY ByteDiff
  <1>4. PICK w : /\ Rounds(w, SymDiff(SymDiff(a, b), SymDiff(c, d)), 8)
                 /\ crc8(SymDiff(a, b), SymDiff(c, d)) = w[8]
    BY <1>3, CrcRounds
  <1>5. Rounds(w, SymDiff(SymDiff(a, c), SymDiff(b, d)), 8)
    BY <1>4, DiffSwap
  <1>6. 8 \in 0 .. 8 /\ 8 \in Nat
    OBVIOUS
  <1>7. w[8] = SymDiff(u[8], v[8])
    BY <1>1, <1>2, <1>3, <1>5, <1>6, RoundsLinear
  <1> QED
    BY <1>1, <1>2, <1>4, <1>7

LEMMA CrcKernel ==
  ASSUME NEW a \in Byte, NEW b \in Byte
  PROVE  crc8(a, b) = {} <=> a = b
  <1>1. PICK u : Rounds(u, SymDiff(a, b), 8) /\ crc8(a, b) = u[8]
    BY CrcRounds
  <1>2. \A k \in 1 .. 8 : u[k] = Round(u[k - 1]) /\ u[k - 1] \in Byte
    BY <1>1 DEF Rounds
  <1>3. ASSUME u[8] = {} PROVE a = b
    <2>1. \A k \in 1 .. 8 : u[k] = {} => u[k - 1] = {}
      BY <1>2, RoundKernel
    <2>2. u[7] = {} /\ u[6] = {} /\ u[5] = {} /\ u[4] = {}
      BY <1>3, <2>1
    <2>3. u[3] = {} /\ u[2] = {} /\ u[1] = {} /\ u[0] = {}
      BY <2>1, <2>2
    <2>4. SymDiff(a, b) = {}
      BY <1>1, <2>3 DEF Rounds
    <2> QED
      BY <2>4, DiffFacts
  <1>4. ASSUME a = b PROVE u[8] = {}
    <2>1. u[0] = {}
      BY <1>1, <1>4, DiffFacts DEF Rounds
    <2>2. Round({}) = {}
      BY DEF Round
    <2>3. \A k \in 1 .. 8 : u[k - 1] = {} => u[k] = {}
      BY <1>2, <2>2
    <2>4. u[1] = {} /\ u[2] = {} /\ u[3] = {} /\ u[4] = {}
      BY <2>1, <2>3
    <2> QED
      BY <2>3, <2>4
  <1> QED
    BY <1>1, <1>3, <1>4

LEMMA CrcInjective ==
  ASSUME NEW a \in Byte, NEW b \in Byte, NEW d \in Byte, crc8(a, d) = crc8(b, d)
  PROVE  a = b
  <1>1. crc8(SymDiff(a, b), SymDiff(d, d)) = SymDiff(crc8(a, d), crc8(b, d))
    BY CrcLinear
  <1>2. {} \in Byte /\ SymDiff(a, b) \in Byte
    BY ByteDiff DEF Byte
  <1>3. crc8(SymDiff(a, b), {}) = {}
    BY <1>1, DiffFacts
  <1>4. SymDiff(a, b) = {}
    BY <1>2, <1>3, CrcKernel
  <1> QED
    BY <1>4, DiffFacts

-----------------------------------------------------------------------------
(* A burst of eight bits spans the last bits of one byte and the first     *)
(* ones of the next: what crc8 makes of the former is not the latter       *)
(* (Spanning).  Forwards, the former go up for some rounds without loss;   *)
(* backwards, the latter go down; they would have to meet.                 *)
Shifted(a, m) == {i + m : i \in a}

LEMMA ShiftedIs ==
  \A a, m, x : a \subseteq Int /\ m \in Int /\ x \in Int => (x \in Shifted(a, m) <=> x - m \in a)
  <1> SUFFICES ASSUME NEW a, NEW m \in Int, NEW x \in Int, a \subseteq Int
               PROVE  x \in Shifted(a, m) <=> x - m \in a
    OBVIOUS
  <1>1. ASSUME x - m \in a PROVE x \in Shifted(a, m)
    <2>1. x = (x - m) + m
      OBVIOUS
    <2> QED
      BY <1>1, <2>1 DEF Shifted
  <1>2. ASSUME x \in Shifted(a, m) PROVE x - m \in a
    <2>1. PICK i \in a : x = i + m
      BY <1>2 DEF Shifted
    <2>2. x - m = i
      BY <2>1
    <2> QED
      BY <2>2
  <1> QED
    BY <1>1, <1>2

(* A round that loses no bit shifts. *)
LEMMA RoundShifts ==
  ASSUME NEW a \in Byte, 7 \notin a
  PROVE  \A i \in 0 .. 7 : i \in Round(a) <=> i - 1 \in a
  BY RoundIs

LEMMA Spanning ==
  ASSUME NEW a \in Byte, NEW b \in Byte, NEW q \in 0 .. 8,
         \A i \in a : i < q, \A i \in b : i >= q, crc8({}, a) = b
  PROVE  a = {} /\ b = {}
  <1>1. {} \in Byte /\ SymDiff({}, a) = a
    BY DiffFacts DEF Byte
  <1>2. PICK u : Rounds(u, a, 8) /\ b = u[8]
    BY <1>1, CrcRounds
  <1>3. u[0] = a /\ \A k \in 0 .. 8 : u[k] \in Byte
    BY <1>2 DEF Rounds
  <1>4. \A k \in 0 .. 7 : u[k + 1] = Round(u[k]) /\ u[k] \in Byte
    <2> SUFFICES ASSUME NEW k \in 0 .. 7 PROVE u[k + 1] = Round(u[k]) /\ u[k] \in Byte
      OBVIOUS
    <2>1. k + 1 \in 1 .. 8 /\ (k + 1) - 1 = k /\ k \in 0 .. 8
      OBVIOUS
    <2> QED
      BY <1>2, <1>3, <2>1 DEF Rounds
  \* Forwards, the bits of a go up without loss for 8 - q rounds,
  <1> DEFINE F == {k \in Nat : k <= 8 - q => \A i \in 0 .. 7 : i \in u[k] <=> i - k \in a}
  <1>5. Nat \subseteq F
    <2>1. 0 \in F
      BY <1>3
    <2>2. ASSUME NEW k \in Nat, k \in F PROVE k + 1 \in F
      <3> SUFFICES ASSUME k + 1 <= 8 - q, NEW i \in 0 .. 7
                   PROVE  i \in u[k + 1] <=> i - (k + 1) \in a
        OBVIOUS
      <3>1. k \in 0 .. 7 /\ k <= 8 - q
        OBVIOUS
      <3>2. \A j \in 0 .. 7 : j \in u[k] <=> j - k \in a
        BY <2>2, <3>1
      <3>3. 7 \notin u[k]
        <4>1. 7 - k >= q
          BY <3>1
        <4>2. 7 - k \notin a
          BY <4>1
        <4> QED
          BY <3>2, <4>2
      <3>4. i \in u[k + 1] <=> i - 1 \in u[k]
        BY <1>4, <3>1, <3>3, RoundShifts
      <3>5. CASE i = 0
        <4>1. i - 1 \notin u[k]
          BY <1>4, <3>1, <3>5 DEF Byte
        <4>2. i - (k + 1) \notin a
          BY <3>5 DEF Byte
        <4> QED
          BY <3>4, <4>1, <4>2
      <3>6. CASE i # 0
        <4>1. i - 1 \in 0 .. 7 /\ (i - 1) - k = i - (k + 1)
          BY <3>6
        <4> QED
          BY <3>2, <3>4, <4>1
      <3> QED
        BY <3>5, <3>6
    <2> QED
      BY <2>1, <2>2, Induction
  \* and backwards, those of b come down for q rounds:
  <1> DEFINE B == {k \in Nat : k <= q => u[8 - k] = Shifted(b, 0 - k)}
  <1>6. Nat \subseteq B
    <2>1. 0 \in B
      <3>1. Shifted(b, 0) = b
        <4>1. b \subseteq 0 .. 7
          BY DEF Byte
        <4>2. \A i \in b : i + 0 = i
          BY <4>1
        <4> QED
          BY <4>2 DEF Shifted
      <3>2. 8 - 0 = 8 /\ 0 - 0 = 0
        OBVIOUS
      <3> QED
        BY <1>2, <3>1, <3>2
    <2>2. ASSUME NEW k \in Nat, k \in B PROVE k + 1 \in B
      <3> SUFFICES ASSUME k + 1 <= q PROVE u[8 - (k + 1)] = Shifted(b, 0 - (k + 1))
        OBVIOUS
      <3> DEFINE c == Shifted(b, 0 - (k + 1))
                 d == u[8 - (k + 1)]
      <3>1. k <= q /\ 8 - (k + 1) \in 0 .. 7 /\ (8 - (k + 1)) + 1 = 8 - k
        OBVIOUS
      <3>2. u[8 - k] = Round(d) /\ d \in Byte
        BY <1>4, <3>1
      <3>3. u[8 - k] = Shifted(b, 0 - k)
        BY <2>2, <3>1
      <3>4. b \subseteq 0 .. 7 /\ b \subseteq Int /\ 0 - (k + 1) \in Int /\ 0 - k \in Int
        BY DEF Byte
      <3>5. c \in Byte /\ 7 \notin c
        <4>1. \A i \in b : i + (0 - (k + 1)) \in 0 .. 6
          BY <3>4
        <4> QED
          BY <4>1 DEF Shifted, Byte
      <3>6. Round(c) \in Byte /\ u[8 - k] \in Byte
        BY <3>2, <3>5, RoundIs
      <3>7. \A i \in 0 .. 7 : i \in Round(c) <=> i \in u[8 - k]
        <4> SUFFICES ASSUME NEW i \in 0 .. 7 PROVE i \in Round(c) <=> i \in u[8 - k]
          OBVIOUS
        <4>1. i \in Round(c) <=> i - 1 \in c
          BY <3>5, RoundShifts
        <4>2. i - 1 \in Int /\ i \in Int
          OBVIOUS
        <4>3. i - 1 \in c <=> (i - 1) - (0 - (k + 1)) \in b
          <5> HIDE DEF c
          <5> DEFINE m == 0 - (k + 1)
          <5>1. c = Shifted(b, m) /\ m \in Int
            BY <3>4 DEF c
          <5> HIDE DEF m
          <5>2. i - 1 \in c <=> (i - 1) - m \in b
            BY <3>4, <4>2, <5>1, ShiftedIs
          <5> QED
            BY <5>2 DEF m
        <4>4. i \in u[8 - k] <=> i - (0 - k) \in b
          <5> DEFINE m == 0 - k
          <5>1. u[8 - k] = Shifted(b, m) /\ m \in Int
            BY <3>3, <3>4
          <5> HIDE DEF m
          <5>2. i \in Shifted(b, m) <=> i - m \in b
            BY <3>4, <4>2, <5>1, ShiftedIs
          <5> QED
            BY <5>1, <5>2 DEF m
        <4>5. (i - 1) - (0 - (k + 1)) = i - (0 - k)
          OBVIOUS
        <4> QED
          BY <4>1, <4>3, <4>4, <4>5
      <3>8. Round(c) = Round(d)
        BY <3>2, <3>6, <3>7 DEF Byte
      <3> QED
        BY <3>2, <3>5, <3>8, RoundInjective
    <2> QED
      BY <2>1, <2>2, Induction
  \* there is nothing that can be both.
  <1>7. \A i \in 0 .. 7 : i \in u[8 - q] <=> i - (8 - q) \in a
    <2>1. 8 - q \in Nat /\ 8 - q <= 8 - q
      OBVIOUS
    <2> QED
      BY <1>5, <2>1
  <1>8. u[8 - q] = Shifted(b, 0 - q)
    BY <1>6
  <1>9. b \subseteq 0 .. 7 /\ a \subseteq 0 .. 7 /\ b \subseteq Int /\ 0 - q \in Int
    BY DEF Byte
  <1>10. ASSUME NEW i \in a PROVE FALSE
    <2>1. i \in 0 .. 7 /\ i < q /\ i + (8 - q) \in 0 .. 7 /\ (i + (8 - q)) - (8 - q) = i
      BY <1>9
    <2>2. i + (8 - q) \in Shifted(b, 0 - q)
      BY <1>7, <1>8, <2>1
    <2>3. (i + (8 - q)) - (0 - q) \in b
      <3> DEFINE m == 0 - q
                 x == i + (8 - q)
      <3>1. m \in Int /\ x \in Int /\ x \in Shifted(b, m)
        BY <1>9, <2>1, <2>2
      <3> HIDE DEF m, x
      <3>2. x - m \in b
        BY <1>9, <3>1, ShiftedIs
      <3> QED
        BY <3>2 DEF m, x
    <2>4. (i + (8 - q)) - (0 - q) = i + 8
      BY <2>1
    <2>5. i + 8 \notin 0 .. 7
      BY <2>1
    <2> QED
      BY <1>9, <2>3, <2>4, <2>5
  <1>11. a = {}
    BY <1>10
  <1> QED
    BY <1>1, <1>11, CrcKernel

(* The powers of x: what is left of a single bit after so many rounds.     *)
Power == [k \in 0 .. 23 |->
  <<{0}, {1}, {2}, {3},
    {4}, {5}, {6}, {7},
    {0, 1, 2}, {1, 2, 3}, {2, 3, 4}, {3, 4, 5},
    {4, 5, 6}, {5, 6, 7}, {0, 1, 2, 6, 7}, {0, 3, 7},
    {0, 2, 4}, {1, 3, 5}, {2, 4, 6}, {3, 5, 7},
    {0, 1, 2, 4, 6}, {1, 2, 3, 5, 7}, {0, 1, 3, 4, 6}, {1, 2, 4, 5, 7}>>[k + 1]]

LEMMA PowerTable ==
  /\ Power[0] = {0} /\ Power[1] = {1}
  /\ Power[2] = {2} /\ Power[3] = {3}
  /\ Power[4] = {4} /\ Power[5] = {5}
  /\ Power[6] = {6} /\ Power[7] = {7}
  /\ Power[8] = {0, 1, 2} /\ Power[9] = {1, 2, 3}
  /\ Power[10] = {2, 3, 4} /\ Power[11] = {3, 4, 5}
  /\ Power[12] = {4, 5, 6} /\ Power[13] = {5, 6, 7}
  /\ Power[14] = {0, 1, 2, 6, 7} /\ Power[15] = {0, 3, 7}
  /\ Power[16] = {0, 2, 4} /\ Power[17] = {1, 3, 5}
  /\ Power[18] = {2, 4, 6} /\ Power[19] = {3, 5, 7}
  /\ Power[20] = {0, 1, 2, 4, 6} /\ Power[21] = {1, 2, 3, 5, 7}
  /\ Power[22] = {0, 1, 3, 4, 6} /\ Power[23] = {1, 2, 4, 5, 7}
  BY DEF Power

LEMMA Powers ==
  /\ \A k \in 0 .. 22 : Round(Power[k]) = Power[k + 1]
  /\ \A k \in 0 .. 23 : Power[k] \in Byte
  /\ \A k \in 0 .. 7 : Power[k] = {k}
  /\ \A k \in 8 .. 23 : \A b : Power[k] # {b}
  <1>1. Round({0}) = {1}
    BY DEF Round
  <1>2. Round({1}) = {2}
    BY DEF Round
  <1>3. Round({2}) = {3}
    BY DEF Round
  <1>4. Round({3}) = {4}
    BY DEF Round
  <1>5. Round({4}) = {5}
    BY DEF Round
  <1>6. Round({5}) = {6}
    BY DEF Round
  <1>7. Round({6}) = {7}
    BY DEF Round
  <1>8. Round({7}) = {0, 1, 2}
    <2>1. {i + 1 : i \in {7} \ {7}} = {}
      OBVIOUS
    <2>2. SymDiff({}, {0, 1, 2}) = {0, 1, 2}
      BY DEF SymDiff
    <2> QED
      BY <2>1, <2>2 DEF Round
  <1>9. Round({0, 1, 2}) = {1, 2, 3}
    BY DEF Round
  <1>10. Round({1, 2, 3}) = {2, 3, 4}
    BY DEF Round
  <1>11. Round({2, 3, 4}) = {3, 4, 5}
    BY DEF Round
  <1>12. Round({3, 4, 5}) = {4, 5, 6}
    BY DEF Round
  <1>13. Round({4, 5, 6}) = {5, 6, 7}
    BY DEF Round
  <1>14. Round({5, 6, 7}) = {0, 1, 2, 6, 7}
    <2>1. {i + 1 : i \in {5, 6, 7} \ {7}} = {6, 7}
      OBVIOUS
    <2>2. SymDiff({6, 7}, {0, 1, 2}) = {0, 1, 2, 6, 7}
      BY DEF SymDiff
    <2> QED
      BY <2>1, <2>2 DEF Round
  <1>15. Round({0, 1, 2, 6, 7}) = {0, 3, 7}
    <2>1. {i + 1 : i \in {0, 1, 2, 6, 7} \ {7}} = {1, 2, 3, 7}
      OBVIOUS
    <2>2. SymDiff({1, 2, 3, 7}, {0, 1, 2}) = {0, 3, 7}
      BY DEF SymDiff
    <2> QED
      BY <2>1, <2>2 DEF Round
  <1>16. Round({0, 3, 7}) = {0, 2, 4}
    <2>1. {i + 1 : i \in {0, 3, 7} \ {7}} = {1, 4}
      OBVIOUS
    <2>2. SymDiff({1, 4}, {0, 1, 2}) = {0, 2, 4}
      BY DEF SymDiff
    <2> QED
      BY <2>1, <2>2 DEF Round
  <1>17. Round({0, 2, 4}) = {1, 3, 5}
    BY DEF Round
  <1>18. Round({1, 3, 5}) = {2, 4, 6}
    BY DEF Round
  <1>19. Round({2, 4, 6}) = {3, 5, 7}
    BY DEF Round
  <1>20. Round({3, 5, 7}) = {0, 1, 2, 4, 6}
    <2>1. {i + 1 : i \in {3, 5, 7} \ {7}} = {4, 6}
      OBVIOUS
    <2>2. SymDiff({4, 6}, {0, 1, 2}) = {0, 1, 2, 4, 6}
      BY DEF SymDiff
    <2> QED
      BY <2>1, <2>2 DEF Round
  <1>21. Round({0, 1, 2, 4, 6}) = {1, 2, 3, 5, 7}
    BY DEF Round
  <1>22. Round({1, 2, 3, 5, 7}) = {0, 1, 3, 4, 6}
    <2>1. {i + 1 : i \in {1, 2, 3, 5, 7} \ {7}} = {2, 3, 4, 6}
      OBVIOUS
    <2>2. SymDiff({2, 3, 4, 6}, {0, 1, 2}) = {0, 1, 3, 4, 6}
      BY DEF SymDiff
    <2> QED
      BY <2>1, <2>2 DEF Round
  <1>23. Round({0, 1, 3, 4, 6}) = {1, 2, 4, 5, 7}
    BY DEF Round
  <1>24. \A k \in 0 .. 22 : Round(Power[k]) = Power[k + 1]
    <2>1. /\ Round(Power[0]) = Power[1]
          /\ Round(Power[1]) = Power[2]
          /\ Round(Power[2]) = Power[3]
          /\ Round(Power[3]) = Power[4]
          /\ Round(Power[4]) = Power[5]
          /\ Round(Power[5]) = Power[6]
          /\ Round(Power[6]) = Power[7]
          /\ Round(Power[7]) = Power[8]
          /\ Round(Power[8]) = Power[9]
          /\ Round(Power[9]) = Power[10]
          /\ Round(Power[10]) = Power[11]
          /\ Round(Power[11]) = Power[12]
          /\ Round(Power[12]) = Power[13]
          /\ Round(Power[13]) = Power[14]
          /\ Round(Power[14]) = Power[15]
          /\ Round(Power[15]) = Power[16]
          /\ Round(Power[16]) = Power[17]
          /\ Round(Power[17]) = Power[18]
          /\ Round(Power[18]) = Power[19]
          /\ Round(Power[19]) = Power[20]
          /\ Round(Power[20]) = Power[21]
          /\ Round(Power[21]) = Power[22]
          /\ Round(Power[22]) = Power[23]
      BY PowerTable, <1>1, <1>2, <1>3, <1>4, <1>5, <1>6, <1>7, <1>8, <1>9, <1>10, <1>11, <1>12,
         <1>13, <1>14, <1>15, <1>16, <1>17, <1>18, <1>19, <1>20, <1>21, <1>22, <1>23
    <2> QED
      BY <2>1
  <1>25. \A k \in 0 .. 23 : Power[k] \in Byte
    BY PowerTable DEF Byte
  <1>26. \A k \in 0 .. 7 : Power[k] = {k}
    BY PowerTable
  <1>27. \A k \in 8 .. 23 : \E x, y \in Power[k] : x # y
    BY PowerTable
  <1> QED
    BY <1>24, <1>25, <1>26, <1>27

LEMMA CrcOfBit ==
  ASSUME NEW k \in 0 .. 15, NEW a \in Byte, NEW b \in Byte, SymDiff(a, b) = Power[k]
  PROVE  crc8(a, b) = Power[k + 8]
  <1>1. PICK u : Rounds(u, Power[k], 8) /\ crc8(a, b) = u[8]
    BY CrcRounds
  <1>2. ASSUME NEW j \in 0 .. 7, u[j] = Power[k + j] PROVE u[j + 1] = Power[k + (j + 1)]
    <2>1. j + 1 \in 1 .. 8 /\ (j + 1) - 1 = j /\ k + j \in 0 .. 22 /\ k + (j + 1) = (k + j) + 1
      OBVIOUS
    <2>2. u[j + 1] = Round(u[j])
      BY <1>1, <2>1 DEF Rounds
    <2>3. Round(Power[k + j]) = Power[(k + j) + 1]
      BY <2>1, Powers
    <2> QED
      BY <1>2, <2>1, <2>2, <2>3
  <1> DEFINE S == {j \in Nat : j <= 8 => u[j] = Power[k + j]}
  <1>3. 0 \in S
    <2>1. k + 0 = k
      OBVIOUS
    <2> QED
      BY <1>1, <2>1 DEF Rounds
  <1>4. ASSUME NEW j \in Nat, j \in S PROVE j + 1 \in S
    <2> SUFFICES ASSUME j + 1 <= 8 PROVE u[j + 1] = Power[k + (j + 1)]
      OBVIOUS
    <2>1. j \in 0 .. 7 /\ j <= 8
      OBVIOUS
    <2> QED
      BY <1>2, <1>4, <2>1
  <1>5. Nat \subseteq S
    BY <1>3, <1>4, Induction
  <1>6. u[8] = Power[k + 8]
    BY <1>5
  <1> QED
    BY <1>1, <1>6

-----------------------------------------------------------------------------
(* The errors that the checksum catches: any burst of up to eight bits on  *)
(* the wire, any two bits.                                                 *)
LEMMA ErrorBytes ==
  ASSUME NEW e, e \subseteq 0 .. 23, NEW k \in 1 .. 3
  PROVE  /\ ErrorByte(e, k) \in Byte
         /\ \A b \in 0 .. 7 : b \in ErrorByte(e, k) <=> 8 * k - 1 - b \in e
  <1> DEFINE f == e \cap 8 * (k - 1) .. 8 * k - 1
  <1>1. \A i \in f : i \in Int /\ 8 * k - 1 - i \in 0 .. 7
    OBVIOUS
  <1>2. ErrorByte(e, k) = {8 * k - 1 - i : i \in f}
    BY DEF ErrorByte
  <1>3. ErrorByte(e, k) \in Byte
    BY <1>1, <1>2 DEF Byte
  <1>4. ASSUME NEW b \in 0 .. 7, 8 * k - 1 - b \in e PROVE b \in ErrorByte(e, k)
    <2>1. 8 * k - 1 - b \in f /\ 8 * k - 1 - (8 * k - 1 - b) = b
      BY <1>4
    <2> HIDE DEF f
    <2> QED
      BY <1>2, <2>1
  <1>5. ASSUME NEW b \in 0 .. 7, b \in ErrorByte(e, k) PROVE 8 * k - 1 - b \in e
    <2>1. PICK i \in f : b = 8 * k - 1 - i
      BY <1>2, <1>5
    <2>2. 8 * k - 1 - b = i
      BY <1>1, <2>1
    <2> QED
      BY <2>1, <2>2
  <1> QED
    BY <1>3, <1>4, <1>5

LEMMA ThreeErrorBytes ==
  ASSUME NEW e, e \subseteq 0 .. 23
  PROVE  /\ ErrorByte(e, 1) \in Byte /\ ErrorByte(e, 2) \in Byte /\ ErrorByte(e, 3) \in Byte
         /\ {} \in Byte
         /\ \A b \in 0 .. 7 : b \in ErrorByte(e, 1) <=> 7 - b \in e
         /\ \A b \in 0 .. 7 : b \in ErrorByte(e, 2) <=> 15 - b \in e
         /\ \A b \in 0 .. 7 : b \in ErrorByte(e, 3) <=> 23 - b \in e
  <1>1. 1 \in 1 .. 3 /\ 2 \in 1 .. 3 /\ 3 \in 1 .. 3
    OBVIOUS
  <1>2. \A b \in 0 .. 7 : 8 * 1 - 1 - b = 7 - b /\ 8 * 2 - 1 - b = 15 - b /\ 8 * 3 - 1 - b = 23 - b
    OBVIOUS
  <1>3. \A k \in 1 .. 3 : ErrorByte(e, k) \in Byte
    BY ErrorBytes
  <1>4. /\ \A b \in 0 .. 7 : b \in ErrorByte(e, 1) <=> 8 * 1 - 1 - b \in e
        /\ \A b \in 0 .. 7 : b \in ErrorByte(e, 2) <=> 8 * 2 - 1 - b \in e
        /\ \A b \in 0 .. 7 : b \in ErrorByte(e, 3) <=> 8 * 3 - 1 - b \in e
    <2>1. \A k \in 1 .. 3 : \A b \in 0 .. 7 : b \in ErrorByte(e, k) <=> 8 * k - 1 - b \in e
      BY ErrorBytes
    <2> QED
      BY <1>1, <2>1
  <1>5. {} \in Byte
    BY DEF Byte
  <1> QED
    BY <1>1, <1>2, <1>3, <1>4, <1>5

LEMMA BurstCaught ==
  ASSUME NEW e, e \subseteq 0 .. 23, BurstError(e),
         crc8(crc8({}, ErrorByte(e, 1)), ErrorByte(e, 2)) = ErrorByte(e, 3)
  PROVE  ErrorByte(e, 1) = {} /\ ErrorByte(e, 2) = {}
  <1> DEFINE e1 == ErrorByte(e, 1)
             e2 == ErrorByte(e, 2)
             e3 == ErrorByte(e, 3)
  <1>1. PICK s \in 0 .. 23 : e \subseteq s .. s + 7
    BY DEF BurstError
  <1>2. e1 \in Byte /\ e2 \in Byte /\ e3 \in Byte /\ {} \in Byte
    BY ThreeErrorBytes
  <1>3. /\ \A b \in 0 .. 7 : b \in e1 <=> 7 - b \in e
        /\ \A b \in 0 .. 7 : b \in e2 <=> 15 - b \in e
        /\ \A b \in 0 .. 7 : b \in e3 <=> 23 - b \in e
    BY ThreeErrorBytes
  <1>4. crc8(crc8({}, e1), e2) = e3
    OBVIOUS
  <1>5. crc8({}, e1) \in Byte /\ crc8({}, {}) = {}
    BY <1>2, CrcTyped, CrcKernel
  <1> HIDE DEF e1, e2, e3
  <1>6. /\ \A b \in e1 : b \in 0 .. 7 /\ 7 - b \in s .. s + 7
        /\ \A b \in e2 : b \in 0 .. 7 /\ 15 - b \in s .. s + 7
        /\ \A b \in e3 : b \in 0 .. 7 /\ 23 - b \in s .. s + 7
    <2>1. e1 \subseteq 0 .. 7 /\ e2 \subseteq 0 .. 7 /\ e3 \subseteq 0 .. 7
      BY <1>2 DEF Byte
    <2> QED
      BY <1>1, <1>3, <2>1
  <1>7. CASE s <= 7
    <2>1. e3 = {}
      <3>1. \A b \in 0 .. 7 : 23 - b \notin s .. s + 7
        BY <1>7
      <3> QED
        BY <1>6, <3>1
    <2>2. crc8({}, e1) = e2
      BY <1>2, <1>4, <1>5, <2>1, CrcKernel
    <2>3. 8 - s \in 0 .. 8 /\ (\A b \in e1 : b < 8 - s) /\ (\A b \in e2 : b >= 8 - s)
      <3>1. \A b \in 0 .. 7 : (7 - b \in s .. s + 7 => b < 8 - s) /\ (15 - b \in s .. s + 7 => b >= 8 - s)
        OBVIOUS
      <3>2. 8 - s \in 0 .. 8
        BY <1>7
      <3> QED
        BY <1>6, <3>1, <3>2
    <2>4. e1 = {} /\ e2 = {}
      BY <1>2, <2>2, <2>3, Spanning
    <2> QED
      BY <2>4 DEF e1, e2
  <1>8. CASE s \in 8 .. 15
    <2>1. e1 = {}
      <3>1. \A b \in 0 .. 7 : 7 - b \notin s .. s + 7
        BY <1>8
      <3> QED
        BY <1>6, <3>1
    <2>2. crc8({}, e2) = e3
      BY <1>4, <1>5, <2>1
    <2>3. 16 - s \in 0 .. 8 /\ (\A b \in e2 : b < 16 - s) /\ (\A b \in e3 : b >= 16 - s)
      <3>1. \A b \in 0 .. 7 : (15 - b \in s .. s + 7 => b < 16 - s) /\ (23 - b \in s .. s + 7 => b >= 16 - s)
        OBVIOUS
      <3>2. 16 - s \in 0 .. 8
        BY <1>8
      <3> QED
        BY <1>6, <3>1, <3>2
    <2>4. e2 = {}
      BY <1>2, <2>2, <2>3, Spanning
    <2> QED
      BY <2>1, <2>4 DEF e1, e2
  <1>9. CASE s >= 16
    <2>1. \A b \in 0 .. 7 : 7 - b \notin s .. s + 7 /\ 15 - b \notin s .. s + 7
      BY <1>9
    <2>2. e1 = {} /\ e2 = {}
      BY <1>6, <2>1
    <2> QED
      BY <2>2 DEF e1, e2
  <1> QED
    BY <1>7, <1>8, <1>9

LEMMA OneBit ==
  ASSUME NEW f, NEW k \in 0 .. 7, f \subseteq 0 .. 7, \A b \in 0 .. 7 : b \in f <=> b = k
  PROVE  f = {k} /\ f = Power[k] /\ k \in 0 .. 15
  <1>1. \A b : b \in f => b \in 0 .. 7
    OBVIOUS
  <1>2. f = {k}
    BY <1>1, Zenon
  <1>3. k \in 0 .. 15
    OBVIOUS
  <1>4. Power[k] = {k}
    BY Powers
  <1> QED
    BY <1>2, <1>3, <1>4

LEMMA PairCaught ==
  ASSUME NEW i \in 0 .. 23, NEW j \in 0 .. 23, i + 8 <= j, NEW e, e = {i, j}
  PROVE  crc8(crc8({}, ErrorByte(e, 1)), ErrorByte(e, 2)) # ErrorByte(e, 3)
  <1> DEFINE e1 == ErrorByte(e, 1)
             e2 == ErrorByte(e, 2)
             e3 == ErrorByte(e, 3)
  <1>1. e \subseteq 0 .. 23
    OBVIOUS
  <1>2. e1 \in Byte /\ e2 \in Byte /\ e3 \in Byte /\ {} \in Byte
    BY <1>1, ThreeErrorBytes
  <1>3. /\ \A b \in 0 .. 7 : b \in e1 <=> 7 - b \in e
        /\ \A b \in 0 .. 7 : b \in e2 <=> 15 - b \in e
        /\ \A b \in 0 .. 7 : b \in e3 <=> 23 - b \in e
    BY <1>1, ThreeErrorBytes
  <1>4. crc8({}, {}) = {} /\ \A x : SymDiff({}, x) = x /\ SymDiff(x, {}) = x
    BY <1>2, CrcKernel, DiffFacts
  <1> HIDE DEF e1, e2, e3
  <1>5. /\ \A b \in 0 .. 7 : b \in e1 <=> 7 - b = i \/ 7 - b = j
        /\ \A b \in 0 .. 7 : b \in e2 <=> 15 - b = i \/ 15 - b = j
        /\ \A b \in 0 .. 7 : b \in e3 <=> 23 - b = i \/ 23 - b = j
    <2>1. \A x : x \in e <=> x = i \/ x = j
      OBVIOUS
    <2> QED
      BY <1>3, <2>1
  <1>6. e1 \subseteq 0 .. 7 /\ e2 \subseteq 0 .. 7 /\ e3 \subseteq 0 .. 7
    BY <1>2 DEF Byte
  <1>11. ASSUME NEW f, f \subseteq 0 .. 7, \A b \in 0 .. 7 : b \notin f PROVE f = {}
    BY <1>11
  <1>12. \A k \in 0 .. 15 : crc8({}, {}) = {} /\ Power[k + 8] \in Byte /\ \A b : Power[k + 8] # {b}
    <2>1. \A k \in 0 .. 15 : k + 8 \in 8 .. 23 /\ k + 8 \in 0 .. 23
      OBVIOUS
    <2> QED
      BY <1>4, <2>1, Powers
  <1>7. CASE i \in 0 .. 7 /\ j \in 8 .. 15
    <2>1. /\ 7 - i \in 0 .. 7 /\ 15 - j \in 0 .. 7
          /\ \A b \in 0 .. 7 : /\ b \in e1 <=> b = 7 - i
                               /\ b \in e2 <=> b = 15 - j
                               /\ b \notin e3
      BY <1>5, <1>7
    <2>2. e1 = Power[7 - i] /\ 7 - i \in 0 .. 15
      <3> DEFINE k == 7 - i
      <3>1. k \in 0 .. 7 /\ \A b \in 0 .. 7 : b \in e1 <=> b = k
        BY <2>1
      <3> HIDE DEF k
      <3>2. e1 = Power[k] /\ k \in 0 .. 15
        BY <1>6, <3>1, OneBit
      <3> QED
        BY <3>2 DEF k
    <2>3. e2 = {15 - j}
      BY <1>6, <2>1, OneBit
    <2>4. e3 = {}
      BY <1>6, <1>11, <2>1
    <2>5. crc8({}, e1) = Power[(7 - i) + 8]
      BY <1>2, <1>4, <2>2, CrcOfBit
    <2>6. crc8({}, e1) # e2 /\ crc8({}, e1) \in Byte
      BY <1>12, <2>2, <2>3, <2>5
    <2>7. crc8(crc8({}, e1), e2) # {}
      BY <1>2, <2>6, CrcKernel
    <2> QED
      BY <2>4, <2>7 DEF e1, e2, e3
  <1>8. CASE i \in 0 .. 7 /\ j \in 16 .. 23
    <2>1. /\ 7 - i \in 0 .. 7 /\ 23 - j \in 0 .. 7
          /\ \A b \in 0 .. 7 : /\ b \in e1 <=> b = 7 - i
                               /\ b \notin e2
                               /\ b \in e3 <=> b = 23 - j
      BY <1>5, <1>8
    <2>2. e1 = Power[7 - i] /\ 7 - i \in 0 .. 15 /\ (7 - i) + 8 \in 0 .. 15
      <3> DEFINE k == 7 - i
      <3>1. k \in 0 .. 7 /\ \A b \in 0 .. 7 : b \in e1 <=> b = k
        BY <2>1
      <3>2. k \in 0 .. 15 /\ k + 8 \in 0 .. 15
        BY <3>1
      <3> HIDE DEF k
      <3>3. e1 = Power[k]
        BY <1>6, <3>1, OneBit
      <3> QED
        BY <3>2, <3>3 DEF k
    <2>3. e3 = {23 - j}
      BY <1>6, <2>1, OneBit
    <2>4. e2 = {}
      BY <1>6, <1>11, <2>1
    <2>5. crc8({}, e1) = Power[(7 - i) + 8]
      BY <1>2, <1>4, <2>2, CrcOfBit
    <2>6. crc8({}, e1) \in Byte /\ SymDiff(crc8({}, e1), e2) = Power[(7 - i) + 8]
      BY <1>4, <1>12, <2>2, <2>4, <2>5
    <2>7. crc8(crc8({}, e1), e2) = Power[((7 - i) + 8) + 8]
      BY <1>2, <2>2, <2>6, CrcOfBit
    <2>8. crc8(crc8({}, e1), e2) # e3
      BY <1>12, <2>2, <2>3, <2>7
    <2> QED
      BY <2>8 DEF e1, e2, e3
  <1>9. CASE i \in 8 .. 15 /\ j \in 16 .. 23
    <2>1. /\ 15 - i \in 0 .. 7 /\ 23 - j \in 0 .. 7
          /\ \A b \in 0 .. 7 : /\ b \notin e1
                               /\ b \in e2 <=> b = 15 - i
                               /\ b \in e3 <=> b = 23 - j
      BY <1>5, <1>9
    <2>2. e2 = Power[15 - i] /\ 15 - i \in 0 .. 15
      <3> DEFINE k == 15 - i
      <3>1. k \in 0 .. 7 /\ \A b \in 0 .. 7 : b \in e2 <=> b = k
        BY <2>1
      <3> HIDE DEF k
      <3>2. e2 = Power[k] /\ k \in 0 .. 15
        BY <1>6, <3>1, OneBit
      <3> QED
        BY <3>2 DEF k
    <2>3. e3 = {23 - j}
      BY <1>6, <2>1, OneBit
    <2>4. e1 = {}
      BY <1>6, <1>11, <2>1
    <2>5. crc8({}, e2) = Power[(15 - i) + 8]
      BY <1>2, <1>4, <2>2, CrcOfBit
    <2>6. crc8({}, e2) # e3
      BY <1>12, <2>2, <2>3, <2>5
    <2>7. crc8(crc8({}, e1), e2) # e3
      BY <1>4, <2>4, <2>6
    <2> QED
      BY <2>7 DEF e1, e2, e3
  <1> QED
    BY <1>7, <1>8, <1>9

LEMMA Caught ==
  ASSUME NEW e, e \subseteq 0 .. 23, BurstError(e) \/ PairError(e),
         crc8(crc8({}, ErrorByte(e, 1)), ErrorByte(e, 2)) = ErrorByte(e, 3)
  PROVE  ErrorByte(e, 1) = {} /\ ErrorByte(e, 2) = {}
  <1>1. ASSUME NEW i \in 0 .. 23, NEW j \in 0 .. 23, e = {i, j}, i <= j, j < i + 8
        PROVE  BurstError(e)
    <2>1. e \subseteq i .. i + 7
      BY <1>1
    <2> QED
      BY <2>1 DEF BurstError
  <1>2. CASE PairError(e)
    <2>1. PICK i, j \in 0 .. 23 : e = {i, j} /\ i <= j
      <3>1. PICK a, b \in 0 .. 23 : e = {a, b}
        BY <1>2 DEF PairError
      <3>2. e = {b, a} /\ (a <= b \/ b <= a)
        BY <3>1
      <3> QED
        BY <3>1, <3>2
    <2>2. j < i + 8
      BY <2>1, PairCaught
    <2> QED
      BY <1>1, <2>1, <2>2, BurstCaught
  <1> QED
    BY <1>2, BurstCaught

(* The checksum of a sum is the sum of the checksums: what is added to     *)
(* the last two bytes and to the checksum itself goes unnoticed only if it *)
(* is a message with its checksum.                                         *)
LEMMA ErrorIsMessage ==
  ASSUME NEW p \in Byte, NEW lo \in Byte, NEW hi \in Byte,
         NEW e1 \in Byte, NEW e2 \in Byte, NEW e3 \in Byte,
         crc8(crc8(p, SymDiff(lo, e1)), SymDiff(hi, e2)) = SymDiff(crc8(crc8(p, lo), hi), e3)
  PROVE  crc8(crc8({}, e1), e2) = e3
  <1>1. {} \in Byte /\ SymDiff(p, {}) = p
    BY DiffFacts DEF Byte
  <1>2. crc8(p, SymDiff(lo, e1)) = SymDiff(crc8(p, lo), crc8({}, e1))
    BY <1>1, CrcLinear
  <1>3. crc8(p, lo) \in Byte /\ crc8({}, e1) \in Byte
    BY <1>1, CrcTyped
  <1>4. crc8(SymDiff(crc8(p, lo), crc8({}, e1)), SymDiff(hi, e2))
          = SymDiff(crc8(crc8(p, lo), hi), crc8(crc8({}, e1), e2))
    BY <1>3, CrcLinear
  <1>5. SymDiff(crc8(crc8(p, lo), hi), crc8(crc8({}, e1), e2)) = SymDiff(crc8(crc8(p, lo), hi), e3)
    BY <1>2, <1>4
  <1>6. \A x, y, z : SymDiff(x, y) = SymDiff(x, z) => y = z
    BY DEF SymDiff
  <1> QED
    BY <1>5, <1>6

-----------------------------------------------------------------------------
(* The sensor's checksum is the driver's. *)

LEMMA ShiftedDiff ==
  ASSUME NEW a, NEW b, NEW m \in Int, a \subseteq Int, b \subseteq Int
  PROVE  Shifted(SymDiff(a, b), m) = SymDiff(Shifted(a, m), Shifted(b, m))
  <1>1. SymDiff(a, b) \subseteq Int
    BY DEF SymDiff
  <1>2. \A c : c \subseteq Int => Shifted(c, m) \subseteq Int
    BY DEF Shifted
  <1>3. ASSUME NEW x \in Int
        PROVE  x \in Shifted(SymDiff(a, b), m) <=> x \in SymDiff(Shifted(a, m), Shifted(b, m))
    <2>1. /\ x \in Shifted(a, m) <=> x - m \in a
          /\ x \in Shifted(b, m) <=> x - m \in b
          /\ x \in Shifted(SymDiff(a, b), m) <=> x - m \in SymDiff(a, b)
      BY <1>1, ShiftedIs
    <2> QED
      BY <2>1, DiffIs
  <1>4. SymDiff(Shifted(a, m), Shifted(b, m)) \subseteq Int /\ Shifted(SymDiff(a, b), m) \subseteq Int
    BY <1>1, <1>2 DEF SymDiff
  <1> QED
    BY <1>3, <1>4

(* One step of the division, on the eight bits that come next. *)
LEMMA ShiftedRound ==
  ASSUME NEW u \in Byte, NEW m \in Nat
  PROVE  Shifted(Round(u), m) = IF 7 \in u THEN SymDiff(Shifted(u, m + 1), {m + 8, m + 2, m + 1, m})
                                ELSE Shifted(u, m + 1)
  <1> DEFINE g == {m + 8, m + 2, m + 1, m}
             s == Shifted(u, m + 1)
             t == Shifted(Round(u), m)
  <1>1. Round(u) \in Byte /\ u \subseteq 0 .. 7 /\ u \subseteq Int
    BY RoundIs DEF Byte
  <1>2. Round(u) \subseteq 0 .. 7 /\ Round(u) \subseteq Int
    BY <1>1 DEF Byte
  <1>3. s \subseteq Int /\ t \subseteq Int /\ g \subseteq Int
    BY <1>1, <1>2 DEF Shifted
  <1>4. \A x \in Int : (x \in s <=> x - (m + 1) \in u) /\ (x \in t <=> x - m \in Round(u))
    <2>1. m \in Int /\ m + 1 \in Int
      OBVIOUS
    <2> QED
      BY <1>1, <1>2, <2>1, ShiftedIs
  <1>5. \A x \in Int : x \in g <=> x - m = 8 \/ x - m \in 0 .. 2
    OBVIOUS
  <1> HIDE DEF g, s, t
  <1>6. ASSUME NEW x \in Int
        PROVE  x \in t <=> IF 7 \in u /\ x \in g THEN x \notin s ELSE x \in s
    <2>1. (x \in s <=> x - (m + 1) \in u) /\ (x \in t <=> x - m \in Round(u))
      BY <1>4
    <2>2. CASE x - m \in 0 .. 7
      <3>1. x - m \in Round(u) <=> IF 7 \in u /\ x - m \in 0 .. 2 THEN (x - m) - 1 \notin u
                                   ELSE (x - m) - 1 \in u
        BY <2>2, RoundIs
      <3>2. (x - m) - 1 = x - (m + 1) /\ x - m # 8
        BY <2>2
      <3>3. x \in g <=> x - m \in 0 .. 2
        BY <1>5, <3>2
      <3> QED
        BY <2>1, <3>1, <3>2, <3>3
    <2>3. CASE x - m = 8
      <3>1. x - (m + 1) = 7 /\ x - m \notin 0 .. 7
        BY <2>3
      <3>2. x \in g /\ x \notin t
        BY <1>2, <1>5, <2>1, <2>3, <3>1
      <3> QED
        BY <2>1, <3>1, <3>2
    <2>4. CASE x - m \notin 0 .. 7 /\ x - m # 8
      <3>1. x - m \notin 0 .. 2 /\ x - (m + 1) \notin 0 .. 7
        BY <2>4
      <3> QED
        BY <1>1, <1>2, <1>5, <2>1, <2>4, <3>1
    <2> QED
      BY <2>2, <2>3, <2>4
  <1>7. CASE 7 \in u
    <2>1. \A x \in Int : x \in t <=> x \in SymDiff(s, g)
      BY <1>6, <1>7, DiffIs
    <2>2. SymDiff(s, g) \subseteq Int
      BY <1>3 DEF SymDiff
    <2>3. t = SymDiff(s, g)
      BY <1>3, <2>1, <2>2
    <2> QED
      BY <1>7, <2>3 DEF s, t, g
  <1>8. CASE 7 \notin u
    <2>1. t = s
      BY <1>3, <1>6, <1>8
    <2> QED
      BY <1>8, <2>1 DEF s, t
  <1> QED
    BY <1>7, <1>8

LEMMA DivisionStep ==
  ASSUME NEW u \in Byte, NEW m \in Nat, NEW low, m + 8 \notin low,
         NEW p, p = SymDiff(Shifted(u, m + 1), low)
  PROVE  WithoutTerm(p, m + 8) = SymDiff(Shifted(Round(u), m), low)
  <1> DEFINE g == {m + 8, m + 2, m + 1, m}
             s == Shifted(u, m + 1)
  <1>1. m + 8 \in s <=> 7 \in u
    <2>1. u \subseteq Int /\ m + 1 \in Int /\ m + 8 \in Int /\ (m + 8) - (m + 1) = 7
      BY DEF Byte
    <2>2. m + 8 \in s <=> (m + 8) - (m + 1) \in u
      BY <2>1, ShiftedIs
    <2> QED
      BY <2>1, <2>2
  <1> HIDE DEF g, s
  <1>2. m + 8 \in p <=> 7 \in u
    BY <1>1, DiffIs DEF s
  <1>3. SymDiff(SymDiff(s, low), g) = SymDiff(SymDiff(s, g), low)
    BY DEF SymDiff
  <1>4. Shifted(Round(u), m) = IF 7 \in u THEN SymDiff(s, g) ELSE s
    BY ShiftedRound DEF s, g
  <1>5. p = SymDiff(s, low)
    BY DEF s
  <1>6. (IF m + 8 \in p THEN SymDiff(p, g) ELSE p) = SymDiff(Shifted(Round(u), m), low)
    BY <1>2, <1>3, <1>4, <1>5
  <1>7. (m + 8) - 6 = m + 2 /\ (m + 8) - 7 = m + 1 /\ (m + 8) - 8 = m
    OBVIOUS
  <1> QED
    BY <1>6, <1>7 DEF g, WithoutTerm

(* The long division of a message of five bytes. *)
Polynomial == SUBSET Int

Division(left, poly, n) ==
  /\ left \in [0 .. n -> Polynomial] /\ left[0] = poly
  /\ \A k \in 1 .. n : left[k] = WithoutTerm(left[k - 1], 47 - (k - 1))

LEMMA DivisionExists ==
  ASSUME NEW poly \in Polynomial, NEW m \in Nat
  PROVE  \E left : Division(left, poly, m)
  <1> DEFINE S == {n \in Nat : \E left : Division(left, poly, n)}
  <1>1. 0 \in S
    <2> DEFINE w == [k \in 0 .. 0 |-> poly]
    <2>1. Division(w, poly, 0)
      <3>1. w \in [0 .. 0 -> Polynomial] /\ w[0] = poly
        OBVIOUS
      <3>2. \A k \in 1 .. 0 : FALSE
        OBVIOUS
      <3> HIDE DEF w
      <3> QED
        BY <3>1, <3>2 DEF Division
    <2> QED
      BY <2>1
  <1>2. ASSUME NEW n \in Nat, n \in S PROVE n + 1 \in S
    <2>1. PICK u : Division(u, poly, n)
      BY <1>2
    <2> DEFINE next == WithoutTerm(u[n], 47 - ((n + 1) - 1))
               w == [k \in 0 .. n + 1 |-> IF k <= n THEN u[k] ELSE next]
    <2>2. /\ u \in [0 .. n -> Polynomial] /\ u[0] = poly
          /\ \A k \in 1 .. n : u[k] = WithoutTerm(u[k - 1], 47 - (k - 1))
      BY <2>1 DEF Division
    <2>3. next \in Polynomial
      <3>1. u[n] \in Polynomial
        BY <2>2
      <3>2. \A p \in Polynomial, d \in Int : WithoutTerm(p, d) \in Polynomial
        BY DEF Polynomial, WithoutTerm, SymDiff
      <3>3. 47 - ((n + 1) - 1) \in Int
        OBVIOUS
      <3> QED
        BY <3>1, <3>2, <3>3
    <2> HIDE DEF next
    <2>4. w \in [0 .. n + 1 -> Polynomial] /\ w[0] = poly
      BY <2>2, <2>3
    <2>5. \A k \in 1 .. n + 1 : w[k] = WithoutTerm(w[k - 1], 47 - (k - 1))
      <3> SUFFICES ASSUME NEW k \in 1 .. n + 1 PROVE w[k] = WithoutTerm(w[k - 1], 47 - (k - 1))
        OBVIOUS
      <3>1. CASE k <= n
        <4>1. k \in 1 .. n /\ w[k] = u[k] /\ w[k - 1] = u[k - 1]
          BY <3>1
        <4> QED
          BY <2>2, <4>1
      <3>2. CASE k = n + 1
        <4>1. w[k] = next /\ w[k - 1] = u[n]
          BY <3>2
        <4> QED
          BY <3>2, <4>1 DEF next
      <3> QED
        BY <3>1, <3>2
    <2>6. Division(w, poly, n + 1)
      BY <2>4, <2>5 DEF Division
    <2> QED
      BY <2>6
  <1>3. Nat \subseteq S
    BY <1>1, <1>2, Induction
  <1> QED
    BY <1>3

LEMMA RemainderDivides ==
  ASSUME NEW poly \in Polynomial
  PROVE  \E u : Division(u, poly, 40) /\ Remainder(poly, 47) = u[40]
  <1> DEFINE left[k \in 0 .. 47 - 7] == IF k = 0 THEN poly ELSE WithoutTerm(left[k - 1], 47 - (k - 1))
             Body(f) == [k \in 0 .. 47 - 7 |-> IF k = 0 THEN poly ELSE WithoutTerm(f[k - 1], 47 - (k - 1))]
  <1>1. PICK u : Division(u, poly, 40)
    BY DivisionExists
  <1>2. u = Body(u)
    BY <1>1 DEF Division
  <1>3. left = Body(left)
    BY <1>2
  <1>4. Remainder(poly, 47) = left[47 - 7]
    BY DEF Remainder
  <1> HIDE DEF left
  <1>5. left[0] = poly /\ \A k \in 1 .. 40 : left[k] = WithoutTerm(left[k - 1], 47 - (k - 1))
    <2>1. \A k \in 0 .. 40 : left[k] = IF k = 0 THEN poly ELSE WithoutTerm(left[k - 1], 47 - (k - 1))
      BY <1>3
    <2> QED
      BY <2>1
  <1> DEFINE S == {k \in Nat : k <= 40 => left[k] = u[k]}
  <1>6. 0 \in S
    BY <1>1, <1>5 DEF Division
  <1>7. ASSUME NEW k \in Nat, k \in S PROVE k + 1 \in S
    <2> SUFFICES ASSUME k + 1 <= 40 PROVE left[k + 1] = u[k + 1]
      OBVIOUS
    <2>1. k + 1 \in 1 .. 40 /\ (k + 1) - 1 = k /\ k <= 40
      OBVIOUS
    <2>2. left[k] = u[k]
      BY <1>7, <2>1
    <2>3. left[k + 1] = WithoutTerm(left[k], 47 - k)
      BY <1>5, <2>1
    <2>4. u[k + 1] = WithoutTerm(u[k], 47 - k)
      BY <1>1, <2>1 DEF Division
    <2> QED
      BY <2>2, <2>3, <2>4
  <1>8. Nat \subseteq S
    BY <1>6, <1>7, Induction
  <1>9. left[40] = u[40] /\ left[47 - 7] = left[40]
    BY <1>8
  <1> QED
    BY <1>1, <1>4, <1>9

(* Eight of its steps are a call of crc8. *)
LEMMA DivisionOfByte ==
  ASSUME NEW left, NEW poly, Division(left, poly, 40), NEW n \in 0 .. 32,
         NEW r \in Byte, NEW b \in Byte, NEW low, \A x \in low : x \in Int /\ x <= 39 - n,
         left[n] = SymDiff(Shifted(SymDiff(r, b), 40 - n), low)
  PROVE  left[n + 8] = SymDiff(Shifted(crc8(r, b), 32 - n), low)
  <1>1. PICK u : Rounds(u, SymDiff(r, b), 8) /\ crc8(r, b) = u[8]
    BY CrcRounds
  <1> DEFINE S == {i \in Nat : i <= 8 => left[n + i] = SymDiff(Shifted(u[i], (40 - n) - i), low)}
  <1>2. 0 \in S
    <2>1. n + 0 = n /\ (40 - n) - 0 = 40 - n
      OBVIOUS
    <2>2. u[0] = SymDiff(r, b)
      BY <1>1 DEF Rounds
    <2> QED
      BY <2>1, <2>2
  <1>3. ASSUME NEW i \in Nat, i \in S PROVE i + 1 \in S
    <2> SUFFICES ASSUME i + 1 <= 8
                 PROVE  left[n + (i + 1)] = SymDiff(Shifted(u[i + 1], (40 - n) - (i + 1)), low)
      OBVIOUS
    <2> DEFINE m == (40 - n) - (i + 1)
               k == n + (i + 1)
    <2>1. /\ m \in Nat /\ m + 1 = (40 - n) - i /\ 47 - (k - 1) = m + 8 /\ m + 8 > 39 - n
          /\ k \in 1 .. 40 /\ k - 1 = n + i /\ i <= 8 /\ i + 1 \in 1 .. 8 /\ (i + 1) - 1 = i /\ i \in 0 .. 8
      OBVIOUS
    <2> HIDE DEF m, k
    <2>2. left[k] = WithoutTerm(left[k - 1], m + 8)
      BY <2>1 DEF Division
    <2>3. left[k - 1] = SymDiff(Shifted(u[i], m + 1), low)
      BY <1>3, <2>1
    <2>4. m + 8 \notin low
      BY <2>1
    <2>5. u[i] \in Byte /\ u[i + 1] = Round(u[i])
      BY <1>1, <2>1 DEF Rounds
    <2>6. left[k] = SymDiff(Shifted(Round(u[i]), m), low)
      BY <2>1, <2>2, <2>3, <2>4, <2>5, DivisionStep
    <2> QED
      BY <2>5, <2>6 DEF m, k
  <1>4. Nat \subseteq S
    BY <1>2, <1>3, Induction
  <1>5. left[n + 8] = SymDiff(Shifted(u[8], (40 - n) - 8), low) /\ (40 - n) - 8 = 32 - n
    BY <1>4
  <1> QED
    BY <1>1, <1>5

(* The next byte of the message joins what is left. *)
LEMMA NextByte ==
  ASSUME NEW r \in Byte, NEW b \in Byte, NEW m \in Int, NEW low
  PROVE  SymDiff(Shifted(r, m), SymDiff(Shifted(b, m), low)) = SymDiff(Shifted(SymDiff(r, b), m), low)
  <1>1. r \subseteq Int /\ b \subseteq Int
    BY DEF Byte
  <1>2. Shifted(SymDiff(r, b), m) = SymDiff(Shifted(r, m), Shifted(b, m))
    BY <1>1, ShiftedDiff
  <1>3. \A x, y, z : SymDiff(x, SymDiff(y, z)) = SymDiff(SymDiff(x, y), z)
    BY DEF SymDiff
  <1> QED
    BY <1>2, <1>3

LEMMA MessageIs ==
  ASSUME NEW a \in Byte, NEW b \in Byte, NEW c \in Byte, NEW d \in Byte, NEW e \in Byte
  PROVE  {i + 8 : i \in Message(<<a, b, c, d, e>>)}
           = SymDiff(Shifted(a, 40), SymDiff(Shifted(b, 32),
               SymDiff(Shifted(c, 24), SymDiff(Shifted(d, 16), Shifted(e, 8)))))
  <1> DEFINE s == <<a, b, c, d, e>>
             part(k) == {8 * (Len(s) - k) + i : i \in s[k]}
             M == Message(s)
             P == {i + 8 : i \in M}
  <1>1. Len(s) = 5 /\ DOMAIN s = 1 .. 5
    OBVIOUS
  <1>2. s[1] = a /\ s[2] = b /\ s[3] = c /\ s[4] = d /\ s[5] = e
    OBVIOUS
  <1>3. M = UNION {part(k) : k \in 1 .. 5}
    BY <1>1 DEF Message
  <1>4. /\ part(1) = {32 + i : i \in a} /\ part(2) = {24 + i : i \in b} /\ part(3) = {16 + i : i \in c}
        /\ part(4) = {8 + i : i \in d} /\ part(5) = {0 + i : i \in e}
    <2>1. 8 * (5 - 1) = 32 /\ 8 * (5 - 2) = 24 /\ 8 * (5 - 3) = 16 /\ 8 * (5 - 4) = 8 /\ 8 * (5 - 5) = 0
      OBVIOUS
    <2> HIDE DEF s
    <2> QED
      BY <1>1, <1>2, <2>1
  <1> HIDE DEF s, part, M
  <1>5. M = part(1) \cup part(2) \cup part(3) \cup part(4) \cup part(5)
    BY <1>3
  <1>6. a \subseteq 0 .. 7 /\ b \subseteq 0 .. 7 /\ c \subseteq 0 .. 7 /\ d \subseteq 0 .. 7 /\ e \subseteq 0 .. 7
    BY DEF Byte
  <1>7. P = Shifted(a, 40) \cup Shifted(b, 32) \cup Shifted(c, 24) \cup Shifted(d, 16) \cup Shifted(e, 8)
    <2>1. P = {i + 8 : i \in part(1)} \cup {i + 8 : i \in part(2)} \cup {i + 8 : i \in part(3)}
                \cup {i + 8 : i \in part(4)} \cup {i + 8 : i \in part(5)}
      BY <1>5
    <2>2. \A f \in Byte, m \in Nat : {i + 8 : i \in {m + i : i \in f}} = Shifted(f, m + 8)
      <3> SUFFICES ASSUME NEW f \in Byte, NEW m \in Nat
                   PROVE  {i + 8 : i \in {m + i : i \in f}} = Shifted(f, m + 8)
        OBVIOUS
      <3>1. \A i \in f : (m + i) + 8 = i + (m + 8)
        BY DEF Byte
      <3>2. {i + 8 : i \in {m + i : i \in f}} = {(m + i) + 8 : i \in f}
        OBVIOUS
      <3>3. {(m + i) + 8 : i \in f} = {i + (m + 8) : i \in f}
        BY <3>1
      <3> QED
        BY <3>2, <3>3 DEF Shifted
    <2>3. 32 + 8 = 40 /\ 24 + 8 = 32 /\ 16 + 8 = 24 /\ 8 + 8 = 16 /\ 0 + 8 = 8
      OBVIOUS
    <2>4. {i + 8 : i \in part(1)} = Shifted(a, 40)
      BY <1>4, <2>2, <2>3
    <2>5. {i + 8 : i \in part(2)} = Shifted(b, 32)
      BY <1>4, <2>2, <2>3
    <2>6. {i + 8 : i \in part(3)} = Shifted(c, 24)
      BY <1>4, <2>2, <2>3
    <2>7. {i + 8 : i \in part(4)} = Shifted(d, 16)
      BY <1>4, <2>2, <2>3
    <2>8. {i + 8 : i \in part(5)} = Shifted(e, 8)
      BY <1>4, <2>2, <2>3
    <2> QED
      BY <2>1, <2>4, <2>5, <2>6, <2>7, <2>8
  <1>8. \A f \in Byte, m \in Nat : \A x \in Shifted(f, m) : x \in m .. m + 7
    BY DEF Shifted, Byte
  <1>9. /\ \A x \in Shifted(a, 40) : x \in 40 .. 47
        /\ \A x \in Shifted(b, 32) : x \in 32 .. 39
        /\ \A x \in Shifted(c, 24) : x \in 24 .. 31
        /\ \A x \in Shifted(d, 16) : x \in 16 .. 23
        /\ \A x \in Shifted(e, 8) : x \in 8 .. 15
    <2>1. 40 + 7 = 47 /\ 32 + 7 = 39 /\ 24 + 7 = 31 /\ 16 + 7 = 23 /\ 8 + 7 = 15
      OBVIOUS
    <2> QED
      BY <1>8, <2>1
  <1> DEFINE A == Shifted(a, 40)
             B == Shifted(b, 32)
             C == Shifted(c, 24)
             D == Shifted(d, 16)
             E == Shifted(e, 8)
  <1>10. \A X, Y : X \cap Y = {} => SymDiff(X, Y) = X \cup Y
    BY DEF SymDiff
  <1>11. /\ \A x \in A : x \in 40 .. 47
         /\ \A x \in B : x \in 32 .. 39
         /\ \A x \in C : x \in 24 .. 31
         /\ \A x \in D : x \in 16 .. 23
         /\ \A x \in E : x \in 8 .. 15
    BY <1>9
  <1> HIDE DEF A, B, C, D, E
  <1>12. D \cap E = {} /\ C \cap (D \cup E) = {} /\ B \cap (C \cup (D \cup E)) = {}
         /\ A \cap (B \cup (C \cup (D \cup E))) = {}
    BY <1>11
  <1>13. SymDiff(A, SymDiff(B, SymDiff(C, SymDiff(D, E)))) = A \cup (B \cup (C \cup (D \cup E)))
    BY <1>10, <1>12
  <1>14. P = A \cup (B \cup (C \cup (D \cup E)))
    BY <1>7 DEF A, B, C, D, E
  <1> QED
    BY <1>13, <1>14 DEF A, B, C, D, E, s, M

LEMMA PecIsCrc ==
  ASSUME NEW a \in Byte, NEW b \in Byte, NEW c \in Byte, NEW d \in Byte, NEW e \in Byte
  PROVE  Pec(<<a, b, c, d, e>>) = crc8(crc8(crc8(crc8(crc8({}, a), b), c), d), e)
  <1> DEFINE l4 == Shifted(e, 8)
             l3 == SymDiff(Shifted(d, 16), l4)
             l2 == SymDiff(Shifted(c, 24), l3)
             l1 == SymDiff(Shifted(b, 32), l2)
             poly == SymDiff(Shifted(a, 40), l1)
             r1 == crc8({}, a)
             r2 == crc8(r1, b)
             r3 == crc8(r2, c)
             r4 == crc8(r3, d)
             r5 == crc8(r4, e)
  <1>1. {} \in Byte /\ r1 \in Byte /\ r2 \in Byte /\ r3 \in Byte /\ r4 \in Byte /\ r5 \in Byte
    BY CrcTyped DEF Byte
  <1>2. Pec(<<a, b, c, d, e>>) = Remainder(poly, 47)
    <2>1. Len(<<a, b, c, d, e>>) = 5 /\ 8 * 5 + 7 = 47
      OBVIOUS
    <2>2. {i + 8 : i \in Message(<<a, b, c, d, e>>)} = poly
      BY MessageIs
    <2> HIDE DEF poly
    <2> QED
      BY <2>1, <2>2 DEF Pec
  <1>3. \A f \in Byte, m \in Nat : \A x \in Shifted(f, m) : x \in Int /\ x <= m + 7
    BY DEF Shifted, Byte
  <1>4. \A X, Y : \A x \in SymDiff(X, Y) : x \in X \/ x \in Y
    BY DEF SymDiff
  <1>5. \A x \in l4 : x \in Int /\ x <= 15
    <2>1. 8 + 7 = 15
      OBVIOUS
    <2> QED
      BY <1>3, <2>1
  <1>6. \A x \in l3 : x \in Int /\ x <= 23
    <2>1. \A x \in Shifted(d, 16) : x \in Int /\ x <= 23
      BY <1>3
    <2> QED
      BY <1>4, <1>5, <2>1
  <1>7. \A x \in l2 : x \in Int /\ x <= 31
    <2>1. \A x \in Shifted(c, 24) : x \in Int /\ x <= 31
      BY <1>3
    <2> HIDE DEF l3
    <2> QED
      BY <1>4, <1>6, <2>1
  <1>8. \A x \in l1 : x \in Int /\ x <= 39
    <2>1. \A x \in Shifted(b, 32) : x \in Int /\ x <= 39
      BY <1>3
    <2> HIDE DEF l2
    <2> QED
      BY <1>4, <1>7, <2>1
  <1>9. poly \in Polynomial
    <2>1. \A x \in Shifted(a, 40) : x \in Int
      BY <1>3
    <2> HIDE DEF l1
    <2> QED
      BY <1>4, <1>8, <2>1 DEF Polynomial
  <1>10. PICK left : Division(left, poly, 40) /\ Remainder(poly, 47) = left[40]
    BY <1>9, RemainderDivides
  <1>11. left[0] = SymDiff(Shifted(SymDiff({}, a), 40), l1)
    <2>1. SymDiff({}, a) = a
      BY DiffFacts
    <2> QED
      BY <1>10, <2>1 DEF Division
  <1> HIDE DEF poly, r1, r2, r3, r4, r5
  <1>12. left[8] = SymDiff(Shifted(r1, 32), l1)
    <2>1. 40 - 0 = 40 /\ 39 - 0 = 39 /\ 32 - 0 = 32 /\ 0 + 8 = 8 /\ 0 \in 0 .. 32
      OBVIOUS
    <2> HIDE DEF l1
    <2> QED
      BY <1>1, <1>8, <1>10, <1>11, <2>1, DivisionOfByte DEF r1
  <1>13. left[16] = SymDiff(Shifted(r2, 24), l2)
    <2>1. 40 - 8 = 32 /\ 39 - 8 = 31 /\ 32 - 8 = 24 /\ 8 + 8 = 16 /\ 8 \in 0 .. 32
      OBVIOUS
    <2>2. left[8] = SymDiff(Shifted(SymDiff(r1, b), 32), l2)
      <3>1. l1 = SymDiff(Shifted(b, 32), l2) /\ 32 \in Int
        OBVIOUS
      <3> HIDE DEF l1, l2
      <3> QED
        BY <1>1, <1>12, <3>1, NextByte
    <2> HIDE DEF l2
    <2> QED
      BY <1>1, <1>7, <1>10, <2>1, <2>2, DivisionOfByte DEF r2
  <1>14. left[24] = SymDiff(Shifted(r3, 16), l3)
    <2>1. 40 - 16 = 24 /\ 39 - 16 = 23 /\ 32 - 16 = 16 /\ 16 + 8 = 24 /\ 16 \in 0 .. 32
      OBVIOUS
    <2>2. left[16] = SymDiff(Shifted(SymDiff(r2, c), 24), l3)
      <3>1. l2 = SymDiff(Shifted(c, 24), l3) /\ 24 \in Int
        OBVIOUS
      <3> HIDE DEF l2, l3
      <3> QED
        BY <1>1, <1>13, <3>1, NextByte
    <2> HIDE DEF l3
    <2> QED
      BY <1>1, <1>6, <1>10, <2>1, <2>2, DivisionOfByte DEF r3
  <1>15. left[32] = SymDiff(Shifted(r4, 8), l4)
    <2>1. 40 - 24 = 16 /\ 39 - 24 = 15 /\ 32 - 24 = 8 /\ 24 + 8 = 32 /\ 24 \in 0 .. 32
      OBVIOUS
    <2>2. left[24] = SymDiff(Shifted(SymDiff(r3, d), 16), l4)
      <3>1. l3 = SymDiff(Shifted(d, 16), l4) /\ 16 \in Int
        OBVIOUS
      <3> HIDE DEF l3, l4
      <3> QED
        BY <1>1, <1>14, <3>1, NextByte
    <2> HIDE DEF l4
    <2> QED
      BY <1>1, <1>5, <1>10, <2>1, <2>2, DivisionOfByte DEF r4
  <1>16. left[40] = SymDiff(Shifted(r5, 0), {})
    <2>1. 40 - 32 = 8 /\ 39 - 32 = 7 /\ 32 - 32 = 0 /\ 32 + 8 = 40 /\ 32 \in 0 .. 32
      OBVIOUS
    <2>2. l4 = SymDiff(Shifted(e, 8), {})
      BY DiffFacts
    <2>3. left[32] = SymDiff(Shifted(SymDiff(r4, e), 8), {})
      BY <1>1, <1>15, <2>2, NextByte
    <2>4. \A x \in {} : x \in Int /\ x <= 39 - 32
      OBVIOUS
    <2> QED
      BY <1>1, <1>10, <2>1, <2>3, <2>4, DivisionOfByte DEF r5
  <1>17. SymDiff(Shifted(r5, 0), {}) = r5
    <2>1. \A i \in r5 : i + 0 = i
      BY <1>1 DEF Byte
    <2>2. Shifted(r5, 0) = r5
      BY <2>1 DEF Shifted
    <2> QED
      BY <2>2, DiffFacts
  <1> QED
    BY <1>2, <1>10, <1>16, <1>17 DEF r1, r2, r3, r4, r5

-----------------------------------------------------------------------------
(* What smbus_read_word makes of a reply. *)

LEMMA Halves ==
  ASSUME NEW w \in SUBSET (0 .. 15)
  PROVE  LowByte(w) \in Byte /\ HighByte(w) \in Byte /\ Word(LowByte(w), HighByte(w)) = w
  <1>1. LowByte(w) \in Byte
    BY DEF LowByte, Byte
  <1>2. HighByte(w) \in Byte
    BY DEF HighByte, Byte
  <1>3. {i + 8 : i \in HighByte(w)} = w \cap 8 .. 15
    <2>1. {i + 8 : i \in {j - 8 : j \in w \cap 8 .. 15}} = {(j - 8) + 8 : j \in w \cap 8 .. 15}
      OBVIOUS
    <2>2. \A j \in w \cap 8 .. 15 : (j - 8) + 8 = j
      OBVIOUS
    <2>3. {(j - 8) + 8 : j \in w \cap 8 .. 15} = w \cap 8 .. 15
      BY <2>2
    <2> QED
      BY <2>1, <2>3 DEF HighByte
  <1>4. \A i \in 0 .. 15 : i \in 0 .. 7 \/ i \in 8 .. 15
    OBVIOUS
  <1>5. (w \cap 0 .. 7) \cup (w \cap 8 .. 15) = w
    BY <1>4
  <1> QED
    BY <1>1, <1>2, <1>3, <1>5 DEF Word, LowByte

Commands == {RAM_TA, RAM_TOBJ1}

LEMMA CommandBytes ==
  /\ ADDR_W \in Byte /\ ADDR_R \in Byte /\ {} \in Byte
  /\ \A cmd \in Commands : cmd \in Byte
  /\ RAM_TA # RAM_TOBJ1
  <1>1. ADDR_W \in Byte /\ {} \in Byte
    BY DEF Byte, ADDR_W
  <1>2. ADDR_R \in Byte
    BY DEF Byte, ADDR_W, ADDR_R
  <1>3. RAM_TA \in Byte /\ RAM_TOBJ1 \in Byte
    BY DEF Byte, RAM_TA, RAM_TOBJ1
  <1>4. RAM_TA # RAM_TOBJ1
    <2>1. 0 \in RAM_TOBJ1 /\ 0 \notin RAM_TA
      BY DEF RAM_TA, RAM_TOBJ1
    <2> QED
      BY <2>1
  <1> QED
    BY <1>1, <1>2, <1>3, <1>4 DEF Commands

(* The checksum of the first three bytes. *)
FirstThree(cmd) == crc8(crc8(crc8({}, ADDR_W), cmd), ADDR_R)

LEMMA ReplyIs ==
  ASSUME NEW cmd \in Commands, NEW w \in SUBSET (0 .. 15)
  PROVE  /\ Reply(cmd, w)[1] = LowByte(w) /\ Reply(cmd, w)[2] = HighByte(w)
         /\ Reply(cmd, w)[3] = crc8(crc8(FirstThree(cmd), LowByte(w)), HighByte(w))
         /\ FirstThree(cmd) \in Byte
  <1>1. cmd \in Byte /\ LowByte(w) \in Byte /\ HighByte(w) \in Byte
    BY CommandBytes, Halves
  <1>2. Pec(<<ADDR_W, cmd, ADDR_R, LowByte(w), HighByte(w)>>)
          = crc8(crc8(crc8(crc8(crc8({}, ADDR_W), cmd), ADDR_R), LowByte(w)), HighByte(w))
    BY <1>1, CommandBytes, PecIsCrc
  <1>3. FirstThree(cmd) \in Byte
    BY <1>1, CommandBytes, CrcTyped DEF FirstThree
  <1> QED
    BY <1>2, <1>3 DEF Reply, FirstThree

(* A reply that arrives as it was sent is the word that was measured. *)
LEMMA ReplyAccepted ==
  ASSUME NEW cmd \in Commands, NEW w \in SUBSET (0 .. 15)
  PROVE  smbus_read_word(cmd, Reply(cmd, w)) = {w}
  BY ReplyIs, Halves DEF smbus_read_word, FirstThree

(* One with an error is taken for no other word: either the error is seen, *)
(* or it has left the word alone.                                          *)
LEMMA GarbledRejected ==
  ASSUME NEW cmd \in Commands, NEW w \in SUBSET (0 .. 15),
         NEW e \in SUBSET (0 .. 23), BurstError(e) \/ PairError(e)
  PROVE  smbus_read_word(cmd, Garbled(Reply(cmd, w), e)) \subseteq {w}
  <1> DEFINE rx == Garbled(Reply(cmd, w), e)
             lo == LowByte(w)
             hi == HighByte(w)
             p == FirstThree(cmd)
  <1>1. lo \in Byte /\ hi \in Byte /\ Word(lo, hi) = w /\ p \in Byte
    BY Halves, ReplyIs
  <1>2. /\ rx[1] = SymDiff(lo, ErrorByte(e, 1)) /\ rx[2] = SymDiff(hi, ErrorByte(e, 2))
        /\ rx[3] = SymDiff(crc8(crc8(p, lo), hi), ErrorByte(e, 3))
    <2>1. 1 \in 1 .. 3 /\ 2 \in 1 .. 3 /\ 3 \in 1 .. 3
      OBVIOUS
    <2> QED
      BY <2>1, ReplyIs DEF Garbled
  <1>3. smbus_read_word(cmd, rx) = IF crc8(crc8(p, rx[1]), rx[2]) = rx[3]
                                   THEN {Word(rx[1], rx[2])} ELSE {}
    BY DEF smbus_read_word, FirstThree
  <1>4. ErrorByte(e, 1) \in Byte /\ ErrorByte(e, 2) \in Byte /\ ErrorByte(e, 3) \in Byte
    BY ThreeErrorBytes
  <1> HIDE DEF rx, lo, hi, p
  <1>5. ASSUME crc8(crc8(p, rx[1]), rx[2]) = rx[3]
        PROVE  Word(rx[1], rx[2]) = w
    <2>1. crc8(crc8({}, ErrorByte(e, 1)), ErrorByte(e, 2)) = ErrorByte(e, 3)
      BY <1>1, <1>2, <1>4, <1>5, ErrorIsMessage
    <2>2. ErrorByte(e, 1) = {} /\ ErrorByte(e, 2) = {}
      BY <2>1, Caught
    <2>3. rx[1] = lo /\ rx[2] = hi
      BY <1>2, <2>2, DiffFacts
    <2> QED
      BY <1>1, <2>3
  <1>6. smbus_read_word(cmd, rx) \subseteq {w}
    BY <1>3, <1>5
  <1> QED
    BY <1>6 DEF rx

(* A reply to the other command is seen: its checksum is over that one. *)
LEMMA OtherRejected ==
  ASSUME NEW cmd \in Commands, NEW other \in Commands, cmd # other, NEW w \in SUBSET (0 .. 15)
  PROVE  smbus_read_word(cmd, Reply(other, w)) = {}
  <1> DEFINE rx == Reply(other, w)
             lo == LowByte(w)
             hi == HighByte(w)
             z == crc8({}, ADDR_W)
  <1>1. lo \in Byte /\ hi \in Byte /\ cmd \in Byte /\ other \in Byte /\ ADDR_R \in Byte /\ z \in Byte
    BY Halves, CommandBytes, CrcTyped
  <1>2. rx[1] = lo /\ rx[2] = hi /\ rx[3] = crc8(crc8(FirstThree(other), lo), hi)
    BY ReplyIs
  <1>3. smbus_read_word(cmd, rx) = IF crc8(crc8(FirstThree(cmd), rx[1]), rx[2]) = rx[3]
                                   THEN {Word(rx[1], rx[2])} ELSE {}
    BY DEF smbus_read_word, FirstThree
  <1>4. FirstThree(cmd) = crc8(crc8(z, cmd), ADDR_R) /\ FirstThree(other) = crc8(crc8(z, other), ADDR_R)
    BY DEF FirstThree
  <1> HIDE DEF rx, lo, hi, z
  <1>5. crc8(z, cmd) \in Byte /\ crc8(z, other) \in Byte
    BY <1>1, CrcTyped
  <1>6. FirstThree(cmd) \in Byte /\ FirstThree(other) \in Byte
    BY <1>1, <1>4, <1>5, CrcTyped
  <1>7. crc8(FirstThree(cmd), lo) \in Byte /\ crc8(FirstThree(other), lo) \in Byte
    BY <1>1, <1>6, CrcTyped
  <1>8. ASSUME crc8(crc8(FirstThree(cmd), lo), hi) = crc8(crc8(FirstThree(other), lo), hi)
        PROVE  FALSE
    <2>1. crc8(FirstThree(cmd), lo) = crc8(FirstThree(other), lo)
      BY <1>1, <1>7, <1>8, CrcInjective
    <2>2. FirstThree(cmd) = FirstThree(other)
      BY <1>1, <1>6, <2>1, CrcInjective
    <2>3. crc8(z, cmd) = crc8(z, other)
      BY <1>1, <1>4, <1>5, <2>2, CrcInjective
    <2>4. crc8(SymDiff(z, z), SymDiff(cmd, other)) = SymDiff(crc8(z, cmd), crc8(z, other))
      BY <1>1, CrcLinear
    <2>5. crc8({}, SymDiff(cmd, other)) = {} /\ SymDiff(cmd, other) \in Byte /\ {} \in Byte
      BY <1>1, <2>3, <2>4, DiffFacts, ByteDiff, CommandBytes
    <2>6. SymDiff(cmd, other) = {}
      BY <2>5, CrcKernel
    <2> QED
      BY <2>6, DiffFacts
  <1>9. smbus_read_word(cmd, rx) = {}
    BY <1>2, <1>3, <1>8
  <1> QED
    BY <1>9 DEF rx

(* What a transfer may return is nothing or a word that was measured, and  *)
(* every measured word may come: the driver's crc8 computes the sensor's   *)
(* checksum, and no burst of up to eight bits, no two bits and no answer   *)
(* to the other command can pass for a word.                               *)
THEOREM ChecksumExact ==
  /\ ObjectResults = {{}} \cup {{w} : w \in ObjectWords}
  /\ AmbientResults = {{}} \cup {{w} : w \in AmbientWords}
  <1>1. ASSUME NEW cmd \in Commands, NEW other \in Commands, cmd # other,
               NEW words, NEW others, words \cup others \subseteq SUBSET (0 .. 15)
        PROVE  ReadResults(cmd, words, other, others) = {{}} \cup {{w} : w \in words}
    <2>1. \A w \in words : w \in SUBSET (0 .. 15)
      BY <1>1
    <2>2. \A w \in others : w \in SUBSET (0 .. 15)
      BY <1>1
    <2>3. \A w \in words : smbus_read_word(cmd, Reply(cmd, w)) = {w}
      BY <2>1, ReplyAccepted
    <2>4. \A w \in others : smbus_read_word(cmd, Reply(other, w)) = {}
      BY <1>1, <2>2, OtherRejected
    <2>5. \A w \in words, e \in Errors : smbus_read_word(cmd, Garbled(Reply(cmd, w), e)) \in {{}, {w}}
      <3> SUFFICES ASSUME NEW w \in words, NEW e \in Errors
                   PROVE  smbus_read_word(cmd, Garbled(Reply(cmd, w), e)) \in {{}, {w}}
        OBVIOUS
      <3>1. e \in SUBSET (0 .. 23) /\ (BurstError(e) \/ PairError(e))
        BY WireAssumption
      <3>2. smbus_read_word(cmd, Garbled(Reply(cmd, w), e)) \subseteq {w}
        BY <2>1, <3>1, GarbledRejected
      <3> QED
        BY <3>2
    <2>6. {smbus_read_word(cmd, Reply(cmd, w)) : w \in words} = {{w} : w \in words}
      BY <2>3
    <2>7. {smbus_read_word(cmd, Reply(other, w)) : w \in others} \subseteq {{}}
      BY <2>4
    <2>8. {smbus_read_word(cmd, Garbled(Reply(cmd, w), e)) : w \in words, e \in Errors}
            \subseteq {{}} \cup {{w} : w \in words}
      BY <2>5
    <2> QED
      BY <2>6, <2>7, <2>8 DEF ReadResults
  <1>2. RAM_TA \in Commands /\ RAM_TOBJ1 \in Commands /\ RAM_TA # RAM_TOBJ1
    BY CommandBytes DEF Commands
  <1>3. /\ AmbientWords \cup ObjectWords \subseteq SUBSET (0 .. 15)
        /\ ObjectWords \cup AmbientWords \subseteq SUBSET (0 .. 15)
    BY WireAssumption
  <1>4. ReadResults(RAM_TOBJ1, ObjectWords, RAM_TA, AmbientWords) = {{}} \cup {{w} : w \in ObjectWords}
    BY <1>1, <1>2, <1>3
  <1>5. ReadResults(RAM_TA, AmbientWords, RAM_TOBJ1, ObjectWords) = {{}} \cup {{w} : w \in AmbientWords}
    BY <1>1, <1>2, <1>3
  <1> QED
    BY <1>4, <1>5 DEF ObjectResults, AmbientResults

-----------------------------------------------------------------------------
(* What reaches the register map: what passes the checksum is a word that  *)
(* the object was measured at.  The rest is the driver's: the error flags  *)
(* of both words, the early returns, and which local variables live from   *)
(* one step to the next.                                                   *)

DataInv ==
  /\ RegTypeOK
  /\ timer[BME680] <= BME680_PERIOD /\ timer[MLX90614] <= MLX_PERIOD
  /\ flagged \in BOOLEAN /\ first \in BOOLEAN /\ sample \in BOOLEAN
  /\ reading \subseteq MeasuredTemps
  /\ \E obj \in MeasuredTemps \cup {0} : ObjectHeld(obj)
  /\ writes <= MaxWrites

NodeInv == BusInv /\ CtrlInv

LEMMA MeasuredKept ==
  ASSUME DataInv, \/ \E a \in Addr : \E v : regmap_write(a, v)
                  \/ regmap_publish_bme680
                  \/ regmap_publish_mic
                  \/ UNCHANGED regVars
  PROVE  (\E obj \in MeasuredTemps \cup {0} : ObjectHeld(obj))'
  <1>1. PICK obj \in MeasuredTemps \cup {0} : ObjectHeld(obj)
    BY DEF DataInv
  <1>2. /\ regs'[REG_MLX_OBJ_0] = regs[REG_MLX_OBJ_0]
        /\ regs'[REG_MLX_OBJ_0 + 1] = regs[REG_MLX_OBJ_0 + 1]
    BY ObjectUntouched DEF DataInv
  <1>3. ObjectHeld(obj)'
    BY <1>1, <1>2 DEF ObjectHeld, Low, High
  <1> QED
    BY <1>3

(* A step that leaves the registers and the readings alone.                *)
LEMMA QuietData ==
  ASSUME DataInv, UNCHANGED regVars, UNCHANGED reading,
         flagged' \in BOOLEAN, first' \in BOOLEAN, sample' \in BOOLEAN,
         timer'[BME680] <= BME680_PERIOD, timer'[MLX90614] <= MLX_PERIOD,
         writes' = writes
  PROVE  DataInv'
  <1>1. (\E obj \in MeasuredTemps \cup {0} : ObjectHeld(obj))'
    BY MeasuredKept
  <1>2. RegTypeOK'
    BY DEF DataInv, RegTypeOK, regVars
  <1> QED
    BY <1>1, <1>2 DEF DataInv

LEMMA InitData == Init => DataInv
  <1> SUFFICES ASSUME Init PROVE DataInv
    OBVIOUS
  <1>1. RegTypeOK
    BY InitialTyped DEF Init
  <1>2. ObjectHeld(0)
    BY ObjectReset DEF Init, RegInit, ObjectHeld
  <1>3. \E obj \in MeasuredTemps \cup {0} : ObjectHeld(obj)
    BY <1>2
  <1>4. timer[BME680] <= BME680_PERIOD /\ timer[MLX90614] <= MLX_PERIOD /\ writes <= MaxWrites
    BY SensorNodeAssumption DEF Init
  <1> QED
    BY <1>1, <1>3, <1>4 DEF Init, DataInv

LEMMA MainData == NodeInv /\ DataInv /\ main => DataInv'
  <1> SUFFICES ASSUME NodeInv, DataInv, main PROVE DataInv'
    OBVIOUS
  <1>1. CASE Launch
    <2>1. enabled \in BusByte(REG_CTRL)
      BY
      DEF NodeInv, CtrlInv, BootInv, Tried, BusByte, FlagRegs, REG_CTRL, REG_STATUS,
          REG_INT_SRC, REG_INT_EN
    <2>2. REG_CTRL \in Addr
      BY DEF REG_CTRL, Addr, REGMAP_SIZE
    <2>3. RegTypeOK'
      BY <1>1, <2>1, <2>2, WriteTyped DEF Launch, DataInv
    <2>4. (\E obj \in MeasuredTemps \cup {0} : ObjectHeld(obj))'
      BY <1>1, <2>2, MeasuredKept DEF Launch
    <2> QED
      BY <1>1, <2>3, <2>4 DEF Launch, DataInv, mlxVars, bmeVars, masterVars
  <1>2. CASE ~Launch
    <2>1. UNCHANGED <<regVars, busVars, mlxVars, bmeVars, masterVars>>
      BY <1>2 DEF main, bme680_init, mlx90614_init, mmwave_init, spw2430_init, Initialised
    <2> QED
      BY <2>1, QuietData DEF busVars, mlxVars, bmeVars, masterVars, DataInv
  <1> QED
    BY <1>1, <1>2

(* The steps that the two threads of the bus share.                        *)
LEMMA RoundData ==
  ASSUME NodeInv, DataInv, NEW t \in BusThreads,
         TestCtrl(t) \/ Lock(t) \/ Wake(t)
  PROVE  DataInv'
  <1>1. /\ timer'[BME680] <= BME680_PERIOD
        /\ timer'[MLX90614] <= MLX_PERIOD
    BY SensorNodeAssumption
    DEF TestCtrl, Lock, Wake, Goes, Sleeps, Period, DataInv, NodeInv, BusInv, ThreadTypes
  <1>2. UNCHANGED <<regVars, mlxVars, bmeVars, masterVars>>
    BY DEF TestCtrl, Lock, Wake
  <1> QED
    BY <1>1, <1>2, QuietData DEF mlxVars, bmeVars, masterVars, DataInv

LEMMA UnlockData ==
  ASSUME DataInv, NEW t \in BusThreads, NEW to, Unlock(t, to),
         first' \in BOOLEAN, sample' = sample
  PROVE  DataInv'
  BY QuietData DEF Unlock, mlxVars, masterVars, DataInv

LEMMA MlxData ==
  ASSUME NodeInv, DataInv, mlx_entry
  PROVE  DataInv'
  <1>1. CASE TestCtrl(MLX90614) \/ Lock(MLX90614) \/ Wake(MLX90614)
    BY <1>1, RoundData
  <1>2. CASE ReadAmbient
    <2>1. flagged' \in BOOLEAN
      BY <1>2 DEF ReadAmbient, DataInv
    <2> QED
      BY <1>2, <2>1, QuietData DEF ReadAmbient, bmeVars, masterVars, DataInv
  <1>3. CASE ReadObject
    <2>1. PICK r \in ObjectResults :
            reading' = {CentiC(w) : w \in {v \in r : ~flagged /\ IsMeasurement(v)}}
      BY <1>3 DEF ReadObject
    <2>2. reading' \subseteq MeasuredTemps
      BY <2>1, ChecksumExact DEF MeasuredTemps
    <2>3. UNCHANGED <<regVars, timer, bmeVars, masterVars>> /\ flagged' = FALSE
      BY <1>3 DEF ReadObject
    <2>4. (\E obj \in MeasuredTemps \cup {0} : ObjectHeld(obj))'
      BY <2>3, MeasuredKept
    <2>5. RegTypeOK'
      BY <2>3 DEF DataInv, RegTypeOK, regVars
    <2> QED
      BY <2>2, <2>3, <2>4, <2>5 DEF DataInv, bmeVars, masterVars
  <1>4. CASE Unlock(MLX90614, "done") /\ UNCHANGED bmeVars
    BY <1>4, UnlockData DEF bmeVars, DataInv
  <1>5. CASE mlx_publish
    <2>1. /\ timer'[BME680] <= BME680_PERIOD
          /\ timer'[MLX90614] <= MLX_PERIOD
      BY <1>5, SensorNodeAssumption
      DEF mlx_publish, Sleeps, DataInv, NodeInv, BusInv, ThreadTypes
    <2>2. reading' = {} /\ UNCHANGED <<flagged, bmeVars>> /\ writes' = writes
      BY <1>5 DEF mlx_publish, Published, masterVars
    <2>3. RegTypeOK' /\ (\E obj \in MeasuredTemps \cup {0} : ObjectHeld(obj))'
      <3>1. CASE UNCHANGED regVars
        <4>1. (\E obj \in MeasuredTemps \cup {0} : ObjectHeld(obj))'
          BY <3>1, MeasuredKept
        <4> QED
          BY <3>1, <4>1 DEF DataInv, RegTypeOK, regVars
      <3>2. ASSUME NEW obj \in reading, regmap_publish_mlx90614(obj)
            PROVE  RegTypeOK' /\ (\E o \in MeasuredTemps \cup {0} : ObjectHeld(o))'
        <4>1. obj \in MeasuredTemps /\ obj \in Readings
          BY MeasuredAssumption DEF DataInv
        <4>2. RegTypeOK'
          BY <3>2, <4>1, PublishTyped DEF DataInv
        <4>3. ObjectHeld(obj)'
          BY <3>2, ObjectPublished DEF DataInv
        <4> QED
          BY <4>1, <4>2, <4>3
      <3> QED
        BY <1>5, <3>1, <3>2 DEF mlx_publish
    <2> QED
      BY <2>1, <2>2, <2>3 DEF DataInv, bmeVars
  <1> QED
    BY <1>1, <1>2, <1>3, <1>4, <1>5 DEF mlx_entry

LEMMA BmeData ==
  ASSUME NodeInv, DataInv, bme680_entry
  PROVE  DataInv'
  <1>1. CASE TestCtrl(BME680) \/ Lock(BME680) \/ Wake(BME680)
    BY <1>1, RoundData
  <1>2. CASE StartMeasurement \/ Poll \/ Burst
    <2>1. /\ timer'[BME680] <= BME680_PERIOD
          /\ timer'[MLX90614] <= MLX_PERIOD
      <3>1. timer' = timer \/ timer' = [timer EXCEPT ![BME680] = 1]
        BY <1>2 DEF StartMeasurement, Poll, PollAgain, Burst
      <3> QED
        BY <3>1, SensorNodeAssumption DEF DataInv, NodeInv, BusInv, ThreadTypes
    <2>2. sample' \in BOOLEAN
      BY <1>2 DEF StartMeasurement, Poll, PollAgain, Burst, BmeEnds, DataInv
    <2> QED
      BY <1>2, <2>1, <2>2, QuietData
      DEF StartMeasurement, Poll, Burst, mlxVars, masterVars, DataInv
  <1>3. CASE BmeUnlock
    BY <1>3, UnlockData DEF BmeUnlock, DataInv
  <1>4. CASE bme_publish
    <2>1. /\ timer'[BME680] <= BME680_PERIOD
          /\ timer'[MLX90614] <= MLX_PERIOD
      BY <1>4, SensorNodeAssumption
      DEF bme_publish, Sleeps, DataInv, NodeInv, BusInv, ThreadTypes
    <2>2. sample' = FALSE /\ UNCHANGED <<mlxVars, first>> /\ writes' = writes
      BY <1>4 DEF bme_publish, Published, masterVars
    <2>3. regmap_publish_bme680 \/ UNCHANGED regVars
      BY <1>4 DEF bme_publish
    <2>4. (\E obj \in MeasuredTemps \cup {0} : ObjectHeld(obj))'
      BY <2>3, MeasuredKept
    <2>5. RegTypeOK'
      <3>1. CASE regmap_publish_bme680
        BY <3>1, PublishTyped DEF DataInv
      <3>2. CASE UNCHANGED regVars
        BY <3>2 DEF DataInv, RegTypeOK, regVars
      <3> QED
        BY <2>3, <3>1, <3>2
    <2> QED
      BY <2>1, <2>2, <2>4, <2>5 DEF DataInv, mlxVars
  <1> QED
    BY <1>1, <1>2, <1>3, <1>4 DEF bme680_entry

LEMMA OthersData ==
  ASSUME NodeInv, DataInv, mic_entry \/ WriteCtrl \/ Tick
  PROVE  DataInv'
  <1>1. CASE MicTest \/ MicRead
    BY <1>1, QuietData DEF MicTest, MicRead, mlxVars, bmeVars, masterVars, DataInv
  <1>2. CASE mic_publish
    <2>1. RegTypeOK' /\ (\E obj \in MeasuredTemps \cup {0} : ObjectHeld(obj))'
      BY <1>2, PublishTyped, MeasuredKept DEF mic_publish, DataInv
    <2> QED
      BY <1>2, <2>1 DEF mic_publish, Published, mlxVars, bmeVars, DataInv
  <1>3. CASE WriteCtrl
    <2>1. PICK v \in CtrlWrites : regmap_write(REG_CTRL, v)
      BY <1>3 DEF WriteCtrl
    <2>2. REG_CTRL \in Addr /\ v \in BusByte(REG_CTRL)
      BY SensorNodeAssumption DEF REG_CTRL, Addr, REGMAP_SIZE
    <2>3. RegTypeOK'
      BY <2>1, <2>2, WriteTyped DEF DataInv
    <2>4. (\E obj \in MeasuredTemps \cup {0} : ObjectHeld(obj))'
      BY <2>1, <2>2, MeasuredKept
    <2>5. writes' <= MaxWrites
      BY <1>3, SensorNodeAssumption DEF WriteCtrl, NodeInv, CtrlInv, BootInv
    <2> QED
      BY <1>3, <2>3, <2>4, <2>5 DEF WriteCtrl, busVars, mlxVars, bmeVars, DataInv
  <1>4. CASE Tick
    <2>1. /\ timer'[BME680] <= BME680_PERIOD
          /\ timer'[MLX90614] <= MLX_PERIOD
      BY <1>4, SensorNodeAssumption DEF Tick, DataInv, NodeInv, BusInv, ThreadTypes
    <2> QED
      BY <1>4, <2>1, QuietData DEF Tick, mlxVars, bmeVars, masterVars, DataInv
  <1> QED
    BY <1>1, <1>2, <1>3, <1>4 DEF mic_entry

LEMMA StepData == NodeInv /\ DataInv /\ [Next]_vars => DataInv'
  <1>1. DataInv /\ UNCHANGED vars => DataInv'
    BY QuietData DEF vars, busVars, mlxVars, bmeVars, masterVars, DataInv
  <1> QED
    BY <1>1, MainData, MlxData, BmeData, OthersData DEF Next

LEMMA DataInvHolds == Spec => [](NodeInv /\ DataInv)
  <1>1. Spec => []NodeInv
    BY BusInvHolds, CtrlInvHolds, PTL DEF NodeInv
  <1> QED
    BY <1>1, InitData, StepData, PTL DEF Spec

(* No temperature reaches the registers but one that the object had, or    *)
(* the 0 of the start (PublishedIsMeasured), whatever is garbled, lost,    *)
(* flagged or cut short.                                                   *)
THEOREM OnlyMeasured == Spec => []PublishedIsMeasured
  <1>1. DataInv => PublishedIsMeasured
    <2> SUFFICES ASSUME DataInv PROVE PublishedIsMeasured
      OBVIOUS
    <2>1. PICK obj \in MeasuredTemps \cup {0} : ObjectHeld(obj)
      BY DEF DataInv
    <2>2. obj \in Int2
      BY MeasuredAssumption, ReadingsAssumption, ZeroTyped
    <2>3. ObjectTemp = obj
      BY <2>1, <2>2, ObjectRead
    <2> QED
      BY <2>3 DEF PublishedIsMeasured
  <1> QED
    BY <1>1, DataInvHolds, PTL

(* Type correctness (TypeOK): a reading is a temperature of the model only *)
(* because the checksum lets nothing else pass.                            *)
THEOREM TypeCorrect == Spec => []TypeOK
  <1>1. NodeInv /\ DataInv => TypeOK
    <2> SUFFICES ASSUME NodeInv, DataInv PROVE TypeOK
      OBVIOUS
    <2>1. ready \subseteq Sensors /\ enabled \subseteq Sensors
      BY DEF NodeInv, CtrlInv, BootInv, Tried
    <2>2. /\ timer[BME680] \in 0 .. BME680_PERIOD /\ timer[MLX90614] \in 0 .. MLX_PERIOD
          /\ pace \in 0 .. MLX_PERIOD + PollLimit + 1
          /\ elapsed \in 0 .. PollLimit /\ writes \in 0 .. MaxWrites
      BY SensorNodeAssumption
      DEF NodeInv, BusInv, ThreadTypes, PaceInv, CtrlInv, BootInv, DataInv
    <2>3. late \in [Threads -> 0 .. 2]
      BY DEF NodeInv, CtrlInv, QuietInv
    <2>4. reading \subseteq Readings
      BY MeasuredAssumption DEF DataInv
    <2> QED
      BY <2>1, <2>2, <2>3, <2>4
      DEF TypeOK, NodeInv, BusInv, ThreadTypes, CtrlInv, BootInv, DataInv
  <1> QED
    BY <1>1, DataInvHolds, PTL

=============================================================================
