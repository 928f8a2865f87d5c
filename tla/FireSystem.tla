----------------------------- MODULE FireSystem -----------------------------
(***************************************************************************)
(* The fire interrupt, end to end: the sensor node's register map and irq  *)
(* pump, the interrupt line, and the base station's two users of the       *)
(* remote sensor -- the main loop ("main") and the work item run by the    *)
(* system work queue ("work") -- with the alarm flags they set and clear.  *)
(*                                                                         *)
(* One step of a base-station thread is one access to the node's register  *)
(* map (a bus byte; I2CTarget shows that it reaches the register it is     *)
(* addressed to) or one access to state another thread shares.             *)
(***************************************************************************)
EXTENDS RegisterMap

CONSTANTS Thresholds,         \* fire thresholds a user may enter
          DefaultThreshold,   \* REMOTE_PICO_FIRE_THRESHOLD_DEFAULT_CENTI_C
          Occupancy,          \* what the mmWave thread may publish
          MaxFaults,          \* bound: bus transfers that report an error
          MaxRestarts,        \* bound: restarts of either board
          SlowSensor          \* readings are spaced wider than the irq path is long

ASSUME FireAssumption ==
  /\ Thresholds \subseteq Int2
  /\ DefaultThreshold \in Int2
  /\ Occupancy \subseteq BOOLEAN
  /\ MaxFaults \in Nat
  /\ MaxRestarts \in Nat
  /\ SlowSensor \in BOOLEAN

VARIABLES
  pump,             \* irq_pump_entry: "idle", or the level it is about to drive
  int_out,          \* GPIO16, driven by the node, an edge interrupt at the base
  irq_work,         \* remote_irq_work is queued
  lock,             \* owner of remote_sensor_lock, or "free"
  pc,               \* where each base-station thread is
  task,             \* what main is doing: "boot", "poll" or "set"
  target,           \* the threshold main is writing to the node
  buf,              \* remote_pico_data.buf, shared by both threads
  fire_threshold, interrupt_demo_configured,
  alarm_active, alarm_flash_red,
  faults, restarts

irqVars   == <<pump, int_out, irq_work>>
taskVars  == <<task, target>>
confVars  == <<fire_threshold, interrupt_demo_configured>>
alarmVars == <<alarm_active, alarm_flash_red>>
vars == <<regVars, irqVars, lock, pc, taskVars, buf, confVars, alarmVars, faults, restarts>>

Threads == {"main", "work"}
Other(t) == IF t = "main" THEN "work" ELSE "main"

(* The registers of a burst read that the base station acts on. *)
SnapshotRegs == {REG_INT_SRC, REG_MLX_OBJ_0, REG_MLX_OBJ_0 + 1, REG_MMW_PRESENT}
EmptyBuf     == [a \in SnapshotRegs |-> IF a = REG_INT_SRC THEN {} ELSE 0]

(* centi_c_to_sv divides by 100 and sensor_value_to_centi_c multiplies     *)
(* back and adds the remainder: together they lose nothing.                *)
SnapshotTemp == Signed(buf[REG_MLX_OBJ_0], buf[REG_MLX_OBJ_0 + 1])

Outside  == {"sleep", "idle", "lock"}
Fetching == {"fetch_src", "fetch_lo", "fetch_hi", "fetch_occ"}
Writing  == {"disable", "write_lo", "write_hi", "clear", "enable"}
MainPc   == {"sleep", "lock", "retry", "update", "unflash", "unlock"} \cup Fetching \cup Writing
WorkPc   == {"idle", "lock", "check", "activate", "clear", "unlock"} \cup Fetching

Goto(t, to) == pc' = [pc EXCEPT ![t] = to]

Init ==
  /\ RegInit
  /\ pump = "idle" /\ int_out = FALSE /\ irq_work = FALSE
  /\ lock = "free"
  /\ pc = [t \in Threads |-> IF t = "main" THEN "lock" ELSE "idle"]
  /\ task = "boot" /\ target = DefaultThreshold
  /\ buf = EmptyBuf
  /\ fire_threshold = DefaultThreshold
  /\ interrupt_demo_configured = FALSE
  /\ alarm_active = FALSE /\ alarm_flash_red = FALSE
  /\ faults = 0 /\ restarts = 0

-----------------------------------------------------------------------------
(* The sensor node. *)

(* The line and the work it triggers have caught up with INT_SRC. *)
IrqSettled ==
  /\ int_out <=> regs[REG_INT_SRC] # {}
  /\ pump \in {"idle", IF int_out THEN "high" ELSE "low"}
  /\ ~irq_work /\ pc["work"] = "idle"

PublishReading ==
  /\ SlowSensor => IrqSettled
  /\ \E obj \in Readings : regmap_publish_mlx90614(obj)
  /\ UNCHANGED <<irqVars, lock, pc, taskVars, buf, confVars, alarmVars, faults, restarts>>

PublishOccupancy ==
  /\ \E present \in Occupancy : regmap_publish_mmwave(present)
  /\ UNCHANGED <<irqVars, lock, pc, taskVars, buf, confVars, alarmVars, faults, restarts>>

(* irq_pump_entry, every 20 ms: read INT_SRC ... *)
PumpRead ==
  /\ pump = "idle"
  /\ pump' = IF regs[REG_INT_SRC] # {} THEN "high" ELSE "low"
  /\ UNCHANGED <<regVars, int_out, irq_work, lock, pc, taskVars, buf, confVars, alarmVars,
                 faults, restarts>>

(* ... then drive the line; its rising edge is remote_irq_isr at the base. *)
PumpDrive ==
  /\ pump # "idle"
  /\ pump' = "idle"
  /\ int_out' = (pump = "high")
  /\ irq_work' = (irq_work \/ (int_out' /\ ~int_out))
  /\ UNCHANGED <<regVars, lock, pc, taskVars, buf, confVars, alarmVars, faults, restarts>>

-----------------------------------------------------------------------------
(* remote_sensor_lock: a Zephyr mutex, handed to a waiting thread. *)

Acquire(t, to) ==
  /\ pc[t] = "lock" /\ lock \in {"free", t}
  /\ lock' = t
  /\ Goto(t, to)
  /\ UNCHANGED <<regVars, irqVars, taskVars, buf, confVars, alarmVars, faults, restarts>>

Release(t, to) ==
  /\ pc[t] = "unlock"
  /\ lock' = IF pc[Other(t)] = "lock" THEN Other(t) ELSE "free"
  /\ Goto(t, to)
  /\ UNCHANGED <<regVars, irqVars, taskVars, buf, confVars, alarmVars, faults, restarts>>

-----------------------------------------------------------------------------
(* The remote_pico driver, seen from the thread that calls it. *)

Fault == faults < MaxFaults /\ faults' = faults + 1

(* One byte of the burst read; the burst lands in buf as it arrives, and a *)
(* failed one leaves there what it had received.                           *)
FetchByte(t, from, a, to) ==
  /\ pc[t] = from
  /\ \/ /\ buf' = [buf EXCEPT ![a] = regs[a]]
        /\ Goto(t, to)
        /\ UNCHANGED faults
     \/ /\ Fault
        /\ Goto(t, "unlock")
        /\ UNCHANGED buf
  /\ UNCHANGED <<regVars, irqVars, lock, taskVars, confVars, alarmVars, restarts>>

sample_fetch(t, done) ==
  \/ FetchByte(t, "fetch_src", REG_INT_SRC, "fetch_lo")
  \/ FetchByte(t, "fetch_lo", REG_MLX_OBJ_0, "fetch_hi")
  \/ FetchByte(t, "fetch_hi", REG_MLX_OBJ_0 + 1, "fetch_occ")
  \/ FetchByte(t, "fetch_occ", REG_MMW_PRESENT, done)

(* One data byte of a write.  A write that reports an error may or may not *)
(* have reached the register.                                              *)
Deliver(t, from, a, v, to) ==
  /\ pc[t] = from
  /\ regmap_write(a, v)
  /\ Goto(t, to)
  /\ UNCHANGED <<irqVars, lock, taskVars, buf, alarmVars, faults, restarts>>

FailWrite(t, from, a, v, to) ==
  /\ pc[t] = from
  /\ Fault
  /\ regmap_write(a, v) \/ UNCHANGED regVars
  /\ Goto(t, to)
  /\ UNCHANGED <<irqVars, lock, taskVars, buf, confVars, alarmVars, restarts>>

-----------------------------------------------------------------------------
(* The main loop. *)

(* What main does when it is done configuring, with success or without. *)
AfterConfigure == IF task = "poll" THEN "update" ELSE "unlock"

StartPoll ==
  /\ pc["main"] = "sleep"
  /\ task' = "poll"
  /\ Goto("main", "lock")
  /\ UNCHANGED <<regVars, irqVars, lock, target, buf, confVars, alarmVars, faults, restarts>>

(* Configuration mode: the user enters a fire threshold. *)
StartSet ==
  /\ pc["main"] = "sleep"
  /\ task' = "set" /\ target' \in Thresholds
  /\ Goto("main", "lock")
  /\ UNCHANGED <<regVars, irqVars, lock, buf, confVars, alarmVars, faults, restarts>>

AfterMainLock ==
  CASE task = "poll" -> "fetch_src"
    [] task = "boot" -> "retry"
    [] task = "set"  -> "disable"

BargingMainLock ==
  /\ pc["main"] = "lock"
  /\ lock' = "main"
  /\ Goto("main", AfterMainLock)
  /\ UNCHANGED <<regVars, irqVars, taskVars, buf, confVars, alarmVars, faults, restarts>>

MainLock  == Acquire("main", AfterMainLock)
MainFetch == sample_fetch("main", "retry")

BootOnly ==
  /\ pc["main"] = "retry"
  /\ \/ /\ interrupt_demo_configured \/ task # "boot"
        /\ Goto("main", AfterConfigure)
        /\ UNCHANGED target
     \/ /\ ~interrupt_demo_configured /\ task = "boot"
        /\ target' = fire_threshold
        /\ Goto("main", "disable")
  /\ UNCHANGED <<regVars, irqVars, lock, task, buf, confVars, alarmVars, faults, restarts>>

(* remote_pico_interrupts_try_configure: forced at boot; on a poll it may  *)
(* be too soon since the last attempt.                                     *)
try_configure ==
  /\ pc["main"] = "retry"
  /\ \/ /\ interrupt_demo_configured \/ task # "boot"
        /\ Goto("main", AfterConfigure)
        /\ UNCHANGED target
     \/ /\ ~interrupt_demo_configured
        /\ target' = fire_threshold
        /\ Goto("main", "disable")
  /\ UNCHANGED <<regVars, irqVars, lock, task, buf, confVars, alarmVars, faults, restarts>>

(* The four writes of set_fire_threshold and of                            *)
(* configure_remote_interrupt_demo (which writes the threshold it has).    *)
MainWrite(from, a, v, to) ==
  \/ Deliver("main", from, a, v, to) /\ UNCHANGED confVars
  \/ FailWrite("main", from, a, v, AfterConfigure)

Disable   == MainWrite("disable", REG_INT_EN, {}, "write_lo")
WriteLow  == MainWrite("write_lo", REG_T_OBJ_HIGH_0, Low(target), "write_hi")

ForgottenThreshold ==
  \/ Deliver("main", "write_hi", REG_T_OBJ_HIGH_0 + 1, High(target), "clear")
       /\ UNCHANGED confVars
  \/ FailWrite("main", "write_hi", REG_T_OBJ_HIGH_0 + 1, High(target), AfterConfigure)

WriteHigh ==
  \/ /\ Deliver("main", "write_hi", REG_T_OBJ_HIGH_0 + 1, High(target), "clear")
     /\ fire_threshold' = target
     /\ UNCHANGED interrupt_demo_configured
  \/ FailWrite("main", "write_hi", REG_T_OBJ_HIGH_0 + 1, High(target), AfterConfigure)

KeptSource == MainWrite("clear", REG_INT_SRC, regs[REG_INT_SRC], "enable")

ClearForMain == MainWrite("clear", REG_INT_SRC, {}, "enable")

Enable ==
  \/ /\ Deliver("main", "enable", REG_INT_EN, {T_OBJ_HIGH}, AfterConfigure)
     /\ interrupt_demo_configured' = TRUE
     /\ UNCHANGED fire_threshold
  \/ FailWrite("main", "enable", REG_INT_EN, {T_OBJ_HIGH}, AfterConfigure)

StopAlarmIf(cool) ==
  /\ pc["main"] = "update"
  /\ IF alarm_active /\ cool
     THEN alarm_active' = FALSE /\ Goto("main", "unflash")
     ELSE UNCHANGED alarm_active /\ Goto("main", "unlock")
  /\ UNCHANGED <<regVars, irqVars, lock, taskVars, buf, confVars, alarm_flash_red, faults,
                 restarts>>

SwappedCompare       == StopAlarmIf(SnapshotTemp >= fire_threshold)
UnconfirmedThreshold == StopAlarmIf(SnapshotTemp <= target)

(* update_fire_alarm_state and the compare-and-set of fire_alarm_stop ...  *)
update_fire_alarm_state == StopAlarmIf(SnapshotTemp <= fire_threshold)

(* ... which then puts the red light out. *)
Unflash ==
  /\ pc["main"] = "unflash"
  /\ alarm_flash_red' = FALSE
  /\ Goto("main", "unlock")
  /\ UNCHANGED <<regVars, irqVars, lock, taskVars, buf, confVars, alarm_active, faults,
                 restarts>>

MainUnlock == Release("main", "sleep")

-----------------------------------------------------------------------------
(* remote_irq_work_handler, on the system work queue. *)

WorkStart ==
  /\ pc["work"] = "idle" /\ irq_work
  /\ irq_work' = FALSE
  /\ Goto("work", "lock")
  /\ UNCHANGED <<regVars, pump, int_out, lock, taskVars, buf, confVars, alarmVars, faults,
                 restarts>>

WorkLock  == Acquire("work", "fetch_src")
WorkFetch == sample_fetch("work", "check")

ClearedBlindly ==
  /\ pc["work"] = "check"
  /\ IF T_OBJ_HIGH \in buf[REG_INT_SRC]
     THEN alarm_flash_red' = (buf[REG_MMW_PRESENT] # 0) /\ Goto("work", "activate")
     ELSE UNCHANGED alarm_flash_red /\ Goto("work", "clear")
  /\ UNCHANGED <<regVars, irqVars, lock, taskVars, buf, confVars, alarm_active, faults,
                 restarts>>

(* The interrupt source and the occupancy are those of the snapshot.       *)
(* fire_alarm_trigger first stores the occupancy ...                       *)
CheckSource ==
  /\ pc["work"] = "check"
  /\ IF T_OBJ_HIGH \in buf[REG_INT_SRC]
     THEN alarm_flash_red' = (buf[REG_MMW_PRESENT] # 0) /\ Goto("work", "activate")
     ELSE UNCHANGED alarm_flash_red /\ Goto("work", "unlock")
  /\ UNCHANGED <<regVars, irqVars, lock, taskVars, buf, confVars, alarm_active, faults,
                 restarts>>

(* ... and then sets the alarm, if it is not set already. *)
Activate ==
  /\ pc["work"] = "activate"
  /\ alarm_active' = TRUE
  /\ Goto("work", "clear")
  /\ UNCHANGED <<regVars, irqVars, lock, taskVars, buf, confVars, alarm_flash_red, faults,
                 restarts>>

UnansweredIrq ==
  /\ pc["work"] = "clear"
  /\ Goto("work", "unlock")
  /\ UNCHANGED <<regVars, irqVars, lock, taskVars, buf, confVars, alarmVars, faults, restarts>>

ClearForWork ==
  \/ Deliver("work", "clear", REG_INT_SRC, {}, "unlock") /\ UNCHANGED confVars
  \/ FailWrite("work", "clear", REG_INT_SRC, {}, "unlock")

WorkUnlock == Release("work", "idle")

-----------------------------------------------------------------------------
(* Restarts. *)

(* The node restarts; the transfer under way, if any, reports an error. *)
NodeRestart ==
  /\ restarts < MaxRestarts /\ restarts' = restarts + 1
  /\ regmap_init
  /\ pump' = "idle" /\ int_out' = FALSE
  /\ pc' = [t \in Threads |->
              CASE pc[t] \in Fetching \ {"fetch_src"} -> "unlock"
                [] pc[t] = "write_hi"                 -> AfterConfigure
                [] OTHER                              -> pc[t]]
  /\ UNCHANGED <<irq_work, lock, taskVars, buf, confVars, alarmVars, faults>>

(* The base station restarts; the node keeps what it was last told. *)
BaseRestart ==
  /\ restarts < MaxRestarts /\ restarts' = restarts + 1
  /\ irq_work' = int_out
  /\ lock' = "free"
  /\ pc' = [t \in Threads |-> IF t = "main" THEN "lock" ELSE "idle"]
  /\ task' = "boot" /\ target' = DefaultThreshold
  /\ buf' = EmptyBuf
  /\ fire_threshold' = DefaultThreshold /\ interrupt_demo_configured' = FALSE
  /\ alarm_active' = FALSE /\ alarm_flash_red' = FALSE
  /\ UNCHANGED <<regVars, pump, int_out, faults>>

-----------------------------------------------------------------------------
Node == PublishReading \/ PublishOccupancy \/ PumpRead \/ PumpDrive

Main ==
  \/ StartPoll \/ StartSet \/ MainLock \/ MainFetch \/ try_configure
  \/ Disable \/ WriteLow \/ WriteHigh \/ ClearForMain \/ Enable
  \/ update_fire_alarm_state \/ Unflash \/ MainUnlock

Work ==
  \/ WorkStart \/ WorkLock \/ WorkFetch \/ CheckSource \/ Activate
  \/ ClearForWork \/ WorkUnlock

Next == Node \/ Main \/ Work \/ NodeRestart \/ BaseRestart

Spec == Init /\ [][Next]_vars

(* A sensor thread that publishes every period publishes a reading again   *)
(* when it has not changed.                                                *)
Republish == PublishReading /\ ObjectTemp' = ObjectTemp

(* An attempt to configure that does not come too soon. *)
Attempt == try_configure /\ pc'["main"] = "disable"

(* The pump and the MLX90614 thread are periodic; the kernel schedules     *)
(* both base-station threads; a user leaves configuration mode some time;  *)
(* the time between two attempts to configure passes.                      *)
Fairness ==
  /\ WF_vars(PumpRead \/ PumpDrive)
  /\ WF_vars(Republish)
  /\ WF_vars(Main)
  /\ SF_vars(StartPoll)
  /\ SF_vars(Attempt)
  /\ WF_vars(Work)

FairSpec == Spec /\ Fairness

-----------------------------------------------------------------------------
TypeOK ==
  /\ RegTypeOK
  /\ pump \in {"idle", "low", "high"}
  /\ int_out \in BOOLEAN /\ irq_work \in BOOLEAN
  /\ lock \in Threads \cup {"free"}
  /\ DOMAIN pc = Threads /\ pc["main"] \in MainPc /\ pc["work"] \in WorkPc
  /\ task \in {"boot", "poll", "set"}
  /\ target \in Thresholds \cup {DefaultThreshold}
  /\ DOMAIN buf = SnapshotRegs
  /\ buf[REG_INT_SRC] \subseteq {T_OBJ_HIGH}
  /\ \A a \in SnapshotRegs \ {REG_INT_SRC} : buf[a] \in Digit
  /\ fire_threshold \in Thresholds \cup {DefaultThreshold}
  /\ interrupt_demo_configured \in BOOLEAN
  /\ alarm_active \in BOOLEAN /\ alarm_flash_red \in BOOLEAN
  /\ faults \in 0 .. MaxFaults /\ restarts \in 0 .. MaxRestarts

(* The snapshot buffer, the threshold and the alarm flags are touched only *)
(* by the thread that owns remote_sensor_lock, through every hand-over,    *)
(* failed transfer and restart: no thread acts on the other one's burst.   *)
SensorLockHeld == \A t \in Threads : pc[t] \notin Outside => lock = t

(* The red light is asked for only while the alarm sounds, apart from the  *)
(* two moments in which fire_alarm_trigger and fire_alarm_stop have        *)
(* changed one flag and not yet the other.                                 *)
FlashImpliesActive ==
  alarm_flash_red => \/ alarm_active
                     \/ pc["work"] = "activate"
                     \/ pc["main"] = "unflash"

(* A node that may interrupt compares with the threshold the base station  *)
(* believes in (or, after a restart of the node, with none), although the  *)
(* threshold is written byte by byte, any write may be reported as failed  *)
(* after it took effect, and either board may restart in between.          *)
ArmedThresholdAgrees ==
  (interrupt_demo_configured /\ regs[REG_INT_EN] # {})
    => Threshold \in {fire_threshold, TH_DISABLED}

(* Why ArmedThresholdAgrees holds.  Holds(th): the node has both bytes of  *)
(* th.  The node is disarmed from the first byte of a new threshold until  *)
(* the whole of it is in place and the source is cleared; whenever it is   *)
(* armed, its threshold is whole.                                          *)
Holds(th) == /\ regs[REG_T_OBJ_HIGH_0] = Low(th)
             /\ regs[REG_T_OBJ_HIGH_0 + 1] = High(th)

ArmingInv ==
  /\ pc["main"] \in {"write_lo", "write_hi", "clear", "enable"} => regs[REG_INT_EN] = {}
  /\ pc["main"] = "write_hi" => regs[REG_T_OBJ_HIGH_0] = Low(target)
  /\ pc["main"] \in {"clear", "enable"} => Holds(fire_threshold) \/ Holds(TH_DISABLED)
  /\ regs[REG_INT_EN] # {} =>
       /\ \E th \in Thresholds \cup {DefaultThreshold, TH_DISABLED} : Holds(th)
       /\ interrupt_demo_configured => Holds(fire_threshold) \/ Holds(TH_DISABLED)

(* The node never interrupts on a half-written threshold: when INT_SRC     *)
(* becomes set, the node compared with a threshold somebody chose.         *)
RaisesOnlyOnChosenThreshold ==
  [][ (regs[REG_INT_SRC] = {} /\ regs'[REG_INT_SRC] # {})
        => Threshold \in Thresholds \cup {DefaultThreshold} ]_vars

-----------------------------------------------------------------------------
(* The fire system seen as a monitor: the interrupt is pending in the      *)
(* node; the work item has read it, and has neither cleared it nor given   *)
(* up; main has disarmed the node, and not yet armed it again or given up. *)
Raised == regs[REG_INT_SRC] # {}

Answering ==
  /\ T_OBJ_HIGH \in buf[REG_INT_SRC]
  /\ pc["work"] \in {"fetch_lo", "fetch_hi", "fetch_occ", "check", "activate", "clear"}

SettingUp == pc["main"] \in {"write_lo", "write_hi", "clear", "enable"}

Monitor == INSTANCE FireMonitor WITH irq <- Raised, told <- Answering,
                                     alarm <- alarm_active, setting <- SettingUp

(* Through faults, restarts, threshold changes and snapshots taken while   *)
(* the node goes on publishing: no alarm without an interrupt, no          *)
(* interrupt withdrawn before it has sounded the alarm unless the node is  *)
(* set up or restarts, no interrupt raised while it is set up, no alarm    *)
(* stopped while one is answered.                                          *)
ImplementsMonitor == Monitor!MSpec

-----------------------------------------------------------------------------
Cool  == ObjectTemp <= fire_threshold
Hot   == ObjectTemp > fire_threshold
Armed == /\ interrupt_demo_configured /\ regs[REG_INT_EN] # {}
         /\ Threshold = fire_threshold

(* A raised interrupt is always answered: the level, the edge, the work    *)
(* item and the clearing write never leave it standing, and a base station *)
(* that restarts with the line high finds it.  A failed transfer is        *)
(* excepted: the code then never comes back to it (lost_interrupt).        *)
RaisedIrqIsAnswered ==
  (faults = 0 /\ regs[REG_INT_SRC] # {}) ~> (faults > 0 \/ regs[REG_INT_SRC] = {})

(* An object that stays cool ends the alarm, after whatever failed.        *)
CoolStopsAlarm == (<>[]Cool) => <>[]~alarm_active

(* If the node is left armed, an object that keeps going from cool to hot  *)
(* keeps sounding the alarm: the edge is not lost in the latch, the line,  *)
(* the work item or the clearing write, nor in a restart that the node was *)
(* armed again after.  (A node that restarts while it is being configured  *)
(* may be left armed with no threshold, and Armed is then false.)          *)
ArmedExcursionsAlarm ==
  (<>[](Armed /\ faults = 0) /\ []<>Cool /\ []<>Hot) => []<>alarm_active

(* A base station that failed to configure the node when it booted tries   *)
(* again until it succeeds, whatever write failed and whoever restarted.   *)
ConfigurationIsRetried == []<>interrupt_demo_configured

(* "triggers the fire alarm if the object temperature >= threshold"        *)
(* (base_station/src/main.c:19): an object that stays at the threshold or  *)
(* above it sounds the alarm.                                              *)
FireSoundsAlarm == (<>[](ObjectTemp >= fire_threshold)) => []<>alarm_active

(* The same sentence of an object that keeps crossing the threshold.       *)
ExcursionsSoundAlarm == ([]<>Cool /\ []<>Hot) => []<>alarm_active

=============================================================================
