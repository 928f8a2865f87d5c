-------------------------- MODULE FireSystemProofs --------------------------
(***************************************************************************)
(* Theorems about FireSystem, for every radix, every set of readings and   *)
(* thresholds and any number of transfer errors and restarts.              *)
(*                                                                         *)
(* The inductive invariant Inv has three independent parts on top of the   *)
(* types: the sensor lock, the alarm flags, and ArmingInv.  Three parts    *)
(* follow: the invariants of FireSystem, its refinement of FireMonitor,    *)
(* and what FireSystemHistory says of an interrupt and of an alarm.        *)
(***************************************************************************)
EXTENDS FireSystemHistory, RegisterMapProofs

Inv == TypeOK /\ SensorLockHeld /\ FlashImpliesActive /\ ArmingInv

(* The registers' addresses, for the steps that compare them. *)
LEMMA RegisterAddresses ==
  /\ {REG_STATUS, REG_INT_SRC, REG_INT_EN, REG_MLX_OBJ_0, REG_MLX_OBJ_0 + 1, REG_MMW_PRESENT,
      REG_T_OBJ_HIGH_0, REG_T_OBJ_HIGH_0 + 1} \subseteq Addr
  /\ {REG_MLX_OBJ_0, REG_MLX_OBJ_0 + 1, REG_MMW_PRESENT,
      REG_T_OBJ_HIGH_0, REG_T_OBJ_HIGH_0 + 1} \cap FlagRegs = {}
  /\ {REG_INT_SRC, REG_INT_EN} \subseteq FlagRegs /\ REG_INT_SRC # REG_INT_EN
  /\ \A a \in {REG_INT_SRC, REG_INT_EN, REG_T_OBJ_HIGH_0, REG_T_OBJ_HIGH_0 + 1} : is_writable(a)
  BY DEF REG_STATUS, REG_CTRL, REG_INT_SRC, REG_INT_EN, REG_MLX_OBJ_0, REG_MMW_PRESENT,
         REG_MMW_MAX_GATE, REG_MMW_ABSENCE_0, REG_T_OBJ_HIGH_0, REGMAP_SIZE, Addr, FlagRegs,
         is_writable

(* A threshold is a bus byte, digit by digit. *)
LEMMA ChosenTyped ==
  \A th \in Thresholds \cup {DefaultThreshold} : th \in Int2 /\ Low(th) \in Digit /\ High(th) \in Digit
  <1>1. \A th \in Thresholds \cup {DefaultThreshold} : th \in Int2 /\ th \in Int
    BY FireAssumption DEF Int2
  <1> QED
    BY <1>1, DigitsTyped

(* What the base station writes is a bus byte of the register it writes. *)
LEMMA BytesTyped ==
  TypeOK => /\ {} \in BusByte(REG_INT_SRC) /\ {} \in BusByte(REG_INT_EN)
            /\ {T_OBJ_HIGH} \in BusByte(REG_INT_EN)
            /\ Low(target) \in BusByte(REG_T_OBJ_HIGH_0)
            /\ High(target) \in BusByte(REG_T_OBJ_HIGH_0 + 1)
  <1> SUFFICES ASSUME TypeOK
               PROVE /\ {} \in BusByte(REG_INT_SRC) /\ {} \in BusByte(REG_INT_EN)
                     /\ {T_OBJ_HIGH} \in BusByte(REG_INT_EN)
                     /\ Low(target) \in BusByte(REG_T_OBJ_HIGH_0)
                     /\ High(target) \in BusByte(REG_T_OBJ_HIGH_0 + 1)
    OBVIOUS
  <1>1. Low(target) \in Digit /\ High(target) \in Digit
    BY ChosenTyped DEF TypeOK
  <1> QED
    BY <1>1 DEF BusByte, REG_STATUS, REG_CTRL, REG_INT_SRC, REG_INT_EN, REG_T_OBJ_HIGH_0, FlagRegs

-----------------------------------------------------------------------------
(* The program counters after a step of one thread. *)
LEMMA GotoTyped ==
  ASSUME TypeOK, NEW t \in Threads, NEW to, Goto(t, to),
         t = "main" => to \in MainPc, t = "work" => to \in WorkPc
  PROVE  DOMAIN pc' = Threads /\ pc'["main"] \in MainPc /\ pc'["work"] \in WorkPc
  BY DEF Goto, TypeOK, Threads

LEMMA FaultTyped == ASSUME TypeOK, Fault PROVE faults' \in 0 .. MaxFaults
  BY FireAssumption DEF Fault, TypeOK

(* A write step of either thread keeps the types it does not announce. *)
LEMMA DeliverTyped ==
  ASSUME TypeOK, NEW t \in Threads, NEW from, NEW a \in Addr, NEW v \in BusByte(a), NEW to,
         Deliver(t, from, a, v, to) \/ FailWrite(t, from, a, v, to),
         t = "main" => to \in MainPc, t = "work" => to \in WorkPc,
         fire_threshold' \in Thresholds \cup {DefaultThreshold},
         interrupt_demo_configured' \in BOOLEAN
  PROVE  TypeOK'
  <1>1. RegTypeOK'
    <2>1. CASE regmap_write(a, v)
      BY <2>1, WriteTyped DEF TypeOK
    <2>2. CASE UNCHANGED regVars
      BY <2>2 DEF TypeOK, RegTypeOK, regVars
    <2> QED
      BY <2>1, <2>2 DEF Deliver, FailWrite
  <1>2. DOMAIN pc' = Threads /\ pc'["main"] \in MainPc /\ pc'["work"] \in WorkPc
    BY GotoTyped DEF Deliver, FailWrite
  <1>3. faults' \in 0 .. MaxFaults
    BY FaultTyped DEF Deliver, FailWrite, TypeOK
  <1> QED
    BY <1>1, <1>2, <1>3 DEF Deliver, FailWrite, TypeOK, irqVars, taskVars, alarmVars

LEMMA FetchTyped ==
  ASSUME TypeOK, NEW t \in Threads, NEW done, sample_fetch(t, done),
         t = "main" => done \in MainPc, t = "work" => done \in WorkPc
  PROVE  TypeOK'
  <1>1. PICK from \in Fetching, a \in SnapshotRegs, to \in {"fetch_lo", "fetch_hi", "fetch_occ", done} :
          FetchByte(t, from, a, to)
    BY DEF sample_fetch, SnapshotRegs, Fetching
  <1>2. a = REG_INT_SRC \/ (a \in Addr /\ a \notin FlagRegs)
    BY RegisterAddresses DEF SnapshotRegs
  <1>3. DOMAIN buf' = SnapshotRegs /\ buf'[REG_INT_SRC] \subseteq {T_OBJ_HIGH}
        /\ \A b \in SnapshotRegs \ {REG_INT_SRC} : buf'[b] \in Digit
    <2>1. CASE buf' = buf
      BY <2>1 DEF TypeOK
    <2>2. CASE buf' = [buf EXCEPT ![a] = regs[a]]
      <3>1. a = REG_INT_SRC => regs[a] \subseteq {T_OBJ_HIGH}
        BY DEF TypeOK, RegTypeOK
      <3>2. a # REG_INT_SRC => regs[a] \in Digit
        BY <1>2 DEF TypeOK, RegTypeOK
      <3> QED
        BY <2>2, <3>1, <3>2 DEF TypeOK
    <2> QED
      BY <1>1, <2>1, <2>2 DEF FetchByte
  <1>4. DOMAIN pc' = Threads /\ pc'["main"] \in MainPc /\ pc'["work"] \in WorkPc
    BY <1>1, GotoTyped DEF FetchByte, MainPc, WorkPc, Fetching
  <1>5. faults' \in 0 .. MaxFaults
    BY <1>1, FaultTyped DEF FetchByte, TypeOK
  <1> QED
    BY <1>1, <1>3, <1>4, <1>5
    DEF FetchByte, TypeOK, RegTypeOK, regVars, irqVars, taskVars, confVars, alarmVars

LEMMA InitTyped == Init => TypeOK
  <1> SUFFICES ASSUME Init PROVE TypeOK
    OBVIOUS
  <1>1. RegTypeOK
    BY InitialTyped DEF Init
  <1>2. buf[REG_INT_SRC] = {} /\ DOMAIN buf = SnapshotRegs
        /\ \A a \in SnapshotRegs \ {REG_INT_SRC} : buf[a] = 0
    BY DEF Init, EmptyBuf, SnapshotRegs
  <1>3. 0 \in Digit /\ 0 \in 0 .. MaxFaults /\ 0 \in 0 .. MaxRestarts
    BY RadixAssumption, FireAssumption DEF Digit
  <1>4. DOMAIN pc = Threads /\ pc["main"] \in MainPc /\ pc["work"] \in WorkPc
    BY DEF Init, Threads, MainPc, WorkPc
  <1> QED
    BY <1>1, <1>2, <1>3, <1>4, Zenon DEF Init, TypeOK, Threads

LEMMA NextTyped == TypeOK /\ [Next]_vars => TypeOK'
  <1> SUFFICES ASSUME TypeOK, [Next]_vars PROVE TypeOK'
    OBVIOUS
  <1> USE DEF irqVars, taskVars, confVars, alarmVars
  <1>1. UNCHANGED regVars => RegTypeOK'
    BY DEF regVars, TypeOK, RegTypeOK
  <1>a. AfterConfigure \in MainPc /\ AfterMainLock \in MainPc
    BY DEF AfterConfigure, AfterMainLock, MainPc, Fetching, Writing, TypeOK
  <1>b. "main" \in Threads /\ "work" \in Threads
    BY DEF Threads
  <1>2. CASE PublishReading \/ PublishOccupancy
    <2>1. RegTypeOK'
      BY <1>2, PublishTyped, FireAssumption DEF PublishReading, PublishOccupancy, TypeOK
    <2> QED
      BY <1>2, <2>1 DEF PublishReading, PublishOccupancy, TypeOK
  <1>3. CASE PumpRead
    BY <1>1, <1>3 DEF PumpRead, TypeOK
  <1>4. CASE PumpDrive
    BY <1>1, <1>4 DEF PumpDrive, TypeOK
  <1>5. CASE StartPoll
    <2>1. DOMAIN pc' = Threads /\ pc'["main"] \in MainPc /\ pc'["work"] \in WorkPc
      BY <1>5, <1>b, GotoTyped DEF StartPoll, MainPc
    <2> QED
      BY <1>1, <1>5, <2>1 DEF StartPoll, TypeOK
  <1>6. CASE StartSet
    <2>1. DOMAIN pc' = Threads /\ pc'["main"] \in MainPc /\ pc'["work"] \in WorkPc
      BY <1>6, <1>b, GotoTyped DEF StartSet, MainPc
    <2> QED
      BY <1>1, <1>6, <2>1 DEF StartSet, TypeOK
  <1>7. ASSUME NEW t \in Threads, NEW to, Acquire(t, to) \/ Release(t, to),
               t = "main" => to \in MainPc, t = "work" => to \in WorkPc
        PROVE  TypeOK'
    <2>1. DOMAIN pc' = Threads /\ pc'["main"] \in MainPc /\ pc'["work"] \in WorkPc
      BY <1>7, GotoTyped DEF Acquire, Release
    <2>2. lock' \in Threads \cup {"free"}
      BY <1>7 DEF Acquire, Release, Threads, Other
    <2> QED
      BY <1>1, <1>7, <2>1, <2>2 DEF Acquire, Release, TypeOK
  <1>8. CASE MainLock \/ MainUnlock
    BY <1>7, <1>8, <1>a, <1>b DEF MainLock, MainUnlock, MainPc
  <1>9. CASE WorkLock \/ WorkUnlock
    BY <1>7, <1>9, <1>b DEF WorkLock, WorkUnlock, WorkPc, Fetching
  <1>10. CASE MainFetch
    BY <1>10, <1>b, FetchTyped DEF MainFetch, MainPc
  <1>11. CASE WorkFetch
    BY <1>11, <1>b, FetchTyped DEF WorkFetch, WorkPc
  <1>12. CASE try_configure
    <2>1. DOMAIN pc' = Threads /\ pc'["main"] \in MainPc /\ pc'["work"] \in WorkPc
      BY <1>12, <1>a, <1>b, GotoTyped DEF try_configure, MainPc, Writing
    <2>2. target' \in Thresholds \cup {DefaultThreshold}
      BY <1>12 DEF try_configure, TypeOK
    <2> QED
      BY <1>1, <1>12, <2>1, <2>2 DEF try_configure, TypeOK
  <1>13. CASE Disable
    BY <1>13, <1>a, <1>b, BytesTyped, RegisterAddresses, DeliverTyped
    DEF Disable, MainWrite, MainPc, Writing, TypeOK, FailWrite
  <1>14. CASE WriteLow
    BY <1>14, <1>a, <1>b, BytesTyped, RegisterAddresses, DeliverTyped
    DEF WriteLow, MainWrite, MainPc, Writing, TypeOK, FailWrite
  <1>15. CASE WriteHigh
    BY <1>15, <1>a, <1>b, BytesTyped, RegisterAddresses, DeliverTyped
    DEF WriteHigh, MainPc, Writing, TypeOK, FailWrite
  <1>16. CASE ClearForMain
    BY <1>16, <1>a, <1>b, BytesTyped, RegisterAddresses, DeliverTyped
    DEF ClearForMain, MainWrite, MainPc, Writing, TypeOK, FailWrite
  <1>17. CASE Enable
    BY <1>17, <1>a, <1>b, BytesTyped, RegisterAddresses, DeliverTyped
    DEF Enable, MainPc, Writing, TypeOK, FailWrite
  <1>18. CASE update_fire_alarm_state
    <2>1. DOMAIN pc' = Threads /\ pc'["main"] \in MainPc /\ pc'["work"] \in WorkPc
      BY <1>18, <1>b, GotoTyped DEF update_fire_alarm_state, StopAlarmIf, MainPc
    <2>2. alarm_active' \in BOOLEAN
      BY <1>18 DEF update_fire_alarm_state, StopAlarmIf, TypeOK
    <2> QED
      BY <1>1, <1>18, <2>1, <2>2 DEF update_fire_alarm_state, StopAlarmIf, TypeOK
  <1>19. CASE Unflash
    <2>1. DOMAIN pc' = Threads /\ pc'["main"] \in MainPc /\ pc'["work"] \in WorkPc
      BY <1>19, <1>b, GotoTyped DEF Unflash, MainPc
    <2> QED
      BY <1>1, <1>19, <2>1 DEF Unflash, TypeOK
  <1>20. CASE WorkStart
    <2>1. DOMAIN pc' = Threads /\ pc'["main"] \in MainPc /\ pc'["work"] \in WorkPc
      BY <1>20, <1>b, GotoTyped DEF WorkStart, WorkPc
    <2> QED
      BY <1>1, <1>20, <2>1 DEF WorkStart, TypeOK
  <1>21. CASE CheckSource
    <2>1. DOMAIN pc' = Threads /\ pc'["main"] \in MainPc /\ pc'["work"] \in WorkPc
      BY <1>21, <1>b, GotoTyped DEF CheckSource, WorkPc
    <2>2. alarm_flash_red' \in BOOLEAN
      BY <1>21 DEF CheckSource, TypeOK
    <2> QED
      BY <1>1, <1>21, <2>1, <2>2 DEF CheckSource, TypeOK
  <1>22. CASE Activate
    <2>1. DOMAIN pc' = Threads /\ pc'["main"] \in MainPc /\ pc'["work"] \in WorkPc
      BY <1>22, <1>b, GotoTyped DEF Activate, WorkPc
    <2> QED
      BY <1>1, <1>22, <2>1 DEF Activate, TypeOK
  <1>23. CASE ClearForWork
    BY <1>23, <1>b, BytesTyped, RegisterAddresses, DeliverTyped
    DEF ClearForWork, WorkPc, TypeOK, FailWrite
  <1>24. CASE NodeRestart
    <2>1. RegTypeOK'
      BY <1>24, InitialTyped DEF NodeRestart
    <2>2. DOMAIN pc' = Threads /\ pc'["main"] \in MainPc /\ pc'["work"] \in WorkPc
      BY <1>24, <1>a, <1>b DEF NodeRestart, TypeOK, MainPc, WorkPc, Fetching, Writing
    <2>3. restarts' \in 0 .. MaxRestarts
      BY <1>24, FireAssumption DEF NodeRestart, TypeOK
    <2> QED
      BY <1>24, <2>1, <2>2, <2>3 DEF NodeRestart, TypeOK
  <1>25. CASE BaseRestart
    <2>1. DOMAIN pc' = Threads /\ pc'["main"] \in MainPc /\ pc'["work"] \in WorkPc
      BY <1>25 DEF BaseRestart, Threads, MainPc, WorkPc
    <2>2. restarts' \in 0 .. MaxRestarts
      BY <1>25, FireAssumption DEF BaseRestart, TypeOK
    <2>3. buf'[REG_INT_SRC] = {} /\ DOMAIN buf' = SnapshotRegs
          /\ \A a \in SnapshotRegs \ {REG_INT_SRC} : buf'[a] \in Digit
      BY <1>25, RadixAssumption DEF BaseRestart, EmptyBuf, SnapshotRegs, Digit
    <2> QED
      BY <1>1, <1>25, <2>1, <2>2, <2>3 DEF BaseRestart, TypeOK
  <1>26. CASE UNCHANGED vars
    BY <1>1, <1>26 DEF vars, TypeOK
  <1> QED
    BY <1>2, <1>3, <1>4, <1>5, <1>6, <1>8, <1>9, <1>10, <1>11, <1>12, <1>13, <1>14, <1>15,
       <1>16, <1>17, <1>18, <1>19, <1>20, <1>21, <1>22, <1>23, <1>24, <1>25, <1>26
    DEF Next, Node, Main, Work

-----------------------------------------------------------------------------
(* The sensor lock. *)

(* A thread that holds the lock before and after its step. *)
LEMMA InsideStep ==
  ASSUME TypeOK, SensorLockHeld, NEW t \in Threads, NEW to, Goto(t, to),
         UNCHANGED lock, pc[t] \notin Outside \/ to \in Outside
  PROVE  SensorLockHeld'
  BY DEF SensorLockHeld, Goto, TypeOK

LEMMA FetchInside ==
  ASSUME TypeOK, SensorLockHeld, NEW t \in Threads, NEW done, sample_fetch(t, done)
  PROVE  SensorLockHeld'
  <1>1. PICK from \in Fetching, a \in SnapshotRegs, to \in {"fetch_lo", "fetch_hi", "fetch_occ", done} :
          FetchByte(t, from, a, to)
    BY DEF sample_fetch, Fetching, SnapshotRegs
  <1> QED
    BY <1>1, InsideStep DEF FetchByte, Fetching, Outside

LEMMA WriteInside ==
  ASSUME TypeOK, SensorLockHeld, NEW t \in Threads, NEW from \in Writing, NEW a, NEW v, NEW to,
         Deliver(t, from, a, v, to) \/ FailWrite(t, from, a, v, to)
  PROVE  SensorLockHeld'
  BY InsideStep DEF Deliver, FailWrite, Writing, Outside

LEMMA NextLock == TypeOK /\ SensorLockHeld /\ [Next]_vars => SensorLockHeld'
  <1> SUFFICES ASSUME TypeOK, SensorLockHeld, [Next]_vars PROVE SensorLockHeld'
    OBVIOUS
  <1>b. "main" \in Threads /\ "work" \in Threads
    BY DEF Threads
  <1>1. CASE Node
    BY <1>1 DEF Node, PublishReading, PublishOccupancy, PumpRead, PumpDrive, SensorLockHeld
  <1>2. CASE StartPoll \/ StartSet
    BY <1>2, <1>b, InsideStep DEF StartPoll, StartSet, Outside
  <1>3. CASE WorkStart
    BY <1>3, <1>b, InsideStep DEF WorkStart, Outside
  <1>4. ASSUME NEW t \in Threads, NEW to, Acquire(t, to) PROVE SensorLockHeld'
    BY <1>4 DEF Acquire, Goto, SensorLockHeld, TypeOK, Threads
  <1>5. ASSUME NEW t \in Threads, NEW to \in Outside, Release(t, to) PROVE SensorLockHeld'
    <2>1. lock = t
      BY <1>5 DEF Release, SensorLockHeld, Outside
    <2>2. \A u \in Threads : pc'[u] \in Outside
      BY <1>5, <2>1 DEF Release, Goto, SensorLockHeld, TypeOK
    <2> QED
      BY <2>2 DEF SensorLockHeld
  <1>6. CASE MainLock \/ WorkLock
    BY <1>4, <1>6, <1>b DEF MainLock, WorkLock
  <1>7. CASE MainUnlock \/ WorkUnlock
    BY <1>5, <1>7, <1>b DEF MainUnlock, WorkUnlock, Outside
  <1>8. CASE MainFetch \/ WorkFetch
    BY <1>8, <1>b, FetchInside DEF MainFetch, WorkFetch
  <1>9. CASE try_configure \/ update_fire_alarm_state \/ Unflash
    BY <1>9, <1>b, InsideStep
    DEF try_configure, update_fire_alarm_state, StopAlarmIf, Unflash, Outside
  <1>10. CASE CheckSource \/ Activate
    BY <1>10, <1>b, InsideStep DEF CheckSource, Activate, Outside
  <1>11. CASE Disable \/ WriteLow \/ WriteHigh \/ ClearForMain \/ Enable
    BY <1>11, <1>b, WriteInside
    DEF Disable, WriteLow, WriteHigh, ClearForMain, Enable, MainWrite, Writing
  <1>12. CASE ClearForWork
    BY <1>12, <1>b, WriteInside DEF ClearForWork, Writing
  <1>13. CASE NodeRestart
    BY <1>13 DEF NodeRestart, SensorLockHeld, Outside, Fetching, AfterConfigure
  <1>14. CASE BaseRestart
    BY <1>14 DEF BaseRestart, SensorLockHeld, Outside
  <1>15. CASE UNCHANGED vars
    BY <1>15 DEF vars, SensorLockHeld
  <1> QED
    BY <1>1, <1>2, <1>3, <1>6, <1>7, <1>8, <1>9, <1>10, <1>11, <1>12, <1>13, <1>14, <1>15
    DEF Next, Main, Work

-----------------------------------------------------------------------------
(* The alarm flags. *)

(* A step that changes no flag and is not the one that leaves the exempt   *)
(* moments.                                                                *)
LEMMA OtherStep ==
  ASSUME TypeOK, FlashImpliesActive, NEW t \in Threads, NEW to, Goto(t, to),
         UNCHANGED alarmVars, pc[t] \notin {"activate", "unflash"}
  PROVE  FlashImpliesActive'
  BY DEF FlashImpliesActive, Goto, TypeOK, alarmVars, Threads

LEMMA NextFlash == TypeOK /\ FlashImpliesActive /\ [Next]_vars => FlashImpliesActive'
  <1> SUFFICES ASSUME TypeOK, FlashImpliesActive, [Next]_vars PROVE FlashImpliesActive'
    OBVIOUS
  <1>b. "main" \in Threads /\ "work" \in Threads
    BY DEF Threads
  <1>1. CASE Node
    BY <1>1
    DEF Node, PublishReading, PublishOccupancy, PumpRead, PumpDrive, FlashImpliesActive, alarmVars
  <1>2. CASE StartPoll \/ StartSet \/ WorkStart \/ try_configure
    BY <1>2, <1>b, OtherStep DEF StartPoll, StartSet, WorkStart, try_configure
  <1>3. CASE MainLock \/ WorkLock \/ MainUnlock \/ WorkUnlock
    BY <1>3, <1>b, OtherStep DEF MainLock, WorkLock, MainUnlock, WorkUnlock, Acquire, Release
  <1>4. ASSUME NEW t \in Threads, NEW done, sample_fetch(t, done) PROVE FlashImpliesActive'
    <2>1. PICK from \in Fetching, a \in SnapshotRegs, to \in {"fetch_lo", "fetch_hi", "fetch_occ", done} :
          FetchByte(t, from, a, to)
      BY <1>4 DEF sample_fetch, Fetching, SnapshotRegs
    <2> QED
      BY <2>1, OtherStep DEF FetchByte, Fetching
  <1>5. CASE MainFetch \/ WorkFetch
    BY <1>4, <1>5, <1>b DEF MainFetch, WorkFetch
  <1>6. ASSUME NEW t \in Threads, NEW from \in Writing, NEW a, NEW v, NEW to,
               Deliver(t, from, a, v, to) \/ FailWrite(t, from, a, v, to)
        PROVE  FlashImpliesActive'
    BY <1>6, OtherStep DEF Deliver, FailWrite, Writing
  <1>7. CASE Disable \/ WriteLow \/ WriteHigh \/ ClearForMain \/ Enable
    BY <1>6, <1>7, <1>b
    DEF Disable, WriteLow, WriteHigh, ClearForMain, Enable, MainWrite, Writing
  <1>8. CASE ClearForWork
    BY <1>6, <1>8, <1>b DEF ClearForWork, Writing
  <1>9. CASE update_fire_alarm_state
    BY <1>9 DEF update_fire_alarm_state, StopAlarmIf, FlashImpliesActive, Goto, TypeOK, Threads
  <1>10. CASE Unflash
    BY <1>10 DEF Unflash, FlashImpliesActive
  <1>11. CASE CheckSource
    BY <1>11 DEF CheckSource, FlashImpliesActive, Goto, TypeOK, Threads
  <1>12. CASE Activate
    BY <1>12 DEF Activate, FlashImpliesActive
  <1>13. CASE NodeRestart
    BY <1>13 DEF NodeRestart, FlashImpliesActive, alarmVars, Fetching, Threads
  <1>14. CASE BaseRestart
    BY <1>14 DEF BaseRestart, FlashImpliesActive
  <1>15. CASE UNCHANGED vars
    BY <1>15 DEF vars, FlashImpliesActive, alarmVars
  <1> QED
    BY <1>1, <1>2, <1>3, <1>5, <1>7, <1>8, <1>9, <1>10, <1>11, <1>12, <1>13, <1>14, <1>15
    DEF Next, Main, Work

-----------------------------------------------------------------------------
(* The threshold of an armed node. *)

ConfigPc == {"write_lo", "write_hi", "clear", "enable"}

(* What ArmingInv depends on; a step that leaves it alone preserves it. *)
LEMMA ArmingFrame ==
  ASSUME ArmingInv,
         regs'[REG_INT_EN] = regs[REG_INT_EN],
         regs'[REG_T_OBJ_HIGH_0] = regs[REG_T_OBJ_HIGH_0],
         regs'[REG_T_OBJ_HIGH_0 + 1] = regs[REG_T_OBJ_HIGH_0 + 1],
         UNCHANGED confVars,
         pc'["main"] \notin ConfigPc \/ (pc'["main"] = pc["main"] /\ target' = target)
  PROVE  ArmingInv'
  BY DEF ArmingInv, Holds, confVars, ConfigPc

(* Clearing the source, by either thread. *)
LEMMA ClearKeepsArming ==
  ASSUME TypeOK, ArmingInv, regmap_write(REG_INT_SRC, {})
  PROVE  /\ regs'[REG_INT_EN] = regs[REG_INT_EN]
         /\ regs'[REG_T_OBJ_HIGH_0] = regs[REG_T_OBJ_HIGH_0]
         /\ regs'[REG_T_OBJ_HIGH_0 + 1] = regs[REG_T_OBJ_HIGH_0 + 1]
         /\ regs'[REG_INT_SRC] = {}
  <1>1. regs'[REG_INT_SRC] = {} /\ \A b \in Addr : b \notin {REG_INT_SRC, REG_STATUS} => regs'[b] = regs[b]
    BY WriteEffect, RegisterAddresses DEF TypeOK, sanitize_interrupt_write
  <1> QED
    BY <1>1, RegisterAddresses DEF REG_INT_SRC, REG_STATUS, REG_INT_EN, REG_T_OBJ_HIGH_0

(* Writing a register of the fire interrupt other than INT_SRC. *)
LEMMA ConfigWriteEffect ==
  ASSUME TypeOK, NEW a \in {REG_INT_EN, REG_T_OBJ_HIGH_0, REG_T_OBJ_HIGH_0 + 1}, NEW v,
         regmap_write(a, v)
  PROVE  /\ regs'[a] = IF a = REG_INT_EN THEN v \cap {T_OBJ_HIGH} ELSE v
         /\ \A b \in {REG_INT_SRC, REG_INT_EN, REG_T_OBJ_HIGH_0, REG_T_OBJ_HIGH_0 + 1} :
              b # a => regs'[b] = regs[b]
  <1>1. a \in Addr /\ is_writable(a) /\ a # REG_INT_SRC
    BY RegisterAddresses DEF REG_INT_SRC, REG_INT_EN, REG_T_OBJ_HIGH_0
  <1>2. /\ regs'[a] = sanitize_interrupt_write(a, v)
        /\ \A b \in Addr : b # a => regs'[b] = regs[b]
    BY <1>1, WriteEffect DEF TypeOK
  <1>3. sanitize_interrupt_write(a, v) = IF a = REG_INT_EN THEN v \cap {T_OBJ_HIGH} ELSE v
    BY <1>1 DEF sanitize_interrupt_write
  <1> QED
    BY <1>2, <1>3, RegisterAddresses

(* A write that failed left the node as it was or as the write made it. *)
LEMMA FailedWrite ==
  ASSUME NEW from, NEW a, NEW v, FailWrite("main", from, a, v, AfterConfigure), TypeOK
  PROVE  /\ pc["main"] = from /\ pc'["main"] \notin ConfigPc /\ UNCHANGED confVars
         /\ regmap_write(a, v) \/ regs' = regs
  BY DEF FailWrite, Goto, TypeOK, Threads, AfterConfigure, ConfigPc, regVars

LEMMA DeliveredWrite ==
  ASSUME NEW from, NEW a, NEW v, NEW to, Deliver("main", from, a, v, to), TypeOK
  PROVE  /\ pc["main"] = from /\ pc'["main"] = to /\ target' = target
         /\ regmap_write(a, v)
  BY DEF Deliver, Goto, TypeOK, Threads, taskVars

(* The steps that write the node's configuration. *)
LEMMA ConfigArming ==
  ASSUME TypeOK, ArmingInv, Disable \/ WriteLow \/ WriteHigh \/ ClearForMain \/ Enable
  PROVE  ArmingInv'
  <1>1. CASE Disable
    <2>1. CASE regmap_write(REG_INT_EN, {})
      <3>1. regs'[REG_INT_EN] = {}
        BY <2>1, ConfigWriteEffect
      <3>2. pc'["main"] = "write_lo" \/ pc'["main"] \notin ConfigPc
        BY <1>1, FailedWrite, DeliveredWrite DEF Disable, MainWrite
      <3> QED
        BY <3>1, <3>2 DEF ArmingInv, ConfigPc
    <2>2. CASE FailWrite("main", "disable", REG_INT_EN, {}, AfterConfigure) /\ regs' = regs
      BY <2>2, FailedWrite, ArmingFrame
    <2> QED
      BY <1>1, <2>1, <2>2, FailedWrite, DeliveredWrite DEF Disable, MainWrite
  <1>2. CASE WriteLow
    <2>1. pc["main"] = "write_lo"
      BY <1>2, FailedWrite, DeliveredWrite DEF WriteLow, MainWrite
    <2>2. regs'[REG_INT_EN] = {}
      BY <1>2, <2>1, ConfigWriteEffect, FailedWrite, DeliveredWrite, RegisterAddresses
      DEF WriteLow, MainWrite, ArmingInv, FlagRegs
    <2>3. CASE Deliver("main", "write_lo", REG_T_OBJ_HIGH_0, Low(target), "write_hi")
      <3>1. regs'[REG_T_OBJ_HIGH_0] = Low(target)
        BY <2>3, ConfigWriteEffect, DeliveredWrite, RegisterAddresses
      <3>2. pc'["main"] = "write_hi" /\ target' = target
        BY <2>3, DeliveredWrite
      <3> QED
        BY <2>2, <3>1, <3>2 DEF ArmingInv, Low
    <2>4. CASE pc'["main"] \notin ConfigPc
      BY <2>2, <2>4 DEF ArmingInv, ConfigPc
    <2> QED
      BY <1>2, <2>3, <2>4, FailedWrite DEF WriteLow, MainWrite
  <1>3. CASE WriteHigh
    <2>1. pc["main"] = "write_hi"
      BY <1>3, FailedWrite, DeliveredWrite DEF WriteHigh
    <2>2. regs'[REG_INT_EN] = {}
      BY <1>3, <2>1, ConfigWriteEffect, FailedWrite, DeliveredWrite, RegisterAddresses
      DEF WriteHigh, ArmingInv, FlagRegs
    <2>3. CASE /\ Deliver("main", "write_hi", REG_T_OBJ_HIGH_0 + 1, High(target), "clear")
               /\ fire_threshold' = target
      <3>1. /\ regs'[REG_T_OBJ_HIGH_0 + 1] = High(target)
            /\ regs'[REG_T_OBJ_HIGH_0] = regs[REG_T_OBJ_HIGH_0]
        BY <2>3, ConfigWriteEffect, DeliveredWrite, RegisterAddresses
        DEF REG_T_OBJ_HIGH_0, REG_INT_EN
      <3>2. pc'["main"] = "clear"
        BY <2>3, DeliveredWrite
      <3> QED
        BY <2>1, <2>2, <2>3, <3>1, <3>2 DEF ArmingInv, Holds, Low, High
    <2>4. CASE pc'["main"] \notin ConfigPc
      BY <2>2, <2>4 DEF ArmingInv, ConfigPc
    <2> QED
      BY <1>3, <2>3, <2>4, FailedWrite DEF WriteHigh
  <1>4. CASE ClearForMain
    <2>1. UNCHANGED confVars /\ pc["main"] = "clear"
      BY <1>4, FailedWrite, DeliveredWrite DEF ClearForMain, MainWrite
    <2>2. /\ regs'[REG_INT_EN] = regs[REG_INT_EN]
          /\ regs'[REG_T_OBJ_HIGH_0] = regs[REG_T_OBJ_HIGH_0]
          /\ regs'[REG_T_OBJ_HIGH_0 + 1] = regs[REG_T_OBJ_HIGH_0 + 1]
      BY <1>4, ClearKeepsArming, FailedWrite, DeliveredWrite DEF ClearForMain, MainWrite
    <2>3. pc'["main"] = "enable" \/ pc'["main"] \notin ConfigPc
      BY <1>4, FailedWrite, DeliveredWrite DEF ClearForMain, MainWrite
    <2> QED
      BY <2>1, <2>2, <2>3 DEF ArmingInv, Holds, confVars, ConfigPc
  <1>5. CASE Enable
    <2>1. pc["main"] = "enable" /\ UNCHANGED fire_threshold
      BY <1>5, FailedWrite, DeliveredWrite DEF Enable, confVars
    <2>2. /\ regs'[REG_T_OBJ_HIGH_0] = regs[REG_T_OBJ_HIGH_0]
          /\ regs'[REG_T_OBJ_HIGH_0 + 1] = regs[REG_T_OBJ_HIGH_0 + 1]
      BY <1>5, ConfigWriteEffect, FailedWrite, DeliveredWrite DEF Enable, REG_T_OBJ_HIGH_0, REG_INT_EN
    <2>3. pc'["main"] \notin ConfigPc
      BY <1>5, FailedWrite, DeliveredWrite DEF Enable, AfterConfigure, ConfigPc
    <2>4. Holds(fire_threshold) \/ Holds(TH_DISABLED)
      BY <2>1 DEF ArmingInv
    <2> QED
      BY <2>1, <2>2, <2>3, <2>4 DEF ArmingInv, Holds, ConfigPc, TypeOK
  <1> QED
    BY <1>1, <1>2, <1>3, <1>4, <1>5

LEMMA NextArming == TypeOK /\ ArmingInv /\ [Next]_vars => ArmingInv'
  <1> SUFFICES ASSUME TypeOK, ArmingInv, [Next]_vars PROVE ArmingInv'
    OBVIOUS
  <1>1. ASSUME NEW t \in Threads, NEW to, Goto(t, to), UNCHANGED regVars, UNCHANGED confVars,
               t = "main" => to \notin ConfigPc, t = "work" => UNCHANGED target
        PROVE  ArmingInv'
    <2>1. pc'["main"] \notin ConfigPc \/ (pc'["main"] = pc["main"] /\ target' = target)
      BY <1>1 DEF Goto, TypeOK, Threads
    <2> QED
      BY <1>1, <2>1, ArmingFrame DEF regVars
  <1>b. "main" \in Threads /\ "work" \in Threads
    BY DEF Threads
  <1>c. AfterConfigure \notin ConfigPc /\ AfterMainLock \notin ConfigPc
    BY DEF AfterConfigure, AfterMainLock, ConfigPc, TypeOK
  <1>2. CASE PublishReading \/ PublishOccupancy
    <2>1. /\ regs'[REG_INT_EN] = regs[REG_INT_EN]
          /\ regs'[REG_T_OBJ_HIGH_0] = regs[REG_T_OBJ_HIGH_0]
          /\ regs'[REG_T_OBJ_HIGH_0 + 1] = regs[REG_T_OBJ_HIGH_0 + 1]
      BY <1>2, PublishEffect, FireAssumption DEF PublishReading, PublishOccupancy, TypeOK
    <2> QED
      BY <1>2, <2>1, ArmingFrame DEF PublishReading, PublishOccupancy, taskVars
  <1>3. CASE PumpRead \/ PumpDrive
    BY <1>3, ArmingFrame DEF PumpRead, PumpDrive, regVars, taskVars
  <1>4. CASE StartPoll \/ StartSet
    BY <1>1, <1>4, <1>b DEF StartPoll, StartSet, ConfigPc
  <1>5. CASE MainLock \/ MainUnlock
    BY <1>1, <1>5, <1>b, <1>c DEF MainLock, MainUnlock, Acquire, Release, ConfigPc
  <1>6. CASE WorkStart \/ WorkLock \/ WorkUnlock \/ CheckSource \/ Activate
    BY <1>1, <1>6, <1>b
    DEF WorkStart, WorkLock, WorkUnlock, Acquire, Release, CheckSource, Activate, taskVars
  <1>7. ASSUME NEW t \in Threads, NEW done, done \notin ConfigPc, sample_fetch(t, done)
        PROVE  ArmingInv'
    <2>1. PICK from \in Fetching, a \in SnapshotRegs,
               to \in {"fetch_lo", "fetch_hi", "fetch_occ", done} : FetchByte(t, from, a, to)
      BY <1>7 DEF sample_fetch, SnapshotRegs, Fetching
    <2> QED
      BY <1>1, <1>7, <2>1 DEF FetchByte, taskVars, ConfigPc
  <1>8. CASE MainFetch \/ WorkFetch
    BY <1>7, <1>8, <1>b DEF MainFetch, WorkFetch, ConfigPc
  <1>9. CASE try_configure
    BY <1>1, <1>9, <1>b, <1>c DEF try_configure, ConfigPc
  <1>10. CASE update_fire_alarm_state \/ Unflash
    BY <1>1, <1>10, <1>b DEF update_fire_alarm_state, StopAlarmIf, Unflash, ConfigPc
  <1>11. CASE ClearForWork
    <2>1. /\ regs'[REG_INT_EN] = regs[REG_INT_EN]
          /\ regs'[REG_T_OBJ_HIGH_0] = regs[REG_T_OBJ_HIGH_0]
          /\ regs'[REG_T_OBJ_HIGH_0 + 1] = regs[REG_T_OBJ_HIGH_0 + 1]
      BY <1>11, ClearKeepsArming DEF ClearForWork, Deliver, FailWrite, regVars
    <2>2. UNCHANGED confVars /\ UNCHANGED target /\ pc'["main"] = pc["main"]
      BY <1>11 DEF ClearForWork, Deliver, FailWrite, Goto, TypeOK, Threads, taskVars
    <2> QED
      BY <2>1, <2>2, ArmingFrame
  <1>12. CASE Disable \/ WriteLow \/ WriteHigh \/ ClearForMain \/ Enable
    BY <1>12, ConfigArming
  <1>13. CASE NodeRestart
    <2>1. regs'[REG_INT_EN] = {} /\ Holds(TH_DISABLED)'
      BY <1>13, ResetEffect DEF NodeRestart, regmap_init, Holds, Low, High, TH_DISABLED
    <2>2. pc'["main"] # "write_hi"
      BY <1>13 DEF NodeRestart, Threads, Fetching, AfterConfigure
    <2> QED
      BY <2>1, <2>2 DEF ArmingInv
  <1>14. CASE BaseRestart
    <2>1. pc'["main"] = "lock" /\ interrupt_demo_configured' = FALSE /\ UNCHANGED regs
      BY <1>14 DEF BaseRestart, Threads, regVars
    <2> QED
      BY <2>1 DEF ArmingInv, Holds
  <1>15. CASE UNCHANGED vars
    BY <1>15, ArmingFrame DEF vars, regVars, taskVars
  <1> QED
    BY <1>2, <1>3, <1>4, <1>5, <1>6, <1>8, <1>9, <1>10, <1>11, <1>12, <1>13, <1>14, <1>15
    DEF Next, Node, Main, Work

-----------------------------------------------------------------------------
LEMMA InitInv == Init => Inv
  <1> SUFFICES ASSUME Init PROVE Inv
    OBVIOUS
  <1>1. TypeOK
    BY InitTyped
  <1>2. SensorLockHeld /\ FlashImpliesActive
    BY DEF Init, SensorLockHeld, FlashImpliesActive, Outside
  <1>3. regs[REG_INT_EN] = {} /\ pc["main"] = "lock"
    BY ResetEffect DEF Init, RegInit, Threads
  <1> QED
    BY <1>1, <1>2, <1>3 DEF Inv, ArmingInv

(* Inv is an invariant of the fire system. *)
LEMMA InvHolds == Spec => []Inv
  <1>1. Inv /\ [Next]_vars => Inv'
    BY NextTyped, NextLock, NextFlash, NextArming DEF Inv
  <1> QED
    BY InitInv, <1>1, PTL DEF Spec

(* Type correctness: in particular every register of the node keeps its    *)
(* type under the base station's writes, whole or failed.                  *)
THEOREM TypeCorrect == Spec => []TypeOK
  BY InvHolds, PTL DEF Inv

(* The base station's threads never use the shared snapshot, the threshold *)
(* or the alarm flags without the sensor lock.                             *)
THEOREM LockHeld == Spec => []SensorLockHeld
  BY InvHolds, PTL DEF Inv

(* The red light is requested only for an alarm that sounds.               *)
THEOREM FlashOnlyInAlarm == Spec => []FlashImpliesActive
  BY InvHolds, PTL DEF Inv

(* The node is disarmed while its threshold is being changed, and whenever *)
(* it is armed its registers hold the whole of a threshold, the one the    *)
(* base station believes in or none (ArmingInv): with every fault of a     *)
(* write, and either board restarting between two of them.                 *)
THEOREM ArmingHolds == Spec => []ArmingInv
  BY InvHolds, PTL DEF Inv

(* Reading a whole threshold back gives the threshold. *)
LEMMA HeldThreshold ==
  \A th \in Thresholds \cup {DefaultThreshold, TH_DISABLED} : Holds(th) => Threshold = th
  <1>1. TH_DISABLED \in Int2
    <2>1. (Radix * Radix) \div 2 \in Int /\ (Radix * Radix) \div 2 >= 1
      BY RadixAssumption
    <2> QED
      BY <2>1 DEF TH_DISABLED, Int2
  <1>2. \A th \in Thresholds \cup {DefaultThreshold, TH_DISABLED} : th \in Int2
    BY <1>1, ChosenTyped
  <1>3. \A th \in Int2 : Signed(Low(th), High(th)) = th
    BY RoundTrip
  <1> QED
    BY <1>2, <1>3 DEF Holds, Threshold, LoadLE

(* An armed node compares with the threshold the base station believes in, *)
(* or with none.                                                           *)
THEOREM ThresholdsAgree == Spec => []ArmedThresholdAgrees
  <1>1. Inv => ArmedThresholdAgrees
    <2> SUFFICES ASSUME Inv, interrupt_demo_configured, regs[REG_INT_EN] # {}
                 PROVE  Threshold \in {fire_threshold, TH_DISABLED}
      BY DEF ArmedThresholdAgrees
    <2>1. Holds(fire_threshold) \/ Holds(TH_DISABLED)
      BY DEF Inv, ArmingInv
    <2>2. fire_threshold \in Thresholds \cup {DefaultThreshold}
      BY DEF Inv, TypeOK
    <2> QED
      BY <2>1, <2>2, HeldThreshold
  <1> QED
    BY <1>1, InvHolds, PTL

(* No step but publishing sets the interrupt source. *)
LEMMA OnlyPublishingRaises ==
  ASSUME TypeOK, Next, regs[REG_INT_SRC] = {}, regs'[REG_INT_SRC] # {}
  PROVE  PublishReading \/ PublishOccupancy
  <1>1. ~(UNCHANGED regVars)
    BY DEF regVars
  <1>2. ASSUME NEW t \in Threads, NEW from, NEW to,
               NEW a \in {REG_INT_EN, REG_T_OBJ_HIGH_0, REG_T_OBJ_HIGH_0 + 1}, NEW v,
               Deliver(t, from, a, v, to) \/ FailWrite(t, from, a, v, to)
        PROVE  FALSE
    <2>1. regmap_write(a, v)
      BY <1>1, <1>2 DEF Deliver, FailWrite
    <2>2. REG_INT_SRC # a
      BY DEF REG_INT_SRC, REG_INT_EN, REG_T_OBJ_HIGH_0
    <2> QED
      BY <2>1, <2>2, ConfigWriteEffect
  <1>3. ASSUME NEW t, NEW from, NEW to,
               \/ Deliver(t, from, REG_INT_SRC, {}, to)
               \/ FailWrite(t, from, REG_INT_SRC, {}, to)
        PROVE  FALSE
    <2>1. regmap_write(REG_INT_SRC, {})
      BY <1>1, <1>3 DEF Deliver, FailWrite
    <2>2. regs'[REG_INT_SRC] = {}
      BY <2>1, WriteEffect, RegisterAddresses DEF TypeOK, sanitize_interrupt_write
    <2> QED
      BY <2>2
  <1>4. "main" \in Threads /\ "work" \in Threads
    BY DEF Threads
  <1>5. ~(Disable \/ WriteLow \/ WriteHigh \/ Enable)
    BY <1>2, <1>4 DEF Disable, WriteLow, WriteHigh, Enable, MainWrite
  <1>6. ~(ClearForMain \/ ClearForWork)
    BY <1>3 DEF ClearForMain, ClearForWork, MainWrite
  <1>7. ~NodeRestart
    BY ResetEffect DEF NodeRestart, regmap_init
  <1>8. ~(MainFetch \/ WorkFetch)
    <2>1. \A t, from, a, to : FetchByte(t, from, a, to) => UNCHANGED regVars
      BY DEF FetchByte
    <2> QED
      BY <1>1, <2>1 DEF MainFetch, WorkFetch, sample_fetch
  <1> QED
    BY <1>1, <1>5, <1>6, <1>7, <1>8
    DEF Next, Node, Main, Work, PumpRead, PumpDrive, StartPoll, StartSet, MainLock,
        MainUnlock, WorkStart, WorkLock, WorkUnlock, Acquire, Release, try_configure,
        update_fire_alarm_state, StopAlarmIf, Unflash, CheckSource, Activate, BaseRestart

(* The node never interrupts on a half-written threshold. *)
THEOREM RaisesOnChosen == Spec => RaisesOnlyOnChosenThreshold
  <1>1. Inv /\ [Next]_vars =>
          [ (regs[REG_INT_SRC] = {} /\ regs'[REG_INT_SRC] # {})
              => Threshold \in Thresholds \cup {DefaultThreshold} ]_vars
    <2> SUFFICES ASSUME Inv, Next, regs[REG_INT_SRC] = {}, regs'[REG_INT_SRC] # {}
                 PROVE  Threshold \in Thresholds \cup {DefaultThreshold}
      OBVIOUS
    <2>1. PublishReading \/ PublishOccupancy
      BY OnlyPublishingRaises DEF Inv
    <2>2. regs[REG_INT_EN] # {} /\ Threshold # TH_DISABLED
      BY <2>1, PublishEffect, FireAssumption DEF PublishReading, PublishOccupancy, Inv, TypeOK
    <2>3. PICK th \in Thresholds \cup {DefaultThreshold, TH_DISABLED} : Holds(th)
      BY <2>2 DEF Inv, ArmingInv
    <2> QED
      BY <2>2, <2>3, HeldThreshold
  <1> QED
    BY <1>1, InvHolds, PTL DEF Spec, RaisesOnlyOnChosenThreshold

-----------------------------------------------------------------------------
(***************************************************************************)
(* FireSystem implements FireMonitor: every step of the two boards is a    *)
(* step of the monitor or leaves it unchanged.                             *)
(***************************************************************************)
(* What the work item knows before it clears the source. *)
AnswerInv ==
  /\ pc["work"] \in {"activate", "clear"} => T_OBJ_HIGH \in buf[REG_INT_SRC]
  /\ pc["work"] = "clear" => alarm_active

RefInv == Inv /\ AnswerInv

(* The two threads are never both inside. *)
LEMMA OneInside ==
  ASSUME Inv
  PROVE  pc["main"] \in Outside \/ pc["work"] \in Outside
  BY DEF Inv, SensorLockHeld, Threads

LEMMA AnsweringInside ==
  ASSUME Inv, Answering
  PROVE  pc["main"] \in Outside /\ ~SettingUp
  <1>1. pc["work"] \notin Outside
    BY DEF Answering, Outside
  <1> QED
    BY <1>1, OneInside DEF SettingUp, Outside

(* A step of one thread leaves the other one's program counter alone. *)
LEMMA GotoOther ==
  ASSUME TypeOK, NEW t \in Threads, NEW to, Goto(t, to)
  PROVE  /\ pc'[t] = to
         /\ \A u \in Threads \ {t} : pc'[u] = pc[u]
  BY DEF Goto, TypeOK

-----------------------------------------------------------------------------
(* AnswerInv: main takes no step that disturbs it while the work item      *)
(* holds the lock.                                                         *)
LEMMA AnswerFrame ==
  ASSUME AnswerInv, UNCHANGED buf, alarm_active' = alarm_active,
         pc'["work"] = pc["work"] \/ pc'["work"] \notin {"activate", "clear"}
  PROVE  AnswerInv'
  BY DEF AnswerInv

LEMMA NextAnswer == RefInv /\ [Next]_vars => AnswerInv'
  <1> SUFFICES ASSUME RefInv, [Next]_vars PROVE AnswerInv'
    OBVIOUS
  <1>b. "main" \in Threads /\ "work" \in Threads /\ TypeOK /\ Inv /\ AnswerInv
    BY DEF Threads, RefInv, Inv
  <1>c. \A to : /\ Goto("main", to) => pc'["work"] = pc["work"]
                /\ Goto("work", to) => pc'["work"] = to
    BY <1>b, GotoOther
  <1>d. pc["main"] \notin Outside => pc["work"] \notin {"activate", "clear"}
    BY <1>b, OneInside DEF Outside
  <1>1. CASE Node
    BY <1>1, <1>b, AnswerFrame
    DEF Node, PublishReading, PublishOccupancy, PumpRead, PumpDrive, alarmVars
  <1>2. CASE StartPoll \/ StartSet \/ try_configure \/ Unflash
    BY <1>2, <1>b, <1>c, AnswerFrame DEF StartPoll, StartSet, try_configure, Unflash, alarmVars
  <1>3. CASE MainLock \/ MainUnlock
    BY <1>3, <1>b, <1>c, AnswerFrame DEF MainLock, MainUnlock, Acquire, Release, alarmVars
  <1>4. CASE WorkStart \/ WorkLock \/ WorkUnlock
    BY <1>4, <1>b, <1>c, AnswerFrame
    DEF WorkStart, WorkLock, WorkUnlock, Acquire, Release, alarmVars
  <1>5. CASE MainFetch
    <2>1. pc["main"] \in Fetching /\ pc'["work"] = pc["work"]
      BY <1>5, <1>c DEF MainFetch, sample_fetch, FetchByte, Fetching
    <2> QED
      BY <2>1, <1>d DEF AnswerInv, Fetching, Outside
  <1>6. CASE WorkFetch
    <2>1. pc'["work"] \in {"fetch_lo", "fetch_hi", "fetch_occ", "check", "unlock"}
      BY <1>6, <1>c DEF WorkFetch, sample_fetch, FetchByte
    <2> QED
      BY <2>1 DEF AnswerInv
  <1>7. CASE Disable \/ WriteLow \/ WriteHigh \/ ClearForMain \/ Enable
    BY <1>7, <1>b, <1>c, AnswerFrame
    DEF Disable, WriteLow, WriteHigh, ClearForMain, Enable, MainWrite, Deliver, FailWrite,
        alarmVars
  <1>8. CASE update_fire_alarm_state
    <2>1. pc["main"] = "update" /\ pc'["work"] = pc["work"]
      BY <1>8, <1>c DEF update_fire_alarm_state, StopAlarmIf
    <2> QED
      BY <2>1, <1>d DEF AnswerInv, Outside
  <1>9. CASE CheckSource
    BY <1>9, <1>c DEF CheckSource, AnswerInv
  <1>10. CASE Activate
    BY <1>10, <1>b, <1>c DEF Activate, AnswerInv
  <1>11. CASE ClearForWork
    BY <1>11, <1>c DEF ClearForWork, Deliver, FailWrite, AnswerInv
  <1>12. CASE NodeRestart
    <2>1. pc'["work"] = pc["work"] \/ pc'["work"] = "unlock"
      BY <1>12, <1>b DEF NodeRestart, Fetching, TypeOK, WorkPc
    <2> QED
      BY <1>12, <2>1, <1>b, AnswerFrame DEF NodeRestart, alarmVars
  <1>13. CASE BaseRestart
    BY <1>13 DEF BaseRestart, AnswerInv, Threads
  <1>14. CASE UNCHANGED vars
    BY <1>14, <1>b, AnswerFrame DEF vars, alarmVars
  <1> QED
    BY <1>1, <1>2, <1>3, <1>4, <1>5, <1>6, <1>7, <1>8, <1>9, <1>10, <1>11, <1>12, <1>13, <1>14
    DEF Next, Main, Work

LEMMA RefInvHolds == Spec => []RefInv
  <1>1. Init => RefInv
    BY InitInv DEF RefInv, AnswerInv, Init, Threads
  <1>2. RefInv /\ [Next]_vars => RefInv'
    <2>1. Inv /\ [Next]_vars => Inv'
      BY NextTyped, NextLock, NextFlash, NextArming DEF Inv
    <2> QED
      BY <2>1, NextAnswer DEF RefInv
  <1> QED
    BY <1>1, <1>2, PTL DEF Spec

-----------------------------------------------------------------------------
(* The steps of the monitor. *)

LEMMA Unseen ==
  ASSUME Raised' = Raised, Answering' = Answering, SettingUp' = SettingUp,
         UNCHANGED <<alarm_active, restarts>>
  PROVE  [Monitor!MNext]_(Monitor!mvars)
  BY DEF Monitor!mvars

(* Main's own steps leave what the work item has read alone. *)
LEMMA MainAnswering ==
  ASSUME Inv, NEW to, Goto("main", to), UNCHANGED buf
  PROVE  Answering' = Answering
  <1>1. pc'["work"] = pc["work"]
    BY GotoOther DEF Inv, Threads
  <1> QED
    BY <1>1 DEF Answering

(* The work item's leave main where it is. *)
LEMMA WorkSetting ==
  ASSUME Inv, NEW to, Goto("work", to)
  PROVE  SettingUp' = SettingUp
  <1>1. pc'["main"] = pc["main"]
    BY GotoOther DEF Inv, Threads
  <1> QED
    BY <1>1 DEF SettingUp

LEMMA PublishSeen ==
  ASSUME Inv, PublishReading \/ PublishOccupancy
  PROVE  [Monitor!MNext]_(Monitor!mvars)
  <1>1. /\ regs'[REG_INT_EN] = regs[REG_INT_EN]
        /\ regs'[REG_INT_SRC] # regs[REG_INT_SRC] => regs[REG_INT_EN] # {}
        /\ Raised => Raised'
    BY PublishEffect, PublishKeepsSource, FireAssumption
    DEF PublishReading, PublishOccupancy, Inv, TypeOK, Raised
  <1>2. Answering' = Answering /\ SettingUp' = SettingUp /\ UNCHANGED <<alarm_active, restarts>>
    BY DEF PublishReading, PublishOccupancy, Answering, SettingUp, alarmVars
  <1>3. regs[REG_INT_EN] # {} => ~SettingUp
    BY DEF Inv, ArmingInv, SettingUp
  <1>4. CASE regs'[REG_INT_SRC] = regs[REG_INT_SRC]
    BY <1>2, <1>4, Unseen DEF Raised
  <1>5. CASE regs'[REG_INT_SRC] # regs[REG_INT_SRC]
    <2>1. ~SettingUp /\ Raised'
      BY <1>1, <1>3, <1>5 DEF Raised
    <2>2. CASE Raised
      BY <1>2, <2>1, <2>2, Unseen
    <2>3. CASE ~Raised
      <3>1. Monitor!Raise
        BY <1>2, <2>1, <2>3 DEF Monitor!Raise
      <3> QED
        BY <3>1 DEF Monitor!MNext
    <2> QED
      BY <2>2, <2>3
  <1> QED
    BY <1>4, <1>5

(* A write to a register of the fire interrupt, by main. *)
LEMMA SetUpSeen ==
  ASSUME Inv, NEW a \in {REG_INT_EN, REG_T_OBJ_HIGH_0, REG_T_OBJ_HIGH_0 + 1, REG_INT_SRC}, NEW v,
         a = REG_INT_SRC => v = {},
         NEW from \in ConfigPc, NEW to,
         \/ Deliver("main", from, a, v, to)
         \/ FailWrite("main", from, a, v, to)
  PROVE  [Monitor!MNext]_(Monitor!mvars)
  <1>1. regmap_write(a, v) \/ UNCHANGED regs
    BY DEF Deliver, FailWrite, regVars
  <1>2. Raised' => Raised
    <2>1. CASE UNCHANGED regs
      BY <2>1 DEF Raised
    <2>2. CASE regmap_write(a, v) /\ a = REG_INT_SRC
      <3>1. regmap_write(REG_INT_SRC, {})
        BY <2>2
      <3>2. regs'[REG_INT_SRC] = {}
        BY <3>1, ClearKeepsArming DEF Inv
      <3> QED
        BY <3>2 DEF Raised
    <2>3. CASE regmap_write(a, v) /\ a # REG_INT_SRC
      <3>1. regs'[REG_INT_SRC] = regs[REG_INT_SRC]
        <4>1. a \in {REG_INT_EN, REG_T_OBJ_HIGH_0, REG_T_OBJ_HIGH_0 + 1} /\ TypeOK
          BY <2>3 DEF Inv
        <4>2. \A b \in {REG_INT_SRC, REG_INT_EN, REG_T_OBJ_HIGH_0, REG_T_OBJ_HIGH_0 + 1} :
                b # a => regs'[b] = regs[b]
          BY <2>3, <4>1, ConfigWriteEffect
        <4> QED
          BY <2>3, <4>2
      <3> QED
        BY <3>1 DEF Raised
    <2> QED
      BY <1>1, <2>1, <2>2, <2>3
  <1>3. Answering' = Answering
    BY MainAnswering DEF Deliver, FailWrite
  <1>4. SettingUp
    BY DEF Deliver, FailWrite, SettingUp, ConfigPc
  <1>5. UNCHANGED <<alarm_active, restarts>>
    BY DEF Deliver, FailWrite, alarmVars
  <1>6. SettingUp' \in BOOLEAN
    BY DEF SettingUp
  <1>7. Raised' \in {Raised, FALSE}
    BY <1>2 DEF Raised
  <1>8. Monitor!SetUp
    BY <1>3, <1>4, <1>5, <1>6, <1>7 DEF Monitor!SetUp
  <1> QED
    BY <1>8 DEF Monitor!MNext

LEMMA DisableSeen ==
  ASSUME Inv, Disable
  PROVE  [Monitor!MNext]_(Monitor!mvars)
  <1>1. pc["main"] = "disable" /\ UNCHANGED <<alarm_active, restarts>> /\ UNCHANGED buf
    BY DEF Disable, MainWrite, Deliver, FailWrite, alarmVars
  <1>2. regmap_write(REG_INT_EN, {}) \/ UNCHANGED regs
    BY DEF Disable, MainWrite, Deliver, FailWrite, regVars
  <1>3. Raised' = Raised
    <2>1. CASE regmap_write(REG_INT_EN, {})
      BY <2>1, ConfigWriteEffect, RegisterAddresses DEF Inv, Raised
    <2> QED
      BY <1>2, <2>1 DEF Raised
  <1>4. ~Answering
    BY <1>1, AnsweringInside DEF Outside
  <1>5. Answering' = Answering
    BY MainAnswering DEF Disable, MainWrite, Deliver, FailWrite
  <1>6. ~SettingUp
    BY <1>1 DEF SettingUp
  <1>7. CASE SettingUp'
    <2>1. Monitor!Disarm
      BY <1>1, <1>3, <1>4, <1>5, <1>6, <1>7 DEF Monitor!Disarm
    <2> QED
      BY <2>1 DEF Monitor!MNext
  <1>8. CASE ~SettingUp'
    <2>1. SettingUp' = SettingUp
      BY <1>6, <1>8 DEF SettingUp
    <2> QED
      BY <1>1, <1>3, <1>5, <2>1, Unseen
  <1> QED
    BY <1>7, <1>8

(* Main's steps outside the configuration. *)
LEMMA MainSeen ==
  ASSUME Inv,
         \/ StartPoll \/ StartSet \/ MainLock \/ MainFetch \/ try_configure
         \/ update_fire_alarm_state \/ Unflash \/ MainUnlock
  PROVE  [Monitor!MNext]_(Monitor!mvars)
  <1>1. Raised' = Raised /\ restarts' = restarts
    BY DEF StartPoll, StartSet, MainLock, MainFetch, try_configure, update_fire_alarm_state,
           StopAlarmIf, Unflash, MainUnlock, Acquire, Release, sample_fetch, FetchByte,
           regVars, Raised
  <1>2. SettingUp' = SettingUp
    <2>1. pc["main"] \notin ConfigPc
      BY DEF StartPoll, StartSet, MainLock, MainFetch, try_configure, update_fire_alarm_state,
             StopAlarmIf, Unflash, MainUnlock, Acquire, Release, sample_fetch, FetchByte,
             ConfigPc
    <2>2. \A to : Goto("main", to) => pc'["main"] = to
      BY GotoOther DEF Inv, Threads
    <2>3. AfterConfigure \notin ConfigPc /\ AfterMainLock \notin ConfigPc
      BY DEF AfterConfigure, AfterMainLock, ConfigPc, Inv, TypeOK
    <2>4. pc'["main"] \notin ConfigPc
      BY <2>2, <2>3
      DEF StartPoll, StartSet, MainLock, MainFetch, try_configure, update_fire_alarm_state,
          StopAlarmIf, Unflash, MainUnlock, Acquire, Release, sample_fetch, FetchByte,
          ConfigPc
    <2> QED
      BY <2>1, <2>4 DEF SettingUp, ConfigPc
  <1>3. CASE StartPoll \/ StartSet \/ MainLock \/ try_configure \/ Unflash \/ MainUnlock
    <2>1. Answering' = Answering
      BY <1>3, MainAnswering
      DEF StartPoll, StartSet, MainLock, try_configure, Unflash, MainUnlock, Acquire, Release
    <2>2. alarm_active' = alarm_active
      BY <1>3
      DEF StartPoll, StartSet, MainLock, try_configure, Unflash, MainUnlock, Acquire, Release,
          alarmVars
    <2> QED
      BY <1>1, <1>2, <2>1, <2>2, Unseen
  <1>4. CASE MainFetch
    <2>1. pc["main"] \notin Outside /\ alarm_active' = alarm_active
      BY <1>4 DEF MainFetch, sample_fetch, FetchByte, Outside, alarmVars
    <2>2. pc["work"] \in Outside /\ pc'["work"] = pc["work"]
      BY <1>4, <2>1, OneInside, GotoOther
      DEF MainFetch, sample_fetch, FetchByte, Inv, Threads
    <2>3. Answering = FALSE /\ Answering' = FALSE
      BY <2>2 DEF Answering, Outside
    <2> QED
      BY <1>1, <1>2, <2>1, <2>3, Unseen
  <1>5. CASE update_fire_alarm_state
    <2>1. Answering' = Answering
      BY <1>5, MainAnswering DEF update_fire_alarm_state, StopAlarmIf
    <2>2. ~Answering /\ ~SettingUp
      BY <1>5, AnsweringInside DEF update_fire_alarm_state, StopAlarmIf, Outside, SettingUp
    <2>3. alarm_active' = alarm_active \/ (alarm_active /\ alarm_active' = FALSE)
      BY <1>5 DEF update_fire_alarm_state, StopAlarmIf
    <2>4. CASE alarm_active' = alarm_active
      BY <1>1, <1>2, <2>1, <2>4, Unseen
    <2>5. CASE alarm_active /\ alarm_active' = FALSE
      <3>1. Monitor!Stop
        BY <1>1, <1>2, <2>1, <2>2, <2>5 DEF Monitor!Stop
      <3> QED
        BY <3>1 DEF Monitor!MNext
    <2> QED
      BY <2>3, <2>4, <2>5
  <1> QED
    BY <1>3, <1>4, <1>5 DEF Main

-----------------------------------------------------------------------------
(* The work item's steps. *)

LEMMA ReadSource ==
  ASSUME Inv, FetchByte("work", "fetch_src", REG_INT_SRC, "fetch_lo")
  PROVE  [Monitor!MNext]_(Monitor!mvars)
  <1>1. Raised' = Raised /\ UNCHANGED <<alarm_active, restarts>> /\ SettingUp' = SettingUp
    BY WorkSetting DEF FetchByte, regVars, Raised, alarmVars
  <1>2. ~Answering
    BY DEF FetchByte, Answering
  <1>3. ~SettingUp
    BY OneInside DEF FetchByte, SettingUp, Outside
  <1>4. pc'["work"] \in {"fetch_lo", "unlock"}
    BY GotoOther DEF FetchByte, Inv, Threads
  <1>5. CASE Answering'
    <2>1. buf' = [buf EXCEPT ![REG_INT_SRC] = regs[REG_INT_SRC]]
      <3>1. pc'["work"] = "fetch_lo"
        BY <1>4, <1>5 DEF Answering
      <3>2. ~Goto("work", "unlock")
        BY <3>1, GotoOther DEF Inv, Threads
      <3> QED
        BY <3>2 DEF FetchByte
    <2>2. T_OBJ_HIGH \in regs[REG_INT_SRC]
      BY <1>5, <2>1 DEF Answering, Inv, TypeOK, SnapshotRegs
    <2>3. Raised
      BY <2>2 DEF Raised
    <2>4. Monitor!Tell
      BY <1>1, <1>2, <1>3, <1>5, <2>3 DEF Monitor!Tell, Answering
    <2> QED
      BY <2>4 DEF Monitor!MNext
  <1>6. CASE ~Answering'
    <2>1. Answering' = Answering
      BY <1>2, <1>6 DEF Answering
    <2> QED
      BY <1>1, <2>1, Unseen
  <1> QED
    BY <1>5, <1>6

(* The other bytes of the burst, and the step that gives the source up.    *)
LEMMA WorkUnseen ==
  ASSUME Inv, Raised' = Raised, SettingUp' = SettingUp, UNCHANGED <<alarm_active, restarts>>,
         Answering' => Answering
  PROVE  [Monitor!MNext]_(Monitor!mvars)
  <1>1. CASE Answering /\ ~Answering'
    <2>1. Answering' = FALSE
      BY <1>1 DEF Answering
    <2>2. Monitor!GiveUp
      BY <1>1, <2>1 DEF Monitor!GiveUp
    <2> QED
      BY <2>2 DEF Monitor!MNext
  <1>2. CASE Answering' = Answering
    BY <1>2, Unseen
  <1> QED
    BY <1>1, <1>2 DEF Answering

LEMMA ReadRest ==
  ASSUME Inv, NEW from \in {"fetch_lo", "fetch_hi", "fetch_occ"},
         NEW a \in SnapshotRegs \ {REG_INT_SRC}, NEW to,
         FetchByte("work", from, a, to)
  PROVE  [Monitor!MNext]_(Monitor!mvars)
  <1>1. Raised' = Raised /\ UNCHANGED <<alarm_active, restarts>> /\ SettingUp' = SettingUp
    BY WorkSetting DEF FetchByte, regVars, Raised, alarmVars
  <1>2. buf'[REG_INT_SRC] = buf[REG_INT_SRC]
    <2>1. a # REG_INT_SRC /\ (buf' = buf \/ buf' = [buf EXCEPT ![a] = regs[a]])
      BY DEF FetchByte
    <2> QED
      BY <2>1 DEF Inv, TypeOK, SnapshotRegs
  <1>3. Answering' => Answering
    BY <1>2 DEF FetchByte, Answering
  <1> QED
    BY <1>1, <1>3, WorkUnseen

LEMMA WorkSeen ==
  ASSUME RefInv, Work
  PROVE  [Monitor!MNext]_(Monitor!mvars)
  <1>i. Inv /\ AnswerInv
    BY DEF RefInv
  <1>c. \A to : Goto("work", to) => pc'["work"] = to /\ SettingUp' = SettingUp
    BY <1>i, GotoOther, WorkSetting DEF Inv, Threads
  <1>1. CASE WorkStart \/ WorkLock \/ WorkUnlock
    <2>1. Raised' = Raised /\ UNCHANGED <<alarm_active, restarts>> /\ SettingUp' = SettingUp
      BY <1>1, <1>c
      DEF WorkStart, WorkLock, WorkUnlock, Acquire, Release, regVars, Raised, alarmVars
    <2>2. pc'["work"] \in {"lock", "fetch_src", "idle"}
      BY <1>1, <1>c DEF WorkStart, WorkLock, WorkUnlock, Acquire, Release
    <2>3. ~Answering'
      BY <2>2 DEF Answering
    <2> QED
      BY <1>i, <2>1, <2>3, WorkUnseen
  <1>2. CASE WorkFetch
    <2>1. CASE FetchByte("work", "fetch_src", REG_INT_SRC, "fetch_lo")
      BY <1>i, <2>1, ReadSource
    <2>2. {REG_MLX_OBJ_0, REG_MLX_OBJ_0 + 1, REG_MMW_PRESENT} \subseteq SnapshotRegs \ {REG_INT_SRC}
      BY DEF SnapshotRegs, REG_INT_SRC, REG_MLX_OBJ_0, REG_MMW_PRESENT
    <2> QED
      BY <1>2, <1>i, <2>1, <2>2, ReadRest DEF WorkFetch, sample_fetch
  <1>3. CASE CheckSource
    <2>1. Raised' = Raised /\ UNCHANGED <<alarm_active, restarts>> /\ SettingUp' = SettingUp
      BY <1>3, <1>c DEF CheckSource, regVars, Raised
    <2>2. Answering' => Answering
      BY <1>3 DEF CheckSource, Answering
    <2> QED
      BY <1>i, <2>1, <2>2, WorkUnseen
  <1>4. CASE Activate
    <2>1. Answering /\ Answering'
      BY <1>4, <1>c, <1>i DEF Activate, Answering, AnswerInv
    <2>2. Raised' = Raised /\ SettingUp' = SettingUp /\ restarts' = restarts /\ alarm_active' = TRUE
      BY <1>4, <1>c DEF Activate, regVars, Raised
    <2>3. Answering' = Answering
      BY <2>1 DEF Answering
    <2>4. Monitor!Sound
      BY <2>1, <2>2, <2>3 DEF Monitor!Sound
    <2> QED
      BY <2>4 DEF Monitor!MNext
  <1>5. CASE ClearForWork
    <2>1. /\ Answering /\ alarm_active /\ SettingUp' = SettingUp
          /\ UNCHANGED <<alarm_active, restarts>> /\ pc'["work"] = "unlock"
      BY <1>5, <1>c, <1>i
      DEF ClearForWork, Deliver, FailWrite, Answering, AnswerInv, alarmVars
    <2>2. Answering' = FALSE
      BY <2>1 DEF Answering
    <2>3. regmap_write(REG_INT_SRC, {}) \/ UNCHANGED regs
      BY <1>5 DEF ClearForWork, Deliver, FailWrite, regVars
    <2>4. CASE regmap_write(REG_INT_SRC, {})
      <3>1. Raised' = FALSE
        BY <2>4, <1>i, ClearKeepsArming DEF Inv, Raised
      <3>2. Monitor!Answer
        BY <2>1, <2>2, <3>1 DEF Monitor!Answer
      <3> QED
        BY <3>2 DEF Monitor!MNext
    <2>5. CASE UNCHANGED regs
      <3>1. Raised' = Raised
        BY <2>5 DEF Raised
      <3> QED
        BY <1>i, <2>1, <2>2, <3>1, WorkUnseen
    <2> QED
      BY <2>3, <2>4, <2>5
  <1> QED
    BY <1>1, <1>2, <1>3, <1>4, <1>5 DEF Work

-----------------------------------------------------------------------------
LEMMA RestartSeen ==
  ASSUME Inv, NodeRestart \/ BaseRestart
  PROVE  [Monitor!MNext]_(Monitor!mvars)
  <1>1. CASE NodeRestart
    <2>1. Raised' = FALSE
      BY <1>1, ResetEffect DEF NodeRestart, regmap_init, Raised
    <2>2. restarts' = restarts + 1 /\ alarm_active' = alarm_active
      BY <1>1 DEF NodeRestart, alarmVars
    <2>3. Answering' \in {Answering, FALSE}
      <3>1. pc'["work"] = pc["work"] \/ pc'["work"] = "unlock"
        BY <1>1 DEF NodeRestart, Fetching, Threads, Inv, TypeOK, WorkPc
      <3> QED
        BY <1>1, <3>1 DEF NodeRestart, Answering
    <2>4. SettingUp' \in {SettingUp, FALSE}
      <3>1. pc'["main"] = pc["main"] \/ pc'["main"] \in {"update", "unlock"}
        BY <1>1 DEF NodeRestart, Fetching, AfterConfigure, Threads, Inv, TypeOK, MainPc
      <3>2. CASE pc'["main"] = pc["main"]
        BY <3>2 DEF SettingUp
      <3>3. CASE pc'["main"] \in {"update", "unlock"}
        <4>1. SettingUp' = FALSE
          BY <3>3 DEF SettingUp
        <4> QED
          BY <4>1
      <3> QED
        BY <3>1, <3>2, <3>3
    <2>5. Monitor!NodeRestarts
      BY <2>1, <2>2, <2>3, <2>4 DEF Monitor!NodeRestarts
    <2> QED
      BY <2>5 DEF Monitor!MNext
  <1>2. CASE BaseRestart
    <2>1. /\ Raised' = Raised /\ Answering' = FALSE /\ SettingUp' = FALSE
          /\ restarts' = restarts + 1 /\ alarm_active' = FALSE
      BY <1>2 DEF BaseRestart, Raised, Answering, SettingUp, Threads, regVars
    <2>2. Monitor!BaseRestarts
      BY <2>1 DEF Monitor!BaseRestarts
    <2> QED
      BY <2>2 DEF Monitor!MNext
  <1> QED
    BY <1>1, <1>2

LEMMA StepSeen == RefInv /\ [Next]_vars => [Monitor!MNext]_(Monitor!mvars)
  <1> SUFFICES ASSUME RefInv, [Next]_vars PROVE [Monitor!MNext]_(Monitor!mvars)
    OBVIOUS
  <1>i. Inv
    BY DEF RefInv
  <1>1. CASE PublishReading \/ PublishOccupancy
    BY <1>1, <1>i, PublishSeen
  <1>2. CASE PumpRead \/ PumpDrive \/ UNCHANGED vars
    <2>1. /\ Raised' = Raised /\ Answering' = Answering /\ SettingUp' = SettingUp
          /\ UNCHANGED <<alarm_active, restarts>>
      BY <1>2 DEF PumpRead, PumpDrive, vars, regVars, alarmVars, Raised, Answering, SettingUp
    <2> QED
      BY <2>1, Unseen
  <1>3. CASE \/ StartPoll \/ StartSet \/ MainLock \/ MainFetch \/ try_configure
             \/ update_fire_alarm_state \/ Unflash \/ MainUnlock
    BY <1>3, <1>i, MainSeen
  <1>4. CASE Disable
    BY <1>4, <1>i, DisableSeen
  <1>5. CASE WriteLow \/ WriteHigh \/ ClearForMain \/ Enable
    BY <1>5, <1>i, SetUpSeen
    DEF WriteLow, WriteHigh, ClearForMain, Enable, MainWrite, ConfigPc, REG_INT_SRC,
        REG_INT_EN, REG_T_OBJ_HIGH_0
  <1>6. CASE Work
    BY <1>6, WorkSeen
  <1>7. CASE NodeRestart \/ BaseRestart
    BY <1>7, <1>i, RestartSeen
  <1> QED
    BY <1>1, <1>2, <1>3, <1>4, <1>5, <1>6, <1>7 DEF Next, Node, Main

(* The two boards, with their bus, line and queue, keep the monitor's      *)
(* promise: for every radix, set of readings and thresholds, and any       *)
(* number of transfer errors and restarts.                                 *)
THEOREM RefinesMonitor == Spec => ImplementsMonitor
  <1>1. Init => Monitor!MInit
    BY ResetEffect
    DEF Init, RegInit, Monitor!MInit, Raised, Answering, SettingUp, Threads
  <1> QED
    BY <1>1, StepSeen, RefInvHolds, PTL DEF Spec, ImplementsMonitor, Monitor!MSpec

-----------------------------------------------------------------------------
(***************************************************************************)
(* The history of an interrupt and of an alarm (FireSystemHistory).        *)
(***************************************************************************)

(* The system with history takes the steps of the system. *)
LEMMA HistoryRefines == HSpec => Spec
  <1>1. HInit => Init
    BY DEF HInit
  <1>2. [HNext]_hvars => [Next]_vars
    BY DEF HNext, hvars
  <1> QED
    BY <1>1, <1>2, PTL DEF HSpec, Spec

-----------------------------------------------------------------------------
(* Nothing is pending when main is about to arm the node: the source has   *)
(* been cleared, and a node that is disarmed does not raise it again.      *)
ClearedBeforeArmed == pc["main"] = "enable" => regs[REG_INT_SRC] = {}

RaisedInv == ClearedBeforeArmed /\ PendingIrqIsForCurrentThreshold

LEMMA MainPcStep ==
  ASSUME Inv, Next, pc'["main"] = "enable"
  PROVE  pc["main"] = "enable" \/ Deliver("main", "clear", REG_INT_SRC, {}, "enable")
  <1>1. \A to : /\ Goto("main", to) => pc'["main"] = to
                /\ Goto("work", to) => pc'["main"] = pc["main"]
    BY GotoOther DEF Inv, Threads
  <1>2. AfterConfigure # "enable" /\ AfterMainLock # "enable"
    BY DEF AfterConfigure, AfterMainLock, Inv, TypeOK
  <1>3. CASE Node
    BY <1>3 DEF Node, PublishReading, PublishOccupancy, PumpRead, PumpDrive
  <1>4. CASE Main
    <2>1. CASE ClearForMain
      BY <2>1, <1>1, <1>2 DEF ClearForMain, MainWrite, FailWrite
    <2> QED
      BY <1>1, <1>2, <1>4, <2>1
      DEF Main, StartPoll, StartSet, MainLock, MainFetch, sample_fetch, FetchByte, try_configure,
          Disable, WriteLow, WriteHigh, Enable, MainWrite, Deliver, FailWrite,
          update_fire_alarm_state, StopAlarmIf, Unflash, MainUnlock, Acquire, Release
  <1>5. CASE Work
    BY <1>1, <1>5
    DEF Work, WorkStart, WorkLock, WorkFetch, sample_fetch, FetchByte, CheckSource, Activate,
        ClearForWork, Deliver, FailWrite, WorkUnlock, Acquire, Release
  <1>6. CASE NodeRestart
    BY <1>6 DEF NodeRestart, Threads, AfterConfigure
  <1>7. CASE BaseRestart
    BY <1>7 DEF BaseRestart, Threads
  <1> QED
    BY <1>3, <1>4, <1>5, <1>6, <1>7 DEF Next

LEMMA NextCleared == Inv /\ ClearedBeforeArmed /\ [Next]_vars => ClearedBeforeArmed'
  <1> SUFFICES ASSUME Inv, ClearedBeforeArmed, [Next]_vars, pc'["main"] = "enable"
               PROVE  regs'[REG_INT_SRC] = {}
    BY DEF ClearedBeforeArmed
  <1>1. CASE UNCHANGED vars
    BY <1>1 DEF vars, regVars, ClearedBeforeArmed
  <1>2. CASE Deliver("main", "clear", REG_INT_SRC, {}, "enable")
    BY <1>2, ClearKeepsArming DEF Deliver, Inv
  <1>3. CASE Next /\ pc["main"] = "enable"
    <2>1. regs[REG_INT_SRC] = {} /\ regs[REG_INT_EN] = {}
      BY <1>3 DEF ClearedBeforeArmed, Inv, ArmingInv
    <2>2. CASE PublishReading \/ PublishOccupancy
      BY <2>1, <2>2, PublishEffect, FireAssumption
      DEF PublishReading, PublishOccupancy, Inv, TypeOK
    <2> QED
      BY <1>3, <2>1, <2>2, OnlyPublishingRaises DEF Inv
  <1> QED
    BY <1>1, <1>2, <1>3, MainPcStep

(* What main believes changes when it has written a whole threshold, or    *)
(* when the base station restarts; that it has armed the node, when it has *)
(* written INT_EN.                                                         *)
LEMMA BeliefStep ==
  ASSUME Inv, Next, ~(UNCHANGED confVars)
  PROVE  \/ /\ pc'["main"] = "clear"
            /\ UNCHANGED <<regs[REG_INT_SRC], interrupt_demo_configured>>
            /\ pc["main"] = "write_hi" /\ fire_threshold' = target
         \/ pc["main"] = "enable" /\ UNCHANGED fire_threshold
         \/ BaseRestart
  <1>1. CASE Node
    BY <1>1 DEF Node, PublishReading, PublishOccupancy, PumpRead, PumpDrive
  <1>2. CASE Work
    BY <1>2
    DEF Work, WorkStart, WorkLock, WorkFetch, sample_fetch, FetchByte, CheckSource, Activate,
        ClearForWork, FailWrite, WorkUnlock, Acquire, Release
  <1>3. CASE NodeRestart
    BY <1>3 DEF NodeRestart
  <1>4. CASE Enable
    BY <1>4 DEF Enable, Deliver, FailWrite
  <1>5. CASE WriteHigh
    <2>1. /\ Deliver("main", "write_hi", REG_T_OBJ_HIGH_0 + 1, High(target), "clear")
          /\ fire_threshold' = target /\ UNCHANGED interrupt_demo_configured
      BY <1>5 DEF WriteHigh, FailWrite
    <2>2. regs'[REG_INT_SRC] = regs[REG_INT_SRC]
      BY <2>1, DeliveredWrite, ConfigWriteEffect DEF Inv, REG_T_OBJ_HIGH_0, REG_INT_SRC, REG_INT_EN
    <2> QED
      BY <2>1, <2>2, DeliveredWrite DEF Inv
  <1>6. CASE Main /\ ~WriteHigh /\ ~Enable
    BY <1>6
    DEF Main, StartPoll, StartSet, MainLock, MainFetch, sample_fetch, FetchByte, try_configure,
        Disable, WriteLow, ClearForMain, MainWrite, FailWrite,
        update_fire_alarm_state, StopAlarmIf, Unflash, MainUnlock, Acquire, Release
  <1> QED
    BY <1>1, <1>2, <1>3, <1>4, <1>5, <1>6 DEF Next

LEMMA FaultsGrow ==
  ASSUME Inv, Next
  PROVE  /\ faults' = 0 => faults = 0
         /\ restarts' = 0 => restarts = 0
  <1>1. faults \in Nat /\ restarts \in Nat
    BY FireAssumption DEF Inv, TypeOK
  <1>2. faults' \in {faults, faults + 1} /\ restarts' \in {restarts, restarts + 1}
    <2>1. CASE Node
      BY <2>1 DEF Node, PublishReading, PublishOccupancy, PumpRead, PumpDrive
    <2>2. CASE Work
      BY <2>2
      DEF Work, WorkStart, WorkLock, WorkFetch, sample_fetch, FetchByte, CheckSource, Activate,
          ClearForWork, Deliver, FailWrite, Fault, WorkUnlock, Acquire, Release
    <2>3. CASE Main
      BY <2>3
      DEF Main, StartPoll, StartSet, MainLock, MainFetch, sample_fetch, FetchByte, try_configure,
          Disable, WriteLow, WriteHigh, ClearForMain, Enable, MainWrite, Deliver, FailWrite, Fault,
          update_fire_alarm_state, StopAlarmIf, Unflash, MainUnlock, Acquire, Release
    <2>4. CASE NodeRestart \/ BaseRestart
      BY <2>4 DEF NodeRestart, BaseRestart
    <2> QED
      BY <2>1, <2>2, <2>3, <2>4 DEF Next
  <1> QED
    BY <1>1, <1>2

(* Main leaves the clearing write with the source cleared, or with a fault. *)
LEMMA LeavesClear ==
  ASSUME Inv, Next, pc["main"] = "clear", pc'["main"] # "clear"
  PROVE  regs'[REG_INT_SRC] = {} \/ faults' = faults + 1 \/ restarts' = restarts + 1
  <1>1. \A to : Goto("work", to) => pc'["main"] = pc["main"]
    BY GotoOther DEF Inv, Threads
  <1>2. ~Node
    BY DEF Node, PublishReading, PublishOccupancy, PumpRead, PumpDrive
  <1>3. ~Work
    BY <1>1
    DEF Work, WorkStart, WorkLock, WorkFetch, sample_fetch, FetchByte, CheckSource, Activate,
        ClearForWork, Deliver, FailWrite, WorkUnlock, Acquire, Release
  <1>4. CASE ClearForMain
    BY <1>4, ClearKeepsArming DEF ClearForMain, MainWrite, Deliver, FailWrite, Fault, Inv
  <1>5. CASE Main /\ ~ClearForMain
    BY <1>5
    DEF Main, StartPoll, StartSet, MainLock, MainFetch, sample_fetch, FetchByte, try_configure,
        Disable, WriteLow, WriteHigh, Enable, MainWrite, Deliver, FailWrite,
        update_fire_alarm_state, StopAlarmIf, Unflash, MainUnlock, Acquire, Release
  <1>6. CASE NodeRestart \/ BaseRestart
    BY <1>6 DEF NodeRestart, BaseRestart
  <1> QED
    BY <1>2, <1>3, <1>4, <1>5, <1>6 DEF Next

(* An armed node raises the interrupt on the threshold main believes in.   *)
LEMMA RaisesOnBelieved ==
  ASSUME Inv, Next, regs[REG_INT_SRC] = {}, regs'[REG_INT_SRC] # {}, interrupt_demo_configured
  PROVE  Threshold = fire_threshold
  <1>1. PublishReading \/ PublishOccupancy
    BY OnlyPublishingRaises DEF Inv
  <1>2. regs[REG_INT_EN] # {} /\ Threshold # TH_DISABLED
    BY <1>1, PublishEffect, FireAssumption DEF PublishReading, PublishOccupancy, Inv, TypeOK
  <1>3. Holds(fire_threshold) \/ Holds(TH_DISABLED)
    BY <1>2 DEF Inv, ArmingInv
  <1>4. fire_threshold \in Thresholds \cup {DefaultThreshold}
    BY DEF Inv, TypeOK
  <1> QED
    BY <1>2, <1>3, <1>4, HeldThreshold

LEMMA NextPending == Inv /\ RaisedInv /\ [HNext]_hvars => PendingIrqIsForCurrentThreshold'
  <1> SUFFICES ASSUME Inv, RaisedInv, [HNext]_hvars,
                      faults' = 0, restarts' = 0, interrupt_demo_configured',
                      pc'["main"] # "clear", regs'[REG_INT_SRC] # {}
               PROVE  raised_for' = fire_threshold'
    BY DEF PendingIrqIsForCurrentThreshold
  <1>1. CASE UNCHANGED hvars
    BY <1>1 DEF hvars, vars, regVars, confVars, RaisedInv, PendingIrqIsForCurrentThreshold
  <1>2. CASE HNext
    <2>1. Next /\ faults = 0 /\ restarts = 0
      BY <1>2, FaultsGrow DEF HNext
    <2>2. pc["main"] # "clear"
      BY <2>1, LeavesClear
    <2>3. CASE regs[REG_INT_SRC] # {}
      <3>1. UNCHANGED confVars
        <4>1. pc["main"] # "enable" /\ ~BaseRestart
          BY <2>1, <2>3 DEF RaisedInv, ClearedBeforeArmed, BaseRestart
        <4> QED
          BY <2>1, <4>1, BeliefStep
      <3>2. raised_for' = raised_for
        BY <1>2, <2>3 DEF HNext, Observe
      <3> QED
        BY <2>1, <2>2, <2>3, <3>1, <3>2
        DEF confVars, RaisedInv, PendingIrqIsForCurrentThreshold
    <2>4. CASE regs[REG_INT_SRC] = {}
      <3>1. raised_for' = Threshold
        BY <1>2, <2>4 DEF HNext, Observe
      <3>2. UNCHANGED confVars
        BY <2>1, <2>4, OnlyPublishingRaises DEF Inv, PublishReading, PublishOccupancy
      <3> QED
        BY <2>1, <2>4, <3>1, <3>2, RaisesOnBelieved DEF confVars
    <2> QED
      BY <2>3, <2>4
  <1> QED
    BY <1>1, <1>2

(* An interrupt that is pending outside a reconfiguration was raised on    *)
(* the threshold in force, as long as no transfer failed and no board      *)
(* restarted.                                                              *)
THEOREM PendingIsCurrent == HSpec => []PendingIrqIsForCurrentThreshold
  <1>1. HInit => RaisedInv
    BY ResetEffect
    DEF HInit, Init, RegInit, RaisedInv, ClearedBeforeArmed, PendingIrqIsForCurrentThreshold
  <1>2. Inv /\ RaisedInv /\ [HNext]_hvars => RaisedInv'
    <2>1. [HNext]_hvars => [Next]_vars
      BY DEF HNext, hvars
    <2> QED
      BY <2>1, NextCleared, NextPending DEF RaisedInv
  <1>3. HSpec => []Inv
    BY HistoryRefines, InvHolds, PTL
  <1>4. RaisedInv => PendingIrqIsForCurrentThreshold
    BY DEF RaisedInv
  <1> QED
    BY <1>1, <1>2, <1>3, <1>4, PTL DEF HSpec

-----------------------------------------------------------------------------
(* Why an alarm outlasts the heat.  The snapshot's two bytes of the object *)
(* temperature may come from two readings.  Untorn: such a mixture is not  *)
(* cooler than both of them (the run torn_reading shows what happens if it *)
(* is).  0 is what the registers hold before the first reading.            *)
Temperatures == Readings \cup {0}

Untorn ==
  \A r1, r2 \in Temperatures :
    Signed(Low(r1), High(r2)) >= r1 \/ Signed(Low(r1), High(r2)) >= r2

(* Readings of one high byte cannot be torn. *)
LEMMA OneHighByteUntorn ==
  (\A r1, r2 \in Temperatures : High(r1) = High(r2)) => Untorn
  <1> SUFFICES ASSUME \A r1, r2 \in Temperatures : High(r1) = High(r2),
                      NEW r1 \in Temperatures, NEW r2 \in Temperatures
               PROVE  Signed(Low(r1), High(r2)) >= r1
    BY DEF Untorn
  <1>1. r1 \in Int2 /\ r1 \in Int
    BY ReadingsAssumption, ZeroTyped DEF Temperatures, Int2
  <1>2. Signed(Low(r1), High(r2)) = r1
    BY <1>1, RoundTrip
  <1> QED
    BY <1>1, <1>2

ObjectMeasured == \E obj \in Temperatures : ObjectHeld(obj)

(* While the alarm has not been cool for a moment, each byte of main's     *)
(* snapshot is of a temperature above the threshold.                       *)
PollPc == {"fetch_hi", "fetch_occ", "retry", "update"} \cup Writing

SnapshotIsHot ==
  (restarts = 0 /\ task = "poll" /\ alarm_active /\ ~cooled /\ pc["main"] \in PollPc) =>
    /\ \E r \in Temperatures : r > fire_threshold /\ buf[REG_MLX_OBJ_0] = Low(r)
    /\ pc["main"] # "fetch_hi" =>
         \E r \in Temperatures : r > fire_threshold /\ buf[REG_MLX_OBJ_0 + 1] = High(r)

(* A poll writes the threshold it found.                                   *)
PollKeepsThreshold == (task = "poll" /\ pc["main"] \in Writing) => target = fire_threshold

UpdatesInPoll == pc["main"] = "update" => task = "poll"

HeatInv == ObjectMeasured /\ SnapshotIsHot /\ PollKeepsThreshold /\ UpdatesInPoll

LEMMA ObjectStep ==
  ASSUME Inv, Next
  PROVE  \/ \E obj \in Readings : ObjectHeld(obj)'
         \/ ObjectHeld(0)'
         \/ /\ regs'[REG_MLX_OBJ_0] = regs[REG_MLX_OBJ_0]
            /\ regs'[REG_MLX_OBJ_0 + 1] = regs[REG_MLX_OBJ_0 + 1]
  <1>1. RegTypeOK
    BY DEF Inv, TypeOK
  <1>2. CASE PublishReading
    BY <1>1, <1>2, ObjectPublished DEF PublishReading
  <1>3. CASE PublishOccupancy
    BY <1>1, <1>3, ObjectUntouched DEF PublishOccupancy
  <1>4. CASE NodeRestart
    <2>1. ObjectHeld(0)'
      BY <1>4, ObjectReset DEF NodeRestart, regmap_init, ObjectHeld, Low, High
    <2> QED
      BY <2>1
  <1>5. CASE \E a \in Addr : \E v : regmap_write(a, v)
    BY <1>1, <1>5, ObjectUntouched
  <1>6. CASE UNCHANGED regVars
    BY <1>1, <1>6, ObjectUntouched
  <1>7. ASSUME NEW t, NEW from, NEW to, NEW v,
               NEW a \in {REG_INT_SRC, REG_INT_EN, REG_T_OBJ_HIGH_0, REG_T_OBJ_HIGH_0 + 1},
               Deliver(t, from, a, v, to) \/ FailWrite(t, from, a, v, to)
        PROVE  (\E b \in Addr : \E w : regmap_write(b, w)) \/ UNCHANGED regVars
    <2>1. a \in Addr
      BY RegisterAddresses
    <2> QED
      BY <1>7, <2>1 DEF Deliver, FailWrite
  <1>8. CASE Disable \/ WriteLow \/ WriteHigh \/ ClearForMain \/ Enable \/ ClearForWork
    <2>1. (\E b \in Addr : \E w : regmap_write(b, w)) \/ UNCHANGED regVars
      BY <1>7, <1>8 DEF Disable, WriteLow, WriteHigh, ClearForMain, Enable, MainWrite, ClearForWork
    <2> QED
      BY <2>1, <1>5, <1>6
  <1>9. CASE \/ PumpRead \/ PumpDrive \/ StartPoll \/ StartSet \/ MainLock \/ MainFetch
             \/ try_configure \/ update_fire_alarm_state \/ Unflash \/ MainUnlock
             \/ WorkStart \/ WorkLock \/ WorkFetch \/ CheckSource \/ Activate \/ WorkUnlock
             \/ BaseRestart
    <2>1. UNCHANGED regVars
      BY <1>9
      DEF PumpRead, PumpDrive, StartPoll, StartSet, MainLock, MainFetch, sample_fetch, FetchByte,
          try_configure, update_fire_alarm_state, StopAlarmIf, Unflash, MainUnlock, WorkStart,
          WorkLock, WorkFetch, CheckSource, Activate, WorkUnlock, Acquire, Release, BaseRestart
    <2> QED
      BY <2>1, <1>6
  <1> QED
    BY <1>2, <1>3, <1>4, <1>8, <1>9 DEF Next, Node, Main, Work

LEMMA NextMeasured == Inv /\ ObjectMeasured /\ [Next]_vars => ObjectMeasured'
  <1> SUFFICES ASSUME Inv, ObjectMeasured, [Next]_vars PROVE ObjectMeasured'
    OBVIOUS
  <1>1. PICK obj \in Temperatures : ObjectHeld(obj)
    BY DEF ObjectMeasured
  <1>2. CASE /\ regs'[REG_MLX_OBJ_0] = regs[REG_MLX_OBJ_0]
             /\ regs'[REG_MLX_OBJ_0 + 1] = regs[REG_MLX_OBJ_0 + 1]
    <2>1. ObjectHeld(obj)'
      BY <1>1, <1>2 DEF ObjectHeld, Low, High
    <2> QED
      BY <2>1 DEF ObjectMeasured
  <1>3. CASE UNCHANGED vars
    BY <1>2, <1>3 DEF vars, regVars
  <1>4. CASE Next
    <2>1. \A r \in Temperatures : ObjectHeld(r)' => ObjectMeasured'
      BY DEF ObjectMeasured, Temperatures
    <2> QED
      BY <1>2, <1>4, <2>1, ObjectStep DEF Temperatures
  <1> QED
    BY <1>3, <1>4

(* The object is hot while the alarm has seen no cool moment.              *)
LEMMA HotNow ==
  ASSUME Inv, ObjectMeasured, ~Cool
  PROVE  \E r \in Temperatures : /\ r > fire_threshold
                                 /\ regs[REG_MLX_OBJ_0] = Low(r)
                                 /\ regs[REG_MLX_OBJ_0 + 1] = High(r)
  <1>1. PICK obj \in Temperatures : ObjectHeld(obj)
    BY DEF ObjectMeasured
  <1>2. obj \in Int2 /\ fire_threshold \in Int2
    BY ReadingsAssumption, ZeroTyped, ChosenTyped DEF Temperatures, Inv, TypeOK
  <1>3. ObjectTemp = obj
    BY <1>1, <1>2, ObjectRead
  <1>4. obj > fire_threshold
    BY <1>2, <1>3 DEF Cool, Int2
  <1> QED
    BY <1>1, <1>4 DEF ObjectHeld

(* What main and its snapshot do during a poll.                            *)
LEMMA PollStep ==
  ASSUME Inv, Next, restarts' = 0, task' = "poll", pc'["main"] \in PollPc
  PROVE  /\ task = "poll" /\ restarts = 0 /\ (alarm_active' => alarm_active)
         /\ \/ /\ pc["main"] = "fetch_lo" /\ pc'["main"] = "fetch_hi"
               /\ buf' = [buf EXCEPT ![REG_MLX_OBJ_0] = regs[REG_MLX_OBJ_0]]
            \/ /\ pc["main"] = "fetch_hi" /\ pc'["main"] = "fetch_occ"
               /\ buf' = [buf EXCEPT ![REG_MLX_OBJ_0 + 1] = regs[REG_MLX_OBJ_0 + 1]]
            \/ /\ pc["main"] \in PollPc
               /\ pc["main"] = "fetch_hi" => pc'["main"] = "fetch_hi"
               /\ buf'[REG_MLX_OBJ_0] = buf[REG_MLX_OBJ_0]
               /\ buf'[REG_MLX_OBJ_0 + 1] = buf[REG_MLX_OBJ_0 + 1]
  <1>1. /\ TypeOK /\ restarts \in Nat /\ "main" \in Threads /\ "work" \in Threads
        /\ PollPc \cap Outside = {} /\ "fetch_lo" \notin PollPc /\ "fetch_src" \notin PollPc
    BY FireAssumption DEF Inv, TypeOK, Threads, PollPc, Writing, Outside
  <1>2. \A to : /\ Goto("main", to) => pc'["main"] = to
                /\ Goto("work", to) => pc'["main"] = pc["main"]
    BY <1>1, GotoOther DEF Threads
  <1>3. CASE Node
    BY <1>3 DEF Node, PublishReading, PublishOccupancy, PumpRead, PumpDrive, taskVars, alarmVars
  <1>4. CASE Work
    <2>1. pc'["main"] = pc["main"]
      BY <1>2, <1>4
      DEF Work, WorkStart, WorkLock, WorkFetch, sample_fetch, FetchByte, CheckSource, Activate,
          ClearForWork, Deliver, FailWrite, WorkUnlock, Acquire, Release
    <2>2. pc["work"] \in Outside
      BY <1>1, <2>1, OneInside
    <2>3. WorkStart \/ WorkLock
      BY <1>4, <2>2
      DEF Work, WorkFetch, sample_fetch, FetchByte, CheckSource, Activate, ClearForWork, Deliver,
          FailWrite, WorkUnlock, Release, Outside
    <2> QED
      BY <2>1, <2>3 DEF WorkStart, WorkLock, Acquire, taskVars, alarmVars
  <1>5. CASE MainFetch
    <2>1. task' = task /\ restarts' = restarts /\ alarm_active' = alarm_active
      BY <1>5 DEF MainFetch, sample_fetch, FetchByte, taskVars, alarmVars
    <2>2. ~Goto("main", "unlock") /\ ~Goto("main", "fetch_lo")
      BY <1>1, <1>2 DEF PollPc, Writing
    <2>3. CASE FetchByte("main", "fetch_lo", REG_MLX_OBJ_0, "fetch_hi")
      BY <1>2, <2>1, <2>2, <2>3 DEF FetchByte
    <2>4. CASE FetchByte("main", "fetch_hi", REG_MLX_OBJ_0 + 1, "fetch_occ")
      BY <1>2, <2>1, <2>2, <2>4 DEF FetchByte
    <2>5. CASE FetchByte("main", "fetch_occ", REG_MMW_PRESENT, "retry")
      <3>1. buf' = [buf EXCEPT ![REG_MMW_PRESENT] = regs[REG_MMW_PRESENT]]
        BY <2>2, <2>5 DEF FetchByte
      <3>2. /\ buf'[REG_MLX_OBJ_0] = buf[REG_MLX_OBJ_0]
            /\ buf'[REG_MLX_OBJ_0 + 1] = buf[REG_MLX_OBJ_0 + 1]
        BY <1>1, <3>1 DEF TypeOK, SnapshotRegs, REG_MMW_PRESENT, REG_MLX_OBJ_0
      <3> QED
        BY <2>1, <2>5, <3>2 DEF FetchByte, PollPc
    <2> QED
      BY <1>5, <2>2, <2>3, <2>4, <2>5 DEF MainFetch, sample_fetch, FetchByte
  <1>6. CASE StartPoll \/ StartSet \/ MainLock \/ MainUnlock \/ Unflash
    <2>1. task' = "poll" /\ MainLock => AfterMainLock = "fetch_src"
      BY DEF MainLock, Acquire, AfterMainLock, taskVars
    <2>2. pc'["main"] \notin PollPc
      BY <1>1, <1>2, <1>6, <2>1
      DEF StartPoll, StartSet, MainLock, MainUnlock, Unflash, Acquire, Release, PollPc, Writing
    <2> QED
      BY <2>2
  <1>7. CASE \/ try_configure \/ update_fire_alarm_state
             \/ Disable \/ WriteLow \/ WriteHigh \/ ClearForMain \/ Enable
    <2>1. /\ pc["main"] \in PollPc /\ pc["main"] # "fetch_hi"
          /\ task' = task /\ restarts' = restarts /\ buf' = buf
      BY <1>7
      DEF try_configure, update_fire_alarm_state, StopAlarmIf, Disable, WriteLow, WriteHigh,
          ClearForMain, Enable, MainWrite, Deliver, FailWrite, taskVars, PollPc, Writing
    <2>2. alarm_active' => alarm_active
      BY <1>7
      DEF try_configure, update_fire_alarm_state, StopAlarmIf, Disable, WriteLow, WriteHigh,
          ClearForMain, Enable, MainWrite, Deliver, FailWrite, alarmVars
    <2> QED
      BY <2>1, <2>2
  <1>8. ~NodeRestart /\ ~BaseRestart
    BY <1>1 DEF NodeRestart, BaseRestart
  <1> QED
    BY <1>3, <1>4, <1>5, <1>6, <1>7, <1>8 DEF Next, Main

LEMMA PollThreshold ==
  ASSUME Inv, PollKeepsThreshold, Next, task = "poll", task' = "poll"
  PROVE  fire_threshold' = fire_threshold
  <1>1. ~BaseRestart
    BY DEF BaseRestart
  <1>2. CASE UNCHANGED confVars
    BY <1>2 DEF confVars
  <1>3. CASE pc["main"] = "write_hi" /\ fire_threshold' = target
    BY <1>3 DEF PollKeepsThreshold, Writing
  <1> QED
    BY <1>1, <1>2, <1>3, BeliefStep

LEMMA NextSnapshot == Inv /\ HeatInv /\ [HNext]_hvars => SnapshotIsHot'
  <1> SUFFICES ASSUME Inv, HeatInv, [HNext]_hvars,
                      restarts' = 0, task' = "poll", alarm_active', ~cooled',
                      pc'["main"] \in PollPc
               PROVE  /\ \E r \in Temperatures : r > fire_threshold' /\ buf'[REG_MLX_OBJ_0] = Low(r)
                      /\ pc'["main"] # "fetch_hi" =>
                           \E r \in Temperatures :
                             r > fire_threshold' /\ buf'[REG_MLX_OBJ_0 + 1] = High(r)
    BY DEF SnapshotIsHot, Low, High
  <1>h. ObjectMeasured /\ SnapshotIsHot /\ PollKeepsThreshold
    BY DEF HeatInv
  <1>t. restarts \in Nat /\ DOMAIN buf = SnapshotRegs
    BY FireAssumption DEF Inv, TypeOK
  <1>1. CASE UNCHANGED hvars
    BY <1>1, <1>h DEF hvars, vars, taskVars, confVars, alarmVars, SnapshotIsHot
  <1>2. CASE HNext
    <2>1. Next /\ ~Cool /\ (alarm_active => ~cooled)
      BY <1>2 DEF HNext, Observe
    <2>2. /\ task = "poll" /\ restarts = 0 /\ (alarm_active' => alarm_active)
          /\ \/ /\ pc["main"] = "fetch_lo" /\ pc'["main"] = "fetch_hi"
                /\ buf' = [buf EXCEPT ![REG_MLX_OBJ_0] = regs[REG_MLX_OBJ_0]]
             \/ /\ pc["main"] = "fetch_hi" /\ pc'["main"] = "fetch_occ"
                /\ buf' = [buf EXCEPT ![REG_MLX_OBJ_0 + 1] = regs[REG_MLX_OBJ_0 + 1]]
             \/ /\ pc["main"] \in PollPc
                /\ pc["main"] = "fetch_hi" => pc'["main"] = "fetch_hi"
                /\ buf'[REG_MLX_OBJ_0] = buf[REG_MLX_OBJ_0]
                /\ buf'[REG_MLX_OBJ_0 + 1] = buf[REG_MLX_OBJ_0 + 1]
      BY <2>1, PollStep
    <2>3. fire_threshold' = fire_threshold
      <3>1. task = "poll"
        BY <2>2
      <3> QED
        BY <1>h, <2>1, <3>1, PollThreshold
    <2>4. PICK hot \in Temperatures : /\ hot > fire_threshold
                                     /\ regs[REG_MLX_OBJ_0] = Low(hot)
                                     /\ regs[REG_MLX_OBJ_0 + 1] = High(hot)
      BY <1>h, <2>1, HotNow
    <2>5. pc["main"] \in PollPc => 
            /\ \E r \in Temperatures : r > fire_threshold /\ buf[REG_MLX_OBJ_0] = Low(r)
            /\ pc["main"] # "fetch_hi" =>
                 \E r \in Temperatures : r > fire_threshold /\ buf[REG_MLX_OBJ_0 + 1] = High(r)
      BY <1>h, <2>1, <2>2 DEF SnapshotIsHot
    <2>6. CASE pc["main"] = "fetch_lo" /\ pc'["main"] = "fetch_hi"
               /\ buf' = [buf EXCEPT ![REG_MLX_OBJ_0] = regs[REG_MLX_OBJ_0]]
      <3>1. buf'[REG_MLX_OBJ_0] = Low(hot)
        BY <1>t, <2>4, <2>6 DEF SnapshotRegs
      <3> QED
        BY <2>3, <2>4, <2>6, <3>1
    <2>7. CASE pc["main"] = "fetch_hi" /\ pc'["main"] = "fetch_occ"
               /\ buf' = [buf EXCEPT ![REG_MLX_OBJ_0 + 1] = regs[REG_MLX_OBJ_0 + 1]]
      <3>1. buf'[REG_MLX_OBJ_0 + 1] = High(hot)
        BY <1>t, <2>4, <2>7 DEF SnapshotRegs
      <3>2. buf'[REG_MLX_OBJ_0] = buf[REG_MLX_OBJ_0]
        BY <1>t, <2>7 DEF SnapshotRegs, REG_MLX_OBJ_0
      <3>3. pc["main"] \in PollPc
        BY <2>7 DEF PollPc
      <3> QED
        BY <2>3, <2>4, <2>5, <3>1, <3>2, <3>3
    <2>8. CASE /\ pc["main"] \in PollPc
               /\ pc["main"] = "fetch_hi" => pc'["main"] = "fetch_hi"
               /\ buf'[REG_MLX_OBJ_0] = buf[REG_MLX_OBJ_0]
               /\ buf'[REG_MLX_OBJ_0 + 1] = buf[REG_MLX_OBJ_0 + 1]
      BY <2>3, <2>5, <2>8
    <2> QED
      BY <2>2, <2>6, <2>7, <2>8
  <1> QED
    BY <1>1, <1>2

(* Main begins to write with the threshold it believes in, if it polls.    *)
LEMMA PollTargetStep ==
  ASSUME Inv, Next, task' = "poll", pc'["main"] \in Writing
  PROVE  \/ /\ task = "poll" /\ pc["main"] \in Writing /\ target' = target
         \/ target' = fire_threshold /\ fire_threshold' = fire_threshold
  <1>1. /\ TypeOK /\ "main" \in Threads /\ "work" \in Threads
        /\ AfterConfigure \notin Writing
        /\ task = "poll" => AfterMainLock \notin Writing
    BY DEF Inv, TypeOK, Threads, AfterConfigure, AfterMainLock, Writing
  <1>2. \A to : /\ Goto("main", to) => pc'["main"] = to
                /\ Goto("work", to) => pc'["main"] = pc["main"]
    BY <1>1, GotoOther DEF Threads
  <1>3. CASE Node
    BY <1>3 DEF Node, PublishReading, PublishOccupancy, PumpRead, PumpDrive, taskVars
  <1>4. CASE Work
    BY <1>2, <1>4
    DEF Work, WorkStart, WorkLock, WorkFetch, sample_fetch, FetchByte, CheckSource, Activate,
        ClearForWork, Deliver, FailWrite, WorkUnlock, Acquire, Release, taskVars
  <1>5. CASE \/ StartPoll \/ StartSet \/ MainLock \/ MainFetch
             \/ update_fire_alarm_state \/ Unflash \/ MainUnlock
    <2>1. pc'["main"] \notin Writing
      BY <1>1, <1>2, <1>5
      DEF StartPoll, StartSet, MainLock, MainFetch, sample_fetch, FetchByte, taskVars,
          update_fire_alarm_state, StopAlarmIf, Unflash, MainUnlock, Acquire, Release, Writing
    <2> QED
      BY <2>1
  <1>6. CASE try_configure
    BY <1>1, <1>2, <1>6 DEF try_configure, confVars
  <1>7. CASE Disable \/ WriteLow \/ WriteHigh \/ ClearForMain \/ Enable
    BY <1>7
    DEF Disable, WriteLow, WriteHigh, ClearForMain, Enable, MainWrite, Deliver, FailWrite,
        taskVars, Writing
  <1>8. CASE NodeRestart
    <2>1. pc'["main"] \in {pc["main"], "unlock", AfterConfigure}
      BY <1>1, <1>8 DEF NodeRestart
    <2> QED
      BY <1>1, <1>8, <2>1 DEF NodeRestart, taskVars, Writing
  <1>9. ~BaseRestart
    BY DEF BaseRestart
  <1> QED
    BY <1>3, <1>4, <1>5, <1>6, <1>7, <1>8, <1>9 DEF Next, Main

LEMMA UpdateStep ==
  ASSUME Inv, Next, pc'["main"] = "update"
  PROVE  task' = task /\ (pc["main"] = "update" \/ task = "poll")
  <1>1. TypeOK /\ "main" \in Threads /\ "work" \in Threads
    BY DEF Inv, Threads
  <1>2. \A to : /\ Goto("main", to) => pc'["main"] = to
                /\ Goto("work", to) => pc'["main"] = pc["main"]
    BY <1>1, GotoOther DEF Threads
  <1>3. AfterMainLock # "update" /\ (AfterConfigure = "update" => task = "poll")
    BY <1>1 DEF AfterConfigure, AfterMainLock, TypeOK
  <1>4. CASE Node
    BY <1>4 DEF Node, PublishReading, PublishOccupancy, PumpRead, PumpDrive, taskVars
  <1>5. CASE Work
    BY <1>2, <1>5
    DEF Work, WorkStart, WorkLock, WorkFetch, sample_fetch, FetchByte, CheckSource, Activate,
        ClearForWork, Deliver, FailWrite, WorkUnlock, Acquire, Release, taskVars
  <1>6. CASE \/ StartPoll \/ StartSet \/ MainLock \/ MainFetch
             \/ update_fire_alarm_state \/ Unflash \/ MainUnlock
    <2>1. pc'["main"] # "update"
      BY <1>2, <1>3, <1>6
      DEF StartPoll, StartSet, MainLock, MainFetch, sample_fetch, FetchByte,
          update_fire_alarm_state, StopAlarmIf, Unflash, MainUnlock, Acquire, Release
    <2> QED
      BY <2>1
  <1>7. CASE try_configure \/ Disable \/ WriteLow \/ WriteHigh \/ ClearForMain \/ Enable
    BY <1>2, <1>3, <1>7
    DEF try_configure, Disable, WriteLow, WriteHigh, ClearForMain, Enable, MainWrite, Deliver,
        FailWrite, taskVars
  <1>8. CASE NodeRestart
    BY <1>3, <1>8 DEF NodeRestart, Threads, taskVars
  <1>9. CASE BaseRestart
    BY <1>9 DEF BaseRestart, Threads
  <1> QED
    BY <1>4, <1>5, <1>6, <1>7, <1>8, <1>9 DEF Next, Main

LEMMA NextHeat == Inv /\ HeatInv /\ [HNext]_hvars => HeatInv'
  <1> SUFFICES ASSUME Inv, HeatInv, [HNext]_hvars PROVE HeatInv'
    OBVIOUS
  <1>1. [Next]_vars /\ ObjectMeasured /\ PollKeepsThreshold /\ UpdatesInPoll
    BY DEF HNext, hvars, HeatInv
  <1>2. ObjectMeasured' /\ SnapshotIsHot'
    BY <1>1, NextMeasured, NextSnapshot
  <1>3. PollKeepsThreshold'
    <2>1. CASE UNCHANGED vars
      BY <1>1, <2>1 DEF PollKeepsThreshold, vars, taskVars, confVars
    <2>2. CASE Next /\ task' = "poll" /\ pc'["main"] \in Writing
      <3>1. CASE task = "poll" /\ pc["main"] \in Writing /\ target' = target
        BY <1>1, <2>2, <3>1, PollThreshold DEF PollKeepsThreshold
      <3>2. CASE target' = fire_threshold /\ fire_threshold' = fire_threshold
        BY <3>2 DEF PollKeepsThreshold
      <3> QED
        BY <2>2, <3>1, <3>2, PollTargetStep
    <2> QED
      BY <1>1, <2>1, <2>2 DEF PollKeepsThreshold
  <1>4. UpdatesInPoll'
    <2>1. CASE UNCHANGED vars
      BY <1>1, <2>1 DEF UpdatesInPoll, vars, taskVars
    <2>2. CASE Next
      BY <1>1, <2>2, UpdateStep DEF UpdatesInPoll
    <2> QED
      BY <1>1, <2>1, <2>2
  <1> QED
    BY <1>2, <1>3, <1>4 DEF HeatInv

(* Only main's update stops an alarm, and restarts are counted.            *)
LEMMA StopStep ==
  ASSUME Inv, Next, restarts' = 0, alarm_active, ~alarm_active'
  PROVE  update_fire_alarm_state /\ pc["main"] = "update" /\ SnapshotTemp <= fire_threshold
  <1>1. restarts \in Nat
    BY FireAssumption DEF Inv, TypeOK
  <1>2. CASE Node
    BY <1>2 DEF Node, PublishReading, PublishOccupancy, PumpRead, PumpDrive, alarmVars
  <1>3. CASE Work
    BY <1>3
    DEF Work, WorkStart, WorkLock, WorkFetch, sample_fetch, FetchByte, CheckSource, Activate,
        ClearForWork, Deliver, FailWrite, WorkUnlock, Acquire, Release, alarmVars
  <1>4. CASE Main /\ ~update_fire_alarm_state
    BY <1>4
    DEF Main, StartPoll, StartSet, MainLock, MainFetch, sample_fetch, FetchByte, try_configure,
        Disable, WriteLow, WriteHigh, ClearForMain, Enable, MainWrite, Deliver, FailWrite,
        Unflash, MainUnlock, Acquire, Release, alarmVars
  <1>5. CASE update_fire_alarm_state
    BY <1>5 DEF update_fire_alarm_state, StopAlarmIf
  <1>6. ~NodeRestart /\ ~BaseRestart
    BY <1>1 DEF NodeRestart, BaseRestart
  <1> QED
    BY <1>2, <1>3, <1>4, <1>5, <1>6 DEF Next

(* An alarm that has stopped had seen a cool moment, if bytes of two       *)
(* readings never make a lower temperature than both.                      *)
THEOREM StopsOnlyCooled ==
  ASSUME Untorn
  PROVE  HSpec => NoStopWhileHot
  <1>1. HInit => HeatInv
    <2> SUFFICES ASSUME HInit PROVE HeatInv
      OBVIOUS
    <2>1. ObjectHeld(0)
      BY ObjectReset DEF HInit, Init, RegInit, ObjectHeld
    <2>2. ObjectMeasured
      BY <2>1 DEF ObjectMeasured, Temperatures
    <2>3. task = "boot" /\ pc["main"] = "lock"
      BY DEF HInit, Init, Threads
    <2> QED
      BY <2>2, <2>3 DEF HeatInv, SnapshotIsHot, PollKeepsThreshold, UpdatesInPoll
  <1>2. Inv /\ HeatInv /\ [HNext]_hvars =>
          [ (restarts' = 0 /\ alarm_active /\ ~alarm_active') => cooled ]_hvars
    <2> SUFFICES ASSUME Inv, HeatInv, HNext, restarts' = 0, alarm_active, ~alarm_active', ~cooled
                 PROVE  FALSE
      BY DEF hvars
    <2>1. /\ Next /\ pc["main"] = "update" /\ SnapshotTemp <= fire_threshold
          /\ restarts = 0
      BY StopStep, FaultsGrow DEF HNext
    <2>2. task = "poll" /\ pc["main"] \in PollPc /\ pc["main"] # "fetch_hi"
      BY <2>1 DEF HeatInv, UpdatesInPoll, PollPc
    <2>3. PICK r1 \in Temperatures : r1 > fire_threshold /\ buf[REG_MLX_OBJ_0] = Low(r1)
      BY <2>1, <2>2 DEF HeatInv, SnapshotIsHot
    <2>4. PICK r2 \in Temperatures : r2 > fire_threshold /\ buf[REG_MLX_OBJ_0 + 1] = High(r2)
      BY <2>1, <2>2 DEF HeatInv, SnapshotIsHot
    <2>5. SnapshotTemp >= r1 \/ SnapshotTemp >= r2
      BY <2>3, <2>4 DEF Untorn, SnapshotTemp
    <2>6. SnapshotTemp \in Int /\ r1 \in Int /\ r2 \in Int /\ fire_threshold \in Int
      <3>1. r1 \in Int /\ r2 \in Int /\ fire_threshold \in Int
        BY ReadingsAssumption, ZeroTyped, ChosenTyped DEF Temperatures, Inv, TypeOK, Int2
      <3>2. buf[REG_MLX_OBJ_0] \in Int /\ buf[REG_MLX_OBJ_0 + 1] \in Int
        BY RadixAssumption DEF Inv, TypeOK, SnapshotRegs, Digit, REG_INT_SRC, REG_MLX_OBJ_0
      <3> QED
        BY <3>1, <3>2, RadixAssumption DEF SnapshotTemp, Signed
    <2> QED
      BY <2>1, <2>3, <2>4, <2>5, <2>6
  <1>3. HSpec => []Inv
    BY HistoryRefines, InvHolds, PTL
  <1> QED
    BY <1>1, <1>2, <1>3, NextHeat, PTL DEF HSpec, NoStopWhileHot

=============================================================================
