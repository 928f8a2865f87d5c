----------------------------- MODULE MmWaveProofs -----------------------------
(***************************************************************************)
(* Theorems about the mmWave radar, for every staleness limit, every set   *)
(* of lines, gates and delays and any number of settings, faults and       *)
(* restarts.                                                               *)
(***************************************************************************)
EXTENDS MmWave, RegisterMapProofs, SequenceTheorems

(* How old the published presence may be, by the place of the thread, if   *)
(* no turn has been skipped since.                                         *)
AgeLimit ==
  IF tpc = "sleep" THEN Staleness
  ELSE IF tpc \in {"ctrl", "config", "pause", "send", "resume"} THEN Staleness + 1
  ELSE Staleness + 2

FreshInv ==
  /\ DOMAIN regs = Addr
  /\ age \in Nat
  /\ (tpc = "publish" /\ occ) => age <= Staleness
  /\ (regs[REG_MMW_PRESENT] = 1 /\ ~skipped) => age <= AgeLimit

(* What the registers of the configuration are, and what the radar has.    *)
ConfigInv ==
  /\ faults \in Nat /\ restarts \in Nat
  /\ (faults = 0 /\ restarts = 0) =>
       /\ radar = IF tpc = "resume" THEN cfg ELSE last
       /\ base = "idle" => NodeConfig = current
       /\ base = "high" =>
            /\ wanted \in 0 .. Radix * Radix - 1
            /\ regs[REG_MMW_MAX_GATE] = current.gate
            /\ regs[REG_MMW_ABSENCE_0] = Low(wanted)
       /\ base \in {"idle", "high"}
       /\ current = Config(current.gate, current.absence)

RadarInv == FreshInv /\ ConfigInv

LEMMA ConfigWrite ==
  ASSUME DOMAIN regs = Addr, NEW v,
         NEW a \in {REG_MMW_MAX_GATE, REG_MMW_ABSENCE_0, REG_MMW_ABSENCE_0 + 1},
         regmap_write(a, v)
  PROVE  /\ DOMAIN regs' = Addr /\ regs'[a] = v
         /\ \A b \in Addr : b # a => regs'[b] = regs[b]
  BY DEF regmap_write, Written, is_writable, sanitize_interrupt_write, REG_MMW_MAX_GATE,
         REG_MMW_ABSENCE_0, REG_CTRL, REG_INT_SRC, REG_INT_EN, REG_T_OBJ_HIGH_0, Addr,
         REGMAP_SIZE

LEMMA CtrlWrite ==
  ASSUME DOMAIN regs = Addr, WriteCtrl
  PROVE  /\ DOMAIN regs' = Addr
         /\ \A b \in Addr : b # REG_CTRL => regs'[b] = regs[b]
  BY DEF WriteCtrl, regmap_write, Written, is_writable, sanitize_interrupt_write, REG_CTRL,
         REG_INT_SRC, REG_INT_EN

LEMMA PublishEffectMmw ==
  ASSUME DOMAIN regs = Addr, NEW present, regmap_publish_mmwave(present)
  PROVE  /\ DOMAIN regs' = Addr
         /\ regs'[REG_MMW_PRESENT] = IF present THEN 1 ELSE 0
         /\ \A b \in Addr \ {REG_MMW_PRESENT, REG_STATUS} : regs'[b] = regs[b]
  BY DEF regmap_publish_mmwave, DataReady, REG_MMW_PRESENT, REG_STATUS, Addr, REGMAP_SIZE

LEMMA InitialRegisters ==
  /\ DOMAIN InitialRegs = Addr /\ InitialRegs[REG_MMW_PRESENT] = 0
  /\ InitialRegs[REG_MMW_MAX_GATE] = 5
  /\ InitialRegs[REG_MMW_ABSENCE_0] = Low(5) /\ InitialRegs[REG_MMW_ABSENCE_0 + 1] = High(5)
  BY DEF InitialRegs, REG_STATUS, REG_CTRL, REG_INT_SRC, REG_INT_EN, REG_MLX_OBJ_0,
         REG_MMW_PRESENT, REG_MMW_MAX_GATE, REG_MMW_ABSENCE_0, REG_T_OBJ_HIGH_0, REG_CHIP_ID,
         FlagRegs, Addr, REGMAP_SIZE

(* The two bytes of a delay give the delay back. *)
LEMMA DelayRoundTrip ==
  ASSUME NEW v \in 0 .. Radix * Radix - 1
  PROVE  Low(v) + Radix * High(v) = v
  <1> DEFINE q == v \div Radix
             r == v % Radix
  <1>1. Radix \in Nat /\ Radix > 0
    BY RadixAssumption
  <1>2. r \in 0 .. Radix - 1 /\ q \in Int /\ v = Radix * q + r
    BY <1>1, DivMod
  <1> HIDE DEF q, r
  <1>3. q \in 0 .. Radix - 1
    <2>1. q >= 0
      <3> SUFFICES ASSUME q <= -1 PROVE FALSE
        BY <1>2
      <3>1. Radix * q <= Radix * (-1)
        BY <1>1, <1>2
      <3> QED
        BY <1>1, <1>2, <3>1
    <2>2. q <= Radix - 1
      <3> SUFFICES ASSUME q >= Radix PROVE FALSE
        BY <1>1, <1>2
      <3>1. Radix * q >= Radix * Radix
        BY <1>1, <1>2
      <3> QED
        BY <1>1, <1>2, <3>1
    <2> QED
      BY <1>2, <2>1, <2>2
  <1>4. q % Radix = q
    BY <1>1, <1>3
  <1> QED
    BY <1>1, <1>2, <1>3, <1>4 DEF q, r, Low, High

LEMMA InitRadar == Init => RadarInv
  <1> SUFFICES ASSUME Init PROVE RadarInv
    OBVIOUS
  <1>1. FreshInv
    BY InitialRegisters, MmWaveAssumption DEF Init, RegInit, FreshInv, AgeLimit
  <1>2. NodeConfig = current
    <2>1. 5 \in 0 .. Radix * Radix - 1
      <3>1. Radix >= 6 /\ Radix \in Nat
        BY RadixAssumption
      <3>2. Radix * Radix >= 6 * Radix
        BY <3>1
      <3> QED
        BY <3>1, <3>2
    <2> QED
      BY <2>1, InitialRegisters, DelayRoundTrip DEF Init, RegInit, NodeConfig, Config
  <1>3. ConfigInv
    BY <1>2 DEF Init, ConfigInv, Config
  <1> QED
    BY <1>1, <1>3 DEF RadarInv
(* The steps of the settings: they write configuration registers only.     *)
LEMMA SettingFresh ==
  ASSUME FreshInv, UNCHANGED <<age, tpc, occ, skipped>>,
         \/ UNCHANGED regs
         \/ \E a \in {REG_MMW_MAX_GATE, REG_MMW_ABSENCE_0, REG_MMW_ABSENCE_0 + 1}, v \in Int :
              regmap_write(a, v)
  PROVE  FreshInv'
  <1>1. DOMAIN regs' = Addr /\ regs'[REG_MMW_PRESENT] = regs[REG_MMW_PRESENT]
    <2>1. CASE UNCHANGED regs
      BY <2>1 DEF FreshInv
    <2>2. CASE \E a \in {REG_MMW_MAX_GATE, REG_MMW_ABSENCE_0, REG_MMW_ABSENCE_0 + 1}, v \in Int :
                 regmap_write(a, v)
      <3>1. REG_MMW_PRESENT \in Addr /\ REG_MMW_PRESENT \notin {REG_MMW_MAX_GATE, REG_MMW_ABSENCE_0, REG_MMW_ABSENCE_0 + 1}
        BY DEF REG_MMW_PRESENT, REG_MMW_MAX_GATE, REG_MMW_ABSENCE_0, Addr, REGMAP_SIZE
      <3> QED
        BY <2>2, <3>1, ConfigWrite DEF FreshInv
    <2> QED
      BY <2>1, <2>2
  <1> QED
    BY <1>1 DEF FreshInv, AgeLimit

LEMMA ThreadFresh == FreshInv /\ Thread => FreshInv'
  <1> SUFFICES ASSUME FreshInv, Thread PROVE FreshInv'
    OBVIOUS
  <1> USE MmWaveAssumption
  <1>1. CASE TestCtrl \/ ReadConfig \/ Pause \/ SendFrame
    BY <1>1 DEF TestCtrl, ReadConfig, Pause, SendFrame, FreshInv, AgeLimit, regVars, uartVars
  <1>2. CASE Resume \/ PeriodEnds
    BY <1>2 DEF Resume, PeriodEnds, Older, FreshInv, AgeLimit, regVars
  <1>3. CASE mmwave_is_occupied
    BY <1>3 DEF mmwave_is_occupied, FreshInv, AgeLimit, regVars
  <1>4. CASE Publish
    <2>1. DOMAIN regs' = Addr /\ regs'[REG_MMW_PRESENT] = IF occ THEN 1 ELSE 0
      BY <1>4, PublishEffectMmw DEF Publish, FreshInv
    <2> QED
      BY <1>4, <2>1 DEF Publish, FreshInv, AgeLimit
  <1> QED
    BY <1>1, <1>2, <1>3, <1>4 DEF Thread

LEMMA SettingsWrite ==
  ASSUME configure_max_gate \/ configure_absence_delay \/ AbsenceHigh, wanted \in Int
  PROVE  /\ UNCHANGED <<age, tpc, occ, skipped>>
         /\ \/ UNCHANGED regs
            \/ \E a \in {REG_MMW_MAX_GATE, REG_MMW_ABSENCE_0, REG_MMW_ABSENCE_0 + 1}, v \in Int :
                 regmap_write(a, v)
  <1>1. \A v \in Int : Low(v) \in Int /\ High(v) \in Int
    BY DigitsTyped, RadixAssumption DEF Digit
  <1>2. CASE configure_max_gate
    <2>1. PICK g \in Gates : regmap_write(REG_MMW_MAX_GATE, g) \/ UNCHANGED regs
      BY <1>2 DEF configure_max_gate, Wrote, regVars
    <2> QED
      BY <1>2, <2>1, MmWaveAssumption, RadixAssumption DEF configure_max_gate, threadVars, Digit
  <1>3. CASE configure_absence_delay
    <2>1. regmap_write(REG_MMW_ABSENCE_0, Low(wanted')) \/ UNCHANGED regs
      BY <1>3 DEF configure_absence_delay, Wrote, regVars
    <2>2. wanted' \in Int
      BY <1>3, MmWaveAssumption, RadixAssumption DEF configure_absence_delay
    <2> QED
      BY <1>1, <1>3, <2>1, <2>2 DEF configure_absence_delay, threadVars
  <1>4. CASE AbsenceHigh
    <2>1. regmap_write(REG_MMW_ABSENCE_0 + 1, High(wanted)) \/ UNCHANGED regs
      BY <1>4 DEF AbsenceHigh, Wrote, regVars
    <2> QED
      BY <1>1, <1>4, <2>1 DEF AbsenceHigh, threadVars
  <1> QED
    BY <1>2, <1>3, <1>4

LEMMA WantedTyped ==
  /\ Init => wanted \in Int
  /\ wanted \in Int /\ [Next]_vars => wanted' \in Int
  <1>1. Delays \subseteq Int
    BY MmWaveAssumption, RadixAssumption
  <1> QED
    BY <1>1
    DEF Init, Next, vars, baseVars, threadVars, uartVars, radarVars, RadarBegins, uart_isr,
        Received, feed_byte, WriteCtrl, Thread, TestCtrl, ReadConfig, Pause, SendFrame, Resume, mmwave_is_occupied, Publish,
        PeriodEnds, configure_max_gate, configure_absence_delay, AbsenceHigh, NodeRestart,
        BaseRestart

LEMMA StepFresh == FreshInv /\ wanted \in Int /\ [Next]_vars => FreshInv'
  <1> SUFFICES ASSUME FreshInv, wanted \in Int, [Next]_vars PROVE FreshInv'
    OBVIOUS
  <1>1. CASE RadarBegins \/ uart_isr \/ BaseRestart
    BY <1>1 DEF RadarBegins, uart_isr, Received, BaseRestart, threadVars, regVars, FreshInv, AgeLimit
  <1>2. CASE feed_byte
    <2>1. age' \in {0, age} /\ UNCHANGED <<regs, tpc, occ, skipped>>
      BY <1>2 DEF feed_byte, threadVars, regVars
    <2> QED
      BY <2>1, MmWaveAssumption DEF FreshInv, AgeLimit
  <1>3. CASE configure_max_gate \/ configure_absence_delay \/ AbsenceHigh
    BY <1>3, SettingsWrite, SettingFresh
  <1>4. CASE NodeRestart
    BY <1>4, InitialRegisters DEF NodeRestart, regmap_init, FreshInv
  <1>5. CASE UNCHANGED vars
    BY <1>5 DEF vars, regVars, threadVars, FreshInv, AgeLimit
  <1>6. CASE WriteCtrl
    <2>1. REG_MMW_PRESENT \in Addr /\ REG_MMW_PRESENT # REG_CTRL
      BY DEF REG_MMW_PRESENT, REG_CTRL, Addr, REGMAP_SIZE
    <2>2. DOMAIN regs' = Addr /\ regs'[REG_MMW_PRESENT] = regs[REG_MMW_PRESENT]
      BY <1>6, <2>1, CtrlWrite DEF FreshInv
    <2>3. UNCHANGED <<age, tpc, occ, skipped>>
      BY <1>6 DEF WriteCtrl, threadVars
    <2> QED
      BY <2>2, <2>3 DEF FreshInv, AgeLimit
  <1> QED
    BY <1>1, <1>2, <1>3, <1>4, <1>5, <1>6, ThreadFresh DEF Next

(* The published presence is never older than the staleness limit and two  *)
(* periods together (PresenceIsFresh), whatever the radar sends or fails   *)
(* to send, however often it is reconfigured, and across restarts: unless  *)
(* the thread, switched off in CTRL, has skipped a turn since it published *)
(* last.  Whatever a master writes to CTRL and whenever, the next          *)
(* publication ends that exception.                                        *)
THEOREM PresenceFresh == Spec => []PresenceIsFresh
  <1>1. FreshInv => PresenceIsFresh
    BY MmWaveAssumption DEF FreshInv, AgeLimit, PresenceIsFresh
  <1>2. Init => FreshInv /\ wanted \in Int
    BY InitRadar, WantedTyped DEF RadarInv
  <1>3. (FreshInv /\ wanted \in Int) /\ [Next]_vars => (FreshInv /\ wanted \in Int)'
    BY StepFresh, WantedTyped
  <1> QED
    BY <1>1, <1>2, <1>3, PTL DEF Spec

-----------------------------------------------------------------------------
(* The configuration *)

LEMMA ConfigRegisters ==
  /\ {REG_MMW_MAX_GATE, REG_MMW_ABSENCE_0, REG_MMW_ABSENCE_0 + 1}
       \subseteq Addr \ {REG_MMW_PRESENT, REG_STATUS}
  /\ REG_MMW_MAX_GATE # REG_MMW_ABSENCE_0 /\ REG_MMW_MAX_GATE # REG_MMW_ABSENCE_0 + 1
  /\ REG_MMW_ABSENCE_0 # REG_MMW_ABSENCE_0 + 1
  BY DEF REG_MMW_MAX_GATE, REG_MMW_ABSENCE_0, REG_MMW_PRESENT, REG_STATUS, Addr, REGMAP_SIZE

(* A step that leaves the registers of the configuration, the base         *)
(* station and the thread's copies alone.                                  *)
LEMMA SameConfig ==
  ASSUME ConfigInv, UNCHANGED baseVars, UNCHANGED <<radar, cfg, last>>,
         tpc' = tpc \/ (tpc # "resume" /\ tpc' # "resume"),
         \A a \in {REG_MMW_MAX_GATE, REG_MMW_ABSENCE_0, REG_MMW_ABSENCE_0 + 1} :
           regs'[a] = regs[a]
  PROVE  ConfigInv'
  BY DEF ConfigInv, NodeConfig, baseVars

LEMMA ThreadConfig ==
  ASSUME ConfigInv, DOMAIN regs = Addr, Thread
  PROVE  ConfigInv'
  <1>1. CASE ReadConfig
    BY <1>1 DEF ReadConfig, ConfigInv, NodeConfig, regVars, radarVars, baseVars
  <1>2. CASE TestCtrl \/ Pause \/ mmwave_is_occupied \/ PeriodEnds
    BY <1>2, SameConfig DEF TestCtrl, Pause, mmwave_is_occupied, PeriodEnds, regVars, radarVars, baseVars
  <1>3. CASE SendFrame \/ Resume
    BY <1>3 DEF SendFrame, Resume, ConfigInv, NodeConfig, regVars, radarVars, baseVars
  <1>4. CASE Publish
    <2>1. \A a \in {REG_MMW_MAX_GATE, REG_MMW_ABSENCE_0, REG_MMW_ABSENCE_0 + 1} :
            regs'[a] = regs[a]
      BY <1>4, PublishEffectMmw, ConfigRegisters DEF Publish
    <2> QED
      BY <1>4, <2>1, SameConfig DEF Publish, radarVars, baseVars
  <1> QED
    BY <1>1, <1>2, <1>3, <1>4 DEF Thread

(* A fault or a restart: nothing is promised any more. *)
LEMMA Disturbed ==
  ASSUME ConfigInv,
         \/ Fault /\ UNCHANGED restarts
         \/ Restarting /\ UNCHANGED faults
  PROVE  ConfigInv'
  BY DEF Fault, Restarting, ConfigInv

LEMMA GateConfig == ConfigInv /\ DOMAIN regs = Addr /\ configure_max_gate => ConfigInv'
  <1> SUFFICES ASSUME ConfigInv, DOMAIN regs = Addr, configure_max_gate PROVE ConfigInv'
    OBVIOUS
  <1>1. restarts' = restarts
    BY DEF configure_max_gate, Entered
  <1>2. CASE Fault
    BY <1>1, <1>2, Disturbed
  <1>3. CASE ~Fault
    <2>1. PICK g \in Gates :
            /\ regmap_write(REG_MMW_MAX_GATE, g) /\ UNCHANGED faults
            /\ current' = [current EXCEPT !.gate = g]
      BY <1>3 DEF configure_max_gate
    <2>2. UNCHANGED <<radar, tpc, cfg, last, base, wanted>> /\ base = "idle"
      BY DEF configure_max_gate, Entered, radarVars, threadVars
    <2>3. /\ regs'[REG_MMW_MAX_GATE] = g
          /\ regs'[REG_MMW_ABSENCE_0] = regs[REG_MMW_ABSENCE_0]
          /\ regs'[REG_MMW_ABSENCE_0 + 1] = regs[REG_MMW_ABSENCE_0 + 1]
      BY <2>1, ConfigWrite, ConfigRegisters
    <2> QED
      BY <1>1, <2>1, <2>2, <2>3 DEF ConfigInv, NodeConfig, Config
  <1> QED
    BY <1>2, <1>3

LEMMA DelayConfig ==
  ASSUME ConfigInv, DOMAIN regs = Addr, configure_absence_delay
  PROVE  ConfigInv'
  <1>1. restarts' = restarts
    BY DEF configure_absence_delay, Entered
  <1>2. CASE Fault
    BY <1>1, <1>2, Disturbed
  <1>3. CASE ~Fault
    <2>1. /\ regmap_write(REG_MMW_ABSENCE_0, Low(wanted')) /\ UNCHANGED faults
          /\ base' = "high" /\ base = "idle" /\ wanted' \in 0 .. Radix * Radix - 1
      BY <1>3, MmWaveAssumption DEF configure_absence_delay, Entered
    <2>2. UNCHANGED <<radar, tpc, cfg, last, current>>
      BY DEF configure_absence_delay, radarVars, threadVars
    <2>3. /\ regs'[REG_MMW_MAX_GATE] = regs[REG_MMW_MAX_GATE]
          /\ regs'[REG_MMW_ABSENCE_0] = Low(wanted')
      BY <2>1, ConfigWrite, ConfigRegisters
    <2> QED
      BY <1>1, <2>1, <2>2, <2>3 DEF ConfigInv, NodeConfig, Config
  <1> QED
    BY <1>2, <1>3

LEMMA HighConfig == ConfigInv /\ DOMAIN regs = Addr /\ AbsenceHigh => ConfigInv'
  <1> SUFFICES ASSUME ConfigInv, DOMAIN regs = Addr, AbsenceHigh PROVE ConfigInv'
    OBVIOUS
  <1>1. restarts' = restarts
    BY DEF AbsenceHigh
  <1>2. CASE Fault
    BY <1>1, <1>2, Disturbed
  <1>3. CASE ~Fault
    <2>1. /\ regmap_write(REG_MMW_ABSENCE_0 + 1, High(wanted)) /\ UNCHANGED faults
          /\ base' = "idle" /\ base = "high"
          /\ current' = [current EXCEPT !.absence = wanted]
      BY <1>3 DEF AbsenceHigh
    <2>2. UNCHANGED <<radar, tpc, cfg, last, wanted>>
      BY DEF AbsenceHigh, radarVars, threadVars
    <2>3. /\ regs'[REG_MMW_MAX_GATE] = regs[REG_MMW_MAX_GATE]
          /\ regs'[REG_MMW_ABSENCE_0] = regs[REG_MMW_ABSENCE_0]
          /\ regs'[REG_MMW_ABSENCE_0 + 1] = High(wanted)
      BY <2>1, ConfigWrite, ConfigRegisters
    <2>4. CASE faults = 0 /\ restarts = 0
      <3>1. Low(wanted) + Radix * High(wanted) = wanted
        BY <2>1, <2>4, DelayRoundTrip DEF ConfigInv
      <3>2. NodeConfig' = current'
        BY <2>1, <2>3, <2>4, <3>1 DEF ConfigInv, NodeConfig, Config
      <3> QED
        BY <1>1, <2>1, <2>2, <2>4, <3>2 DEF ConfigInv, Config
    <2>5. CASE ~(faults = 0 /\ restarts = 0)
      BY <1>1, <2>1, <2>5 DEF ConfigInv
    <2> QED
      BY <2>4, <2>5
  <1> QED
    BY <1>2, <1>3

LEMMA StepConfig == ConfigInv /\ FreshInv /\ [Next]_vars => ConfigInv'
  <1> SUFFICES ASSUME ConfigInv, FreshInv, [Next]_vars PROVE ConfigInv'
    OBVIOUS
  <1>1. DOMAIN regs = Addr
    BY DEF FreshInv
  <1>2. CASE RadarBegins \/ uart_isr \/ feed_byte \/ UNCHANGED vars
    BY <1>2, SameConfig
    DEF RadarBegins, uart_isr, Received, feed_byte, vars, regVars, radarVars, threadVars
  <1>4. CASE WriteCtrl
    <2>1. \A a \in {REG_MMW_MAX_GATE, REG_MMW_ABSENCE_0, REG_MMW_ABSENCE_0 + 1} :
            a \in Addr /\ a # REG_CTRL
      BY DEF REG_MMW_MAX_GATE, REG_MMW_ABSENCE_0, REG_CTRL, Addr, REGMAP_SIZE
    <2>2. \A a \in {REG_MMW_MAX_GATE, REG_MMW_ABSENCE_0, REG_MMW_ABSENCE_0 + 1} :
            regs'[a] = regs[a]
      BY <1>1, <1>4, <2>1, CtrlWrite
    <2> QED
      BY <1>4, <2>2, SameConfig DEF WriteCtrl, radarVars, threadVars
  <1>3. CASE NodeRestart \/ BaseRestart
    BY <1>3, Disturbed DEF NodeRestart, BaseRestart
  <1> QED
    BY <1>1, <1>2, <1>3, <1>4, ThreadConfig, GateConfig, DelayConfig, HighConfig DEF Next

(* As long as no write has failed and no board has restarted, the radar    *)
(* has the settings that the menu shows as soon as the thread has seen the *)
(* registers in their present state (RadarMatchesMenu): for every sequence *)
(* of settings, also those that the thread reads half-written.             *)
THEOREM MenuIsApplied == Spec => []RadarMatchesMenu
  <1>1. ConfigInv => RadarMatchesMenu
    BY DEF ConfigInv, RadarMatchesMenu
  <1>2. Init => ConfigInv /\ FreshInv /\ wanted \in Int
    BY InitRadar, WantedTyped DEF RadarInv
  <1>3. (ConfigInv /\ FreshInv /\ wanted \in Int) /\ [Next]_vars
          => (ConfigInv /\ FreshInv /\ wanted \in Int)'
    BY StepConfig, StepFresh, WantedTyped
  <1> QED
    BY <1>1, <1>2, <1>3, PTL DEF Spec

-----------------------------------------------------------------------------
(* Lines.  Only a line's first fragment names what the line is about; the  *)
(* other half of the line comes right after it, wherever the two are on    *)
(* their way from the radar to the parser, unless the receiver is off.     *)
Names(f)   == f[1] \in {"O", "Range"}
Pair(f, g) == \E l \in Lines : f = l[1] /\ g = l[2]

(* The radar's next fragment is the other half of f. *)
Awaited(f) == sending # <<>> /\ Pair(f, sending[1])

SentInv ==
  /\ sending \in Seq(Fragment)
  /\ \A i \in 1 .. Len(sending) - 1 : Names(sending[i]) => Pair(sending[i], sending[i + 1])
  /\ sending # <<>> => ~Names(sending[Len(sending)])

RingInv ==
  /\ rx_ringbuf \in Seq(Fragment)
  /\ \A i \in 1 .. Len(rx_ringbuf) - 1 :
       Names(rx_ringbuf[i]) => Pair(rx_ringbuf[i], rx_ringbuf[i + 1])
  /\ (rx_enabled /\ rx_ringbuf # <<>> /\ Names(rx_ringbuf[Len(rx_ringbuf)]))
       => Awaited(rx_ringbuf[Len(rx_ringbuf)])

BufferInv ==
  /\ line_buf \in Seq(Fragment)
  /\ \A i \in 1 .. Len(line_buf) : ~EndsLine(line_buf[i])
  /\ \A i \in 1 .. Len(line_buf) - 1 : ~Names(line_buf[i])
  /\ (line_buf # <<>> /\ Names(line_buf[Len(line_buf)])) =>
       /\ rx_ringbuf # <<>> => Pair(line_buf[Len(line_buf)], rx_ringbuf[1])
       /\ (rx_enabled /\ rx_ringbuf = <<>>) => Awaited(line_buf[Len(line_buf)])

LineInv == SentInv /\ RingInv /\ BufferInv

LEMMA AtLeastTwo == ASSUME NEW n \in Nat, n # 0, n # 1 PROVE n >= 2
  OBVIOUS

LEMMA LineShape ==
  ASSUME NEW l \in Lines
  PROVE  /\ l = <<l[1], l[2]>> /\ l \in Seq(Fragment) /\ Len(l) = 2
         /\ Pair(l[1], l[2]) /\ ~Names(l[2]) /\ ~EndsLine(l[1]) /\ EndsLine(l[2])
  <1>1. l \in Fragment \X Fragment /\ ~EndsLine(l[1]) /\ EndsLine(l[2])
    BY MmWaveAssumption
  <1>2. l = <<l[1], l[2]>> /\ l[1] \in Fragment /\ l[2] \in Fragment
    BY <1>1
  <1>3. <<l[1], l[2]>> \in Seq(Fragment) /\ Len(<<l[1], l[2]>>) = 2
    BY <1>2
  <1>4. l \in Seq(Fragment) /\ Len(l) = 2
    BY <1>2, <1>3
  <1>5. Pair(l[1], l[2])
    BY DEF Pair
  <1>6. ~Names(l[2])
    BY <1>1 DEF Names, EndsLine
  <1> QED
    BY <1>1, <1>2, <1>4, <1>5, <1>6

LEMMA ReplyShape ==
  /\ Reply \in Seq(Fragment) /\ Len(Reply) = LineMax - 1
  /\ \A i \in 1 .. Len(Reply) : ~Names(Reply[i])
  <1>1. <<"?", 0>> \in Fragment
    BY DEF Fragment
  <1>2. ~Names(<<"?", 0>>)
    BY DEF Names
  <1>3. LineMax - 1 \in Nat
    BY MmWaveAssumption
  <1> QED
    BY <1>1, <1>2, <1>3 DEF Reply

(* What the radar sends, from its beginning or from the middle of it. *)
Sendable(s) ==
  /\ s \in Seq(Fragment)
  /\ \A i \in 1 .. Len(s) - 1 : Names(s[i]) => Pair(s[i], s[i + 1])
  /\ s # <<>> => ~Names(s[Len(s)])

LEMMA Begun ==
  ASSUME NEW s, s \in Lines \/ s = Reply
  PROVE  Sendable(s) /\ s # <<>>
  <1>1. CASE s \in Lines
    BY <1>1, LineShape DEF Sendable
  <1>2. CASE s = Reply
    <2>1. Len(s) >= 1
      BY <1>2, ReplyShape, AtLeastTwo, MmWaveAssumption
    <2> QED
      BY <1>2, <2>1, ReplyShape DEF Sendable
  <1> QED
    BY <1>1, <1>2

(* A fragment arrives: of s, which the radar has begun or begins now.      *)
LEMMA ReceivedLine ==
  ASSUME LineInv, NEW s, s # <<>>, Sendable(s), sending = <<>> \/ sending = s, Received(s)
  PROVE  LineInv'
  <1>1. /\ s # <<>> /\ sending' = Tail(s)
        /\ UNCHANGED <<line_buf, rx_enabled>>
        /\ rx_ringbuf' = IF rx_enabled THEN Append(rx_ringbuf, Head(s)) ELSE rx_ringbuf
    BY DEF Received
  <1>2. SentInv'
    BY <1>1 DEF Sendable, SentInv
  <1> DEFINE f == Head(s)
             r == rx_ringbuf
  <1>3. /\ f \in Fragment /\ f = s[1]
        /\ Names(f) => sending' # <<>> /\ Pair(f, sending'[1])
    <2>1. s \in Seq(Fragment) /\ s # <<>>
      BY <1>1 DEF Sendable
    <2>2. f \in Fragment /\ f = s[1]
      BY <2>1
    <2>3. CASE Len(s) = 1
      BY <2>1, <2>2, <2>3 DEF Sendable
    <2>4. CASE Len(s) # 1
      <3>1. Len(s) \in Nat /\ Len(s) # 0
        BY <2>1
      <3>2. Len(s) >= 2
        BY <2>4, <3>1, AtLeastTwo
      <3>3. 1 \in 1 .. Len(s) - 1
        BY <3>1, <3>2
      <3>4. Len(sending') = Len(s) - 1 /\ sending'[1] = s[2]
        BY <1>1, <2>1, <3>3
      <3>5. sending' # <<>>
        BY <2>1, <3>3, <3>4
      <3>6. Names(f) => Pair(f, s[2])
        BY <2>2, <3>3 DEF Sendable
      <3> QED
        BY <2>2, <3>6, <3>4, <3>5
    <2> QED
      BY <2>3, <2>4
  <1>4. CASE rx_enabled
    <2>1. r \in Seq(Fragment) /\ r' = Append(r, f)
      BY <1>1, <1>4 DEF LineInv, RingInv
    <2>2. /\ Len(r') = Len(r) + 1 /\ r'[Len(r')] = f /\ r' \in Seq(Fragment)
          /\ \A i \in 1 .. Len(r) : r'[i] = r[i]
      BY <1>3, <2>1
    <2> HIDE DEF f, r
    <2>3. (r # <<>> /\ Names(r[Len(r)])) => Pair(r[Len(r)], f)
      BY <1>3, <1>4 DEF LineInv, RingInv, Awaited, r
    <2>4. ASSUME NEW i \in 1 .. Len(r), Names(r'[i])
          PROVE  Pair(r'[i], r'[i + 1])
      <3>1. CASE i = Len(r)
        BY <2>1, <2>2, <2>3, <2>4, <3>1
      <3>2. CASE i < Len(r)
        <4>1. i \in 1 .. Len(r) - 1 /\ i + 1 \in 1 .. Len(r)
          BY <2>1, <3>2
        <4> QED
          BY <2>2, <2>4, <4>1 DEF LineInv, RingInv, r
      <3> QED
        BY <2>1, <3>1, <3>2
    <2>5. r' # <<>> /\ (Names(r'[Len(r')]) => sending' # <<>> /\ Pair(r'[Len(r')], sending'[1]))
      <3>1. Len(r') >= 1
        BY <2>1, <2>2
      <3>2. r' # <<>>
        BY <3>1
      <3> QED
        BY <1>3, <2>2, <3>2
    <2>6. RingInv'
      <3>1. Len(r') - 1 = Len(r)
        BY <2>1, <2>2
      <3>2. \A i \in 1 .. Len(r') - 1 : Names(r'[i]) => Pair(r'[i], r'[i + 1])
        BY <2>4, <3>1
      <3> QED
        BY <2>2, <2>5, <3>2 DEF RingInv, Awaited, r
    <2>7. BufferInv'
      <3>1. CASE r = <<>>
        <4>1. r'[1] = f
          BY <2>2, <3>1
        <4>2. line_buf # <<>> /\ Names(line_buf[Len(line_buf)]) => Pair(line_buf[Len(line_buf)], f)
          BY <1>3, <1>4, <3>1 DEF LineInv, BufferInv, Awaited, r
        <4> QED
          BY <1>1, <2>5, <4>1, <4>2 DEF LineInv, BufferInv, r
      <3>2. CASE r # <<>>
        <4>1. r'[1] = r[1]
          BY <2>1, <2>2, <3>2
        <4> QED
          BY <1>1, <2>5, <3>2, <4>1 DEF LineInv, BufferInv, r
      <3> QED
        BY <3>1, <3>2
    <2> QED
      BY <1>2, <2>6, <2>7 DEF LineInv
  <1>5. CASE ~rx_enabled
    BY <1>1, <1>2, <1>5 DEF LineInv, RingInv, BufferInv
  <1> QED
    BY <1>4, <1>5

LEMMA RadarLine == LineInv /\ (RadarBegins \/ uart_isr) => LineInv'
  <1> SUFFICES ASSUME LineInv, RadarBegins \/ uart_isr PROVE LineInv'
    OBVIOUS
  <1>1. CASE RadarBegins
    <2>1. PICK s : (s \in Lines \/ s = Reply) /\ Received(s)
      BY <1>1 DEF RadarBegins
    <2> QED
      BY <1>1, <2>1, Begun, ReceivedLine DEF RadarBegins
  <1>2. CASE uart_isr
    <2>1. Sendable(sending)
      BY DEF LineInv, SentInv, Sendable
    <2> QED
      BY <1>2, <2>1, ReceivedLine DEF uart_isr
  <1> QED
    BY <1>1, <1>2

LEMMA FedLineInv == LineInv /\ feed_byte => LineInv'
  <1> SUFFICES ASSUME LineInv, feed_byte PROVE LineInv'
    OBVIOUS
  <1> DEFINE r == rx_ringbuf
             b == line_buf
             f == Head(rx_ringbuf)
  <1>1. /\ r # <<>> /\ r' = Tail(r)
        /\ UNCHANGED <<sending, rx_enabled>>
        /\ b' = <<>> \/ (b' = Append(b, f) /\ ~EndsLine(f))
    BY DEF feed_byte, radarVars, FedLine
  <1>2. r \in Seq(Fragment) /\ b \in Seq(Fragment)
    BY DEF LineInv, RingInv, BufferInv
  <1>3. /\ f = r[1] /\ f \in Fragment
        /\ r' \in Seq(Fragment) /\ Len(r') = Len(r) - 1
        /\ \A i \in 1 .. Len(r') : r'[i] = r[i + 1]
    BY <1>1, <1>2
  <1> HIDE DEF r, b, f
  <1>4. SentInv'
    BY <1>1 DEF LineInv, SentInv
  <1>5. RingInv'
    <2>1. ASSUME NEW i \in 1 .. Len(r') - 1, Names(r'[i])
          PROVE  Pair(r'[i], r'[i + 1])
      <3>1. i + 1 \in 1 .. Len(r) - 1 /\ i \in 1 .. Len(r') /\ i + 1 \in 1 .. Len(r')
        BY <1>2, <1>3
      <3> QED
        BY <1>3, <2>1, <3>1 DEF LineInv, RingInv, r
    <2>2. r' # <<>> => r'[Len(r')] = r[Len(r)]
      <3>1. r' # <<>> => Len(r') \in 1 .. Len(r')
        BY <1>3
      <3> QED
        BY <1>2, <1>3, <3>1
    <2>3. rx_enabled /\ Names(r[Len(r)]) => sending # <<>> /\ Pair(r[Len(r)], sending[1])
      BY <1>1 DEF LineInv, RingInv, Awaited, r
    <2>4. rx_enabled' /\ r' # <<>> /\ Names(r'[Len(r')])
            => sending' # <<>> /\ Pair(r'[Len(r')], sending'[1])
      BY <1>1, <2>2, <2>3
    <2> QED
      BY <1>3, <2>1, <2>4 DEF RingInv, Awaited, r
  <1>6. BufferInv'
    <2>1. CASE b' = <<>>
      BY <2>1 DEF BufferInv, b
    <2>2. CASE b' = Append(b, f) /\ ~EndsLine(f)
      <3>1. /\ b' \in Seq(Fragment) /\ Len(b') = Len(b) + 1 /\ b'[Len(b')] = f
            /\ \A i \in 1 .. Len(b) : b'[i] = b[i]
        BY <1>2, <1>3, <2>2
      <3>2. ASSUME b # <<>>, Names(b[Len(b)]) PROVE FALSE
        <4>1. Pair(b[Len(b)], f)
          BY <1>1, <1>3, <3>2 DEF LineInv, BufferInv, b, r
        <4> QED
          BY <2>2, <4>1, LineShape DEF Pair
      <3>3. \A i \in 1 .. Len(b') : ~EndsLine(b'[i])
        <4>1. ASSUME NEW i \in 1 .. Len(b') PROVE ~EndsLine(b'[i])
          <5>1. CASE i = Len(b')
            BY <2>2, <3>1, <5>1
          <5>2. CASE i # Len(b')
            <6>1. i \in 1 .. Len(b)
              BY <1>2, <3>1, <5>2
            <6> QED
              BY <3>1, <6>1 DEF LineInv, BufferInv, b
          <5> QED
            BY <5>1, <5>2
        <4> QED
          BY <4>1
      <3>4. \A i \in 1 .. Len(b') - 1 : ~Names(b'[i])
        <4>1. ASSUME NEW i \in 1 .. Len(b), Names(b[i]) PROVE FALSE
          <5>1. CASE i = Len(b)
            BY <1>2, <3>2, <4>1, <5>1
          <5>2. CASE i # Len(b)
            <6>1. i \in 1 .. Len(b) - 1
              BY <1>2, <5>2
            <6> QED
              BY <4>1, <6>1 DEF LineInv, BufferInv, b
          <5> QED
            BY <5>1, <5>2
        <4>2. Len(b') - 1 = Len(b)
          BY <1>2, <3>1
        <4> QED
          BY <3>1, <4>1, <4>2
      <3>5. Names(f) /\ r' # <<>> => Pair(f, r'[1])
        <4>1. r' # <<>> => 1 \in 1 .. Len(r) - 1 /\ 1 \in 1 .. Len(r')
          BY <1>2, <1>3
        <4>2. r' # <<>> => r'[1] = r[2]
          BY <1>3, <4>1
        <4> QED
          BY <1>3, <4>1, <4>2 DEF LineInv, RingInv, r
      <3>6. Names(f) /\ r' = <<>> /\ rx_enabled' => sending' # <<>> /\ Pair(f, sending'[1])
        <4>1. r' = <<>> => Len(r) = 1
          BY <1>2, <1>3
        <4>2. r' = <<>> => f = r[Len(r)]
          BY <1>3, <4>1
        <4> QED
          BY <1>1, <4>2 DEF LineInv, RingInv, Awaited, r
      <3> QED
        BY <3>1, <3>3, <3>4, <3>5, <3>6 DEF BufferInv, b, r, Awaited
    <2> QED
      BY <1>1, <2>1, <2>2
  <1> QED
    BY <1>4, <1>5, <1>6 DEF LineInv

LEMMA StepLine == LineInv /\ [Next]_vars => LineInv'
  <1> SUFFICES ASSUME LineInv, [Next]_vars PROVE LineInv'
    OBVIOUS
  <1>1. CASE Pause
    BY <1>1 DEF Pause, LineInv, SentInv, RingInv, BufferInv, Awaited, radarVars
  <1>2. CASE Resume \/ NodeRestart
    <2>1. sending' = sending /\ rx_ringbuf' = <<>> /\ line_buf' = <<>>
      BY <1>2 DEF Resume, NodeRestart, radarVars
    <2> QED
      BY <2>1 DEF LineInv, SentInv, RingInv, BufferInv
  <1>3. CASE UNCHANGED <<sending, uartVars>>
    BY <1>3 DEF uartVars, LineInv, SentInv, RingInv, BufferInv, Awaited
  <1>4. CASE UNCHANGED vars
    BY <1>3, <1>4 DEF vars, radarVars
  <1> QED
    BY <1>1, <1>3, <1>4, <1>2, RadarLine, FedLineInv
    DEF Next, WriteCtrl, Thread, TestCtrl, ReadConfig, SendFrame, mmwave_is_occupied, Publish, PeriodEnds,
        configure_max_gate, configure_absence_delay, AbsenceHigh, BaseRestart, radarVars

LEMMA InitLine == Init => LineInv
  BY DEF Init, LineInv, SentInv, RingInv, BufferInv

(* A fed line that the parser understands was a line of the radar. *)
LEMMA UnderstoodIsWhole ==
  ASSUME LineInv, rx_ringbuf # <<>>, EndsLine(Head(rx_ringbuf)), Understood(FedLine)
  PROVE  FedLine \in Lines
  <1> DEFINE f == Head(rx_ringbuf)
             b == line_buf
  <1>1. /\ b \in Seq(Fragment) /\ f \in Fragment /\ f = rx_ringbuf[1]
        /\ FedLine = Append(b, f)
    BY DEF LineInv, RingInv, BufferInv, FedLine
  <1>2. Names(FedLine[1])
    BY DEF Understood, SaysOn, SaysOff, SaysRange, Names
  <1>3. ~Names(f)
    BY DEF Names, EndsLine
  <1> HIDE DEF f, b
  <1>4. Len(b) >= 1 /\ FedLine[1] = b[1]
    BY <1>1, <1>2, <1>3
  <1>5. Len(b) \in Nat
    BY <1>1
  <1>6. ASSUME Len(b) # 1 PROVE FALSE
    <2>1. 1 \in 1 .. Len(b) - 1
      BY <1>4, <1>6, <1>5
    <2> QED
      BY <1>2, <1>4, <2>1 DEF LineInv, BufferInv, b
  <1>7. Pair(b[1], f)
    BY <1>1, <1>2, <1>4, <1>6 DEF LineInv, BufferInv, b
  <1>8. FedLine = <<b[1], f>>
    <2>1. b[1] \in Fragment
      BY <1>1, <1>6, <1>5
    <2>2. Append(b, f) \in Seq(Fragment) /\ <<b[1], f>> \in Seq(Fragment)
      BY <1>1, <2>1
    <2>3. Len(Append(b, f)) = 2 /\ Append(b, f)[1] = b[1] /\ Append(b, f)[2] = f
      BY <1>1, <1>6, <1>5
    <2> DEFINE s == Append(b, f)
               t == <<b[1], f>>
    <2>4. Len(t) = 2 /\ t[1] = b[1] /\ t[2] = f
      OBVIOUS
    <2> HIDE DEF s, t
    <2>5. \A i \in 1 .. Len(s) : s[i] = t[i]
      <3>1. Len(s) = 2 /\ s[1] = b[1] /\ s[2] = f
        BY <2>3 DEF s
      <3> QED
        BY <2>4, <3>1
    <2>6. s \in Seq(Fragment) /\ t \in Seq(Fragment) /\ Len(s) = Len(t)
      BY <2>2, <2>3, <2>4 DEF s, t
    <2>7. s = t
      BY <2>5, <2>6, SeqEqual
    <2> QED
      BY <1>1, <2>7 DEF s, t
  <1> QED
    BY <1>7, <1>8, LineShape DEF Pair

-----------------------------------------------------------------------------
(* Types *)
TypeInv == TypeOK /\ LineInv /\ wanted \in Int

ConfigTyped(c) == c = NoConfig \/ (c.gate \in Digit /\ c.absence \in 0 .. Radix * Radix - 1)

LEMMA NodeConfigTyped == RegTypeOK => ConfigTyped(NodeConfig)
  <1> SUFFICES ASSUME RegTypeOK PROVE ConfigTyped(NodeConfig)
    OBVIOUS
  <1> DEFINE lo == regs[REG_MMW_ABSENCE_0]
             hi == regs[REG_MMW_ABSENCE_0 + 1]
  <1>1. regs[REG_MMW_MAX_GATE] \in Digit /\ lo \in Digit /\ hi \in Digit
    BY DEF RegTypeOK, REG_MMW_MAX_GATE, REG_MMW_ABSENCE_0, REG_STATUS, REG_CTRL, REG_INT_SRC,
           REG_INT_EN, FlagRegs, Addr, REGMAP_SIZE
  <1> HIDE DEF lo, hi
  <1>2. lo + Radix * hi \in 0 .. Radix * Radix - 1
    <2>1. Radix \in Nat /\ Radix >= 6 /\ lo \in 0 .. Radix - 1 /\ hi \in 0 .. Radix - 1
      BY <1>1, RadixAssumption DEF Digit
    <2>2. Radix * hi <= Radix * (Radix - 1) /\ Radix * hi >= 0 /\ Radix * hi \in Int
      BY <2>1
    <2>3. Radix * (Radix - 1) = Radix * Radix - Radix /\ Radix * Radix \in Int
      BY <2>1
    <2> QED
      BY <2>1, <2>2, <2>3
  <1> QED
    BY <1>1, <1>2 DEF NodeConfig, Config, ConfigTyped, lo, hi

(* The line that feed_byte gives to the parser leaves a state of its type. *)
LEMMA ParsedTyped ==
  ASSUME NEW l \in Seq(Fragment), l # <<>>, cur_state \in [present : BOOLEAN, range_cm : Nat]
  PROVE  parse_line(l) \in [present : BOOLEAN, range_cm : Nat]
  <1>1. Len(l) \in Nat /\ Len(l) >= 1 /\ l[1] \in Fragment
    OBVIOUS
  <1>2. l[1][2] \in Nat
    BY <1>1 DEF Fragment
  <1>3. Second(l) = "cm" => l[2][2] \in Nat
    <2>1. CASE Len(l) > 1
      <3>1. l[2] \in Fragment
        BY <1>1, <2>1
      <3> QED
        BY <3>1 DEF Fragment
    <2>2. CASE ~(Len(l) > 1)
      BY <2>2 DEF Second
    <2> QED
      BY <2>1, <2>2
  <1> DEFINE range == IF Second(l) = "cm" THEN 10 * l[1][2] + l[2][2] ELSE l[1][2]
  <1>4. range \in Nat
    BY <1>2, <1>3
  <1> HIDE DEF range
  <1>5. parse_line(l) \in {[cur_state EXCEPT !.present = TRUE], [present |-> FALSE, range_cm |-> 0],
                           [cur_state EXCEPT !.range_cm = range], cur_state}
    BY Zenon DEF parse_line, range
  <1>6. /\ [cur_state EXCEPT !.present = TRUE] \in [present : BOOLEAN, range_cm : Nat]
        /\ [cur_state EXCEPT !.range_cm = range] \in [present : BOOLEAN, range_cm : Nat]
    BY <1>4
  <1>7. [present |-> FALSE, range_cm |-> 0] \in [present : BOOLEAN, range_cm : Nat]
    OBVIOUS
  <1> QED
    BY <1>5, <1>6, <1>7

(* A line or a reply that the radar begins is short enough for the buffer. *)
LEMMA BegunLength ==
  ASSUME NEW s, s \in Lines \/ s = Reply
  PROVE  Len(s) <= LineMax
  <1>1. LineMax \in Nat /\ LineMax >= 2
    BY MmWaveAssumption, AtLeastTwo
  <1>2. CASE s \in Lines
    <2>1. Len(s) = 2
      BY <1>2, LineShape
    <2> QED
      BY <1>1, <2>1
  <1>3. CASE s = Reply
    <2>1. Len(s) = LineMax - 1
      BY <1>3, ReplyShape
    <2> QED
      BY <1>1, <2>1
  <1> QED
    BY <1>2, <1>3

LEMMA ReceivedTyped ==
  ASSUME TypeInv, NEW s \in Seq(Fragment), s # <<>>, Len(s) <= LineMax, Received(s),
         owed' = owed \/ (owed > 0 /\ owed' = owed - 1)
  PROVE  TypeOK'
  <1>1. owed' \in 0 .. 1
    BY DEF TypeInv, TypeOK
  <1>2. Len(sending') <= LineMax
    BY MmWaveAssumption DEF Received
  <1>3. Len(rx_ringbuf') <= RingMax
    BY MmWaveAssumption DEF Received, TypeInv, TypeOK, LineInv, RingInv
  <1> QED
    BY <1>1, <1>2, <1>3 DEF Received, TypeInv, TypeOK, RegTypeOK, regVars, threadVars, baseVars

LEMMA RadioTyped ==
  ASSUME TypeInv, RadarBegins \/ uart_isr \/ feed_byte
  PROVE  TypeOK'
  <1> USE MmWaveAssumption
  <1>1. CASE RadarBegins
    <2>1. PICK s : (s \in Lines \/ s = Reply) /\ Received(s)
      BY <1>1 DEF RadarBegins
    <2>2. owed' = owed \/ (owed > 0 /\ owed' = owed - 1)
      BY <1>1 DEF RadarBegins
    <2>3. s \in Seq(Fragment) /\ s # <<>>
      BY <2>1, Begun DEF Sendable
    <2> QED
      BY <2>1, <2>2, <2>3, BegunLength, ReceivedTyped
  <1>2. CASE uart_isr
    <2>1. sending \in Seq(Fragment) /\ Len(sending) <= LineMax
      BY DEF TypeInv, TypeOK, LineInv, SentInv
    <2> QED
      BY <1>2, <2>1, ReceivedTyped DEF uart_isr
  <1>3. CASE feed_byte
    <2>1. Head(rx_ringbuf) \in Fragment /\ Len(rx_ringbuf') <= RingMax
      BY <1>3 DEF feed_byte, TypeInv, TypeOK, LineInv, RingInv
    <2>2. /\ line_buf \in Seq(Fragment) /\ Len(line_buf) <= LineMax
          /\ FedLine = Append(line_buf, Head(rx_ringbuf))
      BY DEF FedLine, TypeInv, TypeOK, LineInv, BufferInv
    <2>3. FedLine \in Seq(Fragment) /\ Len(FedLine) = Len(line_buf) + 1 /\ Len(line_buf) \in Nat
      BY <2>1, <2>2
    <2>4. /\ FedLine \in Seq(Fragment) /\ FedLine # <<>>
          /\ Len(line_buf) # LineMax => Len(FedLine) <= LineMax
      <3>1. FedLine # <<>>
        BY <2>3
      <3> QED
        BY <2>2, <2>3, <3>1
    <2>5. Len(line_buf') <= LineMax
      BY <1>3, <2>4 DEF feed_byte
    <2>6. cur_state' \in [present : BOOLEAN, range_cm : Nat]
      BY <1>3, <2>4, ParsedTyped DEF feed_byte, TypeInv, TypeOK
    <2>7. age' \in 0 .. Staleness + 3
      BY <1>3 DEF feed_byte, TypeInv, TypeOK
    <2> QED
      BY <1>3, <2>1, <2>5, <2>6, <2>7
      DEF feed_byte, TypeInv, TypeOK, RegTypeOK, regVars, radarVars, threadVars, baseVars
  <1> QED
    BY <1>1, <1>2, <1>3

LEMMA ThreadTyped ==
  ASSUME TypeInv, Thread
  PROVE  TypeOK'
  <1> USE MmWaveAssumption
  <1>1. CASE ReadConfig
    <2>1. ConfigTyped(cfg')
      BY <1>1, NodeConfigTyped DEF ReadConfig, TypeInv, TypeOK
    <2> QED
      BY <1>1, <2>1
      DEF ReadConfig, TypeInv, TypeOK, RegTypeOK, ConfigTyped, NoConfig, regVars, radarVars,
          uartVars, baseVars
  <1>2. CASE Pause
    BY <1>2 DEF Pause, TypeInv, TypeOK, RegTypeOK, regVars, radarVars, baseVars
  <1>3. CASE SendFrame
    BY <1>3 DEF SendFrame, TypeInv, TypeOK, RegTypeOK, regVars, uartVars, baseVars
  <1>9. Older(age) \in 0 .. Staleness + 3
    BY DEF Older, TypeInv, TypeOK
  <1>4. CASE Resume
    BY <1>4, <1>9 DEF Resume, TypeInv, TypeOK, RegTypeOK, regVars, radarVars, baseVars
  <1>5. CASE mmwave_is_occupied
    <2>1. occ' \in BOOLEAN
      BY <1>5 DEF mmwave_is_occupied
    <2> QED
      BY <1>5, <2>1
      DEF mmwave_is_occupied, TypeInv, TypeOK, RegTypeOK, regVars, radarVars, uartVars,
          baseVars
  <1>6. CASE Publish
    <2>1. RegTypeOK'
      BY <1>6, PublishTyped DEF Publish, TypeInv, TypeOK
    <2> QED
      BY <1>6, <2>1 DEF Publish, TypeInv, TypeOK, radarVars, uartVars, baseVars
  <1>7. CASE PeriodEnds
    BY <1>7, <1>9
    DEF PeriodEnds, TypeInv, TypeOK, RegTypeOK, regVars, radarVars, uartVars, baseVars
  <1>8. CASE TestCtrl
    <2>1. tpc' \in {"config", "sleep"} /\ skipped' \in {TRUE, skipped}
      BY <1>8 DEF TestCtrl
    <2>2. tpc' \in {"ctrl", "config", "pause", "send", "resume", "occupied", "publish", "sleep"}
          /\ skipped' \in BOOLEAN
      BY <2>1 DEF TypeInv, TypeOK
    <2> QED
      BY <1>8, <2>2
      DEF TestCtrl, TypeInv, TypeOK, RegTypeOK, regVars, radarVars, uartVars, baseVars
  <1> QED
    BY <1>1, <1>2, <1>3, <1>4, <1>5, <1>6, <1>7, <1>8 DEF Thread

LEMMA ConfigByte ==
  ASSUME RegTypeOK, NEW v \in Digit,
         NEW a \in {REG_MMW_MAX_GATE, REG_MMW_ABSENCE_0, REG_MMW_ABSENCE_0 + 1},
         Wrote(a, v)
  PROVE  RegTypeOK'
  <1>1. a \in Addr /\ v \in BusByte(a)
    BY DEF BusByte, FlagRegs, Addr, REGMAP_SIZE, REG_MMW_MAX_GATE, REG_MMW_ABSENCE_0, REG_STATUS,
           REG_CTRL, REG_INT_SRC, REG_INT_EN
  <1>2. CASE regmap_write(a, v)
    BY <1>1, <1>2, WriteTyped
  <1>3. CASE UNCHANGED regVars
    BY <1>3 DEF regVars, RegTypeOK
  <1> QED
    BY <1>2, <1>3 DEF Wrote

LEMMA MenuTyped ==
  ASSUME TypeInv, configure_max_gate \/ configure_absence_delay \/ AbsenceHigh
  PROVE  TypeOK'
  <1> USE MmWaveAssumption
  <1>1. RegTypeOK /\ wanted \in Int
    BY DEF TypeInv, TypeOK
  <1>2. CASE configure_max_gate
    <2>1. PICK g \in Gates : Wrote(REG_MMW_MAX_GATE, g)
      BY <1>2 DEF configure_max_gate, Wrote
    <2>2. RegTypeOK'
      BY <1>1, <2>1, ConfigByte
    <2>3. faults' = faults \/ (faults < MaxFaults /\ faults' = faults + 1)
      BY <1>2 DEF configure_max_gate, Fault
    <2>4. sets < MaxSets /\ sets' = sets + 1
      BY <1>2 DEF configure_max_gate, Entered
    <2>5. sets' \in 0 .. MaxSets /\ faults' \in 0 .. MaxFaults
      BY <2>3, <2>4 DEF TypeInv, TypeOK
    <2> QED
      BY <1>2, <2>2, <2>5
      DEF configure_max_gate, Entered, TypeInv, TypeOK, radarVars, uartVars, threadVars
  <1>3. CASE configure_absence_delay
    <2>1. wanted' \in Int
      BY <1>3, RadixAssumption DEF configure_absence_delay
    <2>2. Wrote(REG_MMW_ABSENCE_0, Low(wanted'))
      BY <1>3 DEF configure_absence_delay, Wrote
    <2>3. RegTypeOK'
      BY <1>1, <2>1, <2>2, DigitsTyped, ConfigByte
    <2>4. sets' \in 0 .. MaxSets /\ faults' \in 0 .. MaxFaults /\ base' \in {"idle", "high"}
      BY <1>3 DEF configure_absence_delay, Entered, Fault, TypeInv, TypeOK
    <2> QED
      BY <1>3, <2>3, <2>4
      DEF configure_absence_delay, Entered, TypeInv, TypeOK, radarVars, uartVars, threadVars
  <1>4. CASE AbsenceHigh
    <2>1. Wrote(REG_MMW_ABSENCE_0 + 1, High(wanted))
      BY <1>4 DEF AbsenceHigh, Wrote
    <2>2. RegTypeOK'
      BY <1>1, <2>1, DigitsTyped, ConfigByte
    <2>3. faults' = faults \/ (faults < MaxFaults /\ faults' = faults + 1)
      BY <1>4 DEF AbsenceHigh, Fault
    <2>4. faults' \in 0 .. MaxFaults
      BY <2>3 DEF TypeInv, TypeOK
    <2> QED
      BY <1>4, <2>2, <2>4 DEF AbsenceHigh, TypeInv, TypeOK, radarVars, uartVars, threadVars
  <1> QED
    BY <1>2, <1>3, <1>4

LEMMA StepTyped == TypeInv /\ [Next]_vars => TypeInv'
  <1> SUFFICES ASSUME TypeInv, [Next]_vars PROVE TypeInv'
    OBVIOUS
  <1>1. LineInv' /\ wanted' \in Int
    BY StepLine, WantedTyped DEF TypeInv
  <1>2. CASE NodeRestart
    <2>1. RegTypeOK'
      BY <1>2, InitialTyped DEF NodeRestart
    <2>2. restarts' \in 0 .. MaxRestarts
      BY <1>2, MmWaveAssumption DEF NodeRestart, Restarting, TypeInv, TypeOK
    <2>3. /\ Len(rx_ringbuf') <= RingMax /\ Len(line_buf') <= LineMax
          /\ cur_state' \in [present : BOOLEAN, range_cm : Nat] /\ age' \in 0 .. Staleness + 3
      BY <1>2, MmWaveAssumption DEF NodeRestart
    <2>4. \A c \in {cfg', last', radar'} : c = NoConfig \/ (c.gate \in Digit /\ c.absence \in 0 .. Radix * Radix - 1)
      <3>1. cfg' = NoConfig /\ last' = NoConfig /\ radar' = radar
        BY <1>2 DEF NodeRestart
      <3> QED
        BY <3>1 DEF TypeInv, TypeOK
    <2>5. rx_enabled' \in BOOLEAN /\ occ' \in BOOLEAN /\ skipped' \in BOOLEAN
      BY <1>2 DEF NodeRestart
    <2>6. owed' \in 0 .. 1
      BY <1>2 DEF NodeRestart
    <2>7. TypeOK'
      BY <1>2, <2>1, <2>2, <2>3, <2>4, <2>5, <2>6 DEF NodeRestart, TypeInv, TypeOK
    <2> QED
      BY <1>1, <2>7 DEF TypeInv
  <1>3. CASE BaseRestart
    <2>1. restarts' \in 0 .. MaxRestarts
      BY <1>3, MmWaveAssumption DEF BaseRestart, Restarting, TypeInv, TypeOK
    <2> QED
      BY <1>1, <1>3, <2>1
      DEF BaseRestart, TypeInv, TypeOK, RegTypeOK, regVars, radarVars, uartVars, threadVars
  <1>5. CASE WriteCtrl
    <2>1. PICK v \in CtrlWrites : regmap_write(REG_CTRL, v)
      BY <1>5 DEF WriteCtrl
    <2>2. REG_CTRL \in Addr /\ v \in BusByte(REG_CTRL) /\ RegTypeOK
      BY MmWaveAssumption DEF REG_CTRL, Addr, REGMAP_SIZE, TypeInv, TypeOK
    <2>3. RegTypeOK'
      BY <2>1, <2>2, WriteTyped
    <2>4. TypeOK'
      BY <1>5, <2>3
      DEF WriteCtrl, TypeInv, TypeOK, radarVars, uartVars, threadVars, baseVars
    <2> QED
      BY <1>1, <2>4 DEF TypeInv
  <1>4. CASE UNCHANGED vars
    BY <1>1, <1>4
    DEF vars, TypeInv, TypeOK, RegTypeOK, regVars, radarVars, uartVars, threadVars, baseVars
  <1> QED
    BY <1>1, <1>2, <1>3, <1>4, <1>5, RadioTyped, ThreadTyped, MenuTyped DEF Next, TypeInv

LEMMA InitTyped == Init => TypeInv
  <1> SUFFICES ASSUME Init PROVE TypeInv
    OBVIOUS
  <1>1. RegTypeOK
    BY InitialTyped DEF Init
  <1>2. LineInv /\ wanted \in Int
    BY InitLine, WantedTyped
  <1>3. /\ Len(sending) <= LineMax /\ Len(rx_ringbuf) <= RingMax /\ Len(line_buf) <= LineMax
        /\ cur_state \in [present : BOOLEAN, range_cm : Nat] /\ age \in 0 .. Staleness + 3
    BY MmWaveAssumption DEF Init
  <1>4. sets \in 0 .. MaxSets /\ faults \in 0 .. MaxFaults /\ restarts \in 0 .. MaxRestarts
    BY MmWaveAssumption DEF Init
  <1>5. \A c \in {cfg, last, radar} : c = NoConfig
    BY DEF Init
  <1>6. rx_enabled \in BOOLEAN /\ occ \in BOOLEAN /\ skipped \in BOOLEAN
    BY DEF Init
  <1>7. owed \in 0 .. 1
    BY DEF Init
  <1>8. TypeOK
    BY <1>1, <1>3, <1>4, <1>5, <1>6, <1>7 DEF Init, TypeOK
  <1> QED
    BY <1>1, <1>2, <1>3, <1>4, <1>8 DEF TypeInv

(* Every variable keeps its type (TypeOK): in particular the receive ring, *)
(* the line buffer and the digits of the configuration keep their bounds.  *)
THEOREM TypeCorrect == Spec => []TypeOK
  <1>1. TypeInv => TypeOK
    BY DEF TypeInv
  <1> QED
    BY <1>1, InitTyped, StepTyped, PTL DEF Spec

-----------------------------------------------------------------------------
(* What the parser takes for a line, and acts on, is a line that the radar *)
(* sent whole (AcceptedLineIsWhole), whatever lines the radar has, however *)
(* many are waiting, and wherever a pause of the receiver or a restart of  *)
(* the node cuts the stream.  Lines may be any set: with one whose lines   *)
(* have no fragment in common, the two halves come from the same line.     *)
THEOREM LinesAreWhole == Spec => AcceptedLineIsWhole
  <1>1. TypeInv /\ [Next]_vars =>
          [((cur_state' # cur_state \/ age' < age) /\ restarts' = restarts)
             => FedLine \in Lines]_vars
    <2> SUFFICES ASSUME TypeInv, Next, cur_state' # cur_state \/ age' < age,
                        restarts' = restarts
                 PROVE  FedLine \in Lines
      OBVIOUS
    <2>1. ~NodeRestart
      BY MmWaveAssumption DEF NodeRestart, Restarting, TypeInv, TypeOK
    <2>2. age \in Nat /\ ~(age < age) /\ ~(Older(age) < age)
      BY MmWaveAssumption DEF TypeInv, TypeOK, Older
    <2>3. feed_byte
      <3>1. feed_byte \/ (UNCHANGED cur_state /\ (age' = age \/ age' = Older(age)))
        BY <2>1
        DEF Next, RadarBegins, uart_isr, Received, WriteCtrl, Thread, TestCtrl, ReadConfig, Pause,
            SendFrame, Resume, mmwave_is_occupied, Publish, PeriodEnds, configure_max_gate,
            configure_absence_delay, AbsenceHigh, BaseRestart, uartVars
      <3> QED
        BY <2>2, <3>1
    <2>4. /\ rx_ringbuf # <<>> /\ EndsLine(Head(rx_ringbuf))
          /\ cur_state' = parse_line(FedLine)
          /\ age' = IF Understood(FedLine) THEN 0 ELSE age
      BY <2>2, <2>3 DEF feed_byte
    <2>5. Understood(FedLine)
      BY <2>2, <2>4, Zenon DEF parse_line, Understood
    <2> QED
      BY <2>4, <2>5, UnderstoodIsWhole DEF TypeInv
  <1> QED
    BY <1>1, InitTyped, StepTyped, PTL DEF Spec, AcceptedLineIsWhole

=============================================================================
