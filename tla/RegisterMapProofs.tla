-------------------------- MODULE RegisterMapProofs --------------------------
(***************************************************************************)
(* Lemmas about the operations of RegisterMap, for every Radix and every   *)
(* set of readings; the modules that prove things about a system built on  *)
(* the register map cite them.                                             *)
(***************************************************************************)
EXTENDS RegisterMap, TLAPS

(* Quotient and remainder of an integer. *)
LEMMA DivMod ==
  ASSUME NEW k \in Nat, k > 0, NEW v \in Int
  PROVE  /\ v % k \in 0 .. k - 1
         /\ v \div k \in Int
         /\ v = k * (v \div k) + (v % k)
  <1>1. v % k \in 0 .. k - 1
    OBVIOUS
  <1>2. v \div k \in Int
    OBVIOUS
  <1>3. v = k * (v \div k) + (v % k)
    OBVIOUS
  <1> QED
    BY <1>1, <1>2, <1>3

(* A quotient within half the radix, and the digit that stands for it. *)
LEMMA QuotientBounds ==
  ASSUME NEW h \in Nat, h > 0, NEW q \in Int, NEW r \in 0 .. 2 * h - 1,
         -(2 * h * h) <= (2 * h) * q + r, (2 * h) * q + r < 2 * h * h
  PROVE  -h <= q /\ q < h
  <1>1. q < h
    <2>1. SUFFICES ASSUME q >= h PROVE FALSE
      OBVIOUS
    <2>2. (2 * h) * q >= (2 * h) * h
      BY <2>1
    <2> QED
      BY <2>2
  <1>2. q >= -h
    <2>1. SUFFICES ASSUME q <= -h - 1 PROVE FALSE
      OBVIOUS
    <2>2. (2 * h) * q <= (2 * h) * (-h - 1)
      BY <2>1
    <2> QED
      BY <2>2
  <1> QED
    BY <1>1, <1>2

LEMMA WrappedDigit ==
  ASSUME NEW k \in Nat, k > 0, NEW q \in -k .. k - 1
  PROVE  q % k = IF q >= 0 THEN q ELSE q + k
  <1>1. CASE q >= 0
    BY <1>1
  <1>2. CASE q < 0
    BY <1>2
  <1> QED
    BY <1>1, <1>2

(* The digits of a number are digits. *)
LEMMA DigitsTyped == \A v \in Int : Low(v) \in Digit /\ High(v) \in Digit
  <1>1. \A v \in Int : v % Radix \in Digit /\ v \div Radix \in Int
    BY DivMod, RadixAssumption DEF Digit
  <1> QED
    BY <1>1 DEF Low, High

(* Splitting a number in two digits and reading it back loses nothing.     *)
LEMMA RoundTrip == ASSUME NEW v \in Int2 PROVE Signed(Low(v), High(v)) = v
  <1> DEFINE q == v \div Radix
             r == v % Radix
             H == Radix \div 2
  <1>1. H \in Nat /\ Radix = 2 * H /\ H >= 3
    BY RadixAssumption
  <1>2. (Radix * Radix) \div 2 = 2 * H * H
    BY <1>1
  <1>3. v \in Int /\ -(2 * H * H) <= v /\ v < 2 * H * H
    BY <1>1, <1>2 DEF Int2
  <1> HIDE DEF H
  <1>4. q \in Int /\ r \in 0 .. 2 * H - 1 /\ v = (2 * H) * q + r
    BY <1>1, <1>3, DivMod
  <1> HIDE DEF q, r
  <1>5. -H <= q /\ q < H
    BY <1>1, <1>3, <1>4, QuotientBounds
  <1>6. q % Radix = IF q >= 0 THEN q ELSE q + Radix
    BY <1>1, <1>4, <1>5, WrappedDigit
  <1>7. Low(v) = r /\ High(v) = q % Radix
    BY DEF Low, High, q, r
  <1> QED
    BY <1>1, <1>3, <1>4, <1>5, <1>6, <1>7 DEF Signed

-----------------------------------------------------------------------------
(* A bus byte keeps the type of the register it is addressed to. *)
LEMMA WriteTyped ==
  ASSUME NEW a \in Addr, NEW v \in BusByte(a), RegTypeOK, regmap_write(a, v)
  PROVE  RegTypeOK'
  <1> USE DEF REG_STATUS, REG_CTRL, REG_INT_SRC, REG_INT_EN, REG_MLX_OBJ_0, REG_MMW_PRESENT,
              REG_MMW_MAX_GATE, REG_MMW_ABSENCE_0, REG_T_OBJ_HIGH_0, REG_CHIP_ID,
              REGMAP_SIZE, Addr, FlagRegs, T_OBJ_HIGH, IRQ_PENDING, DATA_READY
  <1> DEFINE stored == [regs EXCEPT ![a] = sanitize_interrupt_write(a, v)]
  <1>1. CASE ~is_writable(a)
    BY <1>1 DEF regmap_write, Written, RegTypeOK
  <1>2. CASE is_writable(a) /\ a = REG_INT_SRC
    BY <1>2 DEF regmap_write, Written, RegTypeOK, sync_irq_status, sanitize_interrupt_write,
                is_writable
  <1>3. CASE is_writable(a) /\ a = REG_CTRL
    BY <1>3 DEF regmap_write, Written, RegTypeOK, BusByte, sanitize_interrupt_write
  <1>4. CASE is_writable(a) /\ a = REG_INT_EN
    BY <1>4 DEF regmap_write, Written, RegTypeOK, BusByte, sanitize_interrupt_write
  <1>5. CASE is_writable(a) /\ a \notin FlagRegs
    BY <1>5 DEF regmap_write, Written, RegTypeOK, BusByte, sanitize_interrupt_write
  <1> QED
    BY <1>1, <1>2, <1>3, <1>4, <1>5 DEF is_writable

(* Publishing a reading, an occupancy, or another sensor's sample. *)
LEMMA PublishTyped ==
  ASSUME RegTypeOK,
         \/ \E obj \in Readings : regmap_publish_mlx90614(obj)
         \/ \E present \in BOOLEAN : regmap_publish_mmwave(present)
         \/ regmap_publish_bme680
         \/ regmap_publish_mic
  PROVE  RegTypeOK'
  <1> USE DEF REG_STATUS, REG_CTRL, REG_INT_SRC, REG_INT_EN, REG_MLX_OBJ_0, REG_MMW_PRESENT,
              REG_MMW_MAX_GATE, REG_MMW_ABSENCE_0, REG_T_OBJ_HIGH_0, REG_CHIP_ID,
              REGMAP_SIZE, Addr, FlagRegs, RegTypeOK
  <1>1. ASSUME NEW obj \in Readings, regmap_publish_mlx90614(obj)
        PROVE  RegTypeOK'
    <2>1. Low(obj) \in Digit /\ High(obj) \in Digit
      BY ReadingsAssumption, DigitsTyped DEF Int2
    <2>2. t_obj_high_latched' \in BOOLEAN
      BY <1>1 DEF regmap_publish_mlx90614
    <2> HIDE DEF RegTypeOK
    <2> DEFINE stored == DataReady(StoreLE(regs, REG_MLX_OBJ_0, obj))
    <2>3. regs' \in {stored, raise_irq(stored)}
      BY <1>1 DEF regmap_publish_mlx90614
    <2>4. CASE regs' = stored
      BY <2>1, <2>2, <2>4 DEF RegTypeOK, DataReady, StoreLE
    <2>5. CASE regs' = raise_irq(stored)
      BY <2>1, <2>2, <2>5 DEF RegTypeOK, DataReady, StoreLE, raise_irq, Pending
    <2> QED
      BY <2>3, <2>4, <2>5
  <1>2. ASSUME NEW present \in BOOLEAN, regmap_publish_mmwave(present)
        PROVE  RegTypeOK'
    <2>1. (IF present THEN 1 ELSE 0) \in Digit
      BY RadixAssumption DEF Digit
    <2> QED
      BY <1>2, <2>1 DEF regmap_publish_mmwave, DataReady
  <1>3. ASSUME regmap_publish_bme680 \/ regmap_publish_mic
        PROVE  RegTypeOK'
    BY <1>3 DEF regmap_publish_bme680, regmap_publish_mic, DataReady
  <1> QED
    BY <1>1, <1>2, <1>3

(* The registers after a reset. *)
LEMMA InitialTyped ==
  /\ RegInit => RegTypeOK
  /\ regmap_init => RegTypeOK'
  <1> USE DEF REG_STATUS, REG_CTRL, REG_INT_SRC, REG_INT_EN, REG_MLX_OBJ_0, REG_MMW_PRESENT,
              REG_MMW_MAX_GATE, REG_MMW_ABSENCE_0, REG_T_OBJ_HIGH_0, REG_CHIP_ID,
              REGMAP_SIZE, Addr, FlagRegs
  <1>1. TH_DISABLED \in Int
    BY RadixAssumption DEF TH_DISABLED
  <1>2. \A v \in {0, 2, 5, Low(5), High(5), Low(TH_DISABLED), High(TH_DISABLED)} : v \in Digit
    BY <1>1, DigitsTyped, RadixAssumption DEF Digit
  <1>3. /\ DOMAIN InitialRegs = Addr
        /\ \A a \in Addr \ FlagRegs : InitialRegs[a] \in Digit
        /\ InitialRegs[REG_STATUS] = {} /\ InitialRegs[REG_INT_SRC] = {}
        /\ InitialRegs[REG_INT_EN] = {} /\ InitialRegs[REG_CTRL] = Sensors
    BY <1>2 DEF InitialRegs
  <1> QED
    BY <1>3 DEF RegInit, regmap_init, RegTypeOK

-----------------------------------------------------------------------------
(* STATUS.IRQ_PENDING follows INT_SRC through every operation.             *)
LEMMA WriteKeepsPending ==
  ASSUME NEW a \in Addr, NEW v \in BusByte(a), RegTypeOK, PendingMatchesSource,
         regmap_write(a, v)
  PROVE  PendingMatchesSource'
  <1> USE DEF REG_STATUS, REG_CTRL, REG_INT_SRC, REG_INT_EN, REG_MMW_MAX_GATE,
              REG_MMW_ABSENCE_0, REG_T_OBJ_HIGH_0, REGMAP_SIZE, Addr, IRQ_PENDING,
              RegTypeOK, PendingMatchesSource
  <1>1. CASE a = REG_INT_SRC
    BY <1>1 DEF regmap_write, Written, sync_irq_status, sanitize_interrupt_write, is_writable
  <1>2. CASE a # REG_INT_SRC
    BY <1>2 DEF regmap_write, Written, is_writable
  <1> QED
    BY <1>1, <1>2

LEMMA PublishKeepsPending ==
  ASSUME RegTypeOK, PendingMatchesSource,
         \/ \E obj \in Readings : regmap_publish_mlx90614(obj)
         \/ \E present \in BOOLEAN : regmap_publish_mmwave(present)
         \/ regmap_publish_bme680
         \/ regmap_publish_mic
  PROVE  PendingMatchesSource'
  <1> USE DEF REG_STATUS, REG_INT_SRC, REG_MLX_OBJ_0, REG_MMW_PRESENT, REGMAP_SIZE, Addr,
              IRQ_PENDING, DATA_READY, PendingMatchesSource
  <1>1. ASSUME NEW obj \in Readings, regmap_publish_mlx90614(obj)
        PROVE  PendingMatchesSource'
    <2> DEFINE stored == DataReady(StoreLE(regs, REG_MLX_OBJ_0, obj))
    <2>1. regs' \in {stored, raise_irq(stored)}
      BY <1>1 DEF regmap_publish_mlx90614
    <2>2. CASE regs' = stored
      BY <2>2 DEF DataReady, StoreLE, RegTypeOK
    <2>3. CASE regs' = raise_irq(stored)
      BY <2>3 DEF DataReady, StoreLE, RegTypeOK, raise_irq, Pending
    <2> QED
      BY <2>1, <2>2, <2>3
  <1>2. ASSUME NEW present \in BOOLEAN, regmap_publish_mmwave(present)
        PROVE  PendingMatchesSource'
    BY <1>2 DEF regmap_publish_mmwave, DataReady, RegTypeOK
  <1>3. ASSUME regmap_publish_bme680 \/ regmap_publish_mic
        PROVE  PendingMatchesSource'
    BY <1>3 DEF regmap_publish_bme680, regmap_publish_mic, DataReady, RegTypeOK
  <1> QED
    BY <1>1, <1>2, <1>3

LEMMA InitialPending ==
  /\ RegInit => PendingMatchesSource
  /\ regmap_init => PendingMatchesSource'
  <1>1. InitialRegs[REG_STATUS] = {} /\ InitialRegs[REG_INT_SRC] = {}
    BY DEF InitialRegs, REG_STATUS, REG_CTRL, REG_INT_SRC, REG_INT_EN, REG_MLX_OBJ_0,
           REG_MMW_PRESENT, REG_MMW_MAX_GATE, REG_MMW_ABSENCE_0, REG_T_OBJ_HIGH_0,
           REG_CHIP_ID, REGMAP_SIZE, Addr, FlagRegs
  <1> QED
    BY <1>1 DEF RegInit, regmap_init, PendingMatchesSource

-----------------------------------------------------------------------------
(* What a write changes. *)
LEMMA WriteEffect ==
  ASSUME NEW a \in Addr, NEW v, RegTypeOK, regmap_write(a, v), is_writable(a)
  PROVE  /\ regs'[a] = sanitize_interrupt_write(a, v)
         /\ \A b \in Addr : (b # a /\ (a # REG_INT_SRC \/ b # REG_STATUS)) => regs'[b] = regs[b]
  <1>1. CASE a = REG_INT_SRC
    BY <1>1 DEF regmap_write, Written, sync_irq_status, RegTypeOK, REG_INT_SRC, REG_STATUS
  <1>2. CASE a # REG_INT_SRC
    BY <1>2 DEF regmap_write, Written, RegTypeOK
  <1> QED
    BY <1>1, <1>2

(* What publishing changes: neither the interrupt enable nor the threshold, *)
(* and INT_SRC only if the node is armed with a threshold.                  *)
LEMMA PublishEffect ==
  ASSUME RegTypeOK,
         \/ \E obj \in Readings : regmap_publish_mlx90614(obj)
         \/ \E present \in BOOLEAN : regmap_publish_mmwave(present)
  PROVE  /\ regs'[REG_INT_EN] = regs[REG_INT_EN]
         /\ regs'[REG_T_OBJ_HIGH_0] = regs[REG_T_OBJ_HIGH_0]
         /\ regs'[REG_T_OBJ_HIGH_0 + 1] = regs[REG_T_OBJ_HIGH_0 + 1]
         /\ regs'[REG_INT_SRC] # regs[REG_INT_SRC]
              => regs[REG_INT_EN] # {} /\ Threshold # TH_DISABLED
  <1> USE DEF REG_STATUS, REG_INT_SRC, REG_INT_EN, REG_MLX_OBJ_0, REG_MMW_PRESENT,
              REG_T_OBJ_HIGH_0, REGMAP_SIZE, Addr
  <1>1. ASSUME NEW obj \in Readings, regmap_publish_mlx90614(obj)
        PROVE  /\ regs'[REG_INT_EN] = regs[REG_INT_EN]
               /\ regs'[REG_T_OBJ_HIGH_0] = regs[REG_T_OBJ_HIGH_0]
               /\ regs'[REG_T_OBJ_HIGH_0 + 1] = regs[REG_T_OBJ_HIGH_0 + 1]
               /\ regs'[REG_INT_SRC] # regs[REG_INT_SRC]
                    => regs[REG_INT_EN] # {} /\ Threshold # TH_DISABLED
    <2> DEFINE stored == DataReady(StoreLE(regs, REG_MLX_OBJ_0, obj))
    <2>1. regs' = stored \/ (regs' = raise_irq(stored) /\ Threshold # TH_DISABLED)
      BY <1>1, Zenon DEF regmap_publish_mlx90614
    <2>2. CASE regs' = stored
      BY <2>2 DEF DataReady, StoreLE, RegTypeOK
    <2>3. CASE regs' = raise_irq(stored) /\ Threshold # TH_DISABLED
      <3> HIDE DEF Threshold, TH_DISABLED
      <3> QED
        BY <2>3 DEF DataReady, StoreLE, RegTypeOK, raise_irq, Pending
    <2> QED
      BY <2>1, <2>2, <2>3
  <1>2. ASSUME NEW present \in BOOLEAN, regmap_publish_mmwave(present)
        PROVE  /\ regs'[REG_INT_EN] = regs[REG_INT_EN]
               /\ regs'[REG_T_OBJ_HIGH_0] = regs[REG_T_OBJ_HIGH_0]
               /\ regs'[REG_T_OBJ_HIGH_0 + 1] = regs[REG_T_OBJ_HIGH_0 + 1]
               /\ regs'[REG_INT_SRC] = regs[REG_INT_SRC]
    BY <1>2 DEF regmap_publish_mmwave, DataReady, RegTypeOK
  <1> QED
    BY <1>1, <1>2

(* Publishing never withdraws an interrupt. *)
LEMMA PublishKeepsSource ==
  ASSUME RegTypeOK,
         \/ \E obj \in Readings : regmap_publish_mlx90614(obj)
         \/ \E present \in BOOLEAN : regmap_publish_mmwave(present)
  PROVE  regs[REG_INT_SRC] \subseteq regs'[REG_INT_SRC]
  <1> USE DEF REG_STATUS, REG_INT_SRC, REG_MLX_OBJ_0, REG_MMW_PRESENT, REGMAP_SIZE, Addr
  <1>1. ASSUME NEW obj \in Readings, regmap_publish_mlx90614(obj)
        PROVE  regs[REG_INT_SRC] \subseteq regs'[REG_INT_SRC]
    <2> DEFINE stored == DataReady(StoreLE(regs, REG_MLX_OBJ_0, obj))
    <2>1. regs' = stored \/ regs' = raise_irq(stored)
      BY <1>1, Zenon DEF regmap_publish_mlx90614
    <2> QED
      BY <2>1 DEF DataReady, StoreLE, RegTypeOK, raise_irq, Pending
  <1>2. ASSUME NEW present \in BOOLEAN, regmap_publish_mmwave(present)
        PROVE  regs[REG_INT_SRC] \subseteq regs'[REG_INT_SRC]
    BY <1>2 DEF regmap_publish_mmwave, DataReady, RegTypeOK
  <1> QED
    BY <1>1, <1>2

(* What a reset leaves in the registers the fire interrupt depends on. *)
LEMMA ResetEffect ==
  /\ InitialRegs[REG_STATUS] = {} /\ InitialRegs[REG_INT_SRC] = {}
  /\ InitialRegs[REG_INT_EN] = {}
  /\ InitialRegs[REG_T_OBJ_HIGH_0] = Low(TH_DISABLED)
  /\ InitialRegs[REG_T_OBJ_HIGH_0 + 1] = High(TH_DISABLED)
  BY DEF InitialRegs, REG_STATUS, REG_CTRL, REG_INT_SRC, REG_INT_EN, REG_MLX_OBJ_0,
         REG_MMW_PRESENT, REG_MMW_MAX_GATE, REG_MMW_ABSENCE_0, REG_T_OBJ_HIGH_0,
         REG_CHIP_ID, REGMAP_SIZE, Addr, FlagRegs

(* The object temperature in the registers: publishing a reading puts the  *)
(* whole of it there, and nothing but a restart of the node touches it     *)
(* otherwise.                                                              *)
ObjectHeld(obj) ==
  regs[REG_MLX_OBJ_0] = Low(obj) /\ regs[REG_MLX_OBJ_0 + 1] = High(obj)

LEMMA ObjectPublished ==
  ASSUME RegTypeOK, NEW obj, regmap_publish_mlx90614(obj)
  PROVE  ObjectHeld(obj)'
  <1> DEFINE stored == DataReady(StoreLE(regs, REG_MLX_OBJ_0, obj))
  <1>1. regs' = stored \/ regs' = raise_irq(stored)
    BY Zenon DEF regmap_publish_mlx90614
  <1>2. DOMAIN stored = Addr /\ stored[REG_MLX_OBJ_0] = Low(obj) /\ stored[REG_MLX_OBJ_0 + 1] = High(obj)
    BY DEF RegTypeOK, DataReady, StoreLE, Addr, REGMAP_SIZE, REG_STATUS, REG_MLX_OBJ_0
  <1>3. /\ raise_irq(stored)[REG_MLX_OBJ_0] = stored[REG_MLX_OBJ_0]
        /\ raise_irq(stored)[REG_MLX_OBJ_0 + 1] = stored[REG_MLX_OBJ_0 + 1]
    <2> HIDE DEF stored
    <2> QED
      BY <1>2 DEF raise_irq, Addr, REGMAP_SIZE, REG_STATUS, REG_INT_SRC, REG_MLX_OBJ_0
  <1>4. regs'[REG_MLX_OBJ_0] = Low(obj) /\ regs'[REG_MLX_OBJ_0 + 1] = High(obj)
    <2> HIDE DEF stored
    <2> QED
      BY <1>1, <1>2, <1>3
  <1> QED
    BY <1>4 DEF ObjectHeld, Low, High

LEMMA ObjectUntouched ==
  ASSUME RegTypeOK,
         \/ \E a \in Addr : \E v : regmap_write(a, v)
         \/ \E present : regmap_publish_mmwave(present)
         \/ regmap_publish_bme680
         \/ regmap_publish_mic
         \/ UNCHANGED regVars
  PROVE  /\ regs'[REG_MLX_OBJ_0] = regs[REG_MLX_OBJ_0]
         /\ regs'[REG_MLX_OBJ_0 + 1] = regs[REG_MLX_OBJ_0 + 1]
  <1> USE DEF RegTypeOK, Addr, REGMAP_SIZE, REG_STATUS, REG_MLX_OBJ_0
  <1>1. ASSUME NEW a \in Addr, NEW v, regmap_write(a, v)
        PROVE  /\ regs'[REG_MLX_OBJ_0] = regs[REG_MLX_OBJ_0]
               /\ regs'[REG_MLX_OBJ_0 + 1] = regs[REG_MLX_OBJ_0 + 1]
    <2>1. is_writable(a) => a \notin {REG_MLX_OBJ_0, REG_MLX_OBJ_0 + 1}
      BY DEF is_writable, REG_CTRL, REG_INT_SRC, REG_INT_EN, REG_MMW_MAX_GATE,
             REG_MMW_ABSENCE_0, REG_T_OBJ_HIGH_0
    <2> QED
      BY <1>1, <2>1 DEF regmap_write, Written, sync_irq_status, REG_INT_SRC
  <1>2. CASE \E present : regmap_publish_mmwave(present)
    BY <1>2 DEF regmap_publish_mmwave, DataReady, REG_MMW_PRESENT
  <1>3. CASE regmap_publish_bme680 \/ regmap_publish_mic
    BY <1>3 DEF regmap_publish_bme680, regmap_publish_mic, DataReady
  <1>4. CASE UNCHANGED regVars
    BY <1>4 DEF regVars
  <1> QED
    BY <1>1, <1>2, <1>3, <1>4

LEMMA ObjectReset ==
  /\ InitialRegs[REG_MLX_OBJ_0] = Low(0)
  /\ InitialRegs[REG_MLX_OBJ_0 + 1] = High(0)
  <1>1. Low(0) = 0 /\ High(0) = 0
    BY RadixAssumption DEF Low, High
  <1>2. InitialRegs[REG_MLX_OBJ_0] = 0 /\ InitialRegs[REG_MLX_OBJ_0 + 1] = 0
    BY DEF InitialRegs, REG_STATUS, REG_CTRL, REG_INT_SRC, REG_INT_EN, REG_MLX_OBJ_0,
           REG_MMW_PRESENT, REG_MMW_MAX_GATE, REG_MMW_ABSENCE_0, REG_T_OBJ_HIGH_0,
           REG_CHIP_ID, REGMAP_SIZE, Addr, FlagRegs
  <1> QED
    BY <1>1, <1>2

(* A held temperature is the one that is read.                             *)
LEMMA ObjectRead ==
  ASSUME NEW obj \in Int2, ObjectHeld(obj) PROVE ObjectTemp = obj
  BY RoundTrip DEF ObjectHeld, ObjectTemp, LoadLE

LEMMA ZeroTyped == 0 \in Int2
  <1>1. (Radix * Radix) \div 2 \in Int /\ (Radix * Radix) \div 2 >= 1
    BY RadixAssumption
  <1> QED
    BY <1>1 DEF Int2

=============================================================================
