----------------------------- MODULE RegisterMap -----------------------------
(***************************************************************************)
(* The sensor node's register map (sensor_node/src/registers).  Every      *)
(* operation runs under regs_lock, so each one is a single atomic action.  *)
(*                                                                         *)
(* Abstractions: a multi-byte register is two digits in base Radix, low    *)
(* digit first (the code has two or four bytes, Radix = 256); a register   *)
(* of flags is the set of its flags; the registers of one sensor that the  *)
(* node only ever stores together are represented by those listed here.    *)
(***************************************************************************)
EXTENDS Integers

CONSTANTS Radix,      \* values of one digit of a multi-byte register
          Readings    \* object temperatures the MLX90614 can report

ASSUME RadixAssumption == Radix \in Nat /\ Radix >= 6 /\ Radix % 2 = 0

(* Two's complement: the range of a two-digit signed number. *)
Int2 == -((Radix * Radix) \div 2) .. ((Radix * Radix) \div 2) - 1

ASSUME ReadingsAssumption == Readings \subseteq Int2

VARIABLES regs, t_obj_high_latched

regVars == <<regs, t_obj_high_latched>>

-----------------------------------------------------------------------------
(* The address space, in the order of register_map.h. *)
REG_STATUS       == 0
REG_CTRL         == 1
REG_INT_SRC      == 2
REG_INT_EN       == 3
REG_MLX_OBJ_0    == 4
REG_MMW_PRESENT  == 6
REG_MMW_MAX_GATE == 7
REG_MMW_ABSENCE_0 == 8
REG_T_OBJ_HIGH_0 == 10
REG_CHIP_ID      == 12
REGMAP_SIZE      == 13

Addr  == 0 .. REGMAP_SIZE - 1
Digit == 0 .. Radix - 1

(* The flags of the flag registers; "other" stands for every bit of a bus  *)
(* byte that has no meaning in the register it is written to.              *)
T_OBJ_HIGH  == "T_OBJ_HIGH"
DATA_READY  == "DATA_READY"
IRQ_PENDING == "IRQ_PENDING"
Sensors     == {"BME680", "MLX90614", "MMWAVE", "MIC"}
FlagRegs    == {REG_STATUS, REG_CTRL, REG_INT_SRC, REG_INT_EN}

(* What a bus master can put in a byte addressed to register a. *)
BusByte(a) ==
  IF a \notin FlagRegs THEN Digit
  ELSE IF a = REG_CTRL  THEN SUBSET (Sensors \cup {"other"})
  ELSE SUBSET {T_OBJ_HIGH, "other"}

-----------------------------------------------------------------------------
(* Little-endian conversions: store_*_le and load_*_le. *)
Unmasked(v) == v

Low(v)  == v % Radix
High(v) == (v \div Radix) % Radix
StoreLE(r, a, v) == [r EXCEPT ![a] = Low(v), ![a + 1] = High(v)]

Signed(lo, hi) ==
  LET u == lo + Radix * hi
  IN  IF 2 * u >= Radix * Radix THEN u - Radix * Radix ELSE u
LoadLE(r, a) == Signed(r[a], r[a + 1])

TH_DISABLED == (Radix * Radix) \div 2 - 1

ObjectTemp == LoadLE(regs, REG_MLX_OBJ_0)
Threshold  == LoadLE(regs, REG_T_OBJ_HIGH_0)

-----------------------------------------------------------------------------
sanitize_interrupt_write(a, v) ==
  IF a \in {REG_INT_SRC, REG_INT_EN} THEN v \cap {T_OBJ_HIGH} ELSE v

is_writable(a) ==
  a \in {REG_CTRL, REG_INT_SRC, REG_INT_EN, REG_MMW_MAX_GATE,
         REG_MMW_ABSENCE_0, REG_MMW_ABSENCE_0 + 1,
         REG_T_OBJ_HIGH_0, REG_T_OBJ_HIGH_0 + 1}

StickyPending(r) ==
  [r EXCEPT ![REG_STATUS] = IF r[REG_INT_SRC] # {} THEN @ \cup {IRQ_PENDING} ELSE @]

sync_irq_status(r) ==
  [r EXCEPT ![REG_STATUS] =
     IF r[REG_INT_SRC] # {} THEN @ \cup {IRQ_PENDING} ELSE @ \ {IRQ_PENDING}]

(* The register file after one byte is written to it. *)
Written(r, a, v) ==
  LET stored == [r EXCEPT ![a] = sanitize_interrupt_write(a, v)]
  IN  IF ~is_writable(a)    THEN r
      ELSE IF a = REG_INT_SRC THEN sync_irq_status(stored)
      ELSE stored

regmap_write(a, v) ==
  /\ regs' = Written(regs, a, v)
  /\ UNCHANGED t_obj_high_latched

-----------------------------------------------------------------------------
Pending(r) == r[REG_STATUS] \cup {IRQ_PENDING}

UngatedIrq(r) ==
  [r EXCEPT ![REG_INT_SRC] = @ \cup {T_OBJ_HIGH}, ![REG_STATUS] = Pending(r)]

SwappedFlags(r) ==
  IF T_OBJ_HIGH \in r[REG_INT_EN]
  THEN [r EXCEPT ![REG_INT_SRC] = @ \cup {IRQ_PENDING}, ![REG_STATUS] = Pending(r)]
  ELSE r

raise_irq(r) ==
  IF T_OBJ_HIGH \in r[REG_INT_EN]
  THEN [r EXCEPT ![REG_INT_SRC] = @ \cup {T_OBJ_HIGH}, ![REG_STATUS] = Pending(r)]
  ELSE r

DataReady(r) == [r EXCEPT ![REG_STATUS] = @ \cup {DATA_READY}]

StuckLatch(obj) ==
  LET obj_is_high == Threshold # TH_DISABLED /\ obj > Threshold
      stored      == DataReady(StoreLE(regs, REG_MLX_OBJ_0, obj))
  IN  /\ regs' = IF obj_is_high /\ ~t_obj_high_latched
                 THEN raise_irq(stored) ELSE stored
      /\ t_obj_high_latched' = (t_obj_high_latched \/ obj_is_high)

(* The MLX90614 thread publishes a reading: the interrupt is raised on the *)
(* step from "not above the threshold" to "above it", and only then.       *)
regmap_publish_mlx90614(obj) ==
  LET obj_is_high == Threshold # TH_DISABLED /\ obj > Threshold
      stored      == DataReady(StoreLE(regs, REG_MLX_OBJ_0, obj))
  IN  /\ regs' = IF obj_is_high /\ ~t_obj_high_latched
                 THEN raise_irq(stored) ELSE stored
      /\ t_obj_high_latched' = obj_is_high

regmap_publish_mmwave(present) ==
  /\ regs' = DataReady([regs EXCEPT ![REG_MMW_PRESENT] = IF present THEN 1 ELSE 0])
  /\ UNCHANGED t_obj_high_latched

(* The sample registers of the BME680 and of the microphone are left out:  *)
(* publishing them is visible here through DATA_READY only.                *)
regmap_publish_bme680 == regs' = DataReady(regs) /\ UNCHANGED t_obj_high_latched
regmap_publish_mic    == regs' = DataReady(regs) /\ UNCHANGED t_obj_high_latched

-----------------------------------------------------------------------------
InitialRegs ==
  [a \in Addr |->
     CASE a = REG_CTRL          -> Sensors
       [] a \in FlagRegs \ {REG_CTRL} -> {}
       [] a = REG_MMW_MAX_GATE  -> 5
       [] a = REG_MMW_ABSENCE_0 -> Low(5)
       [] a = REG_MMW_ABSENCE_0 + 1 -> High(5)
       [] a = REG_T_OBJ_HIGH_0  -> Low(TH_DISABLED)
       [] a = REG_T_OBJ_HIGH_0 + 1 -> High(TH_DISABLED)
       [] a = REG_CHIP_ID       -> 2
       [] OTHER                 -> 0]

RegInit == regs = InitialRegs /\ t_obj_high_latched = FALSE

(* regmap_init again: the node has restarted. *)
regmap_init == regs' = InitialRegs /\ t_obj_high_latched' = FALSE

-----------------------------------------------------------------------------
RegTypeOK ==
  /\ regs[REG_STATUS] \subseteq {DATA_READY, IRQ_PENDING}
  /\ regs[REG_INT_SRC] \subseteq {T_OBJ_HIGH}
  /\ regs[REG_INT_EN] \subseteq {T_OBJ_HIGH}
  /\ regs[REG_CTRL] \subseteq Sensors \cup {"other"}
  /\ DOMAIN regs = Addr
  /\ \A a \in Addr \ FlagRegs : regs[a] \in Digit
  /\ t_obj_high_latched \in BOOLEAN

(* STATUS.IRQ_PENDING and INT_SRC are two registers that raise_irq and      *)
(* regmap_write each update in their own way: whatever the order of        *)
(* publications and bus writes, a master that polls either of them sees    *)
(* the same answer.                                                        *)
PendingMatchesSource ==
  IRQ_PENDING \in regs[REG_STATUS] <=> regs[REG_INT_SRC] # {}

=============================================================================
