------------------------------ MODULE I2CTarget ------------------------------
(***************************************************************************)
(* The sensor node as an I2C target (sensor_node/src/i2c/i2c_target.c):    *)
(* the callbacks the bus driver makes, their register pointer, and a bus   *)
(* master that may stop a transfer after any byte.                         *)
(***************************************************************************)
EXTENDS RegisterMap

CONSTANTS MaxTransfer,     \* bound: bytes per transfer after the pointer
          MasterByte(_)    \* the bytes the master sends to a register

ASSUME MasterAssumption ==
  /\ MaxTransfer \in Nat
  /\ \A a \in Addr : MasterByte(a) \subseteq BusByte(a)

VARIABLES reg_ptr, ptr_loaded,
          master   \* the master's view: phase, pointer it sent, bytes moved

vars == <<regs, t_obj_high_latched, reg_ptr, ptr_loaded, master>>

Phases == {"idle", "pointer", "write", "read"}

(* The register the master means by the next byte of its transfer. *)
Expected == (master.first + master.moved) % REGMAP_SIZE

Init ==
  /\ RegInit
  /\ reg_ptr = 0
  /\ ptr_loaded = FALSE
  /\ master = [phase |-> "idle", first |-> 0, moved |-> 0]

SkippingPtr == (reg_ptr + 2) % REGMAP_SIZE

NextPtr == (reg_ptr + 1) % REGMAP_SIZE

-----------------------------------------------------------------------------
(* START with the write bit, from idle or as a repeated start. *)
on_write_requested ==
  /\ master' = [master EXCEPT !.phase = "pointer"]
  /\ ptr_loaded' = FALSE
  /\ UNCHANGED <<regs, t_obj_high_latched, reg_ptr>>

(* The target takes a byte from the bus: a pointer, then data. *)
on_write_received(val) ==
  IF ~ptr_loaded
  THEN /\ reg_ptr' = val /\ ptr_loaded' = TRUE
       /\ UNCHANGED regVars
  ELSE /\ regmap_write(reg_ptr, val)
       /\ reg_ptr' = NextPtr
       /\ UNCHANGED ptr_loaded

SendPointer(a) ==
  /\ master.phase = "pointer"
  /\ on_write_received(a)
  /\ master' = [phase |-> "write", first |-> a, moved |-> 0]

SendData ==
  /\ master.phase = "write" /\ master.moved < MaxTransfer
  /\ \E v \in MasterByte(Expected) : on_write_received(v)
  /\ master' = [master EXCEPT !.moved = @ + 1]

(* START with the read bit: on_read_requested gives the first byte ...     *)
on_read_requested ==
  /\ master.phase # "read" /\ master.moved < MaxTransfer
  /\ reg_ptr' = NextPtr
  /\ master' = [master EXCEPT !.phase = "read", !.moved = @ + 1]
  /\ UNCHANGED <<regs, t_obj_high_latched, ptr_loaded>>

RepeatedByte ==
  /\ master.phase = "read" /\ master.moved < MaxTransfer
  /\ master' = [master EXCEPT !.moved = @ + 1]
  /\ UNCHANGED <<regs, t_obj_high_latched, reg_ptr, ptr_loaded>>

(* ... and on_read_processed each of the following ones. *)
on_read_processed ==
  /\ master.phase = "read" /\ master.moved < MaxTransfer
  /\ reg_ptr' = NextPtr
  /\ master' = [master EXCEPT !.moved = @ + 1]
  /\ UNCHANGED <<regs, t_obj_high_latched, ptr_loaded>>

(* STOP, or an abort at any point: the target's state is left alone. *)
on_stop ==
  /\ master.phase # "idle"
  /\ master' = [master EXCEPT !.phase = "idle"]
  /\ UNCHANGED <<regs, t_obj_high_latched, reg_ptr, ptr_loaded>>

Publishing ==
  /\ \/ \E obj \in Readings : regmap_publish_mlx90614(obj)
     \/ \E present \in BOOLEAN : regmap_publish_mmwave(present)
     \/ regmap_publish_bme680
     \/ regmap_publish_mic
  /\ UNCHANGED <<reg_ptr, ptr_loaded, master>>

Next ==
  \/ on_write_requested
  \/ \E a \in Addr : SendPointer(a)
  \/ SendData
  \/ on_read_requested
  \/ on_read_processed
  \/ on_stop
  \/ Publishing

Spec == Init /\ [][Next]_vars

-----------------------------------------------------------------------------
TypeOK ==
  /\ RegTypeOK
  /\ reg_ptr \in Addr
  /\ ptr_loaded \in BOOLEAN
  /\ master \in [phase : Phases, first : Addr, moved : 0 .. MaxTransfer]

(* The pointer of the target and the address the master is working on      *)
(* never drift apart, over any mixture of aborted writes, repeated starts, *)
(* reads without a pointer phase and wrap-around at the end of the map:    *)
(* the next byte read or written is the one the master means.              *)
PointerFollowsMaster == master.phase \in {"write", "read"} => reg_ptr = Expected

(* A byte the master sends as a pointer never changes a register, and one  *)
(* it sends as data changes no register but the addressed one (and the     *)
(* pending flag when that one is INT_SRC): no abort can leave the target   *)
(* taking an address for data or data for an address.                      *)
BusWritesOnlyTheAddressedRegister ==
  [][ /\ (master.phase = "pointer" /\ master'.phase = "write") => UNCHANGED regs
      /\ (master.phase = "write" /\ master'.phase = "write" /\ master'.moved # master.moved)
           => \A a \in Addr : regs'[a] # regs[a] =>
                a = Expected \/ (a = REG_STATUS /\ Expected = REG_INT_SRC) ]_vars

=============================================================================
