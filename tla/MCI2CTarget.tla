----------------------------- MODULE MCI2CTarget -----------------------------
(* A small instance of the I2C target: two readings around the single      *)
(* threshold the master can write, and two bytes for every register.       *)
EXTENDS I2CTarget

MCReadings == {0, 5}

MCMasterByte(a) ==
  CASE a = REG_CTRL -> {{"MLX90614", "other"}}
    [] a \in FlagRegs \ {REG_CTRL} -> {{}, {T_OBJ_HIGH, "other"}}
    [] OTHER -> {0}
=============================================================================
