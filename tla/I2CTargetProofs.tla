--------------------------- MODULE I2CTargetProofs ---------------------------
(***************************************************************************)
(* Theorems about the I2C target, for every radix, set of readings, bus    *)
(* master and length of transfer.                                          *)
(***************************************************************************)
EXTENDS I2CTarget, RegisterMapProofs

(* The target waits for a pointer exactly while the master has yet to send *)
(* one, and its pointer stays where the master left it between transfers.  *)
PhaseInv ==
  /\ master.phase = "pointer" => ~ptr_loaded
  /\ master.phase = "write" => ptr_loaded
  /\ reg_ptr = Expected

Inv == TypeOK /\ PendingMatchesSource /\ PhaseInv

LEMMA ExpectedTyped == TypeOK => Expected \in Addr /\ NextPtr \in Addr
  <1> SUFFICES ASSUME TypeOK PROVE Expected \in Addr /\ NextPtr \in Addr
    OBVIOUS
  <1>1. master.first + master.moved \in Int /\ reg_ptr + 1 \in Int
    BY MasterAssumption DEF TypeOK, Addr, REGMAP_SIZE
  <1> QED
    BY <1>1 DEF Expected, NextPtr, Addr, REGMAP_SIZE

(* Moving one byte on moves the pointer and the address alike. *)
LEMMA StepModulo ==
  ASSUME NEW f \in Addr, NEW n \in Nat
  PROVE  (((f + n) % REGMAP_SIZE) + 1) % REGMAP_SIZE = (f + (n + 1)) % REGMAP_SIZE
  BY DEF Addr, REGMAP_SIZE

LEMMA InitInv == Init => Inv
  <1> SUFFICES ASSUME Init PROVE Inv
    OBVIOUS
  <1>1. RegTypeOK /\ PendingMatchesSource
    BY InitialTyped, InitialPending DEF Init
  <1>2. 0 \in Addr /\ 0 \in 0 .. MaxTransfer
    BY MasterAssumption DEF Addr, REGMAP_SIZE
  <1>3. TypeOK
    BY <1>1, <1>2 DEF Init, TypeOK, Phases
  <1>4. PhaseInv
    BY DEF Init, PhaseInv, Expected, REGMAP_SIZE
  <1> QED
    BY <1>1, <1>3, <1>4 DEF Inv

(* One byte of data, written or read, with the pointer one further on. *)
LEMMA MoveKeepsInv ==
  ASSUME Inv, RegTypeOK', PendingMatchesSource', NEW p \in {"write", "read"},
         master.moved < MaxTransfer, reg_ptr' = NextPtr, ptr_loaded' = ptr_loaded,
         p = "write" => ptr_loaded,
         master' = [master EXCEPT !.phase = p, !.moved = @ + 1]
  PROVE  Inv'
  <1>1. NextPtr \in Addr
    BY ExpectedTyped DEF Inv
  <1>2. TypeOK'
    <2>1. master \in [phase : Phases, first : Addr, moved : 0 .. MaxTransfer]
      BY DEF Inv, TypeOK
    <2>2. master.moved + 1 \in 0 .. MaxTransfer
      BY <2>1, MasterAssumption
    <2>3. master' \in [phase : Phases, first : Addr, moved : 0 .. MaxTransfer]
      BY <2>1, <2>2 DEF Phases
    <2> QED
      BY <1>1, <2>3 DEF Inv, TypeOK
  <1>3. master'.first = master.first /\ master'.moved = master.moved + 1 /\ master'.phase = p
    BY DEF Inv, TypeOK
  <1>4. Expected' = NextPtr
    BY <1>3, StepModulo, MasterAssumption DEF Inv, TypeOK, PhaseInv, Expected, NextPtr
  <1> QED
    BY <1>2, <1>3, <1>4 DEF Inv, PhaseInv

(* A step that moves no data and keeps the pointer. *)
LEMMA PhaseKeepsInv ==
  ASSUME Inv, UNCHANGED regVars, UNCHANGED reg_ptr, ptr_loaded' \in BOOLEAN,
         NEW p \in Phases, master' = [master EXCEPT !.phase = p],
         p = "pointer" => ~ptr_loaded', p # "write"
  PROVE  Inv'
  <1>1. RegTypeOK' /\ PendingMatchesSource'
    BY DEF Inv, TypeOK, regVars, RegTypeOK, PendingMatchesSource
  <1>2. master'.first = master.first /\ master'.moved = master.moved /\ master'.phase = p
    BY DEF Inv, TypeOK
  <1>3. TypeOK'
    BY <1>1 DEF Inv, TypeOK
  <1> QED
    BY <1>1, <1>2, <1>3 DEF Inv, PhaseInv, Expected

LEMMA NextInv == Inv /\ [Next]_vars => Inv'
  <1> SUFFICES ASSUME Inv, [Next]_vars PROVE Inv'
    OBVIOUS
  <1>1. CASE on_write_requested
    BY <1>1, PhaseKeepsInv DEF on_write_requested, regVars, Phases
  <1>2. ASSUME NEW a \in Addr, SendPointer(a) PROVE Inv'
    <2>1. reg_ptr' = a /\ ptr_loaded' = TRUE /\ UNCHANGED regVars
      BY <1>2 DEF SendPointer, on_write_received, Inv, PhaseInv
    <2>2. RegTypeOK' /\ PendingMatchesSource'
      BY <2>1 DEF Inv, TypeOK, regVars, RegTypeOK, PendingMatchesSource
    <2>3. master' = [phase |-> "write", first |-> a, moved |-> 0]
      BY <1>2 DEF SendPointer
    <2>4. TypeOK'
      BY <2>1, <2>2, <2>3, MasterAssumption DEF TypeOK, Phases
    <2>5. PhaseInv'
      BY <2>1, <2>3 DEF PhaseInv, Expected, Addr, REGMAP_SIZE
    <2> QED
      BY <2>2, <2>4, <2>5 DEF Inv
  <1>3. CASE SendData
    <2>1. PICK v \in MasterByte(Expected) : on_write_received(v)
      BY <1>3 DEF SendData
    <2>2. Expected \in Addr /\ reg_ptr = Expected /\ ptr_loaded
      BY <1>3, ExpectedTyped DEF SendData, Inv, PhaseInv
    <2>3. v \in BusByte(reg_ptr)
      BY <2>1, <2>2, MasterAssumption
    <2>4. regmap_write(reg_ptr, v) /\ reg_ptr' = NextPtr /\ ptr_loaded' = ptr_loaded
      BY <2>1, <2>2 DEF on_write_received
    <2>5. RegTypeOK' /\ PendingMatchesSource'
      BY <2>2, <2>3, <2>4, WriteTyped, WriteKeepsPending DEF Inv, TypeOK
    <2>6. /\ master' = [master EXCEPT !.phase = "write", !.moved = @ + 1]
          /\ master.moved < MaxTransfer
      BY <1>3 DEF SendData, Inv, TypeOK
    <2> QED
      BY <2>2, <2>4, <2>5, <2>6, MoveKeepsInv
  <1>4. CASE on_read_requested \/ on_read_processed
    <2>1. RegTypeOK' /\ PendingMatchesSource'
      BY <1>4
      DEF on_read_requested, on_read_processed, Inv, TypeOK, RegTypeOK, PendingMatchesSource
    <2>2. /\ master' = [master EXCEPT !.phase = "read", !.moved = @ + 1]
          /\ master.moved < MaxTransfer /\ reg_ptr' = NextPtr /\ ptr_loaded' = ptr_loaded
      BY <1>4 DEF on_read_requested, on_read_processed, Inv, TypeOK
    <2> QED
      BY <2>1, <2>2, MoveKeepsInv
  <1>5. CASE on_stop
    <2>1. UNCHANGED regVars /\ UNCHANGED reg_ptr /\ ptr_loaded' \in BOOLEAN
      BY <1>5 DEF on_stop, regVars, Inv, TypeOK
    <2> QED
      BY <1>5, <2>1, PhaseKeepsInv DEF on_stop, Phases
  <1>6. CASE Publishing
    <2>1. RegTypeOK' /\ PendingMatchesSource'
      BY <1>6, PublishTyped, PublishKeepsPending DEF Publishing, Inv, TypeOK
    <2> QED
      BY <1>6, <2>1 DEF Publishing, Inv, TypeOK, PhaseInv, Expected
  <1>7. CASE UNCHANGED vars
    BY <1>7 DEF vars, Inv, TypeOK, PhaseInv, Expected, RegTypeOK, PendingMatchesSource
  <1> QED
    BY <1>1, <1>2, <1>3, <1>4, <1>5, <1>6, <1>7 DEF Next

LEMMA InvHolds == Spec => []Inv
  BY InitInv, NextInv, PTL DEF Spec

(* Every register keeps its type, whatever a master writes and wherever it *)
(* stops.                                                                  *)
THEOREM TypeCorrect == Spec => []TypeOK
  BY InvHolds, PTL DEF Inv

(* STATUS and INT_SRC never disagree about a pending interrupt.            *)
THEOREM PendingAgrees == Spec => []PendingMatchesSource
  BY InvHolds, PTL DEF Inv

(* The target's pointer is the address the master is working on.           *)
THEOREM PointerAgrees == Spec => []PointerFollowsMaster
  <1>1. Inv => PointerFollowsMaster
    BY DEF Inv, PhaseInv, PointerFollowsMaster
  <1> QED
    BY <1>1, InvHolds, PTL

(* A byte on the bus changes the register it is addressed to and no other. *)
THEOREM WritesAreAddressed == Spec => BusWritesOnlyTheAddressedRegister
  <1> DEFINE A == /\ (master.phase = "pointer" /\ master'.phase = "write") => UNCHANGED regs
                  /\ (/\ master.phase = "write" /\ master'.phase = "write"
                      /\ master'.moved # master.moved)
                      => \A a \in Addr : regs'[a] # regs[a] =>
                           a = Expected \/ (a = REG_STATUS /\ Expected = REG_INT_SRC)
  <1>1. Inv /\ [Next]_vars => [A]_vars
    <2> SUFFICES ASSUME Inv, Next PROVE A
      BY DEF A
    <2>1. CASE \E a \in Addr : SendPointer(a)
      <3>1. UNCHANGED regs
        BY <2>1 DEF SendPointer, on_write_received, regVars, Inv, PhaseInv
      <3>2. master.phase = "pointer"
        BY <2>1 DEF SendPointer
      <3> QED
        BY <3>1, <3>2
    <2>2. CASE SendData
      <3>1. PICK v : regmap_write(Expected, v)
        BY <2>2 DEF SendData, on_write_received, Inv, PhaseInv
      <3>2. \A a \in Addr : regs'[a] # regs[a] =>
               a = Expected \/ (a = REG_STATUS /\ Expected = REG_INT_SRC)
        BY <3>1
        DEF regmap_write, Written, sync_irq_status, Inv, TypeOK, RegTypeOK
      <3>3. master.phase = "write"
        BY <2>2 DEF SendData
      <3> QED
        BY <3>2, <3>3
    <2>3. CASE on_write_requested \/ on_read_requested \/ on_read_processed \/ on_stop
      <3>1. master'.phase # "write"
        BY <2>3 DEF on_write_requested, on_read_requested, on_read_processed, on_stop,
                    Inv, TypeOK
      <3> QED
        BY <3>1
    <2>4. CASE Publishing
      BY <2>4 DEF Publishing
    <2> QED
      BY <2>1, <2>2, <2>3, <2>4 DEF Next
  <1> QED
    BY <1>1, InvHolds, PTL DEF Spec, BusWritesOnlyTheAddressedRegister

=============================================================================
