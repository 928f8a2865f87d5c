SPECIFICATION Spec
CONSTANTS
  Radix = 6
  Readings <- MCReadings
  MaxTransfer = 3
  MasterByte <- MCMasterByte
INVARIANTS
  PendingMatchesSource
  PointerFollowsMaster
PROPERTY BusWritesOnlyTheAddressedRegister
