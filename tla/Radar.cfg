SPECIFICATION FairSpec
CONSTANTS
  Radix = 6
  Readings <- NoReadings
  Lines <- SomeLines
  LineMax = 2
  RingMax = 1
  Staleness = 0
  Gates <- OneGate
  Delays <- OneDelay
  CtrlWrites <- OnOrOff
  MaxSets = 1
  MaxFaults = 1
  MaxRestarts = 1
INVARIANTS
  TypeOK
  PresenceIsFresh
  RadarMatchesMenu
PROPERTIES
  AcceptedLineIsWhole
  ConfigConverges
