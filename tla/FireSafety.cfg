SPECIFICATION HSpec
CONSTANTS
  Radix = 6
  Readings <- ColdAndHot
  Thresholds <- Seven
  DefaultThreshold = 2
  Occupancy = {TRUE}
  MaxFaults = 1
  MaxRestarts = 1
  SlowSensor = FALSE
INVARIANTS
  TypeOK
  SensorLockHeld
  ArmedThresholdAgrees
  PendingIrqIsForCurrentThreshold
PROPERTIES
  RaisesOnlyOnChosenThreshold
  NoStopWhileHot
  ImplementsMonitor
