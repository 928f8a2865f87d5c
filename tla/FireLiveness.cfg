SPECIFICATION FairSpec
CONSTANTS
  Radix = 6
  Readings <- ColdAndHot
  Thresholds <- TwoAndSeven
  DefaultThreshold = 2
  Occupancy = {FALSE}
  MaxFaults = 1
  MaxRestarts = 1
  SlowSensor = TRUE
PROPERTIES
  RaisedIrqIsAnswered
  CoolStopsAlarm
  ArmedExcursionsAlarm
  ConfigurationIsRetried
