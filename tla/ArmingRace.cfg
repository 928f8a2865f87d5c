SPECIFICATION FairSpec
CONSTANTS
  Radix = 6
  Readings <- ColdAndHot
  Thresholds <- None
  DefaultThreshold = 2
  Occupancy = {TRUE}
  MaxFaults = 0
  MaxRestarts = 0
  SlowSensor = TRUE
PROPERTY FireSoundsAlarm
