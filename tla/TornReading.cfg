SPECIFICATION HSpec
CONSTANTS
  Radix = 6
  Readings <- TwoHot
  Thresholds <- None
  DefaultThreshold = 2
  Occupancy = {TRUE}
  MaxFaults = 0
  MaxRestarts = 0
  SlowSensor = FALSE
PROPERTY NoStopWhileHot
