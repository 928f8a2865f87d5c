SPECIFICATION FairSpec
CONSTANTS
  MIN_FREQ_HZ = 4
  MAX_FREQ_HZ = 9
  FREQ_STEP_HZ = 2
  LedPeriod = 2
INVARIANTS
  NoLostStart
  QuietWhenIdle
PROPERTIES
  ImplementsSiren
  OccupiedAlarmFlashes
  ToneSweeps
