SPECIFICATION FairSpec
CONSTANTS
  DEBOUNCE_MS = 4
  ClockRange = 8
  BounceTime = 1
  MaxDelay = 2
INVARIANTS
  OnePressOneToggle
  PressIsNotUndone
PROPERTIES
  PressOpensMenu
  NormalModePolls
