SPECIFICATION Spec
CONSTANTS
  Chars <- Keys
  LineMax = 5
  IntMax = 2047
  ULongMax = 99
  GateMax = 3
  DelayMax = 15
  DefaultThreshold = 2000
  Temps <- SomeTemps
  MaxLines = 2
INVARIANTS
  TypeOK
  ScreenShowsLine
  TempsAreExact
PROPERTIES
  ThresholdIsTyped
  SettingsAreTyped
