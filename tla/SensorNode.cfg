SPECIFICATION FairSpec
CONSTANTS
  Radix = 1024
  Readings <- Measured
  AmbientWords <- Ambient
  ObjectWords <- Objects
  Errors <- InvertedBits
  MLX_PERIOD = 3
  BME680_PERIOD = 6
  PollLimit = 4
  CtrlWrites <- SwitchesOff
  MaxWrites = 1
INVARIANTS
  TypeOK
  BusIsExclusive
  MlxKeepsPace
  PublishedIsMeasured
  CtrlTellsReady
  DisabledGoesQuiet
PROPERTY SensorsKeepTrying
