\* Two SPI ports on board and the automatic engine between them.
CONSTANTS
  Components = {"SPI"}
  Threads = {t1, t2}
  NoThread = NoThread
  Indexes <- HeaderAndMXP
  Channels <- TwoHeaders
  Bits <- TwoHeaders
  Unit = 1
  Times <- Narrow
  Raws = {}
  Short <- OneOff
  SPIPorts = {0, 1}
  MinCount <- MinusOne
  SerialPorts = {0}
  Files = {1}
  MaxOpens = 1
  Devices = {"a"}
  NoDevice = NoDevice
SPECIFICATION MCSpec
INVARIANTS
  ClearOfEngine
