\* Header 0 and MXP channel 16.
CONSTANTS
  Components = {"digital"}
  Threads = {t1}
  NoThread = NoThread
  Indexes <- HeaderAndMXP
  Channels <- TwoHeaders
  Bits <- TwoHeaders
  Unit = 1
  Times <- Narrow
  Raws = {}
  Short <- OneOff
  SPIPorts = {0}
  MinCount <- MinusOne
  SerialPorts = {0}
  Files = {1}
  MaxOpens = 1
  Devices = {"a"}
  NoDevice = NoDevice
SPECIFICATION MCSpec
INVARIANTS
  DistinctBits
