\* Two threads on a header, the first SPI channel and the first PWM channel; on relays of
\* two headers; on two SPI ports on board and the MXP one; on two serial ports, with two
\* file numbers for three files; three USB devices; and a PWM port with speeds and
\* positions in halves, under its default configuration, a narrow one and a crossed one.
CONSTANTS
  Components = {"digital", "PWM", "rawPWM", "relay", "SPI", "serial", "USB"}
  Threads = {t1, t2}
  NoThread = NoThread
  Indexes <- HeaderSPIAndPWM
  Channels <- TwoHeaders
  Bits <- TwoHeaders
  Unit = 2
  Times <- Narrow
  Raws <- Crossed
  Short <- OneOff
  SPIPorts = {0, 1, 4}
  MinCount <- MinusOne
  SerialPorts = {0, 1}
  Files = {1, 2}
  MaxOpens = 3
  Devices = {"a", "b", "c"}
  NoDevice = NoDevice
SPECIFICATION MCSpec
SYMMETRY Symmetry
INVARIANTS
  FreedIsUnused
  AsSwitched
  PinsOfOpenPorts
  OwnFile
  NoFileLeaked
  ReadBack
PROPERTIES
  OutputsStayOn
  NamesAreKept
  StableNeverFails
  WithinConfigured
