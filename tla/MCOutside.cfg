\* Two threads everywhere; two CAN identifiers to write and one
\* to read, two frames for a queue of one, stamps of two clocks, and ages
\* that wrap at three; two solenoids; two panels; four programs, one start at a time, and
\* so few process ids that they are reused.  Programs, and the bounded parts, stop.
CONSTANTS
  Components = {"CAN", "air", "panel", "library", "programs"}
  Threads = {t1, t2}
  Handles = {"h"}
  Ids = {1, 2}
  Stamps <- TwoStamps
  IdOf <- OneHandle
  Flags = {"data", "remote"}
  StartThreads <- BothStarts
  QueueSize = 1
  MaxFrames = 2
  MaxClock = 3
  Wrap = 3
  Timeouts = {1}
  NoFrame = NoFrame
  Workloads <- CANWorkloads
  Channels = {0, 1}
  MaxModules = 2
  SolenoidWorkloads <- AirWorkloads
  Modules = {0, 1}
  MaxHandles = 3
  PDPFrames <- TwoBytes
  Programs = {p1, p2, p3, p4}
  Pids <- ThreePids
  Foreign = {}
  Overlap = FALSE
SPECIFICATION MCSpec
SYMMETRY Symmetry
CHECK_DEADLOCK FALSE
INVARIANTS
  NewOnce
  StoppedAfterClean
  SentIsCurrent
  HandleOfModule
  ChannelsArePacked
  CallsAreLoaded
  SuccessMeansWorking
  KillsPrevious
  NeverKillsItself
PROPERTIES
  VerdictOfNewest
