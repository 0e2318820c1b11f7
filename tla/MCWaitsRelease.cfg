\* Two threads wait; the last notification is that of HAL_ReleaseDSMutex.
CONSTANTS
  Components = {"waits"}
  Threads = {t1, t2, t3}
  NoThread = NoThread
  Limit = 2
  MaxFrame = 2
  MaxBack = 4
  MaxBacks = 2
  MaxFailures = 2
  Readers = {r1, r2}
  MaxCount = 3
  Endless = FALSE
  Messages = {"a", "b", "c", "d"}
  KEEP_MSGS = 2
  Second = 4
  MaxTime = 9
SPECIFICATION MCSpec
CHECK_DEADLOCK FALSE
PROPERTIES
  ReleaseEndsWaits
