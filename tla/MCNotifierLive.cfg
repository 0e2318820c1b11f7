\* Liveness and refinement: one notifier, two threads, a register wide enough
\* for the alarm to compare as 64 bits would (see the README).
CONSTANTS
  Threads = {t1, t2}
  Notifiers = {n1}
  NotifierThread = NotifierThread
  None = None
  MaxTime = 1
  Wrap = 4
  ExitAllowed = FALSE
SPECIFICATION FairSpec
PROPERTIES
  ImplementsFairAlarmService
  SleeperWakes
