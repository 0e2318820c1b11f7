\* Two threads, two notifiers, every interleaving of their calls, an alarm register
\* that cannot tell the times of the clock apart, and a process that may exit, or
\* hang in its exit handler: the system really may stop.
CONSTANTS
  Threads = {t1, t2}
  Notifiers = {n1, n2}
  NotifierThread = NotifierThread
  None = None
  MaxTime = 1
  Wrap = 1
  ExitAllowed = TRUE
SPECIFICATION Spec
SYMMETRY Symmetry
VIEW LiveState
CHECK_DEADLOCK FALSE
INVARIANTS
  TypeOK
  NoLostAlarm
  NoLostWakeup
PROPERTIES
  ImplementsAlarmService
