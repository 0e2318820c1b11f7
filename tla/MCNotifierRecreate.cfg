\* The first notifier is cleaned before the second is created.
CONSTANTS
  Threads = {t1}
  Notifiers = {n1, n2}
  NotifierThread = NotifierThread
  None = None
  MaxTime = 1
  Wrap = 2
  ExitAllowed = FALSE
SPECIFICATION Spec
INVARIANTS
  CreatedOnlyIfNotCreated
