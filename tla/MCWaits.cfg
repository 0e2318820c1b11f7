\* Three threads initialize, with up to two failed attempts; two wait for packets that
\* keep coming, with a counter of four values; four messages and room for two.
\* std::terminate really stops the process, and the clock of the messages ends.
CONSTANTS
  Components = {"HAL", "waits", "messages", "node"}
  Threads = {t1, t2, t3}
  NoThread = NoThread
  Limit = 2
  MaxFrame = 2
  MaxBack = 4
  MaxBacks = 2
  MaxFailures = 2
  Readers = {r1, r2}
  MaxCount = 3
  Endless = TRUE
  Messages = {"a", "b", "c", "d"}
  KEEP_MSGS = 2
  Second = 4
  MaxTime = 9
SPECIFICATION MCSpec
CHECK_DEADLOCK FALSE
INVARIANTS
  TrueMeansFinished
  TerminatedOnlyByRetry
PROPERTIES
  CallReturns
  WaitEnds
  SilenceIsTold
  RepeatsOnlyForgotten
