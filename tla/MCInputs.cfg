\* Two threads everywhere: one interrupt and its two IRQs; registers of three values, two
\* wraps, reads that may fail; one counter; and DMA sources of every kind.
CONSTANTS
  Components = {"interrupts", "clock", "counter", "DMA"}
  Threads = {t1, t2}
  Interrupts = {i1}
  Sources = {dio}
  NoSource = NoSource
  MaxContexts = 4
  Half = 3
  MaxUpper = 2
  ReadsFail = TRUE
  Counters = {0}
  CounterSources = {1}
  Rubbish <- AllSet
  DMAWorkloads <- EveryKind
SPECIFICATION MCSpec
SYMMETRY Symmetry
INVARIANTS
  NoEdgeLost
  SourceSurvives
  TimeIsOfTheCall
  ExpandIsExact
  CountsItsSources
  DecodesOwnWords
