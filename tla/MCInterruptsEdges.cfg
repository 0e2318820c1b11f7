\* One thread that chooses edges and requests a source.
CONSTANTS
  Threads = {t1}
  Interrupts = {i1}
  Sources = {dio}
  NoSource = NoSource
  MaxContexts = 2
SPECIFICATION Spec
INVARIANTS
  EdgesSurviveRequest
