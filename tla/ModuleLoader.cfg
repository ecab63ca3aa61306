SPECIFICATION FairSpec
CONSTANTS
  a = a
  b = b
  Modules = {a, b}
  NoModule = NoModule
  Graphs <- Shapes
  CompactionThreshold = 1
  MaxRoots = 3
  MaxErrors = 2
INVARIANTS
  CompletedGraphsAreClosed
  WavesArePreserved
  FailureLedgerIsExact
PROPERTIES
  RootsSettle
CHECK_DEADLOCK FALSE
