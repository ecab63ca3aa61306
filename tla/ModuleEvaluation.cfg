SPECIFICATION Spec
CONSTANTS
  a = a
  b = b
  c = c
  d = d
  Modules = {a, b, c, d}
  NoModule = NoModule
  Graphs <- Shapes
  MaxDepth = 3
  MaxHostErrors = 1
INVARIANTS
  LinksAreWhole
  BodiesRunOnce
  NothingIsLeftEvaluating
  OutcomesAreShared
PROPERTIES
  ImplementsModuleCommits
CHECK_DEADLOCK FALSE
