SPECIFICATION MCSpec
CONSTANTS
  one = one
  two = two
  p1 = p1
  q1 = q1
  p2 = p2
  q2 = q2
  Agents = {one, two}
  Realms = {p1, q1, p2, q2}
  NoRealm = NoRealm
  AgentOf <- Owners
  maxStackDepth <- Budgets
  DEFAULT_MAX_STACK_DEPTH = 4
  MaxFrames = 8
  Iterables <- MCIterables
  MaxResumes = 4
  MaxAnswers = 2
INVARIANTS
  ChargesAreExact
  ChainsLastAsLongAsCalls
  RunsLikeTheEvaluator
  FramesEndWell
PROPERTIES
  BudgetIsShared
  ResumesReturn
CHECK_DEADLOCK FALSE
