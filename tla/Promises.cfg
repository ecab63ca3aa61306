SPECIFICATION Spec
CONSTANTS
  Primitive = Primitive
  GuestError = GuestError
  JobHosts = {{"scheduler", "tracker"}, {"tracker"}}
  HookCalls = TRUE
  HostErrors = TRUE
  MaxPromises = 3
  MaxPairs = 4
  MaxDepth = 3
INVARIANTS
  ExactlyOneRoute
  ReactionsRunOnceInOrder
  TrackerIsTruthful
  AdoptedOutcomeIsKept
