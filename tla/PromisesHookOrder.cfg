SPECIFICATION Spec
CONSTANTS
  Primitive = Primitive
  GuestError = GuestError
  JobHosts = {{"scheduler"}}
  HookCalls = TRUE
  HostErrors = FALSE
  MaxPromises = 4
  MaxPairs = 4
  MaxDepth = 3
INVARIANT RegistrationOrder
