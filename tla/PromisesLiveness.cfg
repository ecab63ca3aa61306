SPECIFICATION FairSpec
CONSTANTS
  Primitive = Primitive
  GuestError = GuestError
  JobHosts = {{"scheduler"}}
  HookCalls = FALSE
  HostErrors = FALSE
  MaxPromises = 3
  MaxPairs = 4
  MaxDepth = 2
PROPERTIES
  AdoptionCompletes
