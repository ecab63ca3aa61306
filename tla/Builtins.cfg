CONSTANTS
    Alphabets <- MCAlphabets
    MaxLength <- MCMaxLength
    Objects = {"a", "b", "c"}
    Cases <- MCCases
    MaxMutations = 2
    MaxDepth = 6
    UriUnits <- MCUnits
    UriOctets <- MCOctets
    MaxUnits = 3
    MaxOctets = 4
SPECIFICATION Spec
INVARIANTS
  DatesAreExact
  JsonIsExact
  UrisReadBack
CHECK_DEADLOCK FALSE
