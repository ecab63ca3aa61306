CONSTANTS
    G = G
    P = P
    W = W
    Nobody = Nobody
    Ids = {G, P, W}
    Global = G
    Subject = W
    MaxLength = 1
    Symbols = {}
    Numerals <- MCNumerals
    Code <- MCCode
    Expressions = {"second"}
    Scripts <- MCScripts
    Evals <- MCEvals
    Names = {"x", "y"}
    Heaps <- MCHeaps
    Candidates <- MCCandidates
    MaxFrames = 4
    MaxEnvs = 7
    MaxFunctions = 7
    MaxCode = 3
    MaxGuest = 1
    Normals = {"F"}
    Natives = {"N"}
    Programs <- MCPrograms
    MaxDepth = 4
    Main = Main
    Left = Left
    Right = Right
    Modules = {Main, Left, Right}
    Vocabularies <- MCVocabularies
    MaxItems = 4
SPECIFICATION MCSpec
INVARIANTS
  NamesMeanTheirDeclarations
  InstancesInherit
PROPERTIES
  EnvironmentsKeepTheirBindings
CHECK_DEADLOCK FALSE
