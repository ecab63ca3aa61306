\* MaxLength = 4 stands for 2^32 - 1; two operations of guest code, at any
\* depth of the stack, next to the built-in they interrupt.
CONSTANTS
    A = A
    P = P
    X = X
    Nobody = Nobody
    Ids = {A, P, X}
    MaxLength = 4
    Numerals <- MCNumerals
    Symbols = {"@"}
    Heaps <- MCHeaps
    MaxOperations = 2
    MaxDepth = 5
    Definitions <- MCDefinitions
    Deletions <- MCDeletions
    Assignments <- MCAssignments
    Prototypes <- MCPrototypes
    Levels <- MCLevels
    Bindings <- MCBindings
    Calls <- MCCalls
    Loops <- MCLoops
    DefineAlls <- MCDefineAlls
    Answers <- MCAnswers
    Candidates <- MCCandidates
SPECIFICATION MCSpec
INVARIANTS
  ObjectsHold
  MethodsMeetTheirDefinition
  ForInIsFaithful
  ConversionsAreExact
PROPERTIES
  ObjectsKeepTheirPromises
CHECK_DEADLOCK FALSE
