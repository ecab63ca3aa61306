CONSTANTS
    Roots = {{}, {"strict"}, {"module"}}
    Dialects <- MCDialects
    MaxNodes <- MCMaxNodes
    Reserved = {"if"}
    StrictReserved = {"static", "let", "yield"}
    Shapes <- MCShapes
    Objects = {"a", "b", "c"}
    Root = "a"
    MaxProperties = 4
    MaxPiece = 2
    MaxStatements = 3
SPECIFICATION Spec
INVARIANTS
  AcceptedIsTheGrammar
  HandedInIsKept
CHECK_DEADLOCK FALSE
