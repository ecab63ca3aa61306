------------------------------ MODULE MCFrontend ------------------------------
(***************************************************************************)
(* One instance of the four modules about the parser's front end: each     *)
(* behaviour is one of theirs, the variables of the others staying as they *)
(* are.                                                                    *)
(***************************************************************************)
EXTENDS Naturals, FiniteSets, Sequences

CONSTANTS Roots, Dialects, MaxNodes, Reserved, StrictReserved,      \* of EarlyErrors
          Shapes,                                                   \* of SyntaxTables
          Objects, Root, MaxProperties,                             \* of ProgramGraphs
          MaxPiece, MaxStatements                                   \* of ProgramReuse

VARIABLES part,
          tree, dialect, accepted,
          node, parent, key, context, module,
          source, phase, copies, snapshot, pending, metadata, seen,
          program, text

early == <<tree, dialect, accepted>>
tables == <<node, parent, key, context>>
graphs == <<source, phase, copies, snapshot, pending, metadata, seen>>
reuse == <<program, text>>

Early == INSTANCE EarlyErrors
Tables == INSTANCE SyntaxTables
Graphs == INSTANCE ProgramGraphs
Reuse == INSTANCE ProgramReuse

(***************************************************************************)
(* Five vocabularies to write programs with, each for one group of rules.  *)
(***************************************************************************)
Node(type, name, flags) == [type |-> type, name |-> name, names |-> <<>>, flags |-> flags]
Function(type, name, names, flags) == [Node(type, name, flags) EXCEPT !.names = names]
Plain(type) == Node(type, "", {})

\* Labels and the targets of break and continue.
Jumps ==
    {Plain("Block"), Plain("Loop"), Plain("Switch"), Node("Label", "a", {}), Node("Label", "b", {}),
     Node("Break", "a", {}), Node("Continue", "a", {}), Plain("Break"), Plain("Continue"), Plain("Return"),
     Function("FunctionExpression", "", <<>>, {}), Function("FunctionDeclaration", "f", <<>>, {})}
\* Declarations and the scopes they share.
Declarations ==
    {Plain("Block"), Plain("Switch"), Plain("Label"), Node("Try", "x", {}), Node("For", "x", {"let"}), Node("For", "x", {"var"}),
     Node("Variable", "x", {"let"}), Node("Variable", "x", {"var"}), Node("ClassDeclaration", "x", {}),
     Function("FunctionDeclaration", "x", <<>>, {}), Function("FunctionDeclaration", "x", <<>>, {"generator"}),
     Function("FunctionDeclaration", "y", <<"x">>, {}), Function("Arrow", "", <<"x">>, {"strict"})}
\* What only some functions give a meaning to.
Meanings ==
    {Plain("Yield"), Plain("SuperMember"), Plain("SuperCall"), Plain("NewTarget"),
     Plain("ClassExpression"), Node("ClassExpression", "", {"derived"}), Plain("Arrow"),
     Function("FunctionExpression", "", <<>>, {"constructor"}), Function("FunctionExpression", "", <<>>, {"method"}),
     Function("FunctionExpression", "", <<>>, {"generator"}), Function("FunctionDeclaration", "f", <<>>, {})}
\* Names, and what strict code does to them.
Words ==
    {Node("Use", "yield", {}), Node("Assign", "eval", {}), Node("Delete", "x", {}), Plain("With"), Plain("If"), Node("Label", "a", {}),
     Node("Variable", "let", {"var"}), Node("Variable", "let", {"let"}), Node("Variable", "static", {"const"}),
     Node("Try", "eval", {}), Node("ClassDeclaration", "static", {}), Plain("ClassExpression"),
     Function("FunctionExpression", "yield", <<>>, {"generator"}), Function("FunctionDeclaration", "yield", <<>>, {"generator"}),
     Function("FunctionDeclaration", "eval", <<"x", "x">>, {}), Function("FunctionExpression", "", <<"x", "x">>, {"method"}),
     Function("FunctionExpression", "", <<"arguments">>, {"strict"}), Function("FunctionExpression", "", <<"x">>, {"strict", "defaults"}),
     Function("Arrow", "", <<"yield">>, {"defaults"}), Node("Use", "await", {}), Node("Use", "if", {})}
\* Few words, and deep programs.
Scopes ==
    {Plain("Block"), Node("Variable", "x", {"let"}), Node("Variable", "x", {"var"}),
     Function("FunctionDeclaration", "x", <<>>, {})}
MCDialects == [jumps |-> Jumps, declarations |-> Declarations, meanings |-> Meanings, words |-> Words,
               scopes |-> Scopes]
MCMaxNodes == [jumps |-> 4, declarations |-> 4, meanings |-> 4, words |-> 4, scopes |-> 6]

(***************************************************************************)
(* The nodes of custom programs.                                           *)
(***************************************************************************)
Nodes == INSTANCE SyntaxTables WITH Shapes <- {}
S(type, is) == [Nodes!Shape(type) EXCEPT !.is = is]
M(type, is, scalars) == [S(type, is) EXCEPT !.scalars = scalars]
Bare == {Nodes!Shape(type) : type \in
    (Nodes!Expressions \ {"Member", "Literal", "Assignment"}) \cup (Nodes!Statements \ {"ForIn", "VariableDeclaration"})
    \cup Nodes!ModuleItems \cup Nodes!ImportSpecifiers \cup {"ExportSpecifier", "ObjectPattern", "ArrayPattern", "AssignmentPattern", "Rest",
       "VariableDeclarator", "Catch", "Case", "ClassBody", "TemplateElement", "Super", "Spread", "Await", "ImportExpression", "Unknown"}}
Flagged ==
    {S("Literal", {}), S("Literal", {"regex"}), S("Member", {}), S("Member", {"computed"}), S("Assignment", {}), S("Assignment", {"="}),
     S("ForIn", {"declares"}), S("ForIn", {}), S("VariableDeclaration", {"one"}), S("VariableDeclaration", {"one", "init"}),
     S("VariableDeclaration", {"const"}), S("VariableDeclaration", {"const", "init"}), S("VariableDeclarator", {"init"}),
     S("FunctionExpression", {"named"}), S("Arrow", {"expression"}), S("Arrow", {"named"}), S("Yield", {"delegate"}),
     S("ClassDeclaration", {"unnamed"}), S("ClassExpression", {"two constructors"}), S("Object", {"two prototypes"}),
     S("TemplateLiteral", {"uncooked"}), S("TemplateLiteral", {"quasis missing"}), S("TemplateElement", {"tail"})}
Methods ==
    {S("MethodDefinition", {"method"} \cup m) :
        m \in {{}, {"generator"}, {"static"}, {"computed"}, {"named constructor"}, {"static", "named prototype"}, {"annotated"},
               {"static", "named constructor"}}}
    \cup {S("MethodDefinition", {"constructor", "named constructor"} \cup m) : m \in {{}, {"generator"}, {"static"}, {"computed"}}}
    \cup {S("MethodDefinition", m) : m \in {{"get", "no parameters"}, {"get"}, {"set", "one parameter"}, {"set"},
                                            {"set", "one parameter", "generator"}}}
Properties ==
    {S("Property", {"init"} \cup m) :
        m \in {{}, {"computed"}, {"method"}, {"method", "generator"}, {"shorthand"}, {"shorthand", "same name"},
               {"shorthand", "same name", "computed"}, {"shorthand", "same name", "method"}}}
    \cup {S("Property", m) : m \in {{"get", "no parameters"}, {"get"}, {"set", "one parameter"}, {"set"}, {"get", "no parameters", "method"},
                                    {"get", "no parameters", "generator"}}}
Malformed ==
    {M("Identifier", {}, {<<"no", "name">>}), M("Literal", {}, {<<"bad", "value">>}), M("Literal", {}, {<<"no", "raw">>}),
     M("Literal", {}, {<<"bad", "bigint">>}), M("FunctionExpression", {}, {<<"bad", "async">>}), M("Arrow", {}, {<<"no", "expression">>}),
     M("ForOf", {}, {<<"bad", "await">>}), M("Unary", {}, {<<"bad", "operator">>}), M("Call", {}, {<<"bad", "optional">>}),
     M("Yield", {}, {<<"no", "delegate">>}), M("Property", {"init"}, {<<"no", "shorthand">>}),
     M("MethodDefinition", {"method"}, {<<"bad", "static">>}), M("ExpressionStatement", {}, {<<"bad", "directive">>}),
     M("TemplateElement", {"tail"}, {<<"bad", "value">>})}
MCShapes == Bare \cup Flagged \cup Methods \cup Properties \cup Malformed

(***************************************************************************)
(* The four together.                                                      *)
(***************************************************************************)
NoEarly == tree = <<>> /\ dialect = "" /\ accepted = FALSE
NoTables == node = Tables!None /\ parent = Tables!None /\ key = "" /\ context = "none"
NoGraphs ==
    source = <<>> /\ phase = "" /\ copies = <<>> /\ snapshot = <<>> /\ pending = <<>> /\ metadata = {} /\ seen = {}
NoReuse == program = <<>> /\ text = <<>>

Init ==
    \/ part = "early" /\ Early!Init /\ NoTables /\ module = FALSE /\ NoGraphs /\ NoReuse
    \/ part = "tables" /\ NoEarly /\ Tables!Init /\ NoGraphs /\ NoReuse
    \/ part = "graphs" /\ NoEarly /\ NoTables /\ module = FALSE /\ Graphs!Init /\ NoReuse
    \/ part = "reuse" /\ NoEarly /\ NoTables /\ NoGraphs /\ Reuse!Init
Next ==
    \/ part = "early" /\ Early!Next /\ UNCHANGED <<part, tables, module, graphs, reuse>>
    \/ part = "tables" /\ Tables!Next /\ UNCHANGED <<part, early, graphs, reuse>>
    \/ part = "graphs" /\ Graphs!Next /\ UNCHANGED <<part, early, tables, module, reuse>>
    \/ part = "reuse" /\ Reuse!Next /\ UNCHANGED <<part, early, tables, graphs>>
Spec == Init /\ [][Next]_<<part, early, tables, module, graphs, reuse>>

\* The front end accepts what the grammar and its early errors allow and nothing else: the
\* walk over the tree and the checks of its declarations, of ordinary and custom programs
\* alike (parser.js), Annex B's functions in blocks, and the places where a custom
\* program's nodes may stand (the node tables).
AcceptedIsTheGrammar ==
    /\ part = "early" => Early!EarlyErrorsAreExact /\ Early!AnnexBIsReplacement
    /\ part = "tables" => Tables!TablesAreTheGrammar
\* What is run is what was handed in: a graph of objects passes when it is a tree of own
\* data, however its objects are shared, the copy taken of it is the program that is
\* checked and run, and a program put together of pieces is that of all their text.
HandedInIsKept ==
    /\ part = "graphs" => Graphs!OnlyTreesPass /\ Graphs!SnapshotIsFaithful
    /\ part = "reuse" => Reuse!PiecesMakeTheWhole
================================================================================
