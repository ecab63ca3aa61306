------------------------------ MODULE SyntaxTables ------------------------------
(***************************************************************************)
(* The shape of the trees a parser hook hands in (parser.js): what a node  *)
(* may have in each child position (validateEvaluatorChildEdges), where a  *)
(* node may stand (validateCustomAstNodePlacement), and what the walk      *)
(* over every tree, the parser's own too, still refuses                    *)
(* (unsupportedEs2015Message).  A node must pass all three.                *)
(*                                                                         *)
(* A node is [type, is, scalars]: is says what it is besides its type,     *)
(* scalars which of its scalar fields are missing (<<"no", f>>) or have a  *)
(* value they may not have (<<"bad", f>>).  The model walks down from a    *)
(* program, from a node to any child the tables let it have.               *)
(***************************************************************************)
EXTENDS Naturals, FiniteSets

CONSTANTS Shapes        \* the nodes to build trees with

VARIABLES node,     \* where the walk is
          parent,   \* the node above it
          key,      \* the position of the parent it is in
          context,  \* of a pattern: "binding", "parameter", "assignment"; else "none"
          module    \* the program is a module

vars == <<node, parent, key, context, module>>

Shape(type) == [type |-> type, is |-> {}, scalars |-> {}]
Null == Shape("null")
Undefined == Shape("undefined")     \* the position does not exist
None == Shape("")                   \* above the program

Is(n, flag) == flag \in n.is

Expressions == {"Literal", "Identifier", "This", "Unary", "Binary", "Logical", "Conditional", "Assignment",
                "Update", "Call", "Member", "FunctionExpression", "Arrow", "ClassExpression", "Object", "Array",
                "New", "Sequence", "TemplateLiteral", "TaggedTemplate", "Yield", "MetaProperty"}
Loops == {"While", "DoWhile", "For", "ForIn", "ForOf"}
Statements == Loops \cup {"ExpressionStatement", "Empty", "Block", "VariableDeclaration", "FunctionDeclaration",
               "ClassDeclaration", "If", "Break", "Continue", "Return", "Throw", "Try", "Switch", "Labeled", "Debugger", "With"}
Functions == {"FunctionDeclaration", "FunctionExpression", "Arrow"}
Classes == {"ClassDeclaration", "ClassExpression"}
ModuleItems == {"Import", "ExportNamed", "ExportDefault", "ExportAll"}
ImportSpecifiers == {"ImportDefaultSpecifier", "ImportNamespaceSpecifier", "ImportSpecifier"}
Patterns == {"Identifier", "ObjectPattern", "ArrayPattern", "AssignmentPattern", "Rest"}
Heads == {"ForIn", "ForOf"}

\* The child positions of a type, and which of them are lists.
Keys(n) ==
    CASE n.type \in {"Program", "Block", "ClassBody"} -> {"body"}
      [] n.type = "ExpressionStatement" -> {"expression"}
      [] n.type = "VariableDeclaration" -> {"declarations"}
      [] n.type = "VariableDeclarator" -> {"id", "init"}
      [] n.type = "Arrow" -> {"params", "body"}
      [] n.type \in Functions -> {"id", "params", "body"}
      [] n.type \in Classes -> {"id", "superClass", "body"}
      [] n.type = "MethodDefinition" \/ n.type = "Property" -> {"key", "value"}
      [] n.type \in {"If", "Conditional"} -> {"test", "consequent", "alternate"}
      [] n.type \in {"While", "DoWhile"} -> {"test", "body"}
      [] n.type = "For" -> {"init", "test", "update", "body"}
      [] n.type \in Heads -> {"left", "right", "body"}
      [] n.type \in {"Break", "Continue"} -> {"label"}
      [] n.type \in {"Return", "Throw", "Unary", "Update", "Spread", "Yield", "Rest"} -> {"argument"}
      [] n.type = "Try" -> {"block", "handler", "finalizer"}
      [] n.type = "Catch" -> {"param", "body"}
      [] n.type = "Switch" -> {"discriminant", "cases"}
      [] n.type = "Case" -> {"test", "consequent"}
      [] n.type = "Labeled" -> {"label", "body"}
      [] n.type = "With" -> {"object", "body"}
      [] n.type \in {"Binary", "Logical", "Assignment", "AssignmentPattern"} -> {"left", "right"}
      [] n.type \in {"Call", "New"} -> {"callee", "arguments"}
      [] n.type = "Member" -> {"object", "property"}
      [] n.type \in {"Object", "ObjectPattern"} -> {"properties"}
      [] n.type \in {"Array", "ArrayPattern"} -> {"elements"}
      [] n.type = "Sequence" -> {"expressions"}
      [] n.type = "TemplateLiteral" -> {"expressions", "quasis"}
      [] n.type = "TaggedTemplate" -> {"tag", "quasi"}
      [] n.type = "MetaProperty" -> {"meta", "property"}
      [] n.type = "Import" -> {"specifiers", "source"}
      [] n.type = "ExportNamed" -> {"declaration", "specifiers", "source"}
      [] n.type = "ExportDefault" -> {"declaration"}
      [] n.type = "ExportAll" -> {"source"}
      [] n.type = "ImportSpecifier" -> {"local", "imported"}
      [] n.type \in ImportSpecifiers -> {"local"}
      [] n.type = "ExportSpecifier" -> {"local", "exported"}
      [] OTHER -> {}

(***************************************************************************)
(* validateEvaluatorScalarSyntax: the scalar fields a type must have, and  *)
(* those it may leave out.  A field that is there is well-formed.          *)
(***************************************************************************)
RequiredScalars(n) ==
    CASE n.type = "Program" -> {"sourceType"}
      [] n.type = "VariableDeclaration" -> {"kind"}
      [] n.type \in {"FunctionDeclaration", "FunctionExpression", "Arrow"} -> {"generator", "expression"}
      [] n.type = "Yield" -> {"delegate"}
      [] n.type = "Identifier" -> {"name"}
      [] n.type \in {"Unary", "Update"} -> {"operator", "prefix"}
      [] n.type \in {"Binary", "Logical", "Assignment"} -> {"operator"}
      [] n.type = "Member" -> {"computed"}
      [] n.type = "MethodDefinition" -> {"computed", "static", "kind"}
      [] n.type = "Property" -> {"computed", "method", "shorthand", "kind"}
      [] n.type = "Literal" -> {"value"}
      [] n.type = "TemplateElement" -> {"tail", "value"}
      [] OTHER -> {}
OptionalScalars(n) ==
    CASE n.type = "ExpressionStatement" -> {"directive"}
      [] n.type \in Functions -> {"async"}
      [] n.type = "ForOf" -> {"await"}
      [] n.type \in {"Call", "Member"} -> {"optional"}
      [] n.type = "Literal" -> {"regex", "raw", "bigint"}
      [] OTHER -> {}
ScalarsOk(n) ==
    /\ \A f \in RequiredScalars(n) : <<"no", f>> \notin n.scalars /\ <<"bad", f>> \notin n.scalars
    /\ \A g \in OptionalScalars(n) : <<"bad", g>> \notin n.scalars

(***************************************************************************)
(* validateEvaluatorChildEdges: a type nobody knows is left to the tables  *)
(* below, so that the error names it.                                      *)
(***************************************************************************)
Unknown == {"Unknown"}
Absent == {"null", "undefined"}
BindingPatterns == Patterns
AnyPattern == Patterns \cup {"Member"}
Targets == {"Identifier", "Member", "ObjectPattern", "ArrayPattern"}
DefaultDeclaration(p, k) == p.type = "ExportDefault" /\ k = "declaration"
NameTypes(n, above, k, mod) ==
    {"Identifier"} \cup (IF n.type \in {"FunctionExpression"}
                            \/ (mod /\ DefaultDeclaration(above, k)) THEN Absent ELSE {})
HeadEdges(k) ==
    CASE k = "left" -> Targets \cup {"VariableDeclaration"}
      [] k = "right" -> Expressions
      [] k = "body" -> Statements
MemberEdges(n, k) ==
    IF k = "object" THEN Expressions \cup {"Super"}
    ELSE IF Is(n, "computed") THEN Expressions ELSE {"Identifier"}
ElementEdges(n) ==
    CASE n.type = "Array" -> Expressions \cup {"Spread", "null"}
      [] n.type = "ArrayPattern" -> AnyPattern \cup {"null"}
      [] n.type = "ObjectPattern" -> {"Property", "Rest"}
\* The types position k of n takes: n a statement, a function or a class in position at of above,
StatementEdges(n, k, above, at, mod) ==
    CASE n.type = "Program" -> Statements \cup (IF mod THEN ModuleItems ELSE {})
      [] n.type = "Block" -> Statements
      [] n.type = "ExpressionStatement" -> Expressions
      [] n.type = "VariableDeclaration" -> {"VariableDeclarator"}
      [] n.type = "VariableDeclarator" -> IF k = "id" THEN BindingPatterns ELSE Expressions \cup Absent
      [] n.type \in Functions \cup Classes /\ k = "id" -> NameTypes(n, above, at, mod)
      [] n.type \in Functions \ {"Arrow"} -> IF k = "params" THEN BindingPatterns ELSE {"Block"}
      [] n.type = "Arrow" /\ k = "body" -> IF Is(n, "expression") THEN Expressions ELSE {"Block"}
      [] n.type = "If" -> (CASE k = "test" -> Expressions
                             [] k = "consequent" -> Statements
                             [] k = "alternate" -> Statements \cup Absent)
      [] n.type \in {"While", "DoWhile"} -> IF k = "test" THEN Expressions ELSE Statements
      [] n.type = "For" -> (CASE k = "init" -> Expressions \cup {"VariableDeclaration"} \cup Absent
                              [] k = "test" -> Expressions \cup {"null"}
                              [] k = "update" -> Expressions \cup Absent
                              [] k = "body" -> Statements)
      [] n.type \in Heads -> HeadEdges(k)
      [] n.type \in {"Break", "Continue"} -> {"Identifier"} \cup Absent
      [] n.type = "Return" -> Expressions \cup Absent
      [] n.type = "Throw" -> Expressions
      [] n.type = "Try" -> (CASE k = "block" -> {"Block"}
                              [] k = "handler" -> {"Catch", "null"}
                              [] k = "finalizer" -> {"Block", "null"})
      [] n.type = "Catch" -> IF k = "param" THEN {"Identifier"} ELSE {"Block"}
      [] n.type = "Switch" -> IF k = "discriminant" THEN Expressions ELSE {"Case"}
      [] n.type = "Case" -> IF k = "test" THEN Expressions \cup {"null"} ELSE Statements
      [] n.type = "Labeled" -> IF k = "label" THEN {"Identifier"} ELSE Statements
      [] n.type = "With" -> IF k = "object" THEN Expressions ELSE Statements
\* an expression, a pattern or a part of one,
ExpressionEdges(n, k) ==
    CASE n.type \in {"Unary", "Binary", "Logical", "Conditional", "Spread"} -> Expressions
      [] n.type = "Assignment" -> IF k = "left" THEN Targets ELSE Expressions
      [] n.type = "Update" -> {"Identifier", "Member"}
      [] n.type = "Call" -> Expressions \cup (IF k = "callee" THEN {"Super"} ELSE {"Spread"})
      [] n.type = "New" -> IF k = "callee" THEN Expressions ELSE Expressions \cup {"Spread", "undefined"}
      [] n.type = "Member" -> MemberEdges(n, k)
      [] n.type = "Object" -> {"Property", "Spread"}
      [] n.type \in {"Array", "ArrayPattern", "ObjectPattern"} -> ElementEdges(n)
      [] n.type = "Sequence" -> Expressions
      [] n.type = "TemplateLiteral" -> IF k = "expressions" THEN Expressions ELSE {"TemplateElement"}
      [] n.type = "TaggedTemplate" -> IF k = "tag" THEN Expressions ELSE {"TemplateLiteral"}
      [] n.type = "Yield" -> Expressions \cup (IF Is(n, "delegate") THEN {} ELSE {"null"})
      [] n.type = "MetaProperty" -> {"Identifier"}
      [] n.type = "AssignmentPattern" -> IF k = "left" THEN AnyPattern ELSE Expressions
      [] n.type = "Rest" -> AnyPattern
\* an import or an export.
ModuleEdges(n, k) ==
    CASE n.type = "Import" -> IF k = "specifiers" THEN ImportSpecifiers ELSE {"Literal"}
      [] n.type \in ImportSpecifiers \cup {"ExportSpecifier"} -> {"Identifier"}
      [] n.type = "ExportNamed" -> (CASE k = "declaration" -> {"VariableDeclaration", "FunctionDeclaration", "ClassDeclaration", "null"}
                                      [] k = "specifiers" -> {"ExportSpecifier"}
                                      [] k = "source" -> {"Literal", "null"})
      [] n.type = "ExportDefault" -> Expressions \cup {"FunctionDeclaration", "ClassDeclaration"}
      [] n.type = "ExportAll" -> {"Literal"}
EdgeTypes(n, k, above, at, mod) ==
    CASE n.type \in ModuleItems \cup ImportSpecifiers \cup {"ExportSpecifier"} -> ModuleEdges(n, k)
      [] n.type \in Statements \cup Functions \cup Classes \cup {"Program", "VariableDeclarator", "Catch", "Case"} ->
            StatementEdges(n, k, above, at, mod)
      [] OTHER -> ExpressionEdges(n, k)
\* Positions no edge is about.
Unchecked(n, k) ==
    \/ n.type \in {"ClassExpression", "ClassBody", "MethodDefinition", "Property"}
    \/ n.type = "ClassDeclaration" /\ k # "id"
    \/ n.type = "Arrow" /\ k = "params"
\* A for-in or for-of head declares one name without initializer; any other const has one.
DeclarationFits(n, k, c, above, at) ==
    /\ n.type \in Heads /\ c.type = "VariableDeclaration" => Is(c, "one") /\ ~Is(c, "init")
    /\ n.type = "VariableDeclaration" /\ Is(n, "const") /\ ~(above.type \in Heads /\ at = "left") => Is(n, "init")
Edge(n, k, c, above, at, mod) ==
    /\ Unchecked(n, k) \/ c.type \in EdgeTypes(n, k, above, at, mod) \cup Unknown
    /\ DeclarationFits(n, k, c, above, at)

(***************************************************************************)
(* validateCustomAstNodePlacement: where a node may stand, in position k   *)
(* of p, in a list's last place or not, inside a pattern or not.           *)
(***************************************************************************)
StatementPosition(p, k) ==
    \/ p.type \in {"Program", "Block"} /\ k = "body"
    \/ p.type = "Case" /\ k = "consequent"
    \/ p.type = "If" /\ k \in {"consequent", "alternate"}
    \/ p.type \in Loops \cup {"Labeled", "With"} /\ k = "body"
PatternPosition(p, k) ==
    \/ p.type = "VariableDeclarator" /\ k = "id"
    \/ p.type \in Functions /\ k = "params"
    \/ p.type = "ArrayPattern"
    \/ p.type = "Property" /\ k = "value"
    \/ p.type \in {"AssignmentPattern", "Assignment"} \cup Heads /\ k = "left"
    \/ p.type = "Rest"

ModulePosition(c, p, k) ==
    CASE c.type \in ModuleItems -> p.type = "Program"
      [] c.type \in ImportSpecifiers -> p.type = "Import" /\ k = "specifiers"
      [] c.type = "ExportSpecifier" -> p.type = "ExportNamed" /\ k = "specifiers"
      [] c.type = "Literal" ->
            (p.type \in {"Import", "ExportNamed", "ExportAll"} /\ k = "source") \/ DefaultDeclaration(p, k)
      [] c.type = "Identifier" ->
            p.type \in ImportSpecifiers \cup {"ExportSpecifier"} \/ DefaultDeclaration(p, k)
      [] c.type \in {"VariableDeclaration", "FunctionDeclaration", "ClassDeclaration"} ->
            k = "declaration" /\ (p.type = "ExportNamed" \/ (p.type = "ExportDefault" /\ c.type # "VariableDeclaration"))
      [] OTHER -> c.type \in Expressions /\ DefaultDeclaration(p, k)

PropertyValue(p, c) ==
    \/ Is(p, "init") /\ ~Is(p, "method")
    \/ c.type = "FunctionExpression" /\ (Is(p, "init") <=> Is(p, "method"))
PatternTarget(c, p, k) == c.type \in {"Identifier", "Member"} /\ PatternPosition(p, k)
ExpressionPosition(c, p, k, ctx) ==
    IF ctx # "none" THEN PatternTarget(c, p, k)
    ELSE CASE p.type \in {"ExpressionStatement", "Return", "Throw", "Unary", "Binary", "Logical", "Conditional", "Sequence",
                          "Array", "Call", "New", "Spread", "Yield"} -> TRUE
           [] p.type = "VariableDeclarator" -> k = "init"
           [] p.type \in {"If", "While", "DoWhile", "Case"} -> k = "test"
           [] p.type = "For" -> k \in {"init", "test", "update"}
           [] p.type \in Heads \cup {"Assignment"} -> k = "right" \/ (c.type \in {"Identifier", "Member"} /\ k = "left")
           [] p.type = "With" -> k = "object"
           [] p.type = "Switch" -> k = "discriminant"
           [] p.type = "Update" -> c.type \in {"Identifier", "Member"}
           [] p.type = "Member" -> k = "object" \/ Is(p, "computed") \/ c.type = "Identifier"
           [] p.type = "MetaProperty" -> c.type = "Identifier"
           [] p.type = "TemplateLiteral" -> k = "expressions"
           [] p.type = "TaggedTemplate" -> k = "tag" \/ c.type = "TemplateLiteral"
           [] p.type = "AssignmentPattern" -> k = "right"
           [] p.type = "Arrow" -> k = "body" /\ Is(p, "expression")
           [] p.type \in Functions -> k = "id" /\ c.type = "Identifier"
           [] p.type \in Classes -> k = "superClass" \/ (k = "id" /\ c.type = "Identifier")
           [] p.type = "MethodDefinition" ->
                 \/ k = "key" /\ (Is(p, "computed") \/ c.type \in {"Identifier", "Literal"})
                 \/ k = "value" /\ c.type = "FunctionExpression"
           [] p.type = "Property" ->
                 \/ k = "key" /\ (Is(p, "computed") \/ c.type \in {"Identifier", "Literal"})
                 \/ k = "value" /\ PropertyValue(p, c)
           [] p.type = "Catch" -> k = "param" /\ c.type = "Identifier"
           [] p.type \in {"Labeled", "Break", "Continue"} -> k = "label" /\ c.type = "Identifier"
           [] OTHER -> FALSE
NonExpressionPosition(c, p, k, ctx) ==
    CASE c.type = "Program" -> FALSE
      [] c.type = "Block" ->
            \/ StatementPosition(p, k) \/ (p.type \in Functions /\ k = "body")
            \/ p.type = "Try" /\ k \in {"block", "finalizer"}
            \/ p.type = "Catch" /\ k = "body"
      [] c.type = "VariableDeclaration" ->
            StatementPosition(p, k) \/ (p.type = "For" /\ k = "init") \/ (p.type \in Heads /\ k = "left")
      [] c.type \in Statements -> StatementPosition(p, k)
      [] c.type = "VariableDeclarator" -> p.type = "VariableDeclaration"
      [] c.type = "Catch" -> p.type = "Try" /\ k = "handler"
      [] c.type = "Case" -> p.type = "Switch" /\ k = "cases"
      [] c.type = "Property" -> p.type \in {"Object", "ObjectPattern"}
      [] c.type = "ClassBody" -> p.type \in Classes /\ k = "body"
      [] c.type = "MethodDefinition" -> p.type = "ClassBody"
      [] c.type = "TemplateElement" -> p.type = "TemplateLiteral" /\ k = "quasis"
      [] c.type = "Super" -> (p.type = "Member" /\ k = "object") \/ (p.type = "Call" /\ k = "callee")
      [] c.type = "Spread" -> p.type \in {"Array", "Object"} \/ (p.type \in {"Call", "New"} /\ k = "arguments")
      [] c.type \in {"ObjectPattern", "ArrayPattern"} -> ctx # "none" /\ PatternPosition(p, k)
      [] c.type = "AssignmentPattern" ->
            (p.type \in Functions /\ k = "params") \/ p.type = "ArrayPattern" \/ (p.type = "Property" /\ k = "value")
      [] c.type = "Rest" -> (p.type \in Functions /\ k = "params") \/ p.type \in {"ArrayPattern", "ObjectPattern"}
      [] c.type \in {"Await", "ImportExpression"} -> ExpressionPosition(c, p, k, ctx)
      [] c.type \in ModuleItems -> p.type = "Program"
      [] OTHER -> FALSE
Placed(c, p, k, ctx, mod) ==
    /\ c.type \notin Unknown
    /\ \/ mod /\ ModulePosition(c, p, k)
       \/ c.type \in Expressions /\ ExpressionPosition(c, p, k, ctx)
       \/ c.type \notin Expressions /\ NonExpressionPosition(c, p, k, ctx)

(***************************************************************************)
(* unsupportedEs2015Message: of a node in position k of p.                 *)
(***************************************************************************)
ClassDeclarationPosition(p, k) ==
    (p.type \in {"Program", "Block"} /\ k = "body") \/ (p.type = "Case" /\ k = "consequent")
\* validateClassDefinition.
ClassOk(c, p, k, mod) ==
    /\ c.type = "ClassDeclaration" =>
          /\ ClassDeclarationPosition(p, k) \/ (mod /\ ModulePosition(c, p, k))
          /\ ~Is(c, "unnamed") \/ (mod /\ DefaultDeclaration(p, k))
    /\ ~Is(c, "two constructors") /\ ~Is(c, "annotated")
\* isClassConstructorDefinition, validateClassMethodDefinition.
Constructor(c) == Is(c, "named constructor") /\ ~Is(c, "static") /\ ~Is(c, "computed")
AccessorParameters(c) ==
    CASE Is(c, "get") -> Is(c, "no parameters")
      [] Is(c, "set") -> Is(c, "one parameter")
      [] OTHER -> TRUE
MethodOk(c) ==
    /\ ~Is(c, "annotated")
    /\ Constructor(c) <=> Is(c, "constructor")
    /\ Is(c, "generator") => ~Is(c, "get") /\ ~Is(c, "set") /\ ~Constructor(c)
    /\ ~(Is(c, "static") /\ ~Is(c, "computed") /\ Is(c, "named prototype"))
    /\ AccessorParameters(c)
\* validateObjectExpressionProperty.
ObjectPropertyOk(c) ==
    IF Is(c, "shorthand")
    THEN Is(c, "init") /\ ~Is(c, "computed") /\ ~Is(c, "method") /\ Is(c, "same name")
    ELSE /\ Is(c, "method") => Is(c, "init")
         /\ ~Is(c, "init") => ~Is(c, "generator") /\ AccessorParameters(c)
\* validateObjectParameterProperty, of parameters only.
PatternPropertyOk(c, ctx) ==
    /\ Is(c, "init") /\ ~Is(c, "method")
    /\ ctx = "parameter" /\ Is(c, "shorthand") => ~Is(c, "computed") /\ Is(c, "same name")
PropertyOk(c, p, ctx) ==
    IF p.type = "ObjectPattern" THEN PatternPropertyOk(c, ctx) ELSE ObjectPropertyOk(c)
\* validateTemplateLiteral: a tagged one may hold escapes that mean nothing.
TemplateOk(c, p, k) ==
    ~Is(c, "quasis missing") /\ (Is(c, "uncooked") => p.type = "TaggedTemplate" /\ k = "quasi")
RestOk(p, k, last, ctx) ==
    /\ last
    /\ \/ ctx # "none" /\ p.type = "ArrayPattern"
       \/ ctx = "parameter" /\ p.type \in Functions /\ k = "params"
\* The children a node's own check looks at; above is p's parent, ctx p's context.
Key(p, c, regex) ==
    IF Is(p, "computed") THEN c.type \in Expressions
    ELSE c.type = "Identifier" \/ (c.type = "Literal" /\ (regex \/ ~Is(c, "regex")))
Method(c) == c.type = "FunctionExpression" /\ ~Is(c, "named")
PropertyChildOk(p, k, c, above, ctx) ==
    CASE k = "key" -> Key(p, c, above.type = "ObjectPattern" /\ ctx # "parameter")
      [] above.type = "Object" /\ Is(p, "shorthand") -> c.type = "Identifier"
      [] above.type = "Object" /\ (Is(p, "method") \/ ~Is(p, "init")) -> Method(c)
      [] above.type = "Object" -> c.type \in Expressions
      [] ctx = "parameter" /\ Is(p, "shorthand") -> c.type \in {"Identifier", "AssignmentPattern"}
      [] OTHER -> c.type \notin Absent
ChildOk(p, k, c, above, ctx) ==
    CASE p.type \in Functions /\ k = "params" -> c.type \in Patterns
      [] p.type \in Classes /\ k = "superClass" -> c.type \in Expressions \cup {"null"}
      [] p.type \in Classes /\ k = "body" -> c.type = "ClassBody"
      [] p.type = "ClassExpression" /\ k = "id" -> c.type \in {"Identifier", "null"}
      [] p.type = "ClassBody" -> c.type = "MethodDefinition"
      [] p.type = "MethodDefinition" -> IF k = "key" THEN Key(p, c, FALSE) ELSE Method(c) /\ ~Is(c, "annotated")
      [] p.type = "Property" -> PropertyChildOk(p, k, c, above, ctx)
      [] OTHER -> TRUE
UnsupportedTypes == {"Await", "ImportExpression"} \cup ModuleItems
Supported(c, p, k, last, ctx, mod) ==
    /\ c.type \in Expressions => (mod /\ ModulePosition(c, p, k)) \/ ExpressionPosition(c, p, k, ctx)
    /\ p.type = "ObjectPattern" => c.type = "Property"
    /\ ctx # "none" =>
          c.type \in Patterns \cup {"Property"} \/ (c.type = "Member" /\ ctx = "assignment")
    /\ CASE c.type \in Classes -> ClassOk(c, p, k, mod)
         [] c.type = "ClassBody" -> p.type \in Classes /\ k = "body"
         [] c.type = "MethodDefinition" -> p.type = "ClassBody" /\ MethodOk(c)
         [] c.type = "Property" -> PropertyOk(c, p, ctx)
         [] c.type = "Object" -> ~Is(c, "two prototypes")
         [] c.type = "TemplateLiteral" -> TemplateOk(c, p, k)
         [] c.type = "TemplateElement" -> p.type = "TemplateLiteral" /\ k = "quasis" /\ (Is(c, "tail") <=> last)
         [] c.type = "Arrow" -> ~Is(c, "named") /\ ~Is(c, "generator")
         [] c.type \in {"ObjectPattern", "ArrayPattern"} -> ctx # "none"
         [] c.type = "AssignmentPattern" -> ctx # "none" /\ NonExpressionPosition(c, p, k, ctx)
         [] c.type = "Rest" -> RestOk(p, k, last, ctx)
         [] c.type = "Spread" -> p.type = "Array" \/ (p.type \in {"Call", "New"} /\ k = "arguments")
         [] OTHER -> c.type \in UnsupportedTypes => mod /\ ModulePosition(c, p, k)

\* patternContextForChild: the context of n's position k, n being in ctx.
ChildContext(n, k, ctx) ==
    CASE n.type = "VariableDeclarator" /\ k = "id" -> "binding"
      [] n.type \in Functions /\ k = "params" -> "parameter"
      [] n.type \in ImportSpecifiers /\ k = "local" -> "binding"
      [] n.type = "Assignment" /\ k = "left" /\ Is(n, "=") -> "assignment"
      [] n.type \in Heads /\ k = "left" /\ ~Is(n, "declares") -> "assignment"
      [] n.type \in {"ArrayPattern", "ObjectPattern", "Rest"} -> ctx
      [] n.type = "Property" /\ k = "value" -> ctx
      [] n.type = "AssignmentPattern" /\ k = "left" -> ctx
      [] OTHER -> "none"

(***************************************************************************)
(* A node below n: all three tables let it stand there.                    *)
(***************************************************************************)
Lists == {"params", "properties", "elements", "quasis"}     \* where the last place is special
Accepted(n, k, c, last, above, at, ctx, mod) ==
    /\ Edge(n, k, c, above, at, mod) /\ ChildOk(n, k, c, above, ctx)
    /\ \/ c.type \in Absent
       \/ /\ ScalarsOk(c)
          /\ Placed(c, n, k, ChildContext(n, k, ctx), mod)
          /\ Supported(c, n, k, last, ChildContext(n, k, ctx), mod)
\* What n's flags say about its children.
Coherent(n, k, c) ==
    /\ n.type = "VariableDeclarator" /\ k = "init" => (Is(n, "init") <=> c.type \notin Absent)
    /\ n.type = "VariableDeclaration" => (Is(n, "init") <=> Is(c, "init"))
    /\ n.type = "ClassDeclaration" /\ k = "id" => (Is(n, "unnamed") <=> c.type \in Absent)
    /\ n.type = "FunctionExpression" /\ k = "id" => (Is(n, "named") <=> c.type \notin Absent)
    /\ n.type \in Heads /\ k = "left" => (Is(n, "declares") <=> c.type = "VariableDeclaration")

Children ==
    {<<k, c, last>> \in Keys(node) \X Shapes \X BOOLEAN :
        /\ c.type \notin Absent /\ Coherent(node, k, c)
        /\ Accepted(node, k, c, last, parent, key, context, module)}
Descend(k, c) ==
    /\ node' = c /\ parent' = node /\ key' = k /\ context' = ChildContext(node, k, context)
    /\ UNCHANGED module

Init ==
    /\ node = Shape("Program") /\ parent = None /\ key = "" /\ context = "none"
    /\ module \in BOOLEAN
Next == \E child \in Children : Descend(child[1], child[2])

Spec == Init /\ [][Next]_vars

(***************************************************************************)
(* The grammar: what the tables should let stand where.                    *)
(***************************************************************************)
WellFormedScalars(c) ==
    c.scalars \subseteq {<<"no", f>> : f \in {"directive", "async", "await", "optional", "regex", "raw", "bigint"}}
Accessor(c) == Is(c, "get") \/ Is(c, "set")
\* A method, accessor or constructor of an object or a class.
WellFormedMethod(c) ==
    /\ Is(c, "get") => Is(c, "no parameters")
    /\ Is(c, "set") => Is(c, "one parameter")
    /\ Accessor(c) \/ Is(c, "constructor") => ~Is(c, "generator")
WellFormed(c, n, k, last, ctx, mod) ==
    /\ WellFormedScalars(c) /\ ~Is(c, "annotated")
    /\ CASE c.type = "MethodDefinition" ->
              /\ WellFormedMethod(c)
              /\ Is(c, "constructor") <=> Is(c, "named constructor") /\ {"static", "computed"} \cap c.is = {}
              /\ ~({"static", "named prototype"} \subseteq c.is /\ ~Is(c, "computed"))
         [] c.type = "Property" /\ n.type = "Object" ->
              IF Is(c, "shorthand") THEN {"init", "same name"} \subseteq c.is /\ {"computed", "method"} \cap c.is = {}
              ELSE WellFormedMethod(c) /\ (Is(c, "method") => ~Accessor(c))
         [] c.type = "Property" ->
              /\ Is(c, "init") /\ ~Is(c, "method")
              /\ Is(c, "shorthand") /\ ctx = "parameter" => Is(c, "same name") /\ ~Is(c, "computed")
         [] c.type = "Arrow" -> {"named", "generator"} \cap c.is = {}
         [] c.type = "TemplateLiteral" -> ~Is(c, "quasis missing") /\ (Is(c, "uncooked") => k = "quasi")
         [] c.type = "TemplateElement" -> Is(c, "tail") <=> last
         [] c.type = "ClassDeclaration" -> Is(c, "unnamed") => mod /\ k = "declaration" /\ n.type = "ExportDefault"
         [] c.type \in {"Program", "Unknown", "Await", "ImportExpression"} -> FALSE
         [] OTHER -> TRUE
    /\ {"two constructors", "two prototypes"} \cap c.is = {}

Nested(ctx) == {"Identifier", "ObjectPattern", "ArrayPattern"} \cup (IF ctx = "assignment" THEN {"Member"} ELSE {})
Element(ctx, last) == Nested(ctx) \cup {"AssignmentPattern"} \cup (IF last THEN {"Rest"} ELSE {})
Propertied(n, above, ctx) ==      \* the value of a property
    CASE above.type = "ObjectPattern" ->
            IF Is(n, "shorthand") /\ ctx = "parameter" THEN {"Identifier", "AssignmentPattern"}
            ELSE Nested(ctx) \cup {"AssignmentPattern"}
      [] Is(n, "shorthand") -> {"Identifier"}
      [] Is(n, "method") \/ Accessor(n) -> {"FunctionExpression"}
      [] OTHER -> Expressions
Grammar(n, k, last, above, at, ctx, mod) ==
    LET optional == {"null"} IN
    CASE <<n.type, k>> = <<"Program", "body">> -> Statements \cup (IF mod THEN ModuleItems ELSE {})
      [] <<n.type, k>> \in {<<"Block", "body">>, <<"Case", "consequent">>} -> Statements
      [] n.type \in Loops \cup {"With", "Labeled"} /\ k = "body" -> Statements \ {"ClassDeclaration"}
      [] n.type = "If" /\ k # "test" -> (Statements \ {"ClassDeclaration"}) \cup (IF k = "alternate" THEN optional ELSE {})
      [] <<n.type, k>> \in {<<"For", "test">>, <<"For", "update">>, <<"Return", "argument">>, <<"Case", "test">>,
                            <<"VariableDeclarator", "init">>, <<"ClassDeclaration", "superClass">>,
                            <<"ClassExpression", "superClass">>} -> Expressions \cup optional
      [] n.type = "Yield" -> Expressions \cup (IF Is(n, "delegate") THEN {} ELSE optional)
      [] <<n.type, k>> = <<"For", "init">> -> Expressions \cup {"VariableDeclaration"} \cup optional
      [] n.type \in Heads /\ k = "left" -> IF Is(n, "declares") THEN {"VariableDeclaration"} ELSE Nested("assignment")
      [] <<n.type, k>> = <<"Assignment", "left">> -> IF Is(n, "=") THEN Nested("assignment") ELSE {"Identifier", "Member"}
      [] n.type = "Update" -> {"Identifier", "Member"}
      [] n.type = "VariableDeclaration" -> {"VariableDeclarator"}
      [] <<n.type, k>> = <<"VariableDeclarator", "id">> -> Nested("binding")
      [] n.type \in Functions /\ k = "params" -> Element("parameter", last)
      [] n.type = "ArrayPattern" -> Element(ctx, last) \cup optional
      [] n.type = "ObjectPattern" -> {"Property"}
      [] <<n.type, k>> = <<"AssignmentPattern", "left">> -> Nested(ctx)
      [] n.type = "Rest" -> Nested(ctx)
      [] n.type = "Arrow" -> IF Is(n, "expression") THEN Expressions ELSE {"Block"}
      [] n.type \in Functions /\ k = "body" -> {"Block"}
      [] n.type \in Functions \cup Classes ->
            IF k = "body" THEN {"ClassBody"}
            ELSE {"Identifier"} \cup (IF n.type \in Expressions \/ (mod /\ above.type = "ExportDefault") THEN optional ELSE {})
      [] n.type = "ClassBody" -> {"MethodDefinition"}
      [] n.type \in {"MethodDefinition", "Property"} /\ k = "key" -> IF Is(n, "computed") THEN Expressions ELSE {"Identifier", "Literal"}
      [] n.type = "MethodDefinition" -> {"FunctionExpression"}
      [] n.type = "Property" -> Propertied(n, above, ctx)
      [] n.type = "Try" -> IF k = "block" THEN {"Block"} ELSE optional \cup (IF k = "handler" THEN {"Catch"} ELSE {"Block"})
      [] n.type = "Catch" -> IF k = "param" THEN {"Identifier"} ELSE {"Block"}
      [] n.type \in {"Break", "Continue"} -> {"Identifier"} \cup optional
      [] n.type = "Labeled" \/ n.type = "MetaProperty" -> {"Identifier"}
      [] <<n.type, k>> = <<"Switch", "cases">> -> {"Case"}
      [] <<n.type, k>> = <<"Member", "property">> -> IF Is(n, "computed") THEN Expressions ELSE {"Identifier"}
      [] <<n.type, k>> \in {<<"Member", "object">>, <<"Call", "callee">>} -> Expressions \cup {"Super"}
      [] k = "arguments" -> Expressions \cup {"Spread"}
      [] n.type = "Array" -> Expressions \cup {"Spread"} \cup optional
      [] n.type = "Object" -> {"Property"}
      [] k = "quasis" -> {"TemplateElement"}
      [] k = "quasi" -> {"TemplateLiteral"}
      [] n.type = "Import" -> IF k = "specifiers" THEN ImportSpecifiers ELSE {"Literal"}
      [] n.type = "ExportNamed" -> (CASE k = "specifiers" -> {"ExportSpecifier"}
                                      [] k = "source" -> {"Literal"} \cup optional
                                      [] k = "declaration" -> {"VariableDeclaration", "FunctionDeclaration", "ClassDeclaration"} \cup optional)
      [] n.type = "ExportAll" -> {"Literal"}
      [] n.type = "ExportDefault" -> Expressions \cup {"FunctionDeclaration", "ClassDeclaration"}
      [] n.type \in ImportSpecifiers \cup {"ExportSpecifier"} -> {"Identifier"}
      [] OTHER -> Expressions
\* Declarations say what their head or their kind asks for; methods are anonymous functions.
\* A regular expression is no name, but passes as one in patterns outside of parameters.
Agrees(n, k, c, above, at, ctx) ==
    /\ n.type \in Heads /\ c.type = "VariableDeclaration" => Is(c, "one") /\ ~Is(c, "init")
    /\ n.type = "VariableDeclaration" /\ Is(n, "const") => above.type \in Heads \/ Is(n, "init")
    /\ (n.type = "MethodDefinition" /\ k = "value") \/ (n.type = "Property" /\ k = "value" /\ above.type = "Object" /\ (Is(n, "method") \/ Accessor(n)))
          => ~Is(c, "named")
    /\ n.type \in {"MethodDefinition", "Property"} /\ k = "key" /\ ~Is(n, "computed") /\ Is(c, "regex")
          => above.type = "ObjectPattern" /\ ctx # "parameter"
Legal(n, k, c, last, above, at, ctx, mod) ==
    /\ c.type \in Grammar(n, k, last, above, at, ctx, mod) /\ Agrees(n, k, c, above, at, ctx)
    /\ c.type = "null" \/ WellFormed(c, n, k, last, ctx, mod)

\* The three tables together let a node stand exactly where the grammar does, wherever
\* a walk down from an accepted program gets to: none is too strict for what the others
\* mean to accept, and nothing passes all three that the evaluator has no case for.
TablesAreTheGrammar ==
    \A k \in Keys(node), c \in Shapes \cup {Null}, last \in BOOLEAN :
       Coherent(node, k, c) =>
          (Accepted(node, k, c, last, parent, key, context, module)
             <=> Legal(node, k, c, last, parent, key, context, module))
====================================================================================
