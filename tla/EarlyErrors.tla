------------------------------ MODULE EarlyErrors ------------------------------
(***************************************************************************)
(* Early errors of a program that a parser hook hands in as a tree         *)
(* (parser.js, checkStatementPositionFunctionDeclarations and the checks   *)
(* it calls): one walk carries a context down to every node, a second      *)
(* keeps the set of active labels, a third per function keeps a count of   *)
(* the active lexical names.  The trees are those the structural checks    *)
(* before them accept.                                                     *)
(*                                                                         *)
(* The program grows a node at a time, in source order; accepted says      *)
(* whether what there is so far passes.                                    *)
(***************************************************************************)
EXTENDS Naturals, SequencesExt, FiniteSets, TLC

-----------------------------------------------------------------------------
(***************************************************************************)
(* Programs as trees, and the names they declare                           *)
(* (evaluator/static-semantics.js).                                        *)
(*                                                                         *)
(* A tree is a sequence of nodes in source order, the program first:       *)
(*   [type, name, names, flags, parent, slot].                             *)
(* name is what the node declares, labels or refers to, names a function's *)
(* parameters; slot is the child position of its parent the node is in.    *)
(* Expressions stand for themselves where a statement may be; a Property   *)
(* or MethodDefinition is merged with its function (flags "method",        *)
(* "constructor"), while, do and for-in loops are Loops.                   *)
(***************************************************************************)

Functions == {"FunctionDeclaration", "FunctionExpression", "Arrow"}
Classes == {"ClassDeclaration", "ClassExpression"}
Lexical == {"let", "const"}     \* the kinds of VariableDeclaration but var

Is(node, flag) == flag \in node.flags
Nodes(t) == DOMAIN t
Kids(t, n, slot) == SelectSeq([c \in 1 .. Len(t) |-> c],
                              LAMBDA c : t[c].parent = n /\ t[c].slot = slot)
Concat(seqs) == FlattenSeq(seqs)
Each(f, seq) == [i \in DOMAIN seq |-> f[seq[i]]]

\* The statement positions of a statement, those of functions left out.
StatementSlots(node) ==
    CASE node.type \in {"Block", "Loop", "For", "With", "Label"} -> <<"body">>
      [] node.type = "If" -> <<"consequent", "alternate">>
      [] node.type = "Switch" -> <<"cases">>
      [] node.type = "Try" -> <<"block", "handler", "finalizer">>
      [] OTHER -> <<>>
StatementKids(t, n) ==
    Concat([i \in DOMAIN StatementSlots(t[n]) |-> Kids(t, n, StatementSlots(t[n])[i])])

\* What stands at the end of a chain of labels; 0 if that is missing.
Unlabelled(t, n) ==
    LET peel[m \in Nodes(t)] ==
            IF t[m].type # "Label" THEN m
            ELSE IF Kids(t, m, "body") = <<>> THEN 0 ELSE peel[Kids(t, m, "body")[1]]
    IN peel[n]
IsFunction(t, n) == n # 0 /\ t[n].type = "FunctionDeclaration"
NamesOf(t, list) == [i \in DOMAIN list |-> t[list[i]].name]

(***************************************************************************)
(* Declarations with var, anywhere inside a statement but in functions.    *)
(***************************************************************************)
HeadIs(node, kinds) == node.type = "For" /\ kinds \cap node.flags # {}
VarScoped(t, list) ==
    LET below[n \in Nodes(t)] ==
            IF t[n].type = "Variable" \/ HeadIs(t[n], {"var"})
            THEN (IF Is(t[n], "var") THEN <<n>> ELSE <<>>) \o Concat(Each(below, StatementKids(t, n)))
            ELSE Concat(Each(below, StatementKids(t, n)))
    IN Concat(Each(below, list))
VarDeclaredNames(t, list) == NamesOf(t, VarScoped(t, list))

(***************************************************************************)
(* Lexical declarations of a list of statements: functions count in        *)
(* blocks, and are vars at the top of a script or a function.              *)
(***************************************************************************)
IsLexical(node) ==
    node.type = "ClassDeclaration" \/ (node.type = "Variable" /\ Lexical \cap node.flags # {})
LexicalDeclaration(t, n) ==
    IF IsLexical(t[n]) THEN n
    ELSE IF IsFunction(t, Unlabelled(t, n)) THEN Unlabelled(t, n) ELSE 0
LexicallyScoped(t, list) ==
    SelectSeq([i \in DOMAIN list |-> LexicalDeclaration(t, list[i])], LAMBDA d : d # 0)
LexicallyDeclaredNames(t, list) == NamesOf(t, LexicallyScoped(t, list))
TopLevelLexicallyDeclaredNames(t, list) ==
    NamesOf(t, SelectSeq(list, LAMBDA n : IsLexical(t[n])))
TopLevelVarScoped(t, list) ==
    Concat([i \in DOMAIN list |->
                IF IsFunction(t, Unlabelled(t, list[i])) THEN <<Unlabelled(t, list[i])>>
                ELSE VarScoped(t, <<list[i]>>)])
TopLevelVarDeclaredNames(t, list) == NamesOf(t, TopLevelVarScoped(t, list))

(***************************************************************************)
(* Annex B: the functions in blocks whose name reaches the function or     *)
(* script as a var, given the names that keep one out.                     *)
(***************************************************************************)
ForHeadLexicalNames(node) == IF HeadIs(node, Lexical) THEN {node.name} ELSE {}

\* The blocks right below a list, each with the lexical names around it.
\* A statement list of a try statement is a block of its own.
Lists(t, n) ==
    CASE t[n].type \in {"Block", "Switch"} -> {StatementKids(t, n)}
      [] t[n].type = "Try" -> {Kids(t, n, s) : s \in {"block", "handler", "finalizer"}}
      [] OTHER -> {}
NestedLists(t, list, enclosing) ==
    LET below[n \in Nodes(t), lexical \in SUBSET ({t[m].name : m \in Nodes(t)} \cup enclosing)] ==
            IF Lists(t, n) # {} THEN {[list |-> l, lexical |-> lexical] : l \in Lists(t, n)}
            ELSE UNION {below[c, lexical \cup ForHeadLexicalNames(t[n])] : c \in ToSet(StatementKids(t, n))}
    IN UNION {below[n, enclosing] : n \in ToSet(list)}

Eligible(t, list, enclosing) ==
    {d \in ToSet(LexicallyScoped(t, list)) :
        t[d].type = "FunctionDeclaration" /\ ~Is(t[d], "generator") /\ t[d].name \notin enclosing}
\* A list is never inside itself: as many rounds as the tree has nodes reach all.
AnnexBBlockFunctions(t, list, outer) ==
    LET rounds[i \in 0 .. Len(t)] ==
            IF i = 0 THEN NestedLists(t, list, outer)
            ELSE UNION {NestedLists(t, s.list, s.lexical \cup ToSet(LexicallyDeclaredNames(t, s.list)))
                          : s \in rounds[i - 1]}
    IN UNION {Eligible(t, s.list, s.lexical) : s \in UNION {rounds[i] : i \in 0 .. Len(t)}}

-----------------------------------------------------------------------------

CONSTANTS Roots,        \* the programs' own nodes: their flags
          Dialects,     \* sets of nodes to write programs with
          MaxNodes,     \* of a program in a dialect
          Reserved,         \* words no identifier may be
          StrictReserved    \* words no identifier may be in strict code

VARIABLES tree, dialect, accepted

vars == <<tree, dialect, accepted>>

(***************************************************************************)
(* The context of a node.                                                  *)
(***************************************************************************)
IsArrow(node) == node.type = "Arrow"
IsFunctionNode(node) == node.type \in Functions
NewFunction(node) == IsFunctionNode(node) /\ ~IsArrow(node)

RootContext(root) ==
    [strict |-> Is(root, "module"), yield |-> FALSE, noYieldName |-> FALSE,
     super |-> FALSE, superCall |-> FALSE, newTarget |-> FALSE, derived |-> FALSE,
     inFunction |-> FALSE, break |-> FALSE, continue |-> FALSE]

ChildStrict(node, c) ==
    c.strict \/ node.type \in Classes
    \/ (node.type \in Functions \cup {"Program"} /\ Is(node, "strict"))
ChildSuper(node, c) ==
    CASE IsArrow(node) \/ ~IsFunctionNode(node) -> c.super
      [] node.type = "FunctionDeclaration" -> FALSE
      [] OTHER -> Is(node, "method") \/ Is(node, "constructor")
\* Mutant: a constructor may call super whether its class is derived or not.
ChildSuperCallAlways(node, c) ==
    IF NewFunction(node) THEN Is(node, "constructor") ELSE c.superCall
ChildSuperCall(node, c) ==
    IF NewFunction(node) THEN c.derived /\ Is(node, "constructor") ELSE c.superCall
ChildDerived(node, slot, c) ==
    IF node.type \in Classes /\ slot \in {"body", "key"} THEN Is(node, "derived") ELSE c.derived
ChildYield(node, slot, c) ==
    IF IsFunctionNode(node) /\ slot # "id" THEN slot = "body" /\ Is(node, "generator") ELSE c.yield
ChildNoYieldName(node, slot, c) ==
    CASE ~IsFunctionNode(node) -> c.noYieldName
      [] slot = "id" -> IF node.type = "FunctionExpression" THEN Is(node, "generator") ELSE c.noYieldName
      [] IsArrow(node) -> slot = "params" /\ c.noYieldName
      [] OTHER -> slot \in {"params", "body"} /\ Is(node, "generator")
ChildNewTarget(node, slot, c) ==
    IF NewFunction(node) THEN slot \in {"params", "body"} ELSE c.newTarget
Control(node, slot, c) ==
    CASE IsFunctionNode(node) -> [inFunction |-> slot = "body", break |-> FALSE, continue |-> FALSE]
      [] node.type \in {"Loop", "For"} /\ slot = "body" ->
            [inFunction |-> c.inFunction, break |-> TRUE, continue |-> TRUE]
      [] node.type = "Switch" -> [inFunction |-> c.inFunction, break |-> TRUE, continue |-> c.continue]
      [] OTHER -> c
ChildContextIn(node, slot, c, control) ==
    [strict |-> ChildStrict(node, c), yield |-> ChildYield(node, slot, c),
     noYieldName |-> ChildNoYieldName(node, slot, c), super |-> ChildSuper(node, c),
     superCall |-> ChildSuperCall(node, c), newTarget |-> ChildNewTarget(node, slot, c),
     derived |-> ChildDerived(node, slot, c), inFunction |-> control.inFunction,
     break |-> control.break, continue |-> control.continue]
ChildContext(node, slot, c) == ChildContextIn(node, slot, c, Control(node, slot, c))

(***************************************************************************)
(* What a node may not be in its context.                                  *)
(***************************************************************************)
\* The identifiers of a node: the child position, and how the name is used there.
Identifiers(node) ==
    CASE node.type \in {"Variable", "For", "Try"} /\ node.name # "" ->
            {[name |-> node.name, slot |-> "declaration", use |-> "binding"]}
      [] node.type \in Functions \cup Classes ->
            {[name |-> n, slot |-> "params", use |-> "binding"] : n \in ToSet(node.names)}
            \cup (IF node.name = "" THEN {} ELSE {[name |-> node.name, slot |-> "id", use |-> "own name"]})
      [] node.type \in {"Use", "Assign", "Delete"} ->
            {[name |-> node.name, slot |-> "expression", use |-> node.type]}
      [] OTHER -> {}
\* checkCustomContextualEarlyErrors, checkStrictBindingIdentifier.
IdentifierError(node, id, c, module) ==
    \/ id.name \in Reserved \/ (c.strict /\ id.name \in StrictReserved)
    \/ c.noYieldName /\ id.name = "yield"
    \/ id.name = "let" /\ node.type \in {"Variable", "For"} /\ Lexical \cap node.flags # {}
    \/ module /\ id.name = "await"
    \/ c.strict /\ id.name \in {"eval", "arguments"} /\ id.use \in {"binding", "own name", "Assign"}
    \/ c.strict /\ id.use = "Delete"

Simple(node) == ~Is(node, "defaults")
Duplicates(seq) == Cardinality(ToSet(seq)) < Len(seq)
ParameterError(node, strict) ==
    LET ownStrict == Is(node, "strict")
        allowed == Simple(node) /\ ~strict /\ ~ownStrict /\ ~IsArrow(node) /\ ~Is(node, "method")
    IN /\ IsFunctionNode(node)
       /\ \/ ~Simple(node) /\ ownStrict
          \/ Is(node, "generator") /\ "yield" \in ToSet(node.names)
          \/ Duplicates(node.names) /\ ~allowed

PositionError(t, n, strict) ==
    LET offends(slot) == Kids(t, n, slot) # <<>> /\ IsFunction(t, Unlabelled(t, Kids(t, n, slot)[1])) IN
    CASE t[n].type \in {"Loop", "For", "With"} -> offends("body")
      [] t[n].type = "If" -> offends("consequent") \/ offends("alternate")
      [] t[n].type = "Label" -> offends("body") /\ (strict \/ Is(t[Unlabelled(t, n)], "generator"))
      [] OTHER -> FALSE
ControlError(node, c) ==
    \/ node.type = "Return" /\ ~c.inFunction
    \/ node.type = "Break" /\ node.name = "" /\ ~c.break
    \/ node.type = "Continue" /\ node.name = "" /\ ~c.continue
ExpressionError(node, c) ==
    CASE node.type = "Yield" -> ~c.yield
      [] node.type = "SuperMember" -> ~c.super
      [] node.type = "SuperCall" -> ~c.superCall
      [] node.type = "NewTarget" -> ~c.newTarget
      [] OTHER -> FALSE
NodeError(t, n, c) ==
    \/ PositionError(t, n, c.strict) \/ (c.strict /\ t[n].type = "With")
    \/ ControlError(t[n], c) \/ ExpressionError(t[n], c) \/ ParameterError(t[n], c.strict)
    \/ \E id \in Identifiers(t[n]) :
          IdentifierError(t[n], id, ChildContext(t[n], id.slot, c), Is(t[1], "module"))

Contexts(t) ==
    LET at[n \in Nodes(t)] ==
            IF n = 1 THEN RootContext(t[1]) ELSE ChildContext(t[t[n].parent], t[n].slot, at[t[n].parent])
    IN at
ContextsPass(t) == \E at \in {Contexts(t)} : \A n \in Nodes(t) : ~NodeError(t, n, at[n])

(***************************************************************************)
(* checkCustomLabelEarlyErrors: one mutable map of active labels, changed  *)
(* by the events of a walk in source order.                                *)
(***************************************************************************)
Slots(node) ==
    CASE IsFunctionNode(node) -> <<"params", "body">>
      [] node.type \in Classes -> <<"superClass", "key", "body">>
      [] node.type = "Program" -> <<"body">>
      [] OTHER -> StatementSlots(node)
Event(kind, n) == [kind |-> kind, node |-> n]
AroundSlot(node, n, slot, events) ==
    CASE IsFunctionNode(node) /\ slot = "body" -> <<Event("set", n)>> \o events \o <<Event("restore", n)>>
      [] node.type = "Label" -> <<Event("enter", n)>> \o events \o <<Event("leave", n)>>
      [] OTHER -> events
LabelEvents(t) ==
    LET of[n \in Nodes(t)] ==
            <<Event("visit", n)>> \o
            Concat([i \in DOMAIN Slots(t[n]) |->
                      AroundSlot(t[n], n, Slots(t[n])[i], Concat(Each(of, Kids(t, n, Slots(t[n])[i]))))])
    IN of[1]
TargetsIteration(t, n) == Unlabelled(t, n) # 0 /\ t[Unlabelled(t, n)].type \in {"Loop", "For"}

LabelError(t, n, active) ==
    \/ t[n].type = "Label" /\ t[n].name \in DOMAIN active
    \/ t[n].type \in {"Break", "Continue"} /\ t[n].name # ""
       /\ (t[n].name \notin DOMAIN active \/ (t[n].type = "Continue" /\ ~active[t[n].name]))
Without(f, x) == [y \in DOMAIN f \ {x} |-> f[y]]
LabelStep(t, s, e) ==
    CASE e.kind = "visit" -> [s EXCEPT !.ok = @ /\ ~LabelError(t, e.node, s.active)]
      [] e.kind = "enter" -> [s EXCEPT !.active = (t[e.node].name :> TargetsIteration(t, e.node)) @@ @]
      [] e.kind = "leave" -> [s EXCEPT !.active = Without(@, t[e.node].name)]
      [] e.kind = "set" -> [s EXCEPT !.active = <<>>, !.saved = Append(@, s.active)]
      [] e.kind = "restore" -> [s EXCEPT !.active = Last(s.saved), !.saved = Front(@)]
LabelsPass(t) ==
    \A events \in {LabelEvents(t)} :
       FoldLeft(LAMBDA s, e : LabelStep(t, s, e), [active |-> <<>>, saved |-> <<>>, ok |-> TRUE],
                events).ok

(***************************************************************************)
(* checkCustomVariableScope: the lexical names around a declaration with   *)
(* var are counted while the walk is below them.                           *)
(***************************************************************************)
\* Repeated functions in a block are an error in strict code only.
Repeats(t, list, strict) ==
    LET ds == LexicallyScoped(t, list)
        plain(d) == t[d].type = "FunctionDeclaration" /\ ~Is(t[d], "generator")
    IN \E i \in DOMAIN ds : \E j \in i + 1 .. Len(ds) :
          t[ds[i]].name = t[ds[j]].name /\ (strict \/ ~plain(ds[i]) \/ ~plain(ds[j]))
Enter(names, bad) == [kind |-> "enter", names |-> names, bad |-> bad]
Exit(names) == [kind |-> "exit", names |-> names, bad |-> FALSE]
Check(names) == [kind |-> "check", names |-> names, bad |-> FALSE]
Scoped(names, bad, events) == <<Enter(names, bad)>> \o events \o <<Exit(names)>>
BlockScope(t, list, strict, events) ==
    Scoped(LexicallyDeclaredNames(t, list), Repeats(t, list, strict), events)
\* A catch parameter may not be declared again at the top of its block.
HandlerRepeats(node, t, list) ==
    node.name # "" /\ node.name \in ToSet(LexicallyDeclaredNames(t, list))

ScopeEventsOf(t, list, strict) ==
    LET of[n \in Nodes(t)] ==
            LET node == t[n]
                below(slot) == Concat(Each(of, Kids(t, n, slot)))
                block(slot) == BlockScope(t, Kids(t, n, slot), strict[n], below(slot))
                head == IF Is(node, "var") THEN <<Check(<<node.name>>)>> ELSE <<>>
            IN CASE node.type = "Variable" -> head
                 [] node.type = "Block" -> block("body")
                 [] node.type = "Switch" -> block("cases")
                 [] node.type = "For" -> head \o Scoped(SetToSeq(ForHeadLexicalNames(node)), FALSE, below("body"))
                 [] node.type = "Try" ->
                      block("block")
                      \o <<Enter(<<>>, HandlerRepeats(node, t, Kids(t, n, "handler")))>> \o block("handler")
                      \o block("finalizer")
                 [] OTHER -> Concat([i \in DOMAIN StatementSlots(node) |-> below(StatementSlots(node)[i])])
    IN Concat(Each(of, list))

Count(counts, name) == IF name \in DOMAIN counts THEN counts[name] ELSE 0
Counted(counts, names, d) ==
    FoldLeft(LAMBDA f, x : (x :> IF d = 1 THEN Count(f, x) + 1 ELSE Count(f, x) - 1) @@ f, counts, names)
ScopeStep(s, e) ==
    CASE e.kind = "enter" -> [ok |-> s.ok /\ ~e.bad, counts |-> Counted(s.counts, e.names, 1)]
      [] e.kind = "exit" -> [s EXCEPT !.counts = Counted(@, e.names, -1)]
      [] e.kind = "check" -> [s EXCEPT !.ok = @ /\ \A x \in ToSet(e.names) : Count(s.counts, x) = 0]
\* The scope of a module has no lexical names here: see ModuleDeclarationsPass.
VariableScopePasses(t, list, module, strict) ==
    LET names == IF module THEN <<>> ELSE TopLevelLexicallyDeclaredNames(t, list)
    IN \A events \in {Scoped(names, Duplicates(names), ScopeEventsOf(t, list, strict))} :
          FoldLeft(ScopeStep, [ok |-> TRUE, counts |-> <<>>], events).ok

\* checkProgramDeclarationEarlyErrors.
ProgramDeclarationsPass(t, list) ==
    LET lexical == TopLevelLexicallyDeclaredNames(t, list)
    IN ~Duplicates(lexical) /\ ToSet(lexical) \cap ToSet(TopLevelVarDeclaredNames(t, list)) = {}
\* checkModuleDeclarationEarlyErrors, of statements: functions are lexical.
ModuleDeclarationsPass(t, list) ==
    LET lexical == LexicallyDeclaredNames(t, SelectSeq(list, LAMBDA n : t[n].type # "Label"))
    IN ~Duplicates(lexical) /\ ToSet(lexical) \cap ToSet(VarDeclaredNames(t, list)) = {}
FunctionDeclarationsPass(t, n, strict) ==
    LET body == Kids(t, n, "body") IN
    /\ ToSet(t[n].names) \cap ToSet(TopLevelLexicallyDeclaredNames(t, body)) = {}
    /\ ProgramDeclarationsPass(t, body)
    /\ VariableScopePasses(t, body, FALSE, strict)
DeclarationsPassIn(t, strict) ==
    /\ VariableScopePasses(t, Kids(t, 1, "body"), Is(t[1], "module"), strict)
    /\ \A n \in Nodes(t) : IsFunctionNode(t[n]) => FunctionDeclarationsPass(t, n, strict)
    /\ IF Is(t[1], "module") THEN ModuleDeclarationsPass(t, Kids(t, 1, "body"))
                             ELSE ProgramDeclarationsPass(t, Kids(t, 1, "body"))
DeclarationsPass(t) ==
    \E at \in {Contexts(t)} : DeclarationsPassIn(t, [n \in Nodes(t) |-> at[n].strict])

Accepts(t) == LabelsPass(t) /\ ContextsPass(t) /\ DeclarationsPass(t)

(***************************************************************************)
(* Programs grow in source order: a new node goes below the last one, or   *)
(* after it below one of its ancestors.                                    *)
(***************************************************************************)
Expressions == {"Use", "Assign", "Delete", "Yield", "SuperMember", "SuperCall", "NewTarget",
                "FunctionExpression", "Arrow", "ClassExpression"}
Single(node) == node.type \in {"If", "Loop", "For", "With", "Label"}
\* What the structural checks let stand in a position.
Fits(t, p, slot, x) ==
    CASE t[p].type \in Classes /\ slot = "body" ->
            x.type = "FunctionExpression" /\ (Is(x, "method") \/ Is(x, "constructor"))
      [] t[p].type \in Classes \/ slot = "params" -> x.type \in Expressions /\ ~Is(x, "constructor")
      [] Single(t[p]) ->
            Kids(t, p, slot) = <<>> /\ x.type # "ClassDeclaration" /\ ~Is(x, "constructor")
      [] OTHER -> ~Is(x, "constructor")
Ancestors(t, n) ==
    LET up[m \in Nodes(t)] == IF m = 1 THEN {1} ELSE {m} \cup up[t[m].parent] IN up[n]
Position(seq, x) == CHOOSE i \in DOMAIN seq : seq[i] = x
\* The positions after all that p has so far.
OpenSlots(t, p) ==
    LET slots == Slots(t[p])
        used == {Position(slots, t[c].slot) : c \in {c \in Nodes(t) : t[c].parent = p}}
    IN {slots[i] : i \in {i \in DOMAIN slots : \A u \in used : u <= i}}
Write(x) ==
    /\ accepted /\ Len(tree) < MaxNodes[dialect]
    /\ \E p \in Ancestors(tree, Len(tree)) :
       \E slot \in OpenSlots(tree, p) :
          /\ Fits(tree, p, slot, x)
          /\ \E t \in {Append(tree, x @@ [parent |-> p, slot |-> slot])} :
             \E ok \in {Accepts(t)} : tree' = t /\ accepted' = ok
    /\ UNCHANGED dialect

Init ==
    /\ dialect \in DOMAIN Dialects
    /\ \E r \in Roots : tree = <<[type |-> "Program", name |-> "", names |-> <<>>, flags |-> r,
                                  parent |-> 0, slot |-> ""]>>
    /\ accepted = TRUE
Next == \E x \in Dialects[dialect] : Write(x)

Spec == Init /\ [][Next]_vars

(***************************************************************************)
(* The rules themselves, over the path from a node to the program.         *)
(***************************************************************************)
Path(t, n) ==
    LET up[m \in Nodes(t)] ==
            IF m = 1 THEN <<>> ELSE <<[at |-> t[m].parent, slot |-> t[m].slot]>> \o up[t[m].parent]
    IN up[n]
\* The part of a path before the first step that Stops it, and that step or nothing.
Before(path, Stops(_)) ==
    LET stops == {i \in DOMAIN path : Stops(path[i])}
    IN SubSeq(path, 1, IF stops = {} THEN Len(path) ELSE Min(stops) - 1)
First(path, Stops(_)) ==
    LET rest == SubSeq(path, Len(Before(path, Stops)) + 1, Len(path))
    IN SubSeq(rest, 1, Min({1, Len(rest)}))
Holds(steps, P(_)) == \E i \in DOMAIN steps : P(steps[i])

StrictAt(t, path) ==
    \/ Is(t[1], "module")
    \/ Holds(path, LAMBDA p : t[p.at].type \in Classes \/ Is(t[p.at], "strict"))
StrictNode(t, n) == StrictAt(t, Path(t, n))
InFunction(t, path) == Before(path, LAMBDA p : IsFunctionNode(t[p.at]))
Around(t, path) == First(path, LAMBDA p : IsFunctionNode(t[p.at]))
AroundArrows(t, path) == First(path, LAMBDA p : NewFunction(t[p.at]))

\* break and continue stay in their function and have a target there.
Labels(t, path) == {t[p.at].name : p \in {p \in ToSet(InFunction(t, path)) : t[p.at].type = "Label"}}
LabelOf(t, path, name) ==
    First(path, LAMBDA p : t[p.at].type = "Label" /\ t[p.at].name = name)[1].at
ControlIsLegal(t, n, path) ==
    LET targets(types) == Holds(InFunction(t, path), LAMBDA p : t[p.at].type \in types) IN
    CASE t[n].type = "Label" -> t[n].name \notin Labels(t, path)
      [] t[n].type = "Return" -> Around(t, path) # <<>>
      [] t[n].type = "Break" /\ t[n].name = "" -> targets({"Loop", "For", "Switch"})
      [] t[n].type = "Continue" /\ t[n].name = "" -> targets({"Loop", "For"})
      [] t[n].type = "Break" -> t[n].name \in Labels(t, path)
      [] t[n].type = "Continue" ->
            t[n].name \in Labels(t, path) /\ TargetsIteration(t, LabelOf(t, path, t[n].name))
      [] OTHER -> TRUE
\* yield, super and new.target stand where the function around them gives them a meaning.
ExpressionIsLegal(t, n, path) ==
    CASE t[n].type = "Yield" ->
            Holds(Around(t, path), LAMBDA p : Is(t[p.at], "generator") /\ p.slot = "body")
      [] t[n].type = "SuperMember" ->
            Holds(AroundArrows(t, path), LAMBDA p : {"method", "constructor"} \cap t[p.at].flags # {})
      [] t[n].type = "SuperCall" ->
            Holds(AroundArrows(t, path),
                  LAMBDA p : Is(t[p.at], "constructor") /\ Is(t[t[p.at].parent], "derived"))
      [] t[n].type = "NewTarget" -> AroundArrows(t, path) # <<>>
      [] OTHER -> TRUE
\* Names that are words of the language where they stand.
YieldIsWord(t, path) ==
    Holds(First(path, LAMBDA p : IsFunctionNode(t[p.at]) /\ ~(IsArrow(t[p.at]) /\ p.slot = "params")),
          LAMBDA p : Is(t[p.at], "generator"))
OwnPath(t, n, id, path) ==
    IF id.slot \in {"id", "params"} THEN <<[at |-> n, slot |-> id.slot]>> \o path ELSE path
IdentifierIsLegal(t, n, id, path) ==
    LET strict == StrictAt(t, OwnPath(t, n, id, path))
        own == IF id.slot = "id" /\ t[n].type # "FunctionExpression" THEN path ELSE OwnPath(t, n, id, path)
    IN /\ id.name \notin Reserved /\ (strict => id.name \notin StrictReserved)
       /\ id.name = "yield" => ~YieldIsWord(t, own)
       /\ id.name = "let" => Lexical \cap t[n].flags = {}
       /\ id.name = "await" => ~Is(t[1], "module")
       /\ strict => id.use # "Delete" /\ (id.name \in {"eval", "arguments"} => id.use = "Use")
NodeIsLegal(t, n, path) ==
    /\ ControlIsLegal(t, n, path) /\ ExpressionIsLegal(t, n, path)
    /\ ~ParameterError(t[n], StrictAt(t, path)) /\ ~PositionError(t, n, StrictAt(t, path))
    /\ t[n].type = "With" => ~StrictAt(t, path)
    /\ \A id \in Identifiers(t[n]) : IdentifierIsLegal(t, n, id, path)

\* No var declaration passes a lexical one of its name on the way to its function,
\* and no list, head, parameter list or catch clause declares a name twice.
TopLevel(t, p) == p.at = 1 \/ IsFunctionNode(t[p.at])
Declared(t, p) ==
    LET list == Kids(t, p.at, p.slot) IN
    CASE t[p.at].type = "For" -> ForHeadLexicalNames(t[p.at])
      [] Single(t[p.at]) -> {}
      [] TopLevel(t, p) -> ToSet(TopLevelLexicallyDeclaredNames(t, list))
      [] OTHER -> ToSet(LexicallyDeclaredNames(t, list))
Reach(t, path) == InFunction(t, path) \o Around(t, path)
VarIsLegal(t, n) == \A i \in DOMAIN Reach(t, Path(t, n)) : t[n].name \notin Declared(t, Reach(t, Path(t, n))[i])
ListIsLegal(t, p) ==
    LET list == Kids(t, p.at, p.slot)
        functions == {t[Unlabelled(t, n)].name : n \in {n \in ToSet(list) : IsFunction(t, Unlabelled(t, n))}}
        lexical == TopLevelLexicallyDeclaredNames(t, list)
    IN CASE Single(t[p.at]) -> TRUE
         [] TopLevel(t, p) /\ ~(p.at = 1 /\ Is(t[1], "module")) ->
              ~Duplicates(lexical) /\ ToSet(lexical) \cap (functions \cup ToSet(t[p.at].names)) = {}
         [] OTHER -> ~Repeats(t, list, StrictNode(t, p.at) \/ p.at = 1)
NamesAreLegal(t) ==
    /\ \A n \in Nodes(t) : (t[n].type = "Variable" \/ t[n].type = "For") /\ Is(t[n], "var") => VarIsLegal(t, n)
    /\ \A p \in {Path(t, n)[1] : n \in Nodes(t) \ {1}} : ListIsLegal(t, p)
    /\ \A n \in Nodes(t) : t[n].type = "Try" /\ t[n].name # "" =>
          t[n].name \notin ToSet(LexicallyDeclaredNames(t, Kids(t, n, "handler")))
\* In a module a function is a lexical declaration, so a var of its name is refused.
ModuleNamesAreLegal(t) ==
    Is(t[1], "module") =>
        ToSet(LexicallyDeclaredNames(t, Kids(t, 1, "body")))
            \cap {t[n].name : n \in {n \in Nodes(t) : t[n].type \in {"Variable", "For"} /\ Is(t[n], "var")
                                                      /\ Around(t, Path(t, n)) = <<>>}} = {}

\* The walks accept exactly the programs that keep the rules: what a walk carries
\* along is what the path to each node says, and nothing a scope, a function or a
\* label left behind is still there (checkStatementPositionFunctionDeclarations).
EarlyErrorsAreExact ==
    accepted <=> /\ \A n \in Nodes(tree) : NodeIsLegal(tree, n, Path(tree, n))
                 /\ NamesAreLegal(tree) /\ ModuleNamesAreLegal(tree)

(***************************************************************************)
(* Annex B in terms of early errors.                                       *)
(***************************************************************************)
\* d and the functions of its name in its list.
Twins(t, d) ==
    LET list == First(Path(t, d), LAMBDA x : t[x.at].type # "Label")[1]
    IN {n \in {Unlabelled(t, m) : m \in ToSet(Kids(t, list.at, list.slot))} :
          IsFunction(t, n) /\ t[n].name = t[d].name}
Replaced(t, twins) ==
    [n \in Nodes(t) |-> IF n \in twins THEN [t[n] EXCEPT !.type = "Variable", !.flags = {"var"}] ELSE t[n]]
ReplacementIsLegal(t, d) == \A n \in Twins(t, d) : VarIsLegal(Replaced(t, Twins(t, d)), n)
BlockFunctions(t, scope) ==
    {d \in Nodes(t) :
        /\ IsFunction(t, d) /\ ~Is(t[d], "generator")
        /\ LET p == Path(t, d) IN
           /\ \E i \in DOMAIN p : p[i] = scope /\ \A j \in 1 .. i - 1 : ~IsFunctionNode(t[p[j].at])
           /\ First(p, LAMBDA x : t[x.at].type # "Label")[1] # scope}
Excluded(t, n) == ToSet(t[n].names) \cup ToSet(TopLevelLexicallyDeclaredNames(t, Kids(t, n, "body")))
\* A sloppy block function reaches its function or script as a var exactly when a var
\* statement in its place would be no early error, and no parameter has its name
\* (annexBBlockFunctionDeclarations and what functionDeclarationInstantiation excludes).
AnnexBIsReplacement ==
    accepted =>
        \A n \in {m \in Nodes(tree) : (m = 1 \/ IsFunctionNode(tree[m])) /\ ~StrictAt(tree, <<[at |-> m, slot |-> "body"]>> \o Path(tree, m))} :
           AnnexBBlockFunctions(tree, Kids(tree, n, "body"), Excluded(tree, n))
             = {d \in BlockFunctions(tree, [at |-> n, slot |-> "body"]) :
                  tree[d].name \notin ToSet(tree[n].names) /\ ReplacementIsLegal(tree, d)}
================================================================================
