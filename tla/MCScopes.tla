-------------------------------- MODULE MCScopes --------------------------------
(***************************************************************************)
(* An instance of Scopes, a global object that inherits one of its names,  *)
(* and ones of Construction and ModuleExports, the other modules about      *)
(* environments: each behaviour is of one of the three, the variables of    *)
(* the other two staying as they are.                                      *)
(***************************************************************************)
EXTENDS Scopes, TLC

CONSTANTS G, P, W,
          Normals, Natives, Programs, MaxDepth,   \* of Construction
          Main, Left, Right, Modules, Vocabularies, MaxItems   \* of ModuleExports

VARIABLES part,
          program, limits, kinds, target, proto, prototype, envs, stack, arrows, made, last, requests, changes,
          vocabulary, body, linked, environment, evaluated

construction == <<program, limits, kinds, target, proto, prototype, envs, stack, arrows, made, last, requests, changes>>
Constructions == INSTANCE Construction
exports == <<vocabulary, body, linked, environment, evaluated>>
Exports == INSTANCE ModuleExports

MCNumerals == <<"0", "1", "2">>
None == <<>>
Let(n) == n :> "let"
Const(n) == n :> "const"
Block(lex, funs, blocks) == [lex |-> lex, funs |-> funs, blocks |-> blocks]
Body(strict, lex, vs, funs, aliases, blocks) ==
    [strict |-> strict, lex |-> lex, vars |-> vs, funs |-> funs, aliases |-> aliases, blocks |-> blocks]
Function(name, arrow, simple, expressions, params, contents) ==
    contents @@ [name |-> name, arrow |-> arrow, simple |-> simple, expressions |-> expressions, params |-> params]

\* { function x(){} } and { let x; { function x(){} } }
Hoisting == Block(None, <<"inner">>, {})
Shadowing == Block(Let("x"), <<>>, {Block(None, <<"shadowed">>, {})})

MCCode ==
    "inner" :> Function("x", FALSE, TRUE, FALSE, <<>>, Body(FALSE, None, <<>>, <<>>, <<>>, {Block(Const("y"), <<>>, {})})) @@
    "shadowed" :> Function("x", TRUE, FALSE, TRUE, <<"y">>, Body(FALSE, None, <<"y", "arguments">>, <<>>, <<>>, {})) @@
    "first" :> Function("x", FALSE, FALSE, TRUE, <<"x", "y">>, Body(FALSE, Let("arguments"), <<"x">>, <<"inner">>, <<>>, {Hoisting})) @@
    "second" :> Function("x", FALSE, TRUE, FALSE, <<"y", "y">>, Body(FALSE, None, <<"y">>, <<>>, <<"inner">>, {Hoisting, Shadowing})) @@
    "third" :> Function("y", FALSE, TRUE, FALSE, <<"x">>, Body(TRUE, Let("arguments") @@ Const("y"), <<>>, <<>>, <<>>, {}))

MCScripts ==
    {Body(FALSE, None, <<"x">>, <<"third", "first", "second">>, <<>>, {}),
     Body(FALSE, Let("x"), <<"y">>, <<>>, <<>>, {Shadowing}),
     Body(FALSE, None, <<"y">>, <<>>, <<"inner">>, {Hoisting}),
     Body(TRUE, Let("y"), <<>>, <<"second">>, <<>>, {Hoisting})}
MCEvals ==
    {Body(FALSE, Let("y"), <<"x">>, <<>>, <<>>, {}),
     Body(FALSE, None, <<"y">>, <<"inner">>, <<>>, {}),
     Body(FALSE, None, <<>>, <<"third">>, <<"inner">>, {Hoisting}),
     Body(TRUE, None, <<"y">>, <<"first">>, <<>>, {})}
Heap(global, open, subject) ==
    [obj |-> (G :> [kind |-> "ordinary", proto |-> P, ext |-> open, props |-> global, order |-> <<>>] @@
              P :> [kind |-> "ordinary", proto |-> Nobody, ext |-> TRUE,
                    props |-> "y" :> Data(Written, FALSE, TRUE, TRUE), order |-> <<"y">>] @@
              W :> [kind |-> "ordinary", proto |-> Nobody, ext |-> TRUE, props |-> subject, order |-> <<>>]),
     cells |-> <<>>]
MCHeaps == {Heap(None, TRUE, None)}
MCCandidates == {Accessor(TRUE, FALSE, TRUE, FALSE), Data(Written, FALSE, TRUE, TRUE)}

(***************************************************************************)
(* The programs of Construction: classes over nothing, null, ordinary       *)
(* functions, constructors of the library and bound functions.             *)
(***************************************************************************)
Class(c, heritage, explicit) == <<"class", c, heritage, explicit>>
Plain(c) == Class(c, <<"undefined">>, TRUE)
Limits(environments, constructions, closures, changed) ==
    [envs |-> environments, requests |-> constructions, arrows |-> closures, changes |-> changed]
First == <<<<Class("C", <<"null">>, TRUE)>>, Limits(2, 2, 0, 1)>>
MCPrograms ==
    {First,
     <<<<Class("C", <<"F">>, TRUE)>>, Limits(3, 1, 1, 1)>>,
     <<<<Class("C", <<"F">>, FALSE), Class("D", <<"C">>, TRUE)>>, Limits(3, 2, 0, 0)>>,
     <<<<Class("C", <<"N">>, TRUE), Class("D", <<"C">>, FALSE)>>, Limits(3, 1, 0, 1)>>,
     <<<<Plain("C"), Class("D", <<"C">>, TRUE), <<"bind", "B", "D">>>>, Limits(3, 1, 1, 0)>>,
     <<<<Plain("C"), <<"bind", "B", "C">>, Class("D", <<"C">>, FALSE)>>, Limits(3, 1, 0, 1)>>}

(***************************************************************************)
(* The items that the modules of a graph may have: stars and lists over a  *)
(* cycle, a name found on two ways; and defaults, which stars leave out.   *)
(***************************************************************************)
Import(source, names) == [type |-> "import", source |-> source, names |-> names]
ExportFrom(source, names) == [type |-> "export from", source |-> source, names |-> names]
ExportAll(source) == [type |-> "export all", source |-> source]
ExportList(names) == [type |-> "export list", names |-> names]
ExportNamed(kind, name) == [type |-> "export", declaration |-> <<kind, name>>]
ExportDefault(kind, name) == [type |-> "export default", declaration |-> <<kind, name>>]
Statement(kind, name) == [type |-> "statement", declaration |-> <<kind, name>>]
Pair(x, y) == {<<x, y>>}
Stars ==
    Main :> {ExportAll(Left), ExportAll(Right), ExportFrom(Left, Pair("x", "x")),
             ExportFrom(Right, Pair("y", "x"))} @@
    Left :> {ExportAll(Right), ExportNamed("let", "x"),
             ExportFrom(Right, Pair("x", "x")), ExportFrom(Right, Pair("x", "y")),
             ExportList(Pair("u", "x"))} @@
    Right :> {ExportAll(Main), ExportAll(Left), ExportNamed("function", "x"),
              ExportNamed("var", "y"), ExportFrom(Main, Pair("x", "y"))}
Defaults ==
    Main :> {Import(Left, Pair("default", "v")), ExportFrom(Left, Pair("default", "x")),
             Import(Left, Pair("*", "w")), ExportList(Pair("w", "y")),
             ExportList(Pair("v", "y")), ExportAll(Left)} @@
    Left :> ({ExportDefault(kind, name) : kind \in {"function", "class"}, name \in {"", "f"}}
             \cup {ExportDefault("expression", ""), Statement("const", "g"),
                   ExportList(Pair("g", "default")), ExportList(Pair("f", "x")),
                   Import(Right, Pair("x", "f"))}) @@
    Right :> {ExportFrom(Left, Pair("default", "x")), ExportNamed("class", "y"),
              Import(Main, Pair("y", "z")), ExportAll(Main)}
MCVocabularies == [stars |-> Stars, defaults |-> Defaults]

MCInit ==
    /\ part \in {"scopes", "construction", "exports"}
    /\ Init /\ Constructions!Init /\ Exports!Init
    /\ part # "construction" => <<program, limits>> = First
    /\ part # "exports" => vocabulary = "stars"
MCNext ==
    /\ UNCHANGED part
    /\ \/ part = "scopes" /\ Next /\ UNCHANGED <<construction, exports>>
       \/ part = "construction" /\ Constructions!Next /\ UNCHANGED <<vars, exports>>
       \/ part = "exports" /\ Exports!Next /\ UNCHANGED <<vars, construction>>
MCSpec == MCInit /\ [][MCNext]_<<part, vars, construction, exports>>

\* A name means the declaration that is written around it, whatever was called, evaluated
\* or added to the global object since (Scopes); and one imported from another module
\* what that module's declarations, lists and stars say, around cycles too, linked before
\* it is used and initialized once (ModuleExports).
NamesMeanTheirDeclarations ==
    /\ part = "scopes" => NamesMeanWhatIsDeclared
    /\ part = "exports" => Exports!ResolutionIsExact /\ Exports!LinkedNamesAreBound
\* A class inherits from what its heritage was when it was defined, and its instances
\* from what new.target named (Construction).
InstancesInherit == part = "construction" => Constructions!InstancesInherit
\* What a step may do to the environments there are: add what the running code declares,
\* never change what a name is, and give `this` its one value (Scopes, Construction).
EnvironmentsKeepTheirBindings ==
    DeclarationsStayInTheirScope /\ BindingsKeepTheirKind /\ Constructions!ThisIsBoundOnce
================================================================================
