--------------------------------- MODULE Scopes ---------------------------------
(***************************************************************************)
(* Environments and declarations: scripts, direct and indirect evals,      *)
(* functions and blocks that declare names (evaluator/declarations.js,     *)
(* eval.js) in records chained by their outer record                       *)
(* (runtime/environment.js), and references into them                      *)
(* (runtime/reference.js).                                                 *)
(*                                                                         *)
(* Code is what it declares.  A body is                                    *)
(*   [strict, lex, vars, funs, aliases, blocks]:                           *)
(* lex maps a name to "let" or "const", vars is the sequence of its var    *)
(* names, funs that of its function declarations, blocks the set of the    *)
(* blocks in it, and aliases the functions of those blocks that Annex B    *)
(* lets reach the variable environment (static-semantics.js).  The code of *)
(* a function is a body with its name and its parameter list.  What a body *)
(* does between its declarations is up to guest code.                      *)
(***************************************************************************)
EXTENDS ObjectModel

CONSTANTS Global,       \* the global object
          Subject,      \* the object of with statements
          Code,         \* the functions: an identifier to its code
          Expressions,  \* those that are named function expressions
          Scripts, Evals,   \* the bodies of scripts and of evals
          Names,        \* the names guest code assigns, deletes, defines
          Heaps,        \* the heaps a realm may start with
          Candidates,   \* the descriptors guest code defines
          MaxFrames, MaxEnvs, MaxFunctions,
          MaxCode,      \* bodies that run in a behaviour
          MaxGuest      \* other operations of guest code

ASSUME StrictAssumption ==
    \A b \in Scripts \cup {Code[c] : c \in DOMAIN Code} : b.strict => b.aliases = <<>>
ASSUME ObjectsAssumption == {Global, Subject} \subseteq Ids

VARIABLES world,   \* records, heap, declared vars, functions, and how the last step ended
          frames,  \* the running code, innermost last
          spent    \* how many bodies have run, and other operations of guest code

vars == <<world, frames, spent>>

Written == 0        \* what guest code assigns
Passed == -4        \* what it passes as an argument
Arguments == -5     \* an arguments object

Root == 1           \* the global environment
Ok(w) == w.out = "normal"
Fail(w, e) == [w EXCEPT !.out = e]
\* The steps of a loop, up to the one that fails.
Each(Step(_, _), w, seq) == FoldLeft(LAMBDA a, x : IF Ok(a) THEN Step(a, x) ELSE a, w, seq)

(***************************************************************************)
(* Declarative records.                                                    *)
(***************************************************************************)
Mutable(deletable) ==
    [value |-> Undefined, initialized |-> FALSE, mutable |-> TRUE, deletable |-> deletable,
     strict |-> FALSE]
Immutable(strict) == [Mutable(FALSE) EXCEPT !.mutable = FALSE, !.strict = strict]
Bound(w, e) == DOMAIN w.envs[e].names
Fresh(w) == Len(w.envs) + 1
Open(w, kind, outer) ==
    [w EXCEPT !.envs = Append(@, [kind |-> kind, outer |-> outer, names |-> <<>>])]

\* Creating a binding twice, or initializing none, is an error of the engine.
Create(w, e, n, b) ==
    IF n \in Bound(w, e) THEN Fail(w, "HostError")
    ELSE [w EXCEPT !.envs[e].names = [m \in DOMAIN @ \cup {n} |-> IF m = n THEN b ELSE @[m]]]
Initialize(w, e, n, v) ==
    IF ~Ok(w) THEN w
    ELSE IF n \notin Bound(w, e) THEN Fail(w, "HostError")
    ELSE [w EXCEPT !.envs[e].names[n].value = v, !.envs[e].names[n].initialized = TRUE]
Declare(w, e, n, v, deletable) == Initialize(Create(w, e, n, Mutable(deletable)), e, n, v)
CreateOnce(w, e, n) == IF n \in Bound(w, e) THEN w ELSE Create(w, e, n, Mutable(FALSE))
DeclareOnce(w, e, n, v, deletable) == IF n \in Bound(w, e) THEN w ELSE Declare(w, e, n, v, deletable)

SetDeclarative(w, e, n, v, strict) ==
    IF n \notin Bound(w, e) \/ ~w.envs[e].names[n].initialized THEN Fail(w, "ReferenceError")
    ELSE IF ~w.envs[e].names[n].mutable
    THEN IF strict \/ w.envs[e].names[n].strict THEN Fail(w, "TypeError") ELSE w
    ELSE [w EXCEPT !.envs[e].names[n].value = v]

(***************************************************************************)
(* Object records and the global record over one.                          *)
(***************************************************************************)
Own(w, n) == GetOwn(w.heap, Global, n)
\* defineOwnPropertyOrThrow on the global object.
Defined(w, r) == IF Succeeded(r) THEN [w EXCEPT !.heap = r.heap] ELSE Fail(w, "TypeError")
DefineGlobal(w, n, d) == Defined(w, OrdinaryDefine(w.heap, Global, n, d))

\* [[Set]]: a setter is guest code; strict code fails when the object refuses.
SetResult(w, done, d, strict) ==
    IF done /\ Succeeded(d) THEN [w EXCEPT !.heap = d.heap]
    ELSE IF strict THEN Fail(w, "TypeError") ELSE w
Assigned(w, o, n, r, strict) ==
    IF r.out = "call" THEN w
    ELSE SetResult(w, r.out = "define", OrdinaryDefine(w.heap, o, n, r.define), strict)
SetObject(w, o, n, v, strict) == Assigned(w, o, n, Assign(w.heap, o, n, v, o), strict)

HasBinding(w, e, n) ==
    CASE w.envs[e].kind = "object" -> HasProperty(w.heap, Subject, n)
      [] w.envs[e].kind = "global" -> n \in Bound(w, e) \/ HasProperty(w.heap, Global, n)
      [] OTHER -> n \in Bound(w, e)
SetMutable(w, e, n, v, strict) ==
    CASE w.envs[e].kind = "object" -> SetObject(w, Subject, n, v, strict)
      [] w.envs[e].kind = "global" /\ n \notin Bound(w, e) -> SetObject(w, Global, n, v, strict)
      [] OTHER -> SetDeclarative(w, e, n, v, strict)

DeleteObject(w, o, n) == [w EXCEPT !.heap = OrdinaryDelete(w.heap, o, n).heap]
DeleteBinding(w, e, n) ==
    CASE w.envs[e].kind = "object" -> DeleteObject(w, Subject, n)
      [] w.envs[e].kind = "global" ->
            IF n \in Bound(w, e) THEN w
            ELSE [DeleteObject(w, Global, n) EXCEPT
                    !.vars = IF Own(w, n).configurable THEN @ \ {n} ELSE @]
      [] OTHER -> IF n \in Bound(w, e) /\ w.envs[e].names[n].deletable
                  THEN [w EXCEPT !.envs[e].names = [m \in DOMAIN @ \ {n} |-> @[m]]]
                  ELSE w

Recorded(w, n) == IF Ok(w) THEN [w EXCEPT !.vars = @ \cup {n}] ELSE w
CreateGlobalVar(w, n, deletable) ==
    Recorded(IF Present(Own(w, n)) THEN w
             ELSE DefineGlobal(w, n, Data(Undefined, TRUE, TRUE, deletable)), n)

\* An own property that stays as it is but for its value.
Updatable(d) ==
    Present(d) /\ ~d.configurable /\ IsData(d) /\ d.writable /\ d.enumerable
CreateGlobalFunction(w, n, f, deletable) ==
    IF n \in Bound(w, Root) THEN SetDeclarative(w, Root, n, f, FALSE)
    ELSE Recorded(DefineGlobal(w, n, IF Updatable(Own(w, n)) THEN [value |-> f]
                                     ELSE Data(f, TRUE, TRUE, deletable)), n)

CanDeclareGlobalVar(w, n) == Present(Own(w, n)) \/ w.heap.obj[Global].ext
CanDeclareGlobalFunction(w, n) ==
    IF Present(Own(w, n)) THEN Own(w, n).configurable \/ Updatable(Own(w, n))
                          ELSE w.heap.obj[Global].ext
Restricted(w, n) == Present(Own(w, n)) /\ ~Own(w, n).configurable

(***************************************************************************)
(* Chains of records and references.  A reference that no record binds has *)
(* the base 0.                                                             *)
(***************************************************************************)
Path(w, e) ==
    LET up[i \in 0 .. Len(w.envs)] ==
            IF i = 0 THEN e ELSE IF up[i - 1] = 0 THEN 0 ELSE w.envs[up[i - 1]].outer
    IN SelectSeq([i \in 1 .. Len(w.envs) |-> up[i - 1]], LAMBDA x : x # 0)
HeadOr0(seq) == IF seq = <<>> THEN 0 ELSE Head(seq)
Base(w, e, n) == HeadOr0(SelectSeq(Path(w, e), LAMBDA x : HasBinding(w, x, n)))
Put(w, base, n, v, strict) ==
    IF base # 0 THEN SetMutable(w, base, n, v, strict)
    ELSE IF strict THEN Fail(w, "ReferenceError") ELSE SetObject(w, Global, n, v, FALSE)
\* What the innermost binding of the name holds; Dead when reading it throws.
ValueAt(w, e, n) ==
    IF e = 0 THEN Dead
    ELSE IF n \in Bound(w, e)
    THEN IF w.envs[e].names[n].initialized THEN w.envs[e].names[n].value ELSE Dead
    ELSE LET o == IF w.envs[e].kind = "object" THEN Subject ELSE Global
         IN Lookup(w.heap, o, n).value
ValueOf(w, e, n) == ValueAt(w, Base(w, e, n), n)

(***************************************************************************)
(* Declarations of a body.                                                 *)
(***************************************************************************)
NameOf(c) == Code[c].name
FunctionNames(b) == {NameOf(b.funs[i]) : i \in DOMAIN b.funs}
VarDeclared(b) == [i \in DOMAIN b.funs |-> NameOf(b.funs[i])] \o b.vars
\* The last declaration of each function name, in source order.
LastFunctions(b) ==
    [i \in {i \in DOMAIN b.funs : \A j \in i + 1 .. Len(b.funs) : NameOf(b.funs[j]) # NameOf(b.funs[i])}
        |-> b.funs[i]]
InOrder(f) == [i \in 1 .. Cardinality(DOMAIN f) |->
                  f[CHOOSE k \in DOMAIN f : Cardinality({j \in DOMAIN f : j <= k}) = i]]

\* createFunctionObject: every evaluation makes a new object.
\* Its number is the least that is free.
Free == [code |-> "", scope |-> 0]
Slot(w) == Min({f \in 1 .. Len(w.functions) + 1 : f \in DOMAIN w.functions => w.functions[f] = Free})
Instantiate(w, c, scope) ==
    [w EXCEPT !.functions = [f \in 1 .. Max({Slot(w), Len(@)}) |->
                                IF f = Slot(w) THEN [code |-> c, scope |-> scope] ELSE @[f]]]
CreateLexical(w, e, b) ==
    Each(LAMBDA a, n : Create(a, e, n, IF b.lex[n] = "const" THEN Immutable(TRUE) ELSE Mutable(FALSE)),
         w, SetToSeq(DOMAIN b.lex))

\* blockDeclarationInstantiation; duplicate functions share one binding.
BlockInstantiation(w, b, e) ==
    Each(LAMBDA a, c : Initialize(CreateOnce(Instantiate(a, c, e), e, NameOf(c)), e, NameOf(c), Slot(a)),
         CreateLexical(w, e, b), b.funs)

(***************************************************************************)
(* globalDeclarationInstantiation: every check comes before the first      *)
(* change.                                                                 *)
(***************************************************************************)
Refuse(w, conflict) == IF conflict THEN Fail(w, "SyntaxError") ELSE w
Collides(w, b) ==
    \/ \E n \in DOMAIN b.lex : n \in w.vars \cup Bound(w, Root) \/ Restricted(w, n)
    \/ \E n \in ToSet(VarDeclared(b)) : n \in Bound(w, Root)

\* A name that cannot be declared is declared, which fails.
CheckFunctions(w, b) ==
    Each(LAMBDA a, c : IF CanDeclareGlobalFunction(a, NameOf(c)) THEN a
                       ELSE CreateGlobalFunction(a, NameOf(c), Undefined, FALSE),
         w, Reverse(b.funs))
CheckVars(w, b) ==
    Each(LAMBDA a, n : IF n \in FunctionNames(b) \/ CanDeclareGlobalVar(a, n) THEN a
                       ELSE CreateGlobalVar(a, n, FALSE),
         w, b.vars)
Checked(w, b) == CheckVars(CheckFunctions(Refuse(w, Collides(w, b)), b), b)

GlobalFunctions(w, b) ==
    Each(LAMBDA a, c : CreateGlobalFunction(Instantiate(a, c, Root), NameOf(c), Slot(a), FALSE),
         w, InOrder(LastFunctions(b)))
GlobalVars(w, b) ==
    Each(LAMBDA a, n : IF n \in FunctionNames(b) THEN a ELSE CreateGlobalVar(a, n, FALSE), w, b.vars)
DeclarableAliases(w, b) == SelectSeq(b.aliases, LAMBDA c : CanDeclareGlobalVar(w, NameOf(c)))
GlobalAliases(w, b) ==
    Each(LAMBDA a, c : CreateGlobalVar(a, NameOf(c), FALSE), w, DeclarableAliases(w, b))
GlobalInstantiation(w, b) ==
    GlobalAliases(GlobalVars(GlobalFunctions(CreateLexical(Checked(w, b), Root, b), b), b), b)

(***************************************************************************)
(* evalDeclarationInstantiation.  Its own record e is new; the variable    *)
(* environment v is the caller's, or e when the eval is strict.            *)
(***************************************************************************)
Between(w, e, v) == LET path == Path(w, e) IN
    {path[i] : i \in {i \in DOMAIN path : \A j \in 1 .. i : path[j] # v}}
\* Mutant: the walk also stops at a with record.
ShadowedToWith(w, e, v, n) ==
    \E x \in Between(w, e, v) :
        /\ w.envs[x].kind = "declarative" /\ n \in Bound(w, x)
        /\ \A y \in Between(w, e, x) : w.envs[y].kind # "object"
Shadowed(w, e, v, n) ==
    \E x \in Between(w, e, v) : w.envs[x].kind = "declarative" /\ n \in Bound(w, x)

EnsureVar(w, v, n) ==
    IF v = Root THEN CreateGlobalVar(w, n, TRUE) ELSE DeclareOnce(w, v, n, Undefined, TRUE)
EvalFunction(w, v, n, f) ==
    IF v = Root THEN CreateGlobalFunction(w, n, f, TRUE)
    ELSE IF n \in Bound(w, v) THEN SetDeclarative(w, v, n, f, FALSE)
    ELSE Declare(w, v, n, f, TRUE)

EvalConflict(w, b, e, v) ==
    \E n \in ToSet(VarDeclared(b)) : (v = Root /\ n \in Bound(w, Root)) \/ Shadowed(w, e, v, n)
EvalFunctions(w, b, e, v) ==
    Each(LAMBDA a, c : EvalFunction(Instantiate(a, c, e), v, NameOf(c), Slot(a)), w, b.funs)
EvalVars(w, b, v) == Each(LAMBDA a, n : EnsureVar(a, v, n), w, VarDeclared(b))
EvalAliases(w, b, e, v, strict) ==
    SelectSeq(b.aliases, LAMBDA c : ~strict /\ ~Shadowed(w, e, v, NameOf(c)))
EvalAliased(w, b, e, v, strict) ==
    Each(LAMBDA a, c : EnsureVar(a, v, NameOf(c)), w, EvalAliases(w, b, e, v, strict))
EvalInstantiation(w, b, e, v, strict) ==
    LET checked == Refuse(w, ~strict /\ EvalConflict(w, b, e, v)) IN
    CreateLexical(EvalAliased(EvalVars(EvalFunctions(checked, b, e, v), b, v), b, e, v, strict), e, b)

(***************************************************************************)
(* functionDeclarationInstantiation, up to the initializers of the         *)
(* parameters and from there on.  A list that is not simple has its own    *)
(* record, and its initializers are guest code.                            *)
(***************************************************************************)
NeedsArguments(c) ==
    /\ ~c.arrow /\ "arguments" \notin ToSet(c.params)
    /\ c.expressions \/ "arguments" \notin FunctionNames(c) \cup DOMAIN c.lex

OpenParameters(w, c, scope) ==
    IF c.simple THEN Open(w, "declarative", scope)
    ELSE Open(Open(w, "declarative", scope), "declarative", Fresh(w))
DeclareParameters(w, c, e) ==
    Each(LAMBDA a, n : CreateOnce(a, e, n),
         IF NeedsArguments(c) THEN Declare(w, e, "arguments", Arguments, FALSE) ELSE w, c.params)
ParameterInstantiation(w, c, scope) ==
    DeclareParameters(OpenParameters(w, c, scope), c, Fresh(w) + IF c.simple THEN 0 ELSE 1)

\* The body's variables are in the record v over the parameters', e, and its lexical
\* names in the innermost record x.
BodyRecord(w, c, e) == IF c.simple THEN e ELSE Fresh(w)
BodyVars(w, c, e, v) ==
    Each(LAMBDA a, n : DeclareOnce(a, v, n, IF n \in Bound(a, e) THEN ValueAt(a, e, n) ELSE Undefined, FALSE),
         w, VarDeclared(c))
BodyFunctions(w, c, v, x) ==
    Each(LAMBDA a, f : SetDeclarative(Instantiate(a, f, x), v, NameOf(f), Slot(a), FALSE), w, c.funs)
BodyAliases(w, c, v) ==
    Each(LAMBDA a, f : DeclareOnce(a, v, NameOf(f), Undefined, FALSE), w, c.aliases)
OpenLexical(w, c, v) == IF c.strict THEN w ELSE Open(w, "declarative", v)
InnerInstantiation(w, c, v, x) == CreateLexical(BodyAliases(BodyFunctions(w, c, v, x), c, v), x, c)
BodyInstantiation(w, c, e) ==
    LET v == BodyRecord(w, c, e)
        opened == IF c.simple THEN w ELSE Open(w, "declarative", e)
        x == IF c.strict THEN v ELSE Fresh(opened)
    IN InnerInstantiation(OpenLexical(BodyVars(opened, c, e, v), c, v), c, v, x)

(***************************************************************************)
(* Running code: a script, an eval, a function or the initializers of its  *)
(* parameters, and inside them blocks, catch clauses and with statements,  *)
(* which share the variable environment.  todo holds the lexical names     *)
(* whose declaration is still to be evaluated, blockFuns the functions of  *)
(* the block, target the reference of an assignment under evaluation.      *)
(***************************************************************************)
NoTarget == [base |-> 0, name |-> ""]
Frame(kind, body, env, varEnv, strict) ==
    [kind |-> kind, body |-> body, env |-> env, varEnv |-> varEnv, strict |-> strict,
     aliases |-> {}, todo |-> DOMAIN body.lex, block |-> body, target |-> NoTarget]
Top == Last(frames)
Running == frames # <<>>
Room == Len(frames) < MaxFrames /\ Len(world.envs) + 3 <= MaxEnvs
\* The order of the global object's keys is not kept: nothing here reads it.
Become(w) == world' = [w EXCEPT !.heap.obj[Global].order = <<>>, !.heap.obj[Subject].order = <<>>]
Fine == [world EXCEPT !.out = "normal"]
Entered(w) == IF Ok(w) THEN [w EXCEPT !.out = "entered"] ELSE w

\* Records and functions that nothing reaches any more are dropped: those above
\* the records of the running code, as far as no value holds a function over one.
DataNames(h, o) == {n \in DOMAIN Props(h, o) : IsData(Props(h, o)[n])}
Values(w, k) ==
    UNION {{Props(w.heap, o)[n].value : n \in DataNames(w.heap, o)} : o \in Ids}
    \cup UNION {{w.envs[e].names[n].value : n \in Bound(w, e)} : e \in 1 .. k}
Alive(w, k) == Values(w, k) \cap DOMAIN w.functions
Kept(w, k, alive) ==
    [w EXCEPT !.envs = SubSeq(@, 1, k),
              !.functions = [f \in 1 .. Max({0} \cup alive) |-> IF f \in alive THEN @[f] ELSE Free]]
KeptTo(w, k) == Kept(w, k, Alive(w, k))
Collected(w, fs) ==
    LET floor == Max({1} \cup {fs[i].env : i \in DOMAIN fs} \cup {fs[i].varEnv : i \in DOMAIN fs}) IN
    KeptTo(w, Min({k \in floor .. Len(w.envs) : \A f \in Alive(w, k) : w.functions[f].scope <= k}))

RunsCode == spent.code < MaxCode /\ spent' = [spent EXCEPT !.code = @ + 1]
Operates == spent.guest < MaxGuest /\ spent' = [spent EXCEPT !.guest = @ + 1]

\* evaluateScript.
RunScript(b) ==
    /\ ~Running /\ RunsCode
    /\ \E w \in {GlobalInstantiation(Fine, b)} :
          /\ Become(IF Ok(w) THEN w ELSE Collected(w, <<>>))
          /\ frames' = IF ~Ok(w) THEN <<>>
                       ELSE <<[Frame("script", b, Root, Root, b.strict)
                                 EXCEPT !.aliases = ToSet(DeclarableAliases(w, b))]>>

\* performEval; an indirect eval has the global environment as its caller's.
VariableEnvironment(strict, e, v) == IF strict THEN e ELSE v
EvalIn(b, e, v, strict, w) ==
    IF Ok(w)
    THEN /\ Become(w)
         /\ frames' = Append(frames, [Frame("eval", b, e, v, strict)
                                        EXCEPT !.aliases = ToSet(EvalAliases(w, b, e, v, strict))])
    ELSE Become(Collected(w, frames)) /\ UNCHANGED frames
Eval(b, env, varEnv, inherited) ==
    /\ Running /\ Room /\ RunsCode
    /\ \E strict \in {inherited \/ b.strict}, e \in {Fresh(world)} :
       \E v \in {VariableEnvironment(strict, e, varEnv)} :
       \E w \in {EvalInstantiation(Open(Fine, "declarative", env), b, e, v, strict)} :
          EvalIn(b, e, v, strict, w)
DirectEval(b) == Running /\ Eval(b, Top.env, Top.varEnv, Top.strict)
IndirectEval(b) == Eval(b, Root, Root, FALSE)

\* EngineFunction.callFunction of a function that some name is bound to.  A simple
\* parameter list is initialized at once.
PassAll(w, c, e) == Each(LAMBDA a, p : Initialize(a, e, p, Passed), w, c.params)
FunctionFrame(c, env, v) ==
    [Frame("function", c, env, v, c.strict) EXCEPT !.aliases = ToSet(c.aliases)]
CallSimple(c, w, e) ==
    \E x \in {BodyInstantiation(PassAll(w, c, e), c, e)} :
       /\ Become(Entered(x))
       /\ frames' = Append(frames, FunctionFrame(c, Len(x.envs), e))
CallWithInitializers(c, w, e) ==
    /\ Become(w)
    /\ frames' = Append(frames, [Frame("parameters", c, e, e - 1, c.strict) EXCEPT !.todo = ToSet(c.params)])
Call(n) ==
    /\ Running /\ Room /\ RunsCode
    /\ \E f \in {ValueOf(world, Top.env, n)} \cap DOMAIN world.functions :
       \E c \in {Code[world.functions[f].code]} :
       \E w \in {ParameterInstantiation(Fine, c, world.functions[f].scope)} :
          /\ Len(world.functions) + Len(c.funs) <= MaxFunctions
          /\ IF c.simple THEN CallSimple(c, w, Len(w.envs)) ELSE CallWithInitializers(c, w, Len(w.envs))

EnterBody ==
    /\ Running /\ Top.kind = "parameters" /\ Top.todo = {}
    /\ Len(world.envs) + 2 <= MaxEnvs /\ UNCHANGED spent
    /\ \E w \in {BodyInstantiation(Fine, Top.body, Top.env)} :
          /\ Become(Entered(w))
          /\ frames' = Append(Front(frames), FunctionFrame(Top.body, Len(w.envs), BodyRecord(Fine, Top.body, Top.env)))

\* Blocks, catch clauses and with statements run in a record of their own.
Nested(kind, block, w) ==
    /\ Become(w)
    /\ frames' = Append(frames, [Top EXCEPT !.kind = kind, !.block = block, !.env = Len(w.envs),
                                           !.todo = DOMAIN block.lex, !.target = NoTarget])
EnterBlock(b) ==
    /\ Running /\ Room /\ Top.kind # "parameters" /\ UNCHANGED spent /\ b \in Top.block.blocks
    /\ Top.kind = "catch" => Bound(world, Top.env) \cap DOMAIN b.lex = {}
    /\ \E w \in {BlockInstantiation(Open(Fine, "declarative", Top.env), b, Len(world.envs) + 1)} :
          Nested("block", b, w)
EnterCatch(n) ==
    /\ Running /\ Room /\ Top.kind # "parameters" /\ Operates
    /\ Nested("catch", [Top.block EXCEPT !.lex = <<>>, !.funs = <<>>],
              Declare(Open(Fine, "catch", Top.env), Len(world.envs) + 1, n, Written, FALSE))
EnterWith ==
    /\ Running /\ Room /\ ~Top.strict /\ Top.kind # "parameters" /\ Operates
    /\ Nested("with", [Top.block EXCEPT !.lex = <<>>, !.funs = <<>>], Open(Fine, "object", Top.env))

\* The innermost code ends, normally or not.
Leave ==
    /\ Running
    /\ frames' = Front(frames)
    /\ Become(Collected(Fine, Front(frames))) /\ UNCHANGED spent

(***************************************************************************)
(* Steps of running code.                                                  *)
(***************************************************************************)
Stay == UNCHANGED frames
WithTop(f) == frames' = Append(Front(frames), f)

\* evaluateVariableDeclaration of let and const; a parameter's initializer.
InitializeLexical(n) ==
    /\ Running /\ n \in Top.todo /\ UNCHANGED spent
    /\ Become(Initialize(Fine, Base(world, Top.env, n), n, Written))
    /\ WithTop([Top EXCEPT !.todo = @ \ {n}])

\* An assignment resolves its target first; the value comes later.
Resolve(n) ==
    /\ Running /\ Top.target = NoTarget /\ Operates
    /\ WithTop([Top EXCEPT !.target = [base |-> Base(world, Top.env, n), name |-> n]])
    /\ Become(Fine)
PutValue ==
    /\ Running /\ Top.target # NoTarget /\ UNCHANGED spent
    /\ Become(Put(Fine, Top.target.base, Top.target.name, Written, Top.strict))
    /\ WithTop([Top EXCEPT !.target = NoTarget])
DeleteName(n) ==
    /\ Running /\ ~Top.strict /\ Operates
    /\ \E base \in {Base(world, Top.env, n)} \ {0} : Become(DeleteBinding(Fine, base, n))
    /\ Stay

\* evaluateFunctionExpression of a named function, which the target receives.
NameFunction(c) ==
    /\ Running /\ Top.target # NoTarget /\ Room /\ UNCHANGED spent
    /\ \E e \in {Fresh(world)}, f \in {Slot(world)} :
       \E w \in {Create(Open(Fine, "declarative", Top.env), e, NameOf(c), Immutable(FALSE))} :
       \E x \in {Initialize(Instantiate(w, c, e), e, NameOf(c), f)} :
       \E y \in {Put(x, Top.target.base, Top.target.name, f, Top.strict)} :
          Become(Collected(y, frames))
    /\ WithTop([Top EXCEPT !.target = NoTarget])

\* evaluateFunctionDeclaration of a function of the running block: Annex B.
Copies(f, c) == f.env # f.varEnv /\ c \in f.aliases
EvaluateFunction(c) ==
    /\ Running /\ Top.kind = "block" /\ c \in ToSet(Top.block.funs) /\ UNCHANGED spent
    /\ WithTop([Top EXCEPT !.block.funs = SelectSeq(@, LAMBDA d : d # c)])
    /\ Become(IF Copies(Top, c)
              THEN SetMutable(Fine, Top.varEnv, NameOf(c), ValueOf(world, Top.env, NameOf(c)), FALSE)
              ELSE Fine)

\* Guest code changes the global object, or the object of a with statement.
Redefine(o, n, d) ==
    /\ Running /\ Operates
    /\ \E r \in {OrdinaryDefine(world.heap, o, n, d)} :
          Succeeded(r) /\ Become([Fine EXCEPT !.heap = r.heap])
    /\ Stay
Erase(o, n) ==
    /\ Running /\ Operates
    /\ \E r \in {OrdinaryDelete(world.heap, o, n)} :
          Succeeded(r) /\ Become([Fine EXCEPT !.heap = r.heap])
    /\ Stay
Close ==
    /\ Running /\ Operates
    /\ Become([Fine EXCEPT !.heap = PreventExtensions(@, Global)])
    /\ Stay

Init ==
    /\ frames = <<>> /\ spent = [code |-> 0, guest |-> 0]
    /\ \E h \in Heaps :
          world = [envs |-> <<[kind |-> "global", outer |-> 0, names |-> <<>>]>>, heap |-> h,
                   vars |-> {}, functions |-> <<>>, out |-> "normal"]

Next ==
    \/ \E b \in Scripts : RunScript(b)
    \/ \E b \in Evals : DirectEval(b) \/ IndirectEval(b)
    \/ EnterBody \/ EnterWith \/ Leave \/ PutValue \/ Close
    \/ \E n \in Names : Call(n) \/ EnterCatch(n) \/ Resolve(n) \/ DeleteName(n)
    \/ \E n \in Names \cup {"arguments"} : InitializeLexical(n)
    \/ \E b \in (IF Running THEN Top.block.blocks ELSE {}) : EnterBlock(b)
    \/ \E c \in Expressions : NameFunction(c)
    \/ \E c \in DOMAIN Code : EvaluateFunction(c)
    \/ \E o \in {Global, Subject}, n \in Names : Erase(o, n) \/ \E d \in Candidates : Redefine(o, n, d)

Spec == Init /\ [][Next]_vars

(***************************************************************************)
(* Properties.                                                             *)
(***************************************************************************)
\* The state of the module: records in a tree, frames over them.
TypeOK ==
    /\ \A e \in DOMAIN world.envs : world.envs[e].outer \in 0 .. e - 1
    /\ \A f \in DOMAIN world.functions :
          \/ world.functions[f] = Free
          \/ world.functions[f].code \in DOMAIN Code /\ world.functions[f].scope \in DOMAIN world.envs
    /\ \A i \in DOMAIN frames :
          /\ {frames[i].env, frames[i].varEnv} \subseteq DOMAIN world.envs
          /\ frames[i].varEnv \in ToSet(Path(world, frames[i].env))
          /\ frames[i].target.base \in 0 .. Len(world.envs)

\* A name means what its function says, at the moment the body starts: a lexical
\* name is dead; a function's is the last declaration of it, closed over the
\* body's own record; any other declared name starts as the parameter or the
\* arguments object of that name, or undefined; and a name the body does not
\* declare is whatever the parameters' initializers saw
\* (functionDeclarationInstantiation and the records it chooses).
BodySeesItsDeclarations ==
    world.out = "entered" =>
        LET c == Top.body
            outer == IF c.simple THEN Top.varEnv ELSE world.envs[Top.varEnv].outer
            aliases == {NameOf(f) : f \in ToSet(c.aliases)}
        IN \A n \in Names \cup {"arguments"} :
             \E v \in {ValueOf(world, Top.env, n)} :
               CASE n \in DOMAIN c.lex -> v = Dead /\ Base(world, Top.env, n) = Top.env
                 [] n \in FunctionNames(c) ->
                      /\ v \in DOMAIN world.functions
                      /\ world.functions[v].scope = Top.env
                      /\ \E i \in DOMAIN c.funs :
                            /\ world.functions[v].code = c.funs[i] /\ NameOf(c.funs[i]) = n
                            /\ \A j \in i + 1 .. Len(c.funs) : NameOf(c.funs[j]) # n
                 [] n \in ToSet(c.params) -> v = Passed \/ ~c.simple
                 [] n = "arguments" /\ ~c.arrow -> v = Arguments \/ ~c.simple
                 [] n \in ToSet(c.vars) \cup aliases ->
                      v = Undefined /\ Base(world, Top.env, n) = Top.varEnv
                 [] OTHER -> Base(world, Top.env, n) = Base(world, outer, n)

\* What a sloppy eval hoists is reachable from it: no block between the eval and
\* its variable environment declares the name (evalDeclarationInstantiation).
HoistedNamesAreReachable ==
    \A i \in DOMAIN frames :
        LET f == frames[i]
            hoisted == ToSet(VarDeclared(f.body)) \cup {NameOf(c) : c \in f.aliases}
        IN f.kind = "eval" /\ ~f.strict =>
             \A e \in Between(world, f.env, f.varEnv) :
                world.envs[e].kind = "declarative" => Bound(world, e) \cap hoisted = {}

\* No program the parser accepts makes a record create a binding it has, or
\* initialize one it has not: every declaration checks for what it may meet.
RecordsNeverClash == world.out # "HostError"

\* Names mean what the code around them declares.
NamesMeanWhatIsDeclared == TypeOK /\ BodySeesItsDeclarations /\ HoistedNamesAreReachable /\ RecordsNeverClash

\* Declarations change nothing but the scope they are for: a script that is
\* refused changes nothing; an eval only its variable environment, nothing if it is
\* strict or ends in a SyntaxError; a function, block or catch clause only
\* records of its own.
Untouched(w, v) == \A e \in (DOMAIN world.envs \cap DOMAIN w.envs) \ {v} : w.envs[e] = world.envs[e]
SameGlobal(w) == w.heap = world.heap /\ w.vars = world.vars
DeclarationsStayInTheirScope ==
    [][/\ Len(frames') > Len(frames) =>
            LET f == Last(frames')
                v == IF f.kind = "script" \/ (f.kind = "eval" /\ ~f.strict) THEN f.varEnv ELSE 0
            IN Untouched(world', v) /\ (v # Root => SameGlobal(world'))
       /\ (frames = <<>> /\ frames' = <<>>) \/ world'.out = "SyntaxError" =>
            Untouched(world', 0) /\ SameGlobal(world')]_vars

\* A binding keeps its kind for its life: it is initialized by the evaluation of
\* its own declaration only, holds nothing before, and if immutable never
\* changes; only what an eval declared is ever deleted.
BindingsKeepTheirKind ==
    [][\A e \in DOMAIN world.envs \cap DOMAIN world'.envs :
         \A n \in Bound(world, e) :
           LET b == world.envs[e].names[n] IN
           IF n \notin DOMAIN world'.envs[e].names THEN b.deletable
           ELSE LET c == world'.envs[e].names[n] IN
                /\ c.mutable = b.mutable /\ c.deletable = b.deletable
                /\ b.initialized => c.initialized /\ (~b.mutable => c = b)
                /\ ~b.initialized /\ c.initialized => n \in Top.todo /\ n \notin Last(frames').todo
                /\ ~c.initialized => c = b]_world

================================================================================
