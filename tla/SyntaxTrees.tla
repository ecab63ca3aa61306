----------------------------- MODULE SyntaxTrees -----------------------------
(***************************************************************************)
(* Trees, values and completions (src/src/runtime/completion.js), as the   *)
(* recursive evaluator and the generator machine share them.               *)
(*                                                                         *)
(* A node has a type, a name (an operator, a label, an environment, a      *)
(* property) and children.  A context is the chain of its environments,    *)
(* outermost first: what made each and which copy of it this is.  Values   *)
(* are strings; a reference, a prepared target and a list are sequences.   *)
(***************************************************************************)
EXTENDS Integers, Sequences

CONSTANT Iterables   \* name -> how its iterator behaves

ASSUME IterablesAssumption ==
  \A v \in DOMAIN Iterables :
    Iterables[v] \in [length: Nat,               \* elements
                      fails: BOOLEAN,            \* then next() throws, or is done
                      close: {"none", "object", "refuses", "throws", "primitive"},
                      throw: {"none", "ends", "continues", "throws"}]

\* A node, and whether it contains a yield (createYieldClassification()).
Node(type, name, kids) ==
  [type |-> type, name |-> name, kids |-> kids,
   yields |-> type \in {"yield", "yield*"} \/ \E i \in 1..Len(kids) : kids[i].yields]
None == Node("none", "", <<>>)

IsDeclaration(node) == node.type \in {"var", "let", "const"}
IsLexical(node)     == node.type \in {"let", "const"}
IsSimple(node)      == node.type \in {"identifier", "member"}

Env(name, copy) == <<name, copy>>
\* What has no name makes no environment.
Inner(node, context) == IF node.name = "" THEN context ELSE Append(context, Env(node.name, 0))

-----------------------------------------------------------------------------
EMPTY     == "empty"
undefined == "undefined"
null      == "null"
opaque    == "opaque"   \* an object that converts to no primitive value

isObject(value)  == value \notin {undefined, null, "true", "false", "updated"}
toBoolean(value) == value \notin {undefined, null, "false"}
IsMissing(value) == value \in {undefined, null}

Completion(type, value, target) == [type |-> type, value |-> value, target |-> target]
Normal(value) == Completion("normal", value, "")
Throw(value)  == Completion("throw", value, "")
Return(value) == Completion("return", value, "")
TypeError     == Throw("TypeError")

UpdateEmpty(completion, value) ==
  IF completion.value = EMPTY THEN [completion EXCEPT !.value = value] ELSE completion

\* applyLoopBodyResult() and applyLoopBodyCompletion(): what a loop does next.
Owns(labelSet, completion) == completion.target = "" \/ completion.target \in labelSet
LoopAction(completion, labelSet) ==
  CASE completion.type = "normal" -> "continue"
    [] completion.type \in {"break", "continue"} /\ Owns(labelSet, completion) -> completion.type
    [] OTHER -> "propagate"

-----------------------------------------------------------------------------
(***************************************************************************)
(* The operations both evaluators call: references (reference.js),         *)
(* operators, property definition, iterators (iterator.js) and what guest  *)
(* code observes of each.                                                  *)
(*                                                                         *)
(* A run [log, inputs] carries the events so far and, for the evaluator,   *)
(* the completions yields have not yet taken.  An operation takes a run    *)
(* and gives a completion, parts where the result is no single value (a    *)
(* reference, a prepared target, a list), and the run after it.            *)
(***************************************************************************)

Event(kind, what, where) == [kind |-> kind, what |-> what, where |-> where, within |-> <<>>]
\* A step of guest code that can tell the context it runs in.
Effect(name, context) == [Event("effect", name, <<>>) EXCEPT !.within = context]

Run(log, inputs) == [log |-> log, inputs |-> inputs]
Fresh == Run(<<>>, <<>>)
See(run, events) == [run EXCEPT !.log = @ \o events]

Done(completion, run)  == [completion |-> completion, parts |-> <<>>, run |-> run]
DoneWith(parts, run)   == [completion |-> Normal(undefined), parts |-> parts, run |-> run]
Saw(value, event, run) == Done(Normal(value), See(run, <<event>>))
IsNormal(result) == result.completion.type = "normal"
ValueOf(result)  == result.completion.value
Then(result, Rest(_, _)) ==
  IF IsNormal(result) THEN Rest(ValueOf(result), result.run) ELSE result
ThenParts(result, Rest(_, _)) ==
  IF IsNormal(result) THEN Rest(result.parts, result.run) ELSE result

-----------------------------------------------------------------------------
(* References: a base and a key.  An identifier's base is the environment  *)
(* that binds it, "scope", or nothing.                                     *)
IdentifierReference(name) == <<IF name = "unbound" THEN "nothing" ELSE "scope", name>>
toPropertyKey(value, run) == Done(IF value = opaque THEN TypeError ELSE Normal(value), run)

\* createOrdinaryMemberReference() and createSuperMemberReference().
MemberReference(base, property, run) ==
  IF IsMissing(base) THEN Done(TypeError, run)
  ELSE Then(toPropertyKey(property, run), LAMBDA key, r : DoneWith(<<base, key>>, r))

\* The property or variable k holds the value k; reading "broken" throws.
GetValue(reference, run) ==
  LET event == Event("get", reference[1], <<reference[2]>>) IN
  IF reference[1] = "nothing" THEN Done(Throw("ReferenceError"), run)
  ELSE IF reference[2] = "broken" THEN Done(Throw("getter failed"), See(run, <<event>>))
  ELSE Saw(reference[2], event, run)

PutValue(reference, value, run) ==
  LET seen == See(run, <<Event("put", reference[1], <<reference[2], value>>)>>) IN
  IF reference[1] = "nothing" THEN Done(Throw("ReferenceError"), run)
  ELSE IF reference[2] = "readonly" THEN Done(TypeError, seen)
  ELSE Done(Normal(value), seen)

\* A reference gives the receiver of a call; an environment gives none.
ThisValue(reference) ==
  IF reference = <<>> \/ reference[1] \in {"scope", "nothing"} THEN undefined ELSE reference[1]

\* A target is prepared before the value it takes is known, and its key is
\* converted only when the value is there.
Initialize(name, value, run) == Saw(undefined, Event("initialize", name, <<value>>), run)
ApplyTarget(prepared, value, run) ==
  CASE prepared[1] = "initialize" -> Initialize(prepared[2], value, run)
    [] prepared[1] = "assign"     -> PutValue(IdentifierReference(prepared[2]), value, run)
    [] prepared[1] = "reference"  -> PutValue(<<prepared[2], prepared[3]>>, value, run)
    [] prepared[1] = "target"     ->
         ThenParts(MemberReference(prepared[2], prepared[3], run),
                   LAMBDA reference, r : PutValue(reference, value, r))

-----------------------------------------------------------------------------
ApplyBinaryOperator(operator, left, right, run) ==
  CASE operator = "in" /\ ~isObject(right) -> Done(TypeError, run)
    [] operator = "in" /\ isObject(right) ->
         Then(toPropertyKey(left, run), LAMBDA key, r : Saw("true", Event("has", right, <<key>>), r))
    [] operator = "===" -> Done(Normal(IF left = right THEN "true" ELSE "false"), run)
    [] operator = "+" /\ opaque \in {left, right} -> Done(TypeError, run)
    [] operator = "+" /\ opaque \notin {left, right} ->
         Saw("sum", Event("add", left, <<right>>), run)

\* delete and typeof look at the reference, the others at the value.
WantsReference(operator) == operator \in {"delete", "typeof"}
ApplyUnaryOperator(operator, value, reference, run) ==
  LET typeOf(v) == IF isObject(v) THEN "object" ELSE v IN
  CASE operator = "delete" ->
         IF reference = <<>> \/ reference[1] = "nothing" THEN Done(Normal("true"), run)
         ELSE IF reference[1] # "scope" /\ reference[2] = "readonly" THEN Done(TypeError, run)
         ELSE Saw("true", Event("delete", reference[1], <<reference[2]>>), run)
    [] operator = "typeof" ->
         IF reference = <<>> THEN Done(Normal(typeOf(value)), run)
         ELSE IF reference[1] = "nothing" THEN Done(Normal(undefined), run)
         ELSE Then(GetValue(reference, run), LAMBDA v, r : Done(Normal(typeOf(v)), r))
    [] operator = "void" -> Done(Normal(undefined), run)
    [] operator = "!"    -> Done(Normal(IF toBoolean(value) THEN "false" ELSE "true"), run)
    [] operator = "-"    -> Done(IF value = opaque THEN TypeError ELSE Normal("updated"), run)

\* ++ and --: one read, one write, the value before or after.
ApplyUpdate(prefix, reference, run) ==
  Then(GetValue(reference, run), LAMBDA old, r :
    IF old = opaque THEN Done(TypeError, r)
    ELSE Then(PutValue(reference, "updated", r), LAMBDA new, s :
           Done(Normal(IF prefix THEN new ELSE old), s)))

\* A callee is checked after its arguments are there.
Invoke(kind, callee, this, args, run) ==
  IF ~isObject(callee) THEN Done(TypeError, run)
  ELSE Saw("result", Event(kind, callee, <<this>> \o args), run)
\* The callee of a direct call to eval is the variable of that name.
IsDirectEval(node, reference) == node.type = "identifier" /\ reference = <<"scope", "eval">>

-----------------------------------------------------------------------------
Made(kind, parts, run) == Saw(kind, Event("made", kind, parts), run)

\* The property __proto__ of a literal sets the prototype instead.
SetsPrototype(property) == property.name = "__proto__" /\ property.kids[2] # None
DefineProperty(property, key, value, run) ==
  IF ~SetsPrototype(property) THEN Saw(undefined, Event("define", key, <<value>>), run)
  ELSE IF isObject(value) \/ value = null THEN Saw(undefined, Event("prototype", value, <<>>), run)
  ELSE Done(Normal(undefined), run)

ApplyHeritage(node, heritage, run) ==
  IF node.kids[1] = None \/ heritage = null THEN Done(Normal(undefined), run)
  ELSE IF ~isObject(heritage) THEN Done(TypeError, run)
  ELSE GetValue(<<heritage, "prototype">>, run)
\* A static element cannot replace the prototype of the class.
DefineElement(element, key, run) ==
  IF element.type = "static" /\ key = "prototype" THEN Done(TypeError, run)
  ELSE Saw(undefined, Event("define", key, <<element.type>>), run)

\* toString() of a substitution.
toText(value, run) == Done(IF value = opaque THEN TypeError ELSE Normal(value), run)

-----------------------------------------------------------------------------
(* Iterators.  A record tells what is iterated over and the steps made.    *)
Record(of) == [of |-> of, steps |-> 0]
NoRecord   == Record("")

Enumerate(value, run)   == Saw(value, Event("iterate", value, <<>>), run)
GetIterator(value, run) ==
  IF value \in DOMAIN Iterables THEN Enumerate(value, run) ELSE Done(TypeError, run)
\* What cannot be iterated over can still be enumerated; it has no properties.
Behaviour(of) ==
  IF of \in DOMAIN Iterables THEN Iterables[of]
  ELSE [length |-> 0, fails |-> FALSE, close |-> "none", throw |-> "none"]

\* iteratorStep(): "more", "done", or "failed".
Outcome(record) ==
  LET iterable == Behaviour(record.of) IN
  IF record.steps < iterable.length THEN "more" ELSE IF iterable.fails THEN "failed" ELSE "done"
Stepped(record) == [record EXCEPT !.steps = @ + 1]
StepEvents(record, sent) ==
  <<Event("next", record.of, sent), Event(Outcome(record), record.of, <<>>)>>
StepError == Throw("next failed")
\* Elements are truthy and falsy by turns.
StepValue(record) == IF record.steps % 2 = 0 THEN "true" ELSE "false"
LastValue == "last"   \* of the result that says done

\* iteratorClose(): what becomes of the completion it is called with.
CloseEvents(record) == <<Event("close", record.of, <<>>)>>
Closed(record, completion) ==
  LET close == Behaviour(record.of).close IN
  IF completion.type = "throw" \/ close \in {"none", "object", "refuses"} THEN completion
  ELSE IF close = "throws" THEN Throw("close failed") ELSE TypeError

\* iterableToList(): the rest of the elements; nothing is closed.
Elements(record) ==
  [i \in 1..(Iterables[record.of].length - record.steps) |-> StepValue([record EXCEPT !.steps = @ + i - 1])]
CollectEvents(record) ==
  LET At(i) == [record EXCEPT !.steps = @ + i]
      n == Iterables[record.of].length - record.steps
  IN [i \in 1..(2 * (n + 1)) |-> StepEvents(At((i - 1) \div 2), <<>>)[1 + ((i - 1) % 2)]]
Collect(record, run) ==
  LET seen == See(run, CollectEvents(record)) IN
  IF Iterables[record.of].fails THEN Done(StepError, seen) ELSE DoneWith(Elements(record), seen)
IterableToList(value, run) ==
  Then(GetIterator(value, run), LAMBDA v, r : Collect(Record(v), r))
================================================================================
