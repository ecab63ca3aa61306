------------------------------ MODULE Evaluator ------------------------------
(***************************************************************************)
(* The recursive evaluator (src/src/evaluator/statements.js,               *)
(* expressions.js, patterns.js, declarations.js and classes.js).  It       *)
(* evaluates what contains no yield.  With a yield taken as a call that    *)
(* answers with the next of the completions sent so far, it is also what   *)
(* the generator machine is compared with: "suspend" is the completion of  *)
(* a yield that finds none, and passes everything by.                      *)
(***************************************************************************)
EXTENDS SyntaxTrees, SequencesExt

Yield(kind, value, run) ==
  LET seen == See(run, <<Event(kind, value, <<>>)>>) IN
  IF run.inputs = <<>> THEN Done(Completion("suspend", undefined, ""), seen)
  ELSE Done(Head(run.inputs), [seen EXCEPT !.inputs = Tail(@)])

\* yield*: every completion sent goes on to the iterator, as a call of the method
\* it stands for, until the iterator says it is done.
RECURSIVE Delegate(_, _, _)
Delegate(record, sent, run) ==
  LET of == record.of
      Seen(events) == See(run, events)
      Calls(method) == <<Event(method, of, <<sent.value>>)>>
      more == <<Event("more", of, <<>>)>>
      done == <<Event("done", of, <<>>)>>
      failed == <<Event("failed", of, <<>>)>>
      closed == Closed(record, Normal(undefined))
      Again(next, events) ==
        LET answer == Yield("yield-result", StepValue(record), Seen(events)) IN
        IF answer.completion.type = "suspend" THEN answer
        ELSE Delegate(next, answer.completion, answer.run)
      throw == Iterables[of].throw
      close == Iterables[of].close
  IN CASE sent.type = "normal" ->
            IF Outcome(record) = "more" THEN Again(Stepped(record), StepEvents(record, <<sent.value>>))
            ELSE Done(IF Outcome(record) = "done" THEN Normal(LastValue) ELSE StepError,
                      Seen(StepEvents(record, <<sent.value>>)))
       [] sent.type = "throw" /\ throw = "none" ->
            Done(IF closed.type = "normal" THEN TypeError ELSE closed, Seen(CloseEvents(record)))
       [] sent.type = "throw" /\ throw = "continues"  -> Again(record, Calls("throw") \o more)
       [] sent.type = "throw" /\ throw = "ends"       -> Done(Normal(LastValue), Seen(Calls("throw") \o done))
       [] sent.type = "throw" /\ throw = "throws"     -> Done(StepError, Seen(Calls("throw") \o failed))
       [] sent.type = "return" /\ close = "none"      -> Done(sent, Seen(CloseEvents(record)))
       [] sent.type = "return" /\ close = "refuses"   -> Again(record, Calls("return") \o more)
       [] sent.type = "return" /\ close = "object"    -> Done(Return(LastValue), Seen(Calls("return") \o done))
       [] sent.type = "return" /\ close = "throws"    -> Done(Throw("close failed"), Seen(Calls("return") \o failed))
       [] sent.type = "return" /\ close = "primitive" -> Done(TypeError, Seen(Calls("return") \o failed))

-----------------------------------------------------------------------------
\* What is to be evaluated, and what else that takes: the labels of a statement,
\* the value, mode and prepared target of a pattern.
RECURSIVE Evaluate(_, _, _, _, _)
EvaluateExpression(node, context, run)          == Evaluate("expression", node, context, <<>>, run)
EvaluateReference(node, context, run)           == Evaluate("reference", node, context, <<>>, run)
EvaluateStatement(node, context, labelSet, run) == Evaluate("statement", node, context, labelSet, run)
ApplyPattern(pattern, value, mode, prepared, context, run) ==
  Evaluate("pattern", pattern, context, [value |-> value, mode |-> mode, prepared |-> prepared], run)

\* A member's object and its property, before they are put together.
MemberProperty(node, context, run) ==
  IF node.name # "" THEN Done(Normal(node.name), run) ELSE EvaluateExpression(node.kids[2], context, run)
MemberParts(node, context, run) ==
  Then(IF node.kids[1].type = "super" THEN Done(Normal("super"), run)
       ELSE EvaluateExpression(node.kids[1], context, run), LAMBDA base, r :
  Then(MemberProperty(node, context, r), LAMBDA property, s : DoneWith(<<base, property>>, s)))

\* evaluateExpression(): an identifier or a member gives a reference.
ReferenceOf(node, context, run) ==
  CASE node.type = "identifier" -> DoneWith(IdentifierReference(node.name), run)
    [] node.type = "member" ->
         ThenParts(MemberParts(node, context, run), LAMBDA parts, r : MemberReference(parts[1], parts[2], r))
    [] ~IsSimple(node) -> EvaluateExpression(node, context, run)

RECURSIVE Sequence(_, _, _, _, _), Arguments(_, _, _, _, _), Template(_, _, _, _, _)
Sequence(nodes, i, value, context, run) ==
  IF i > Len(nodes) THEN Done(Normal(value), run)
  ELSE Then(EvaluateExpression(nodes[i], context, run),
            LAMBDA v, r : Sequence(nodes, i + 1, v, context, r))

\* evaluateArguments() and the elements of an array literal.
Arguments(nodes, i, args, context, run) ==
  IF i > Len(nodes) THEN DoneWith(args, run)
  ELSE IF nodes[i] = None THEN Arguments(nodes, i + 1, Append(args, "hole"), context, run)
  ELSE IF nodes[i].type = "spread" THEN
    Then(EvaluateExpression(nodes[i].kids[1], context, run), LAMBDA v, r :
    ThenParts(IterableToList(v, r), LAMBDA list, s : Arguments(nodes, i + 1, args \o list, context, s)))
  ELSE Then(EvaluateExpression(nodes[i], context, run),
            LAMBDA v, r : Arguments(nodes, i + 1, Append(args, v), context, r))

Template(nodes, i, texts, context, run) ==
  IF i > Len(nodes) THEN Made("text", texts, run)
  ELSE Then(EvaluateExpression(nodes[i], context, run), LAMBDA v, r :
       Then(toText(v, r), LAMBDA text, s : Template(nodes, i + 1, Append(texts, text), context, s)))

\* A call, and a tagged template: the callee is read before the arguments.
Call(node, context, run) ==
  LET callee == EvaluateReference(node.kids[1], context, run)
      reference == callee.parts
  IN Then(IF IsNormal(callee) /\ reference # <<>> THEN GetValue(reference, callee.run) ELSE callee, LAMBDA f, r :
     ThenParts(Arguments(Tail(node.kids), 1, IF node.type = "tagged" THEN <<"strings">> ELSE <<>>, context, r),
       LAMBDA args, s :
         IF node.type = "call" /\ IsDirectEval(node.kids[1], reference)
           THEN Done(Normal("result"), See(s, <<Effect("eval", context)>>))
           ELSE Invoke("call", f, ThisValue(reference), args, s)))

Key(node, context, run) ==
  IF node.name # "" THEN Done(Normal(node.name), run)
  ELSE Then(EvaluateExpression(node.kids[1], context, run), toPropertyKey)

-----------------------------------------------------------------------------
(* Patterns.  In mode "assignment" the targets are expressions; the other  *)
(* two bind names, "initialize" for let and const, "assign" for var.       *)
PrepareTarget(target, mode, context, run) ==
  IF mode # "assignment" THEN DoneWith(<<mode, target.name>>, run)
  ELSE IF target.type = "identifier" THEN DoneWith(<<"reference">> \o IdentifierReference(target.name), run)
  ELSE ThenParts(MemberParts(target, context, run), LAMBDA parts, r : DoneWith(<<"target">> \o parts, r))

\* The one target of a pattern that has no more, under defaults and a rest.
RECURSIVE simplePatternTarget(_)
simplePatternTarget(pattern) ==
  CASE IsSimple(pattern) -> pattern
    [] pattern.type \in {"default", "rest"} -> simplePatternTarget(pattern.kids[1])
    [] OTHER -> None
PreparePatternTarget(pattern, mode, context, run) ==
  IF simplePatternTarget(pattern) = None THEN DoneWith(<<>>, run)
  ELSE PrepareTarget(simplePatternTarget(pattern), mode, context, run)

\* What leaves an array pattern closes its iterator, unless that is done.
CloseArrayPattern(result, record, done) ==
  IF done \/ result.completion.type = "suspend" THEN result
  ELSE Done(Closed(record, result.completion), See(result.run, CloseEvents(record)))

RECURSIVE ObjectPattern(_, _, _, _, _, _), ArrayPattern(_, _, _, _, _, _, _)
PatternOn(pattern, value, mode, prepared, context, run) ==
  LET Prepared(target, r) ==
        IF prepared # <<>> THEN DoneWith(prepared, r) ELSE PreparePatternTarget(target, mode, context, r)
  IN CASE IsSimple(pattern) ->
            ThenParts(Prepared(pattern, run), LAMBDA target, r : ApplyTarget(target, value, r))
       [] pattern.type = "default" ->
            Then(IF value # undefined THEN Done(Normal(value), run)
                 ELSE EvaluateExpression(pattern.kids[2], context, run), LAMBDA v, r :
            ThenParts(Prepared(pattern.kids[1], r),
                      LAMBDA target, s : ApplyPattern(pattern.kids[1], v, mode, target, context, s)))
       [] pattern.type = "rest" -> ApplyPattern(pattern.kids[1], value, mode, prepared, context, run)
       [] pattern.type = "object-pattern" ->
            IF IsMissing(value) THEN Done(TypeError, run)
            ELSE ObjectPattern(pattern.kids, 1, value, mode, context, run)
       [] pattern.type = "array-pattern" ->
            Then(GetIterator(value, run),
                 LAMBDA of, r : ArrayPattern(pattern.kids, 1, Record(of), FALSE, mode, context, r))

\* For each property its key, its target, its value, and then the pattern.
ObjectPattern(properties, i, object, mode, context, run) ==
  IF i > Len(properties) THEN Done(Normal(undefined), run)
  ELSE LET pattern == properties[i].kids[2] IN
       Then(Key(properties[i], context, run), LAMBDA key, r :
       ThenParts(PreparePatternTarget(pattern, mode, context, r), LAMBDA target, s :
       Then(GetValue(<<object, key>>, s), LAMBDA value, t :
       Then(ApplyPattern(pattern, value, mode, target, context, t),
            LAMBDA ignored, u : ObjectPattern(properties, i + 1, object, mode, context, u)))))

ArrayPattern(elements, i, record, done, mode, context, run) ==
  LET element  == elements[i]
      Close(result, ended) == CloseArrayPattern(result, record, ended)
      target   == PreparePatternTarget(element, mode, context, run)
      \* A step, unless the iterator is done, after the target is prepared.
      Step(r)  == IF done THEN r ELSE See(r, StepEvents(record, <<>>))
      failed   == ~done /\ Outcome(record) = "failed"
      ended    == done \/ Outcome(record) = "done"
      next     == IF done THEN record ELSE Stepped(record)
      value    == IF ended THEN undefined ELSE StepValue(record)
      rest     == IF done THEN DoneWith(<<>>, target.run) ELSE Collect(record, target.run)
      Go(result, over) ==
        IF ~IsNormal(result) THEN CloseArrayPattern(result, next, over)
        ELSE ArrayPattern(elements, i + 1, next, over, mode, context, result.run)
  IN CASE i > Len(elements) -> Close(Done(Normal(undefined), run), done)
       [] i <= Len(elements) /\ element = None ->
            IF failed THEN Done(StepError, Step(run))
            ELSE ArrayPattern(elements, i + 1, next, ended, mode, context, Step(run))
       [] i <= Len(elements) /\ element # None ->
            IF ~IsNormal(target) THEN Close(target, done)
            ELSE IF element.type = "rest" THEN
              ThenParts(rest, LAMBDA list, r :
              Then(Made("array", list, r),
                   LAMBDA array, s : Go(ApplyPattern(element, array, mode, target.parts, context, s), TRUE)))
            ELSE IF failed THEN Done(StepError, Step(target.run))
            ELSE Go(ApplyPattern(element, value, mode, target.parts, context, Step(target.run)), ended)

\* A reference comes before the right side, a pattern after it.
Assignment(node, context, run) ==
  LET left == node.kids[1]
      Right(r) == EvaluateExpression(node.kids[2], context, r)
  IN CASE ~IsSimple(left) ->
            Then(Right(run), LAMBDA v, r :
            Then(ApplyPattern(left, v, "assignment", <<>>, context, r), LAMBDA ignored, s : Done(Normal(v), s)))
       [] IsSimple(left) /\ node.name = "=" ->
            ThenParts(EvaluateReference(left, context, run), LAMBDA reference, r :
            Then(Right(r), LAMBDA v, s : PutValue(reference, v, s)))
       [] IsSimple(left) /\ node.name # "=" ->
            ThenParts(EvaluateReference(left, context, run), LAMBDA reference, r :
            Then(GetValue(reference, r), LAMBDA old, s :
            Then(Right(s), LAMBDA v, t :
            Then(ApplyBinaryOperator(node.name, old, v, t), LAMBDA new, u : PutValue(reference, new, u)))))

-----------------------------------------------------------------------------
RECURSIVE ObjectLiteral(_, _, _, _), ClassElements(_, _, _, _)
ObjectLiteral(properties, i, context, run) ==
  IF i > Len(properties) THEN Done(Normal("object"), run)
  ELSE LET property == properties[i] IN
       Then(Key(property, context, run), LAMBDA key, r :
       Then(IF property.kids[2] = None THEN Done(Normal("method"), r)
            ELSE EvaluateExpression(property.kids[2], context, r), LAMBDA value, s :
       Then(DefineProperty(property, key, value, s),
            LAMBDA ignored, t : ObjectLiteral(properties, i + 1, context, t))))

ClassElements(elements, i, context, run) ==
  IF i > Len(elements) THEN Done(Normal("class"), run)
  ELSE Then(Key(elements[i], context, run), LAMBDA key, r :
       Then(DefineElement(elements[i], key, r),
            LAMBDA ignored, s : ClassElements(elements, i + 1, context, s)))
\* The name of a class is bound around its heritage and elements.
ClassDefinition(node, context, run) ==
  LET inner == Inner(node, context) IN
  Then(EvaluateExpression(node.kids[1], inner, run), LAMBDA heritage, r :
  Then(ApplyHeritage(node, heritage, r),
       LAMBDA ignored, s : ClassElements(Tail(node.kids), 1, inner, s)))

ExpressionOf(node, context, run) ==
  LET Kid(i) == EvaluateExpression(node.kids[i], context, run)
      Value(v) == Done(Normal(v), run)
      First(Rest(_, _)) == Then(Kid(1), Rest)
      Second(Rest(_, _)) == First(LAMBDA v, r : Then(EvaluateExpression(node.kids[2], context, r), LAMBDA w, s : Rest(<<v, w>>, s)))
      Reference == EvaluateReference(IF IsSimple(node) THEN node ELSE node.kids[1], context, run)
  IN
  CASE node.type = "none"     -> Value(undefined)
    [] node.type = "constant" -> Value(node.name)
    [] node.type = "effect"   -> Saw("true", Effect(node.name, context), run)
    [] node.type = "fail"     -> Done(Throw(node.name), See(run, <<Effect(node.name, context)>>))
    [] node.type = "yield"    -> First(LAMBDA v, r : Yield("yield", v, r))
    [] node.type = "yield*"   ->
         First(LAMBDA v, r : Then(GetIterator(v, r), LAMBDA of, s : Delegate(Record(of), Normal(undefined), s)))
    [] IsSimple(node)         -> ThenParts(Reference, GetValue)
    [] node.type = "unary"    ->
         IF WantsReference(node.name)
           THEN Then(Reference, LAMBDA v, r : ApplyUnaryOperator(node.name, v, Reference.parts, r))
           ELSE First(LAMBDA v, r : ApplyUnaryOperator(node.name, v, <<>>, r))
    [] node.type = "update"   -> ThenParts(Reference, LAMBDA ref, r : ApplyUpdate(node.name = "prefix", ref, r))
    [] node.type = "binary"   -> Second(LAMBDA vs, r : ApplyBinaryOperator(node.name, vs[1], vs[2], r))
    [] node.type = "logical"  ->
         First(LAMBDA v, r : IF toBoolean(v) = (node.name = "&&") THEN EvaluateExpression(node.kids[2], context, r)
                             ELSE Done(Normal(v), r))
    [] node.type = "conditional" ->
         First(LAMBDA v, r : EvaluateExpression(node.kids[IF toBoolean(v) THEN 2 ELSE 3], context, r))
    [] node.type = "sequence" -> Sequence(node.kids, 1, undefined, context, run)
    [] node.type = "template" -> Template(node.kids, 1, <<>>, context, run)
    [] node.type \in {"call", "tagged"} -> Call(node, context, run)
    [] node.type = "new"      ->
         First(LAMBDA f, r : ThenParts(Arguments(Tail(node.kids), 1, <<>>, context, r),
                                       LAMBDA args, s : Invoke("construct", f, f, args, s)))
    [] node.type = "array"    ->
         ThenParts(Arguments(node.kids, 1, <<>>, context, run), LAMBDA parts, r : Made("array", parts, r))
    [] node.type = "object"   -> ObjectLiteral(node.kids, 1, context, run)
    [] node.type = "class"    -> ClassDefinition(node, context, run)
    [] node.type = "assign"   -> Assignment(node, context, run)

-----------------------------------------------------------------------------
RECURSIVE StatementList(_, _, _, _, _)
StatementList(statements, i, context, value, run) ==
  IF i > Len(statements) THEN Done(Normal(value), run)
  ELSE LET next == EvaluateStatement(statements[i], context, {}, run)
           updated == UpdateEmpty(next.completion, value)
       IN IF updated.type # "normal" THEN Done(updated, next.run)
          ELSE StatementList(statements, i + 1, context, updated.value, next.run)

Block(node, context, run) == StatementList(node.kids, 1, Inner(node, context), EMPTY, run)

\* How a declaration or the head of a loop binds what it names.
Mode(node)    == IF IsLexical(node) THEN "initialize" ELSE IF node.type = "var" THEN "assign" ELSE "assignment"
PatternOf(head) == IF IsDeclaration(head) THEN head.kids[1].kids[1] ELSE head

\* A var without an initializer does nothing; a let gets the value undefined.
RECURSIVE Declare(_, _, _, _, _)
Declare(kind, declarators, i, context, run) ==
  IF i > Len(declarators) THEN Done(Normal(EMPTY), run)
  ELSE LET init == declarators[i].kids[2]
           bound == IF init = None /\ kind.type = "var" THEN Done(Normal(undefined), run)
                    ELSE Then(EvaluateExpression(init, context, run), LAMBDA v, r :
                           ApplyPattern(declarators[i].kids[1], v, Mode(kind), <<>>, context, r))
       IN Then(bound, LAMBDA ignored, r : Declare(kind, declarators, i + 1, context, r))

\* The body of a loop has run: leave it, or go on with the value so far.
AfterBody(body, value, labelSet, Leave(_, _), Again(_, _)) ==
  LET updated == UpdateEmpty(body.completion, value)
      action  == LoopAction(updated, labelSet)
  IN IF updated.type = "suspend" THEN body
     ELSE IF action = "continue" THEN Again(updated.value, body.run)
     ELSE IF action = "break" THEN Leave(Normal(updated.value), body.run)
     ELSE Leave(updated, body.run)

RECURSIVE While(_, _, _, _, _), DoWhile(_, _, _, _, _), For(_, _, _, _, _), Iterate(_, _, _, _, _, _)
While(node, context, labelSet, value, run) ==
  Then(EvaluateExpression(node.kids[1], context, run), LAMBDA test, tested :
    IF ~toBoolean(test) THEN Done(Normal(value), tested)
    ELSE AfterBody(EvaluateStatement(node.kids[2], context, {}, tested), value, labelSet,
                   Done, LAMBDA v, r : While(node, context, labelSet, v, r)))

DoWhile(node, context, labelSet, value, run) ==
  AfterBody(EvaluateStatement(node.kids[1], context, {}, run), value, labelSet, Done,
    LAMBDA v, r :
      Then(EvaluateExpression(node.kids[2], context, r), LAMBDA test, tested :
        IF toBoolean(test) THEN DoWhile(node, context, labelSet, v, tested)
        ELSE Done(Normal(v), tested)))

\* Names declared with let are copied before the first test and every update.
PerIteration(node, context) ==
  IF node.kids[1].type # "let" THEN context
  ELSE [context EXCEPT ![Len(context)] = Env(@[1], @[2] + 1)]
For(node, context, labelSet, value, run) ==
  LET test == IF node.kids[2] = None THEN Done(Normal("true"), run)
              ELSE EvaluateExpression(node.kids[2], context, run)
      next == PerIteration(node, context)
  IN Then(test, LAMBDA v, tested :
    IF ~toBoolean(v) THEN Done(Normal(value), tested)
    ELSE AfterBody(EvaluateStatement(node.kids[4], context, {}, tested), value, labelSet, Done,
           LAMBDA w, r : Then(EvaluateExpression(node.kids[3], next, r),
                              LAMBDA ignored, updated : For(node, next, labelSet, w, updated))))
ForStatement(node, context, labelSet, run) ==
  LET inner == Inner(node, context)
      head == IF IsDeclaration(node.kids[1]) THEN EvaluateStatement(node.kids[1], inner, {}, run)
              ELSE EvaluateExpression(node.kids[1], inner, run)
  IN Then(head, LAMBDA ignored, r : For(node, PerIteration(node, inner), labelSet, EMPTY, r))

\* What the head of for-in or for-of declares is not to be read while the right
\* side is evaluated, and is bound anew in each iteration.
RightContext(node, context) ==
  IF node.name = "" THEN context ELSE Append(context, Env("tdz", 0))
IterationContext(node, record, context) ==
  IF node.name = "" THEN context ELSE Append(context, Env(node.name, record.steps))

\* A loop that is left closes the iterator; one that fails or ends does not.
Iterate(node, record, context, labelSet, value, run) ==
  LET stepped == See(run, StepEvents(record, <<>>))
      next    == Stepped(record)
      inner   == IterationContext(node, next, context)
      Close(completion, r) == Done(Closed(next, completion), See(r, CloseEvents(next)))
      target  == ApplyPattern(PatternOf(node.kids[2]), StepValue(record), Mode(node.kids[2]), <<>>, inner, stepped)
      body    == IF IsNormal(target) THEN EvaluateStatement(node.kids[3], inner, {}, target.run) ELSE target
  IN CASE Outcome(record) = "done"   -> Done(Normal(value), stepped)
       [] Outcome(record) = "failed" -> Done(StepError, stepped)
       [] Outcome(record) = "more"   ->
            AfterBody(body, value, labelSet, Close,
                      LAMBDA v, r : Iterate(node, next, context, labelSet, v, r))
ForInOf(node, context, labelSet, run) ==
  Then(EvaluateExpression(node.kids[1], RightContext(node, context), run), LAMBDA v, r :
    IF node.type = "for-in" /\ IsMissing(v) THEN Done(Normal(EMPTY), r)
    ELSE Then(IF node.type = "for-in" THEN Enumerate(v, r) ELSE GetIterator(v, r),
              LAMBDA of, s : Iterate(node, Record(of), context, labelSet, EMPTY, s)))

-----------------------------------------------------------------------------
\* A case is a node of its test, or None, and its statements.
DefaultIndex(node) ==
  LET cases == Tail(node.kids)
      defaults == {i \in 1..Len(cases) : cases[i].kids[1] = None}
  IN IF defaults = {} THEN 0 ELSE CHOOSE i \in defaults : TRUE

\* The first of cases i .. end whose test equals the value, or none.
RECURSIVE Matching(_, _, _, _, _, _)
Matching(cases, i, end, value, context, run) ==
  IF i > end THEN DoneWith(<<>>, run)
  ELSE Then(EvaluateExpression(cases[i].kids[1], context, run), LAMBDA test, r :
         IF test = value THEN DoneWith(<<i>>, r) ELSE Matching(cases, i + 1, end, value, context, r))

RunSwitchCasesFrom(cases, i, context, labelSet, run) ==
  LET statements == FlattenSeq([j \in 1..(Len(cases) - i + 1) |-> Tail(cases[i + j - 1].kids)])
      result == StatementList(statements, 1, context, EMPTY, run)
      c == result.completion
  IN IF c.type = "break" /\ Owns(labelSet, c) THEN Done(Normal(c.value), result.run) ELSE result

Switch(node, context, labelSet, run) ==
  LET cases == Tail(node.kids)
      default == DefaultIndex(node)
      inner == Inner(node, context)
      RunFrom(i, r) == RunSwitchCasesFrom(cases, i, inner, labelSet, r)
  IN Then(EvaluateExpression(node.kids[1], context, run), LAMBDA value, r :
     ThenParts(Matching(cases, 1, IF default = 0 THEN Len(cases) ELSE default - 1, value, inner, r), LAMBDA i, s :
       IF i # <<>> THEN RunFrom(i[1], s)
       ELSE IF default = 0 THEN Done(Normal(EMPTY), s)
       ELSE ThenParts(Matching(cases, default + 1, Len(cases), value, inner, s),
                      LAMBDA j, t : RunFrom(IF j = <<>> THEN default ELSE j[1], t))))

Labelled(node, context, labelSet, run) ==
  LET result == EvaluateStatement(node.kids[1], context, labelSet \cup {node.name}, run)
      c == result.completion
  IN IF c.type = "break" /\ c.target = node.name THEN Done(Normal(c.value), result.run) ELSE result

Try(node, context, run) ==
  LET try == Block(node.kids[1], context, run)
      caught == IF try.completion.type = "throw" /\ node.kids[2] # None
                  THEN Block(node.kids[2], Append(context, Env("catch", 0)), try.run)
                  ELSE try
      final == Block(node.kids[3], context, caught.run)
  IN IF caught.completion.type = "suspend" \/ node.kids[3] = None THEN caught
     ELSE IF IsNormal(final) THEN Done(caught.completion, final.run) ELSE final

StatementOf(node, context, labelSet, run) ==
  LET First(Rest(_, _)) == Then(EvaluateExpression(node.kids[1], context, run), Rest) IN
  CASE node.type = "expression" -> EvaluateExpression(node.kids[1], context, run)
    [] node.type = "empty"      -> Done(Normal(EMPTY), run)
    [] node.type = "block"      -> Block(node, context, run)
    [] IsDeclaration(node)      -> Declare(node, node.kids, 1, context, run)
    [] node.type = "class-declaration" ->
         First(LAMBDA class, r : Then(Initialize(node.name, class, r),
                                      LAMBDA ignored, s : Done(Normal(EMPTY), s)))
    [] node.type = "if"         ->
         First(LAMBDA test, r :
           LET branch == node.kids[IF toBoolean(test) THEN 2 ELSE 3] IN
           IF branch = None THEN Done(Normal(EMPTY), r) ELSE EvaluateStatement(branch, context, {}, r))
    [] node.type = "while"      -> While(node, context, labelSet, EMPTY, run)
    [] node.type = "do-while"   -> DoWhile(node, context, labelSet, EMPTY, run)
    [] node.type = "for"        -> ForStatement(node, context, labelSet, run)
    [] node.type \in {"for-in", "for-of"} -> ForInOf(node, context, labelSet, run)
    [] node.type \in {"break", "continue"} -> Done(Completion(node.type, EMPTY, node.name), run)
    [] node.type \in {"throw", "return"} ->
         First(LAMBDA v, r : Done(Completion(node.type, v, ""), r))
    [] node.type = "try"        -> Try(node, context, run)
    [] node.type = "switch"     -> Switch(node, context, labelSet, run)
    [] node.type = "labelled"   -> Labelled(node, context, labelSet, run)
    [] node.type = "with"       ->
         First(LAMBDA v, r :
           IF IsMissing(v) THEN Done(TypeError, r)
           ELSE EvaluateStatement(node.kids[2], Append(context, Env("with", 0)), {}, r))

Evaluate(what, node, context, more, run) ==
  CASE what = "expression" -> ExpressionOf(node, context, run)
    [] what = "reference"  -> ReferenceOf(node, context, run)
    [] what = "statement"  -> StatementOf(node, context, more, run)
    [] what = "pattern"    -> PatternOn(node, more.value, more.mode, more.prepared, context, run)
=============================================================================
