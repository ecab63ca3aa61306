--------------------------- MODULE ExpressionFrames ---------------------------
(***************************************************************************)
(* The frames of a generator for destructuring patterns and expressions    *)
(* (src/src/evaluator/generator-expression-frames.js).  YieldStep are the  *)
(* dispatches that suspend the generator and keep their frame.             *)
(***************************************************************************)
EXTENDS StatementFrames

-----------------------------------------------------------------------------
(* Patterns finish with the value undefined, targets with what they        *)
(* prepare.                                                                *)
Finish(value) == Pop(ValueResult(value), <<>>)
PushPattern(top, pattern, value, prepared, seen) ==
  Push(top, PatternFrame(pattern, value, top.mode, top.context, prepared), seen)
PushTarget(top, target, seen) == Push([top EXCEPT !.phase = "target"], TargetFrame(target, top.mode, top.context), seen)

\* A target and what it prepares; the prepared target is a value.
FinishTarget(parts, seen) == Pop([ValueResult(undefined) EXCEPT !.parts = parts], seen)
FinishMember(base, property) == FinishTarget(<<"target", base, property>>, <<>>)
NextTargetProperty(top) ==
  \/ top.node.name # "" /\ FinishMember(top.value, top.node.name)
  \/ top.node.name = "" /\ PushExpression([top EXCEPT !.phase = "property"], top.node.kids[2], top.context)
DispatchTarget ==
  /\ On("target")
  /\ \/ Phase = "start" /\ Top.mode # "assignment" /\ FinishTarget(<<Top.mode, Top.node.name>>, <<>>)
     \/ Phase = "start" /\ Top.mode = "assignment" /\ Top.node.type = "identifier"
        /\ Push(InPhase("identifier"), ReferenceFrame(Top.node, Top.context), <<>>)
     \/ Phase = "start" /\ Top.node.type = "member" /\ Kid(1).type = "super"
        /\ NextTargetProperty([Top EXCEPT !.value = "super"])
     \/ Phase = "start" /\ Top.node.type = "member" /\ Kid(1).type # "super"
        /\ PushExpression(InPhase("object"), Kid(1), Top.context)
     \/ Phase # "start" /\ ~IsThere /\ PassOn
     \/ Phase = "identifier" /\ IsThere /\ FinishTarget(<<"reference">> \o output.parts, <<>>)
     \/ Phase = "object" /\ IsThere /\ NextTargetProperty([Top EXCEPT !.value = Taken.value])
     \/ Phase = "property" /\ IsThere /\ FinishMember(Top.value, Taken.value)

DispatchLeaf ==
  /\ On("leaf")
  /\ \/ Phase = "start" /\ Top.parts = <<>> /\ PushTarget(Top, Top.node, <<>>)
     \/ Phase = "start" /\ Top.parts # <<>> /\ PopOperation(ApplyTarget(Top.parts, Top.value, Fresh))
     \/ Phase = "target" /\ ~IsThere /\ PassOn
     \/ Phase = "target" /\ IsThere /\ PopOperation(ApplyTarget(output.parts, Top.value, Fresh))

\* The default of a value that is there is not evaluated.
BeginDefault(top) ==
  \/ top.value = undefined /\ PushExpression([top EXCEPT !.phase = "default"], Kid(2), top.context)
  \/ top.value # undefined /\ PushPattern([top EXCEPT !.phase = "pattern"], Kid(1), top.value, top.parts, <<>>)
DispatchDefault ==
  LET target == simplePatternTarget(Kid(1)) IN
  /\ On("default")
  /\ \/ Phase = "start" /\ Top.parts = <<>> /\ target # None /\ PushTarget(Top, target, <<>>)
     \/ Phase = "start" /\ (Top.parts # <<>> \/ target = None) /\ BeginDefault(Top)
     \/ Phase # "start" /\ ~IsThere /\ PassOn
     \/ Phase = "target" /\ IsThere /\ BeginDefault([Top EXCEPT !.parts = output.parts])
     \/ Phase = "default" /\ IsThere
        /\ PushPattern([InPhase("pattern") EXCEPT !.value = Taken.value], Kid(1), Taken.value, Top.parts, <<>>)
     \/ Phase = "pattern" /\ IsThere /\ Finish(undefined)

-----------------------------------------------------------------------------
\* The property of an object pattern: its key, its target, its value, its pattern.
Read(top, seen) ==
  LET read == GetValue(<<top.value, top.key>>, Run(seen, <<>>)) IN
  \/ ~IsNormal(read) /\ PopOperation(read)
  \/ IsNormal(read)
     /\ PushPattern([top EXCEPT !.phase = "pattern"], top.node.kids[2], ValueOf(read), top.parts, read.run.log)
PrepareProperty(top) ==
  LET target == simplePatternTarget(top.node.kids[2]) IN
  \/ target # None /\ PushTarget(top, target, <<>>)
  \/ target = None /\ Read(top, <<>>)
DispatchPatternProperty ==
  LET key == toPropertyKey(Taken.value, Fresh) IN
  /\ On("pattern-property")
  /\ \/ Phase = "start" /\ Top.node.name = "" /\ PushExpression(InPhase("key"), Kid(1), Top.context)
     \/ Phase = "start" /\ Top.node.name # "" /\ PrepareProperty([Top EXCEPT !.key = Top.node.name])
     \/ Phase # "start" /\ ~IsThere /\ PassOn
     \/ Phase = "key" /\ IsThere /\ ~IsNormal(key) /\ PopOperation(key)
     \/ Phase = "key" /\ IsThere /\ IsNormal(key) /\ PrepareProperty([Top EXCEPT !.key = ValueOf(key)])
     \/ Phase = "target" /\ IsThere /\ Read([Top EXCEPT !.parts = output.parts], <<>>)
     \/ Phase = "pattern" /\ IsThere /\ Finish(undefined)

NextPatternProperty(top) ==
  \/ top.index > Len(top.node.kids) /\ Finish(undefined)
  \/ /\ top.index <= Len(top.node.kids)
     /\ Push([top EXCEPT !.phase = "property"],
             [PatternFrame(top.node.kids[top.index], top.value, top.mode, top.context, <<>>)
                EXCEPT !.kind = "pattern-property"], <<>>)
DispatchObjectPattern ==
  /\ On("object-pattern")
  /\ \/ Phase = "start" /\ IsMissing(Top.value) /\ PopCompletion(TypeError)
     \/ Phase = "start" /\ ~IsMissing(Top.value) /\ NextPatternProperty(Top)
     \/ Phase = "property" /\ ~IsThere /\ PassOn
     \/ Phase = "property" /\ IsThere /\ NextPatternProperty([Top EXCEPT !.index = @ + 1])

-----------------------------------------------------------------------------
\* The elements of an array pattern that are holes are stepped over.
RECURSIVE StepOver(_, _)
StepOver(top, run) ==
  IF top.index > Len(top.node.kids) \/ top.node.kids[top.index] # None THEN [top |-> top, failed |-> FALSE, run |-> run]
  ELSE IF top.done THEN StepOver([top EXCEPT !.index = @ + 1], run)
  ELSE LET stepped == See(run, StepEvents(top.record, <<>>))
           next == [top EXCEPT !.index = @ + 1, !.record = Stepped(@), !.done = Outcome(top.record) = "done"]
       IN IF Outcome(top.record) = "failed" THEN [top |-> top, failed |-> TRUE, run |-> stepped]
          ELSE StepOver(next, stepped)

CloseAbrupt(top, completion, seen) ==
  \/ top.done /\ Pop(CompletionResult(completion), seen)
  \/ ~top.done /\ Pop(CompletionResult(Closed(top.record, completion)), seen \o CloseEvents(top.record))
\* closePatternIterator() at the end gives no value but may throw.
FinishArrayPattern(top, seen) ==
  LET closed == Closed(top.record, Normal(undefined)) IN
  \/ top.done /\ Pop(ValueResult(undefined), seen)
  \/ ~top.done /\ closed.type = "normal" /\ Pop(ValueResult(undefined), seen \o CloseEvents(top.record))
  \/ ~top.done /\ closed.type # "normal" /\ Pop(CompletionResult(closed), seen \o CloseEvents(top.record))

CollectRest(top, element, seen) ==
  LET rest == IF top.done THEN DoneWith(<<>>, Run(seen, <<>>)) ELSE Collect(top.record, Run(seen, <<>>))
      array == Made("array", rest.parts, rest.run)
      next == [top EXCEPT !.done = TRUE, !.phase = "pattern"]
  IN \/ ~IsNormal(rest) /\ PopOperation(rest)
     \/ IsNormal(rest)
        /\ PushPattern(next, element.kids[1], ValueOf(array), top.parts, array.run.log)
StepElement(top, element, seen) ==
  LET outcome == Outcome(top.record)
      stepped == seen \o StepEvents(top.record, <<>>)
      next    == [top EXCEPT !.phase = "pattern", !.record = Stepped(@), !.done = outcome = "done"]
  IN \/ top.done /\ PushPattern([top EXCEPT !.phase = "pattern"], element, undefined, top.parts, seen)
     \/ ~top.done /\ outcome = "failed" /\ Pop(CompletionResult(StepError), stepped)
     \/ ~top.done /\ outcome = "done" /\ PushPattern(next, element, undefined, top.parts, stepped)
     \/ ~top.done /\ outcome = "more" /\ PushPattern(next, element, StepValue(top.record), top.parts, stepped)

\* A target is prepared before the step that gives its value.
NextElement(over) ==
  LET top == over.top
      seen == over.run.log
      element == top.node.kids[top.index]
      target == simplePatternTarget(element)
  IN \/ over.failed /\ Pop(CompletionResult(StepError), seen)
     \/ ~over.failed /\ top.index > Len(top.node.kids) /\ FinishArrayPattern(top, seen)
     \/ /\ ~over.failed /\ top.index <= Len(top.node.kids)
        /\ \/ top.parts = <<>> /\ target # None /\ PushTarget(top, target, seen)
           \/ (top.parts # <<>> \/ target = None) /\ element.type = "rest" /\ CollectRest(top, element, seen)
           \/ (top.parts # <<>> \/ target = None) /\ element.type # "rest" /\ StepElement(top, element, seen)
DispatchArrayPattern ==
  LET iterator == GetIterator(Top.value, Fresh) IN
  /\ On("array-pattern")
  /\ \/ Phase = "start" /\ ~IsNormal(iterator) /\ PopOperation(iterator)
     \/ Phase = "start" /\ IsNormal(iterator)
        /\ NextElement(StepOver([Top EXCEPT !.record = Record(Top.value)], iterator.run))
     \/ Phase \in {"target", "pattern"} /\ ~IsThere /\ CloseAbrupt(Top, Taken, <<>>)
     \/ Phase = "target" /\ IsThere /\ NextElement(StepOver([Top EXCEPT !.parts = output.parts], Fresh))
     \/ Phase = "pattern" /\ IsThere
        /\ NextElement(StepOver([Top EXCEPT !.index = @ + 1, !.parts = <<>>], Fresh))

PatternStep ==
  \/ DispatchTarget \/ DispatchLeaf \/ DispatchDefault \/ DispatchPatternProperty
  \/ DispatchObjectPattern \/ DispatchArrayPattern

-----------------------------------------------------------------------------
(* Expressions.                                                            *)
PushReference(top, node) == Push(top, ReferenceFrame(node, top.context), <<>>)
PushValue(top, node)     == PushExpression(top, node, top.context)

\* An expression without a yield is left to the recursive evaluator.
DispatchSyncExpression ==
  /\ On("sync-expression")
  /\ \/ Top.mode = "reference" /\ PopOperation(EvaluateReference(Top.node, Top.context, Fresh))
     \/ Top.mode # "reference" /\ PopOperation(EvaluateExpression(Top.node, Top.context, Fresh))

-----------------------------------------------------------------------------
Suspend(top, kind, value, seen) ==
  /\ frames' = Append(Front(frames), top)
  /\ log' = log \o Append(seen, Event(kind, value, <<>>))
  /\ output' = NoOutput /\ input' = NoCompletion
SuspendAtYield ==
  /\ On("yield")
  /\ \/ Phase = "start" /\ Kid(1) = None /\ Suspend(InPhase("suspended"), "yield", undefined, <<>>)
     \/ Phase = "argument" /\ IsThere /\ Suspend(InPhase("suspended"), "yield", Taken.value, <<>>)

\* takeGeneratorInput(): the frame takes the completion it is resumed with.
Resumed(result, seen) ==
  /\ frames' = Front(frames)
  /\ output' = result /\ log' = log \o seen /\ input' = NoCompletion
DispatchYield ==
  /\ On("yield")
  /\ \/ Phase = "start" /\ Kid(1) # None /\ PushValue(InPhase("argument"), Kid(1))
     \/ Phase = "argument" /\ ~IsThere /\ PassOn
     \/ Phase = "suspended" /\ input.type = "normal" /\ Resumed(ValueResult(input.value), <<>>)
     \/ Phase = "suspended" /\ input.type # "normal" /\ Resumed(CompletionResult(input), <<>>)

\* callDelegatedIteratorMethod(): what the method of an iterator answers, and the
\* error of one that fails.
Answer(record, method) ==
  CASE method = "next"   -> Outcome(record)
    [] method = "throw"  ->
         [continues |-> "more", ends |-> "done", throws |-> "failed"][Iterables[record.of].throw]
    [] method = "return" ->
         [refuses |-> "more", object |-> "done", throws |-> "failed", primitive |-> "failed"][Iterables[record.of].close]
AnswerError(record, method) ==
  IF method # "return" THEN StepError
  ELSE IF Iterables[record.of].close = "throws" THEN Throw("close failed") ELSE TypeError
Called(record, method, sent) ==
  <<Event(method, record.of, <<sent>>), Event(Answer(record, method), record.of, <<>>)>>
\* inspectDelegatedResult(): a result that is not done is yielded as it is.
InspectDelegated(top, method, sent, seen) ==
  LET record == top.record
      next   == [top EXCEPT !.phase = "suspended",
                            !.record = IF method = "next" THEN Stepped(@) ELSE @]
  IN /\ Answer(record, method) = "more"
     /\ Suspend(next, "yield-result", StepValue(record), seen \o Called(record, method, sent))
FinishDelegated(record, method, sent, Leave(_, _)) ==
  LET answer == Answer(record, method)
      called == Called(record, method, sent)
  IN \/ answer = "failed" /\ Leave(CompletionResult(AnswerError(record, method)), called)
     \/ answer = "done" /\ method # "return" /\ Leave(ValueResult(LastValue), called)
     \/ answer = "done" /\ method = "return" /\ Leave(CompletionResult(Return(LastValue)), called)

\* The method a completion is sent on with, if the iterator has it.
MethodOf(completion) == IF completion.type = "normal" THEN "next" ELSE completion.type
HasMethod(record, method) ==
  CASE method = "next"   -> TRUE
    [] method = "throw"  -> Iterables[record.of].throw # "none"
    [] method = "return" -> Iterables[record.of].close # "none"
Operand == GetIterator(Taken.value, Fresh)
Delegating == On("yield*")
SuspendAtDelegate ==
  LET method == MethodOf(input) IN
  /\ Delegating
  /\ \/ Phase = "operand" /\ IsThere /\ IsNormal(Operand)
        /\ InspectDelegated([Top EXCEPT !.record = Record(Taken.value)], "next", undefined, Operand.run.log)
     \/ Phase = "suspended" /\ HasMethod(Top.record, method)
        /\ InspectDelegated(Top, method, input.value, <<>>)
DispatchYieldDelegate ==
  LET method == MethodOf(input)
      closed == Closed(Top.record, Normal(undefined))
  IN
  /\ Delegating
  /\ \/ Phase = "start" /\ PushValue(InPhase("operand"), Kid(1))
     \/ Phase = "operand" /\ ~IsThere /\ PassOn
     \/ Phase = "operand" /\ IsThere /\ ~IsNormal(Operand) /\ PopOperation(Operand)
     \/ Phase = "operand" /\ IsThere /\ IsNormal(Operand)
        /\ FinishDelegated(Record(Taken.value), "next", undefined,
                           LAMBDA result, seen : Pop(result, Operand.run.log \o seen))
     \/ Phase = "suspended" /\ HasMethod(Top.record, method)
        /\ FinishDelegated(Top.record, method, input.value, Resumed)
     \/ Phase = "suspended" /\ ~HasMethod(Top.record, method) /\ method = "throw"
        /\ Resumed(CompletionResult(IF closed.type = "normal" THEN TypeError ELSE closed), CloseEvents(Top.record))
     \/ Phase = "suspended" /\ ~HasMethod(Top.record, method) /\ method = "return"
        /\ Resumed(CompletionResult(input), CloseEvents(Top.record))

-----------------------------------------------------------------------------
DispatchBinary ==
  /\ On("binary")
  /\ \/ Phase = "start" /\ PushValue(InPhase("left"), Kid(1))
     \/ Phase # "start" /\ ~IsThere /\ PassOn
     \/ Phase = "left" /\ IsThere /\ PushValue([InPhase("right") EXCEPT !.value = Taken.value], Kid(2))
     \/ Phase = "right" /\ IsThere
        /\ PopOperation(ApplyBinaryOperator(Top.node.name, Top.value, Taken.value, Fresh))

DispatchLogical ==
  LET right == toBoolean(Taken.value) = (Top.node.name = "&&") IN
  /\ On("logical")
  /\ \/ Phase = "start" /\ PushValue(InPhase("left"), Kid(1))
     \/ Phase # "start" /\ ~IsThere /\ PassOn
     \/ Phase = "left" /\ IsThere /\ ~right /\ Finish(Taken.value)
     \/ Phase = "left" /\ IsThere /\ right /\ PushValue(InPhase("right"), Kid(2))
     \/ Phase = "right" /\ IsThere /\ Finish(Taken.value)

DispatchConditional ==
  /\ On("conditional")
  /\ \/ Phase = "start" /\ PushValue(InPhase("test"), Kid(1))
     \/ Phase # "start" /\ ~IsThere /\ PassOn
     \/ Phase = "test" /\ IsThere /\ PushValue(InPhase("branch"), Kid(IF toBoolean(Taken.value) THEN 2 ELSE 3))
     \/ Phase = "branch" /\ IsThere /\ Finish(Taken.value)

DispatchSequence ==
  /\ On("sequence")
  /\ \/ Phase = "start" /\ PushValue(InPhase("expression"), Kid(1))
     \/ Phase = "expression" /\ ~IsThere /\ PassOn
     \/ Phase = "expression" /\ IsThere /\ Top.index = Len(Top.node.kids) /\ Finish(Taken.value)
     \/ Phase = "expression" /\ IsThere /\ Top.index < Len(Top.node.kids)
        /\ PushValue([Top EXCEPT !.index = @ + 1], Kid(Top.index + 1))

\* finishMemberReference(): a reference, or what it refers to.
FinishMemberReference(base, property) ==
  LET member == MemberReference(base, property, Fresh) IN
  \/ (Top.mode = "reference" \/ ~IsNormal(member)) /\ PopOperation(member)
  \/ Top.mode # "reference" /\ IsNormal(member) /\ PopOperation(GetValue(member.parts, member.run))
DispatchMember ==
  /\ On("member")
  /\ \/ Phase = "start" /\ Kid(1).type = "super" /\ Top.node.name # "" /\ FinishMemberReference("super", Top.node.name)
     \/ Phase = "start" /\ Kid(1).type = "super" /\ Top.node.name = ""
        /\ PushValue([InPhase("property") EXCEPT !.value = "super"], Kid(2))
     \/ Phase = "start" /\ Kid(1).type # "super" /\ PushValue(InPhase("object"), Kid(1))
     \/ Phase # "start" /\ ~IsThere /\ PassOn
     \/ Phase = "object" /\ IsThere /\ Top.node.name # "" /\ FinishMemberReference(Taken.value, Top.node.name)
     \/ Phase = "object" /\ IsThere /\ Top.node.name = ""
        /\ PushValue([InPhase("property") EXCEPT !.value = Taken.value], Kid(2))
     \/ Phase = "property" /\ IsThere /\ FinishMemberReference(Top.value, Taken.value)

\* The reference is kept in `parts`, the old value of a compound assignment, and
\* the value a pattern is given, in `value`.
DispatchAssignment ==
  LET old == GetValue(output.parts, Fresh)
      new == IF Top.node.name = "=" THEN Done(Normal(Taken.value), Fresh)
             ELSE ApplyBinaryOperator(Top.node.name, Top.value, Taken.value, Fresh)
      referred == [InPhase("right") EXCEPT !.parts = output.parts]
  IN
  /\ On("assign")
  /\ \/ Phase = "start" /\ ~IsSimple(Kid(1)) /\ PushValue(InPhase("pattern-right"), Kid(2))
     \/ Phase = "start" /\ IsSimple(Kid(1)) /\ PushReference(InPhase("left"), Kid(1))
     \/ Phase # "start" /\ ~IsThere /\ PassOn
     \/ Phase = "pattern-right" /\ IsThere
        /\ Push([InPhase("pattern") EXCEPT !.value = Taken.value],
                PatternFrame(Kid(1), Taken.value, "assignment", Top.context, <<>>), <<>>)
     \/ Phase = "pattern" /\ IsThere /\ Finish(Top.value)
     \/ Phase = "left" /\ IsThere /\ Top.node.name = "=" /\ PushValue(referred, Kid(2))
     \/ Phase = "left" /\ IsThere /\ Top.node.name # "=" /\ ~IsNormal(old) /\ PopOperation(old)
     \/ Phase = "left" /\ IsThere /\ Top.node.name # "=" /\ IsNormal(old)
        /\ Push([referred EXCEPT !.value = ValueOf(old)], ExpressionFrame(Kid(2), Top.context), old.run.log)
     \/ Phase = "right" /\ IsThere
        /\ PopOperation(Then(new, LAMBDA value, run : PutValue(Top.parts, value, run)))

DispatchUnary ==
  /\ On("unary")
  /\ \/ Phase = "start" /\ WantsReference(Top.node.name) /\ PushReference(InPhase("argument"), Kid(1))
     \/ Phase = "start" /\ ~WantsReference(Top.node.name) /\ PushValue(InPhase("argument"), Kid(1))
     \/ Phase = "argument" /\ ~IsThere /\ PassOn
     \/ Phase = "argument" /\ IsThere
        /\ PopOperation(ApplyUnaryOperator(Top.node.name, Taken.value, output.parts, Fresh))

DispatchUpdate ==
  /\ On("update")
  /\ \/ Phase = "start" /\ PushReference(InPhase("argument"), Kid(1))
     \/ Phase = "argument" /\ ~IsThere /\ PassOn
     \/ Phase = "argument" /\ IsThere /\ PopOperation(ApplyUpdate(Top.node.name = "prefix", output.parts, Fresh))

-----------------------------------------------------------------------------
\* Calls, new, tagged and other templates and array literals go through a list of
\* operands, the `index`-th of which is next, and finish with what it gave, `args`.
Operands(node) == IF node.type \in {"call", "new", "tagged"} THEN Tail(node.kids) ELSE node.kids
FinishOperands(top, seen) ==
  LET run == Run(seen, <<>>) IN
  CASE top.kind = "template" -> PopOperation(Made("text", top.args, run))
    [] top.kind = "array"    -> PopOperation(Made("array", top.args, run))
    [] top.kind = "new"      -> PopOperation(Invoke("construct", top.value, top.value, top.args, run))
    [] top.kind = "tagged"   -> PopOperation(Invoke("call", top.value, ThisValue(top.parts), top.args, run))
    [] top.kind = "call" /\ ~IsDirectEval(Kid(1), top.parts) ->
         PopOperation(Invoke("call", top.value, ThisValue(top.parts), top.args, run))
    [] top.kind = "call" /\ IsDirectEval(Kid(1), top.parts) ->
         Pop(ValueResult("result"), Append(seen, Effect("eval", top.context)))
\* The holes of an array literal are passed over.
SkipHoles(top) ==
  LET operands == Operands(top.node)
      next == SelectInSubSeq(operands, top.index, Len(operands), LAMBDA operand : operand # None)
      stop == IF next = 0 THEN Len(operands) + 1 ELSE next
  IN [top EXCEPT !.index = stop, !.args = @ \o [i \in 1..(stop - top.index) |-> "hole"]]
NextOperand(start, seen) ==
  LET top      == SkipHoles(start)
      operands == Operands(top.node)
      operand  == operands[top.index]
      node     == IF operand.type = "spread" THEN operand.kids[1] ELSE operand
  IN \/ top.index > Len(operands) /\ FinishOperands(top, seen)
     \/ top.index <= Len(operands)
        /\ Push([top EXCEPT !.phase = "operand"], ExpressionFrame(node, top.context), seen)

\* A spread gives all its elements, a substitution of a template its text.
Given(operand, value) ==
  CASE operand.type = "spread" -> IterableToList(value, Fresh)
    [] Top.kind = "template"   -> ThenParts(toText(value, Fresh), LAMBDA none, run : DoneWith(<<value>>, run))
    [] OTHER                   -> DoneWith(<<value>>, Fresh)
TakeOperand ==
  LET given == Given(Operands(Top.node)[Top.index], Taken.value) IN
  /\ Phase = "operand"
  /\ \/ ~IsThere /\ PassOn
     \/ IsThere /\ ~IsNormal(given) /\ PopOperation(given)
     \/ IsThere /\ IsNormal(given)
        /\ NextOperand([Top EXCEPT !.args = @ \o given.parts, !.index = @ + 1], given.run.log)

\* The callee is read, and its receiver known, before the arguments.
DispatchCallOrTag ==
  LET first  == IF Top.kind = "tagged" THEN <<"strings">> ELSE <<>>
      callee == IF output.parts = <<>> THEN Done(Taken, Fresh) ELSE GetValue(output.parts, Fresh)
  IN
  /\ frames # <<>> /\ Top.kind \in {"call", "tagged"}
  /\ \/ Phase = "start" /\ PushReference(InPhase("callee"), Kid(1))
     \/ Phase = "callee" /\ ~IsThere /\ PassOn
     \/ Phase = "callee" /\ IsThere /\ ~IsNormal(callee) /\ PopOperation(callee)
     \/ Phase = "callee" /\ IsThere /\ IsNormal(callee)
        /\ NextOperand([Top EXCEPT !.value = ValueOf(callee), !.parts = output.parts, !.args = first], callee.run.log)
     \/ TakeOperand
DispatchNew ==
  /\ On("new")
  /\ \/ Phase = "start" /\ PushValue(InPhase("callee"), Kid(1))
     \/ Phase = "callee" /\ ~IsThere /\ PassOn
     \/ Phase = "callee" /\ IsThere /\ NextOperand([Top EXCEPT !.value = Taken.value], <<>>)
     \/ TakeOperand
DispatchTemplateOrArray ==
  /\ frames # <<>> /\ Top.kind \in {"template", "array"}
  /\ \/ Phase = "start" /\ NextOperand(Top, <<>>)
     \/ TakeOperand

-----------------------------------------------------------------------------
\* The members of literals and classes that nothing is to be evaluated for are
\* defined on the way, up to the next that has a value or a computed key.
NextMember(members, i, Stops(_)) ==
  LET next == SelectInSubSeq(members, i, Len(members), Stops) IN IF next = 0 THEN Len(members) + 1 ELSE next

NextProperty(top, seen) ==
  LET properties == top.node.kids
      i    == NextMember(properties, top.index, LAMBDA p : p.name = "" \/ p.kids[2] # None)
      run  == FoldLeft(LAMBDA r, p : DefineProperty(p, p.name, "method", r).run, Run(seen, <<>>),
                       SubSeq(properties, top.index, i - 1))
      next == [top EXCEPT !.index = i]
  IN \/ i > Len(properties) /\ Pop(ValueResult("object"), run.log)
     \/ i <= Len(properties) /\ properties[i].name = ""
        /\ Push([next EXCEPT !.phase = "key"], ExpressionFrame(properties[i].kids[1], top.context), run.log)
     \/ i <= Len(properties) /\ properties[i].name # ""
        /\ Push([next EXCEPT !.phase = "value", !.key = properties[i].name],
                ExpressionFrame(properties[i].kids[2], top.context), run.log)
DispatchObjectLiteral ==
  LET property == Kid(Top.index)
      key      == toPropertyKey(Taken.value, Fresh)
      Define(k, value) ==
        NextProperty([Top EXCEPT !.index = @ + 1], DefineProperty(property, k, value, Fresh).run.log)
  IN
  /\ On("object")
  /\ \/ Phase = "start" /\ NextProperty(Top, <<>>)
     \/ Phase # "start" /\ ~IsThere /\ PassOn
     \/ Phase = "key" /\ IsThere /\ ~IsNormal(key) /\ PopOperation(key)
     \/ Phase = "key" /\ IsThere /\ IsNormal(key) /\ property.kids[2] = None /\ Define(ValueOf(key), "method")
     \/ Phase = "key" /\ IsThere /\ IsNormal(key) /\ property.kids[2] # None
        /\ PushValue([InPhase("value") EXCEPT !.key = ValueOf(key)], property.kids[2])
     \/ Phase = "value" /\ IsThere /\ Define(Top.key, Taken.value)

NextElementOf(top, seen) ==
  LET elements == Tail(top.node.kids)
      i        == NextMember(elements, top.index, LAMBDA e : e.name = "")
      defined  == FoldLeft(LAMBDA d, e : Then(d, LAMBDA ignored, run : DefineElement(e, e.name, run)),
                           Done(Normal(undefined), Run(seen, <<>>)), SubSeq(elements, top.index, i - 1))
  IN \/ ~IsNormal(defined) /\ PopOperation(defined)
     \/ IsNormal(defined) /\ i > Len(elements) /\ Pop(ValueResult("class"), defined.run.log)
     \/ IsNormal(defined) /\ i <= Len(elements)
        /\ Push([top EXCEPT !.phase = "key", !.index = i],
                ExpressionFrame(elements[i].kids[1], top.context), defined.run.log)
DispatchClassDefinition ==
  LET inside  == [Top EXCEPT !.context = Inner(Top.node, @)]
      applied == ApplyHeritage(Top.node, Taken.value, Fresh)
      element == Kid(Top.index + 1)
      defined == Then(toPropertyKey(Taken.value, Fresh), LAMBDA key, run : DefineElement(element, key, run))
  IN
  /\ On("class")
  /\ \/ Phase = "start" /\ Kid(1) = None /\ NextElementOf(inside, <<>>)
     \/ Phase = "start" /\ Kid(1) # None /\ PushValue([inside EXCEPT !.phase = "heritage"], Kid(1))
     \/ Phase # "start" /\ ~IsThere /\ PassOn
     \/ Phase = "heritage" /\ IsThere /\ ~IsNormal(applied) /\ PopOperation(applied)
     \/ Phase = "heritage" /\ IsThere /\ IsNormal(applied) /\ NextElementOf(Top, applied.run.log)
     \/ Phase = "key" /\ IsThere /\ ~IsNormal(defined) /\ PopOperation(defined)
     \/ Phase = "key" /\ IsThere /\ IsNormal(defined)
        /\ NextElementOf([Top EXCEPT !.index = @ + 1], defined.run.log)

YieldStep == SuspendAtYield \/ SuspendAtDelegate
ExpressionStep ==
  \/ DispatchSyncExpression \/ DispatchYield \/ DispatchYieldDelegate \/ DispatchBinary
  \/ DispatchLogical \/ DispatchConditional \/ DispatchSequence \/ DispatchMember
  \/ DispatchAssignment \/ DispatchUnary \/ DispatchUpdate \/ DispatchCallOrTag
  \/ DispatchNew \/ DispatchTemplateOrArray \/ DispatchObjectLiteral \/ DispatchClassDefinition
================================================================================
