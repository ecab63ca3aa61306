--------------------------- MODULE StatementFrames ---------------------------
(***************************************************************************)
(* The frames of a generator for statements                                *)
(* (src/src/evaluator/generator-statement-frames.js) and the loop that     *)
(* dispatches them (generator-machine.js).  One action is one dispatch of  *)
(* the frame on top: it pushes a frame for a child, or pops with a result. *)
(***************************************************************************)
EXTENDS Evaluator

VARIABLES
  frames,   \* GeneratorExecution.frames, innermost last
  input,    \* the completion resumed with, until a yield takes it
  output,   \* the result of the frame popped last, until its parent takes it
  log       \* what guest code has seen

NoCompletion == Completion("none", undefined, "")
Result(type, completion, parts) == [type |-> type, completion |-> completion, parts |-> parts]
NoOutput     == Result("none", NoCompletion, <<>>)
ValueResult(value) == Result("value", Normal(value), <<>>)
CompletionResult(completion) == Result("completion", completion, <<>>)

\* captureGeneratorOperation(): what an operation gives its frame.
Capture(done) ==
  IF ~IsNormal(done) THEN CompletionResult(done.completion)
  ELSE IF done.parts # <<>> THEN Result("reference", done.completion, done.parts)
  ELSE ValueResult(ValueOf(done))

\* `index` counts children done, `held` is a completion kept for later, `parts` a
\* reference or a prepared target; the rest is named as in the code.
Frame(kind, node, context) ==
  [kind |-> kind, node |-> node, context |-> context, mode |-> "value", phase |-> "start",
   labelSet |-> {}, index |-> 1, value |-> EMPTY, held |-> NoCompletion, record |-> NoRecord,
   done |-> FALSE, afterDefault |-> FALSE, key |-> undefined, parts |-> <<>>, args |-> <<>>]

StatementFrame(node, context, labelSet) ==
  [Frame(IF node.type = "empty" \/ node.yields THEN node.type ELSE "sync-statement", node, context)
     EXCEPT !.labelSet = labelSet]
ExpressionFrame(node, context) ==
  Frame(IF node.yields THEN node.type ELSE "sync-expression", node, context)
ReferenceFrame(node, context) == [ExpressionFrame(node, context) EXCEPT !.mode = "reference"]
StatementListFrame(statements, context) ==
  Frame("statement-list", Node("statements", "", statements), context)
PatternFrame(pattern, value, mode, context, prepared) ==
  [Frame(IF IsSimple(pattern) THEN "leaf" ELSE pattern.type, pattern, context)
     EXCEPT !.mode = mode, !.value = value, !.parts = prepared]
TargetFrame(target, mode, context) == [Frame("target", target, context) EXCEPT !.mode = mode]

Top == Last(frames)
On(kind) == frames # <<>> /\ Top.kind = kind
Phase  == Top.phase
Kid(i) == Top.node.kids[i]
Taken   == output.completion
IsThere == output.type \in {"value", "reference"} \/ Taken.type = "normal"
InPhase(phase) == [Top EXCEPT !.phase = phase]

\* What a dispatch does: `seen` are the events on the way.
Push(top, child, seen) ==
  /\ frames' = Append(Append(Front(frames), top), child)
  /\ output' = NoOutput /\ log' = log \o seen /\ UNCHANGED input
Pop(result, seen) ==
  /\ frames' = Front(frames)
  /\ output' = result /\ log' = log \o seen /\ UNCHANGED input
PopCompletion(completion) == Pop(CompletionResult(completion), <<>>)
PopOperation(done)        == Pop(Capture(done), done.run.log)
PassOn                    == Pop(output, <<>>)

PushExpression(top, node, context) == Push(top, ExpressionFrame(node, context), <<>>)
PushStatement(top, node, context)  == Push(top, StatementFrame(node, context, {}), <<>>)

-----------------------------------------------------------------------------
DispatchStatementList ==
  LET updated == IF Phase = "statement" THEN UpdateEmpty(Taken, Top.value) ELSE Normal(EMPTY)
      i == IF Phase = "statement" THEN Top.index + 1 ELSE Top.index
  IN /\ On("statement-list")
     /\ \/ /\ updated.type # "normal" \/ i > Len(Top.node.kids)
           /\ PopCompletion(updated)
        \/ /\ updated.type = "normal" /\ i <= Len(Top.node.kids)
           /\ PushStatement([InPhase("statement") EXCEPT !.index = i, !.value = updated.value],
                            Kid(i), Top.context)

\* A statement without a yield is left to the recursive evaluator.
DispatchSyncStatement ==
  LET result == EvaluateStatement(Top.node, Top.context, Top.labelSet, Fresh) IN
  /\ On("sync-statement")
  /\ Pop(CompletionResult(result.completion), result.run.log)

DispatchBlock ==
  /\ On("block")
  /\ \/ /\ Phase = "start"
        /\ Push(InPhase("body"), StatementListFrame(Top.node.kids, Inner(Top.node, Top.context)), <<>>)
     \/ Phase = "body" /\ PassOn

DispatchEmpty == On("empty") /\ PopCompletion(Normal(EMPTY))

DispatchIf ==
  LET branch == Kid(IF toBoolean(Taken.value) THEN 2 ELSE 3) IN
  /\ On("if")
  /\ \/ Phase = "start" /\ PushExpression(InPhase("test-result"), Kid(1), Top.context)
     \/ Phase = "test-result" /\ ~IsThere /\ PassOn
     \/ Phase = "test-result" /\ IsThere /\ branch = None /\ PopCompletion(Normal(EMPTY))
     \/ Phase = "test-result" /\ IsThere /\ branch # None /\ PushStatement(InPhase("branch"), branch, Top.context)
     \/ Phase = "branch" /\ PassOn

-----------------------------------------------------------------------------
\* A loop whose body has run: what it becomes, and what follows.
Updated == UpdateEmpty(Taken, Top.value)
Follows == LoopAction(Updated, Top.labelSet)
LeaveLoopOnBreak == Follows = "break" /\ PopCompletion(Normal(Updated.value))
LeaveLoop ==
  \/ Follows = "break" /\ PopCompletion(Normal(Updated.value))
  \/ Follows = "propagate" /\ PopCompletion(Updated)
Kept(phase) == [InPhase(phase) EXCEPT !.value = Updated.value]

DispatchWhile ==
  /\ On("while")
  /\ \/ Phase = "start" /\ PushExpression(InPhase("test-result"), Kid(1), Top.context)
     \/ Phase = "test-result" /\ ~IsThere /\ PassOn
     \/ Phase = "test-result" /\ IsThere /\ ~toBoolean(Taken.value) /\ PopCompletion(Normal(Top.value))
     \/ Phase = "test-result" /\ IsThere /\ toBoolean(Taken.value)
        /\ PushStatement(InPhase("body"), Kid(2), Top.context)
     \/ Phase = "body" /\ LeaveLoop
     \/ Phase = "body" /\ Follows = "continue" /\ PushExpression(Kept("test-result"), Kid(1), Top.context)

DispatchDoWhile ==
  /\ On("do-while")
  /\ \/ Phase = "start" /\ PushStatement(InPhase("body-result"), Kid(1), Top.context)
     \/ Phase = "body-result" /\ LeaveLoop
     \/ Phase = "body-result" /\ Follows = "continue" /\ PushExpression(Kept("test-result"), Kid(2), Top.context)
     \/ Phase = "test-result" /\ ~IsThere /\ PassOn
     \/ Phase = "test-result" /\ IsThere /\ ~toBoolean(Taken.value) /\ PopCompletion(Normal(Top.value))
     \/ Phase = "test-result" /\ IsThere /\ toBoolean(Taken.value)
        /\ PushStatement(InPhase("body-result"), Kid(1), Top.context)

StartForBody(top) == PushStatement([top EXCEPT !.phase = "body"], Kid(4), top.context)
StartForTest(top) ==
  \/ Kid(2) = None /\ StartForBody(top)
  \/ Kid(2) # None /\ PushExpression([top EXCEPT !.phase = "test-result"], Kid(2), top.context)
Copied(top) == [top EXCEPT !.context = PerIteration(top.node, @)]
DispatchFor ==
  LET inner == [Top EXCEPT !.context = Inner(Top.node, @), !.phase = "initializer"]
      next  == Copied(Kept("update-result"))
  IN
  /\ On("for")
  /\ \/ Phase = "start" /\ Kid(1) = None /\ StartForTest(Top)
     \/ Phase = "start" /\ IsDeclaration(Kid(1)) /\ PushStatement(inner, Kid(1), inner.context)
     \/ Phase = "start" /\ Kid(1) # None /\ ~IsDeclaration(Kid(1)) /\ PushExpression(inner, Kid(1), inner.context)
     \/ Phase \in {"initializer", "test-result", "update-result"} /\ ~IsThere /\ PassOn
     \/ Phase = "initializer" /\ IsThere /\ StartForTest(Copied(Top))
     \/ Phase = "update-result" /\ IsThere /\ StartForTest(Top)
     \/ Phase = "body" /\ LeaveLoop
     \/ Phase = "body" /\ Follows = "continue" /\ Kid(3) = None /\ StartForTest(next)
     \/ Phase = "body" /\ Follows = "continue" /\ Kid(3) # None /\ PushExpression(next, Kid(3), next.context)
     \/ Phase = "test-result" /\ IsThere /\ ~toBoolean(Taken.value) /\ PopCompletion(Normal(Top.value))
     \/ Phase = "test-result" /\ IsThere /\ toBoolean(Taken.value) /\ StartForBody(Top)

\* for-in and for-of, which differ in what may be iterated over.
CloseWithCompletion(completion) ==
  Pop(CompletionResult(Closed(Top.record, completion)), CloseEvents(Top.record))
StartIteration(top, seen) ==
  LET next    == [top EXCEPT !.phase = "target", !.record = Stepped(@)]
      stepped == seen \o StepEvents(top.record, <<>>)
      head    == Kid(2)
  IN \/ Outcome(top.record) = "done" /\ Pop(CompletionResult(Normal(top.value)), stepped)
     \/ Outcome(top.record) = "failed" /\ Pop(CompletionResult(StepError), stepped)
     \/ /\ Outcome(top.record) = "more"
        /\ Push(next, PatternFrame(PatternOf(head), StepValue(top.record), Mode(head),
                                   IterationContext(Top.node, next.record, Top.context), <<>>), stepped)
DispatchForInOf ==
  LET missing == Top.kind = "for-in" /\ IsMissing(Taken.value)
      record  == IF Top.kind = "for-in" THEN Enumerate(Taken.value, Fresh) ELSE GetIterator(Taken.value, Fresh)
  IN
  /\ frames # <<>> /\ Top.kind \in {"for-in", "for-of"}
  /\ \/ Phase = "start" /\ PushExpression(InPhase("right"), Kid(1), RightContext(Top.node, Top.context))
     \/ Phase = "right" /\ ~IsThere /\ PassOn
     \/ Phase = "right" /\ IsThere /\ missing /\ PopCompletion(Normal(EMPTY))
     \/ Phase = "right" /\ IsThere /\ ~missing /\ ~IsNormal(record) /\ PopOperation(record)
     \/ Phase = "right" /\ IsThere /\ ~missing /\ IsNormal(record)
        /\ StartIteration([Top EXCEPT !.record = Record(Taken.value)], record.run.log)
     \/ Phase = "target" /\ ~IsThere /\ CloseWithCompletion(Taken)
     \/ Phase = "target" /\ IsThere
        /\ PushStatement(InPhase("body"), Kid(3), IterationContext(Top.node, Top.record, Top.context))
     \/ Phase = "body" /\ Follows = "break" /\ CloseWithCompletion(Normal(Updated.value))
     \/ Phase = "body" /\ Follows = "propagate" /\ CloseWithCompletion(Updated)
     \/ Phase = "body" /\ Follows = "continue" /\ StartIteration(Kept("next"), <<>>)

-----------------------------------------------------------------------------
\* The clauses are looked through in order up to the default one, then after it;
\* `index` is the clause, and after that the statement.
Cases == Tail(Top.node.kids)
Statements(i) == FlattenSeq([j \in 1..(Len(Cases) - i + 1) |-> Tail(Cases[i + j - 1].kids)])
StartSwitchBody(top, i) ==
  \/ Statements(i) = <<>> /\ PopCompletion(Normal(EMPTY))
  \/ Statements(i) # <<>>
     /\ PushStatement([top EXCEPT !.phase = "body", !.index = i, !.args = Statements(i)],
                      Statements(i)[1], Inner(Top.node, Top.context))
StartSwitchScan(top) ==
  LET default == DefaultIndex(Top.node)
      next == IF ~top.afterDefault /\ top.index = default THEN default + 1 ELSE top.index
      scan == [top EXCEPT !.index = next, !.afterDefault = @ \/ next # top.index, !.phase = "case-test"]
  IN \/ next > Len(Cases) /\ default = 0 /\ PopCompletion(Normal(EMPTY))
     \/ next > Len(Cases) /\ default # 0 /\ StartSwitchBody(top, default)
     \/ next <= Len(Cases) /\ PushExpression(scan, Cases[next].kids[1], Inner(Top.node, Top.context))
DispatchSwitch ==
  /\ On("switch")
  /\ \/ Phase = "start" /\ PushExpression(InPhase("discriminant"), Kid(1), Top.context)
     \/ Phase \in {"discriminant", "case-test"} /\ ~IsThere /\ PassOn
     \/ Phase = "discriminant" /\ IsThere /\ StartSwitchScan([Top EXCEPT !.held = Taken])
     \/ Phase = "case-test" /\ IsThere /\ Taken.value = Top.held.value /\ StartSwitchBody(Top, Top.index)
     \/ Phase = "case-test" /\ IsThere /\ Taken.value # Top.held.value
        /\ StartSwitchScan([Top EXCEPT !.index = @ + 1])
     \/ Phase = "body" /\ Updated.type = "break" /\ Owns(Top.labelSet, Updated)
        /\ PopCompletion(Normal(Updated.value))
     \/ Phase = "body" /\ Updated.type # "normal" /\ (Updated.type = "break" => ~Owns(Top.labelSet, Updated))
        /\ PopCompletion(Updated)
     \/ Phase = "body" /\ Updated.type = "normal" /\ Len(Top.args) = 1 /\ PopCompletion(Updated)
     \/ Phase = "body" /\ Updated.type = "normal" /\ Len(Top.args) > 1
        /\ PushStatement([Kept("body") EXCEPT !.args = Tail(@)], Top.args[2], Inner(Top.node, Top.context))

DispatchLabelled ==
  /\ On("labelled")
  /\ \/ /\ Phase = "start"
        /\ Push(InPhase("body"), StatementFrame(Kid(1), Top.context, Top.labelSet \cup {Top.node.name}), <<>>)
     \/ Phase = "body" /\ Taken.type = "break" /\ Taken.target = Top.node.name
        /\ PopCompletion(Normal(Taken.value))
     \/ Phase = "body" /\ ~(Taken.type = "break" /\ Taken.target = Top.node.name) /\ PassOn

DispatchWith ==
  /\ On("with")
  /\ \/ Phase = "start" /\ PushExpression(InPhase("object"), Kid(1), Top.context)
     \/ Phase = "object" /\ ~IsThere /\ PassOn
     \/ Phase = "object" /\ IsThere /\ IsMissing(Taken.value) /\ PopCompletion(TypeError)
     \/ Phase = "object" /\ IsThere /\ ~IsMissing(Taken.value)
        /\ PushStatement(InPhase("body"), Kid(2), Append(Top.context, Env("with", 0)))
     \/ Phase = "body" /\ PassOn

\* The completion of try or catch is held while the finally block runs.
StartFinallyForgetful(pending) ==
  \/ Kid(3) = None /\ PopCompletion(pending)
  \/ Kid(3) # None /\ PushStatement([InPhase("finally") EXCEPT !.held = Normal(EMPTY)], Kid(3), Top.context)
StartFinallyOrResume(pending) ==
  \/ Kid(3) = None /\ PopCompletion(pending)
  \/ Kid(3) # None /\ PushStatement([InPhase("finally") EXCEPT !.held = pending], Kid(3), Top.context)
DispatchTry ==
  LET catches == Taken.type = "throw" /\ Kid(2) # None IN
  /\ On("try")
  /\ \/ Phase = "start" /\ PushStatement(InPhase("try"), Kid(1), Top.context)
     \/ Phase = "try" /\ catches /\ PushStatement(InPhase("catch"), Kid(2), Append(Top.context, Env("catch", 0)))
     \/ Phase = "try" /\ ~catches /\ StartFinallyOrResume(Taken)
     \/ Phase = "catch" /\ StartFinallyOrResume(Taken)
     \/ Phase = "finally" /\ Taken.type = "normal" /\ PopCompletion(Top.held)
     \/ Phase = "finally" /\ Taken.type # "normal" /\ PassOn

-----------------------------------------------------------------------------
DispatchExpressionStatement ==
  /\ On("expression")
  /\ \/ Phase = "start" /\ PushExpression(InPhase("expression"), Kid(1), Top.context)
     \/ Phase = "expression" /\ PopCompletion(Taken)

\* The value of a declarator with a yield is bound when it is there, and what
\* follows is declared on the way up to the next of them.
NextYielding(i) ==
  SelectInSubSeq(Top.node.kids, i, Len(Top.node.kids), LAMBDA declarator : declarator.yields)
Bound(pattern) ==
  IF Phase # "initializer" THEN Done(Normal(undefined), Fresh)
  ELSE ApplyPattern(pattern, Taken.value, Mode(Top.node), <<>>, Top.context, Fresh)
Declared(bound, first, next) ==
  Then(bound, LAMBDA ignored, run :
    Declare(Top.node, SubSeq(Top.node.kids, first, IF next = 0 THEN Len(Top.node.kids) ELSE next - 1), 1, Top.context, run))
GoOnDeclaring(declared, next) ==
  \/ (~IsNormal(declared) \/ next = 0) /\ Pop(CompletionResult(declared.completion), declared.run.log)
  \/ /\ IsNormal(declared) /\ next # 0
     /\ Push([InPhase("initializer") EXCEPT !.index = next],
             ExpressionFrame(Kid(next).kids[2], Top.context), declared.run.log)
DispatchVariableDeclaration ==
  LET pattern == Kid(Top.index).kids[1]
      first   == IF Phase = "start" THEN 1 ELSE Top.index + 1
  IN
  /\ frames # <<>> /\ Top.kind \in {"var", "let", "const"}
  /\ \/ Phase # "start" /\ ~IsThere /\ PassOn
     \/ Phase = "initializer" /\ IsThere /\ pattern.yields
        /\ Push(InPhase("pattern"), PatternFrame(pattern, Taken.value, Mode(Top.node), Top.context, <<>>), <<>>)
     \/ /\ Phase = "start" \/ (Phase = "initializer" /\ IsThere /\ ~pattern.yields) \/ (Phase = "pattern" /\ IsThere)
        /\ GoOnDeclaring(Declared(Bound(pattern), first, NextYielding(first)), NextYielding(first))

DispatchClassDeclaration ==
  /\ On("class-declaration")
  /\ \/ Phase = "start" /\ PushExpression(InPhase("definition"), Kid(1), Top.context)
     \/ Phase = "definition" /\ ~IsThere /\ PassOn
     \/ Phase = "definition" /\ IsThere
        /\ Pop(CompletionResult(Normal(EMPTY)), Initialize(Top.node.name, Taken.value, Fresh).run.log)

DispatchReturnOrThrow ==
  /\ frames # <<>> /\ Top.kind \in {"return", "throw"}
  /\ \/ Phase = "start" /\ PushExpression(InPhase("argument"), Kid(1), Top.context)
     \/ Phase = "argument" /\ ~IsThere /\ PassOn
     \/ Phase = "argument" /\ IsThere /\ PopCompletion(Completion(Top.kind, Taken.value, ""))

StatementStep ==
  \/ DispatchStatementList \/ DispatchSyncStatement \/ DispatchBlock \/ DispatchEmpty
  \/ DispatchIf \/ DispatchWhile \/ DispatchDoWhile \/ DispatchFor \/ DispatchForInOf
  \/ DispatchSwitch \/ DispatchLabelled \/ DispatchWith \/ DispatchTry
  \/ DispatchExpressionStatement \/ DispatchVariableDeclaration
  \/ DispatchClassDeclaration \/ DispatchReturnOrThrow
=============================================================================
