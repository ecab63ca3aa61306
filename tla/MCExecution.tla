------------------------------ MODULE MCExecution ------------------------------
(***************************************************************************)
(* How calls and generators run, seen from the two sides: a behaviour is    *)
(* one of HostChains, what the host stack is charged, or one of             *)
(* GeneratorMachine, what the frames of a body do; the variables of the     *)
(* other stay as they are.                                                 *)
(***************************************************************************)
EXTENDS HostChains, SyntaxTrees, TLC

CONSTANTS one, two, p1, q1, p2, q2   \* Agents and their Realms
CONSTANTS MaxResumes, MaxAnswers   \* of GeneratorMachine

VARIABLES part,
          frames, input, output, log, program, state, resumed

\* Two Agents with two Realms each, so that each can have a chain of its own; one
\* Realm has more than the default, one less.
Owners  == (p1 :> one) @@ (q1 :> one) @@ (p2 :> two) @@ (q2 :> two)
Budgets == (p1 :> 4) @@ (q1 :> 6) @@ (p2 :> 3) @@ (q2 :> 4)

-----------------------------------------------------------------------------
(* Generator bodies. *)

Behaves(length, fails, close, throw) == [length |-> length, fails |-> fails, close |-> close, throw |-> throw]
MCIterables ==
  [items     |-> Behaves(2, FALSE, "object", "continues"),
   empty     |-> Behaves(0, FALSE, "none", "none"),
   failing   |-> Behaves(1, TRUE, "throws", "throws"),
   stubborn  |-> Behaves(2, FALSE, "refuses", "ends"),
   primitive |-> Behaves(1, FALSE, "primitive", "none"),
   unclosed  |-> Behaves(3, FALSE, "none", "none")]

Constant(v)     == Node("constant", v, <<>>)
Note(n)         == Node("effect", n, <<>>)
Fail            == Node("fail", "failed", <<>>)
Name(n)         == Node("identifier", n, <<>>)
Y               == Node("yield", "", <<Constant("yielded")>>)
Bare            == Node("yield", "", <<None>>)
YieldAll(e)     == Node("yield*", "", <<e>>)
Member(o, p)    == Node("member", p, <<o, None>>)
Computed(o, p)  == Node("member", "", <<o, p>>)
Super           == Node("super", "", <<>>)
Op(type, name, kids) == Node(type, name, kids)
Spread(e)       == Node("spread", "", <<e>>)
Property(n, k, v) == Node("property", n, <<k, v>>)
Plain(n, v)     == Property(n, None, v)
Rest(p)         == Node("rest", "", <<p>>)
Default(p, e)   == Node("default", "", <<p, e>>)
Assign(l, r)    == Node("assign", "=", <<l, r>>)
S(e)            == Node("expression", "", <<e>>)

-----------------------------------------------------------------------------
Operators == <<
  Op("binary", "+", <<Y, Y>>), Op("binary", "in", <<Y, Y>>), Op("binary", "===", <<Y, Note("r")>>),
  Op("logical", "&&", <<Y, Y>>), Op("logical", "||", <<Y, Note("r")>>), Op("logical", "&&", <<Note("l"), Y>>),
  Op("conditional", "", <<Y, Y, Note("else")>>), Op("sequence", "", <<Y, Fail, Y>>),
  Op("sequence", "", <<Note("a"), Y, Note("b")>>),
  Op("unary", "delete", <<Computed(Y, Y)>>), Op("unary", "delete", <<Y>>), Op("unary", "delete", <<Member(Y, "readonly")>>),
  Op("unary", "typeof", <<Member(Y, "broken")>>), Op("unary", "typeof", <<Y>>), Op("unary", "void", <<Y>>),
  Op("unary", "!", <<Y>>), Op("unary", "-", <<Y>>),
  Op("update", "prefix", <<Computed(Y, Y)>>), Op("update", "postfix", <<Member(Y, "broken")>>),
  Op("update", "postfix", <<Member(Y, "readonly")>>), Op("update", "postfix", <<Computed(Y, Constant(opaque))>>)>>
MemberAccesses == <<
  Member(Y, "p"), Member(Y, "broken"), Computed(Y, Y), Computed(Note("o"), Y), Computed(Super, Y),
  Member(Computed(Super, Y), "p"), Computed(Member(Name("x"), "p"), Bare)>>
Delegations ==
  [i \in 1..6 |-> YieldAll(Constant(<<"items", "empty", "failing", "stubborn", "primitive", "unclosed">>[i]))]
  \o <<YieldAll(Constant("plain")), YieldAll(Y), YieldAll(YieldAll(Constant("items")))>>
Targets ==
  <<Name("x"), Name("unbound"), Member(Name("o"), "broken"), Member(Y, "readonly"), Computed(Y, Y), Computed(Super, Y)>>
Assignments ==
  [i \in 1..6 |-> Assign(Targets[i], Y)] \o [i \in 1..6 |-> Op("assign", "+", <<Targets[i], Y>>)]
  \o <<Assign(Computed(Bare, Note("k")), Note("r"))>>
Calls == <<
  Op("call", "", <<Name("f"), Y, Note("b"), Y>>), Op("call", "", <<Y, Y>>), Op("call", "", <<Member(Y, "m"), Spread(Y)>>),
  Op("call", "", <<Computed(Y, Y), Note("a")>>), Op("call", "", <<Member(Name("o"), "broken"), Y>>),
  Op("call", "", <<Name("eval"), Y>>), Op("call", "", <<Name("unbound"), Y>>), Op("call", "", <<Computed(Super, Y)>>),
  Op("call", "", <<Op("sequence", "", <<Y, Member(Name("o"), "m")>>)>>),
  Op("call", "", <<Name("f"), Spread(Constant("failing")), Y>>), Op("call", "", <<Name("f"), Y, Spread(Constant("items"))>>),
  Op("new", "", <<Y>>), Op("new", "", <<Name("f"), Y, Spread(Y)>>), Op("new", "", <<Member(Y, "p"), Note("a"), Y>>),
  Op("tagged", "", <<Name("f"), Y, Note("b")>>), Op("tagged", "", <<Member(Y, "m"), Y>>), Op("tagged", "", <<Y>>),
  Op("template", "", <<Y, Note("b"), Y>>), Op("template", "", <<Constant(opaque), Y>>)>>
Literals == <<
  Op("array", "", <<None, Y, None, Spread(Y), None>>), Op("array", "", <<Note("a"), Spread(Constant("failing")), Y>>),
  Op("array", "", <<Spread(Constant("unclosed")), Y>>),
  Op("object", "", <<Plain("a", Note("a")), Plain("m", None), Property("", Y, Y), Plain("n", None)>>),
  Op("object", "", <<Property("", Y, None), Plain("m", None), Plain("__proto__", Y)>>),
  Op("object", "", <<Plain("m", None), Plain("__proto__", Constant(null)), Plain("b", Y)>>),
  Op("class", "C", <<Y, Node("element", "m", <<None>>), Node("element", "", <<Y>>), Node("static", "s", <<None>>)>>),
  Op("class", "", <<None, Node("static", "", <<Y>>), Node("element", "n", <<None>>)>>),
  Op("class", "C", <<Y, Node("static", "prototype", <<None>>)>>),
  Op("class", "C", <<Note("h"), Node("element", "", <<Note("k")>>), Node("element", "", <<Y>>)>>),
  Op("class", "C", <<Member(Name("o"), "broken"), Node("element", "", <<Y>>)>>)>>

\* Patterns, for assignment and, where all targets are names, for declarations.
NamePatterns == <<
  Node("array-pattern", "", <<Default(Name("a"), Y), None, Rest(Name("r"))>>),
  Node("array-pattern", "", <<None, Default(Name("a"), Y)>>),
  Node("array-pattern", "", <<Name("a"), Name("readonly"), Default(Name("c"), Y)>>),
  Node("array-pattern", "", <<Name("a"), Node("object-pattern", "", <<Plain("p", Default(Name("b"), Y))>>)>>),
  Node("array-pattern", "", <<Rest(Node("array-pattern", "", <<Name("a"), None, Default(Name("b"), Y)>>))>>),
  Node("object-pattern", "", <<Property("", Y, Name("a")), Plain("broken", Default(Name("b"), Y))>>),
  Node("object-pattern", "", <<Plain(undefined, Default(Name("a"), Y)), Property("", Y, Default(Name("readonly"), Note("d")))>>),
  Node("object-pattern", "", <<Plain(undefined, Default(Node("array-pattern", "", <<Name("a")>>), Y))>>)>>
TargetPatterns == <<
  Node("array-pattern", "", <<Computed(Y, Y), Member(Y, "readonly")>>),
  Node("array-pattern", "", <<Default(Member(Y, "p"), Note("d")), Rest(Computed(Super, Y))>>),
  Node("array-pattern", "", <<None, Member(Y, "p"), Default(Computed(Name("o"), Y), Y)>>),
  Node("object-pattern", "", <<Property("", Y, Computed(Y, Note("k")))>>),
  Node("object-pattern", "", <<Plain("p", Member(Super, "q")), Plain("q", Default(Computed(Name("o"), Y), Fail))>>)>>
PatternValues == <<Constant("items"), Constant("failing"), Constant("primitive"), Constant("unclosed"), Constant(null), Y>>

Declarator(p, e)      == Node("declarator", "", <<p, e>>)
Declare3(kind, p, e)  ==
  Node(kind, "", <<Declarator(Name("a"), Note("a")), Declarator(p, e),
                   Declarator(Name("z"), IF kind = "const" THEN Note("z") ELSE None)>>)
Declarations == <<
  Node("var", "", <<Declarator(Name("a"), None), Declarator(Name("readonly"), Y), Declarator(Name("b"), Note("b"))>>),
  Node("let", "", <<Declarator(Name("a"), Y), Declarator(Name("b"), Fail), Declarator(Name("c"), Y)>>),
  Node("let", "", <<Declarator(Name("a"), Y), Declarator(Node("array-pattern", "", <<Name("b")>>), Y)>>),
  Node("class-declaration", "C", <<Op("class", "C", <<Y>>)>>)>>

-----------------------------------------------------------------------------
\* Statements around a statement s.
Binds(kind, p) == Node(kind, "", <<Declarator(p, None)>>)
Around(s) == <<
  Node("while", "", <<Y, s>>),
  Node("do-while", "", <<s, Y>>),
  Node("for", "for", <<Node("let", "", <<Declarator(Name("i"), Note("i"))>>), Y, Note("u"), s>>),
  Node("for", "", <<Y, None, Y, s>>),
  Node("for-in", "for", <<Constant("items"), Binds("let", Name("k")), s>>),
  Node("for-of", "", <<Constant("items"), Computed(Name("o"), Y), s>>),
  Node("for-of", "for", <<Constant("failing"), Binds("const", Name("k")), s>>),
  Node("for-of", "", <<Constant("primitive"), Binds("var", Node("array-pattern", "", <<Name("k")>>)), s>>),
  Node("switch", "cases", <<Y, Node("case", "", <<Note("t"), S(Y)>>), Node("case", "", <<None, s>>),
                            Node("case", "", <<Y, S(Note("c"))>>)>>),
  Node("labelled", "L", <<s>>),
  Node("try", "", <<Node("block", "block", <<s>>), Node("block", "", <<S(Note("caught"))>>), Node("block", "", <<S(Note("finally"))>>)>>),
  Node("try", "", <<Node("block", "block", <<s>>), None, Node("block", "", <<S(Y)>>)>>),
  Node("try", "", <<Node("block", "", <<S(Y), S(Fail)>>), Node("block", "", <<s>>), None>>),
  Node("try", "", <<Node("block", "", <<S(Y), S(Fail)>>), None, Node("block", "", <<s>>)>>),
  Node("block", "block", <<S(Note("a")), s, S(Note("b"))>>),
  Node("if", "", <<Y, s, None>>), Node("if", "", <<Note("t"), S(Y), s>>),
  Node("for", "", <<None, Note("t"), None, Node("block", "", <<S(Y), s>>)>>),
  Node("for-of", "", <<Y, Name("k"), s>>), Node("for-in", "", <<Y, Name("k"), s>>),
  Node("switch", "", <<Note("d"), Node("case", "", <<Constant("other"), S(Y)>>), Node("case", "", <<Y, s>>)>>),
  Node("with", "", <<Y, s>>)>>
Jump(type, label) == Node(type, label, <<>>)
AfterYield(s)     == Node("block", "", <<S(Y), s>>)
Leaves == <<
  S(Y), AfterYield(Jump("break", "")), AfterYield(Jump("continue", "")), AfterYield(Jump("break", "L")),
  AfterYield(Jump("continue", "L")), Node("return", "", <<Y>>), Node("throw", "", <<Y>>),
  Jump("break", ""), Jump("continue", "L"), Node("empty", "", <<>>)>>

\* The early errors of the parser: a jump has something to leave.
IsLoop(node) == node.type \in {"while", "do-while", "for", "for-in", "for-of"}
RECURSIVE IsValid(_, _, _, _)
IsValid(node, targets, labels, loops) ==
  LET inLoop   == targets \cup (IF IsLoop(node) THEN {"break", "continue"} ELSE IF node.type = "switch" THEN {"break"} ELSE {})
      labelled == labels \cup (IF node.type = "labelled" THEN {node.name} ELSE {})
      looped   == loops \cup (IF node.type = "labelled" /\ IsLoop(node.kids[1]) THEN {node.name} ELSE {})
  IN CASE node.type = "break"    -> IF node.name = "" THEN "break" \in targets ELSE node.name \in labels
       [] node.type = "continue" -> IF node.name = "" THEN "continue" \in targets ELSE node.name \in loops
       [] OTHER -> (node.type = "labelled" => node.name \notin labels)
                   /\ \A i \in 1..Len(node.kids) : IsValid(node.kids[i], inLoop, labelled, looped)

-----------------------------------------------------------------------------
\* A program is named by its family and its choices in it.
Values == Operators \o MemberAccesses \o Delegations \o Assignments \o Calls \o Literals
Statement(p) ==
  CASE p[1] = 1 -> Node("return", "", <<Values[p[2]]>>)
    [] p[1] = 2 -> S(Assign((NamePatterns \o TargetPatterns)[p[2]], PatternValues[p[3]]))
    [] p[1] = 3 -> Declare3(<<"var", "let", "const">>[p[2]], NamePatterns[p[3]], PatternValues[1])
    [] p[1] = 4 -> Declarations[p[2]]
    [] p[1] = 5 -> Around(Leaves[p[3]])[p[2]]
    [] p[1] = 6 -> Around(Around(Leaves[p[4]])[p[3]])[p[2]]
\* Every statement around every leaf, and the ones a jump can leave around others.
CanBe(p) == Statement(p).yields /\ IsValid(Statement(p), {}, {}, {})
Named ==
  {<<1, i>> : i \in 1..Len(Values)}
  \cup {<<2, i, j>> : i \in 1..Len(NamePatterns \o TargetPatterns), j \in 1..Len(PatternValues)}
  \cup {<<3, i, j>> : i \in 1..3, j \in 1..Len(NamePatterns)}
  \cup {<<4, i>> : i \in 1..Len(Declarations)}
  \cup {p \in {5} \X (1..22) \X (1..Len(Leaves)) : CanBe(p)}
  \cup {p \in {6} \X {1, 3, 6, 9, 10, 11, 12, 14} \X {2, 4, 5, 7, 8, 9, 10, 11, 12, 13, 22} \X {1, 2, 4, 5, 6} : CanBe(p)}
MCPrograms ==
  [p \in Named |->
     [body |-> <<Statement(p), S(Note("end"))>>,
      sent |-> IF p[1] = 1 THEN {"items", undefined, opaque} ELSE {"items", undefined}]]

-----------------------------------------------------------------------------
(* The two together. *)
Machine == INSTANCE GeneratorMachine WITH Programs <- MCPrograms

machine == <<frames, input, output, log, program, state, resumed>>
NoMachine ==
  /\ frames = <<>> /\ input = <<>> /\ output = <<>> /\ log = <<>>
  /\ program = <<>> /\ state = "" /\ resumed = <<>>

MCInit ==
  \/ part = "chains" /\ Init /\ NoMachine
  \/ part = "machine" /\ Init /\ Machine!Init
MCNext ==
  \/ part = "chains" /\ Next /\ UNCHANGED <<part, machine>>
  \/ part = "machine" /\ Machine!Next /\ UNCHANGED <<part, vars>>
Dispatches == part = "machine" /\ (Machine!Dispatch \/ Machine!Yields \/ Machine!Complete) /\ UNCHANGED <<part, vars>>
MCSpec == MCInit /\ [][MCNext]_<<part, vars, machine>> /\ WF_<<part, vars, machine>>(Dispatches)
\* A generator sees and answers what the recursive evaluator would.
RunsLikeTheEvaluator == part = "machine" => Machine!RunsLikeTheEvaluator
\* A generator is suspended at a yield, every frame finds the kind of result it expects, and
\* every iterator is ended once.
FramesEndWell == part = "machine" => Machine!TypeOK /\ Machine!ChannelsFit /\ Machine!IteratorsEndOnce
\* A resumed body comes back to its caller.
ResumesReturn == part = "machine" /\ state = "executing" ~> state # "executing"

=============================================================================
