--------------------------- MODULE GeneratorMachine ---------------------------
(***************************************************************************)
(* A generator object (src/src/runtime/generator-object.js) and the        *)
(* machine that runs its body (src/src/evaluator/generator-machine.js).    *)
(* A call of next(), throw() or return() resumes the body, which is then   *)
(* dispatched frame by frame up to the next yield or to its end.           *)
(***************************************************************************)
EXTENDS ExpressionFrames

CONSTANTS
  Programs,    \* name -> [body: statements, sent: values next() is called with]
  MaxResumes,  \* calls of next(), throw() and return()
  MaxAnswers   \* how often it is found done

VARIABLES
  program,     \* the name of the body
  state,       \* GeneratorObject.state
  resumed      \* the completions of the calls so far

machine == <<frames, input, output, log>>
vars    == <<machine, program, state, resumed>>

Init ==
  /\ program \in DOMAIN Programs
  /\ frames = <<StatementListFrame(Programs[program].body, <<>>)>>
  /\ input = NoCompletion /\ output = NoOutput /\ log = <<>>
  /\ state = "suspendedStart" /\ resumed = <<>>

Count(kinds) == Cardinality({i \in 1..Len(log) : log[i].kind \in kinds})
\* What the caller sees of a generator that is done.
Answered(completion) ==
  CASE completion.type = "normal" -> Event("returned", undefined, <<>>)
    [] completion.type = "return" -> Event("returned", completion.value, <<>>)
    [] completion.type = "throw"  -> Event("threw", completion.value, <<>>)

\* GeneratorObject.complete(): the frames are given up.
GiveUp == state' = "completed" /\ frames' = <<>>

Completions == {Normal(value) : value \in Programs[program].sent} \cup {Throw("thrown"), Return("returned")}
\* GeneratorObject.resume(): the first value sent is dropped, and a body that has
\* not begun, or is done, does not run.
Resume(completion) ==
  /\ resumed' = Append(resumed, completion)
  /\ UNCHANGED <<program, output>>
  /\ \/ /\ state = "suspendedStart" /\ completion.type = "normal"
        /\ state' = "executing" /\ input' = Normal(undefined) /\ UNCHANGED <<frames, log>>
     \/ /\ state = "suspendedStart" /\ completion.type # "normal"
        /\ GiveUp /\ log' = Append(log, Answered(completion)) /\ UNCHANGED input
     \/ /\ state = "suspendedYield"
        /\ state' = "executing" /\ input' = completion /\ UNCHANGED <<frames, log>>
     \/ /\ state = "completed" /\ Count({"returned", "threw"}) < MaxAnswers
        /\ log' = Append(log, Answered(completion)) /\ UNCHANGED <<state, frames, input>>

Dispatch ==
  /\ state = "executing"
  /\ StatementStep \/ PatternStep \/ ExpressionStep
  /\ UNCHANGED <<program, state, resumed>>
Yields ==
  /\ state = "executing"
  /\ YieldStep
  /\ state' = "suspendedYield" /\ UNCHANGED <<program, resumed>>
\* completeFromMachine(): no frame is left.
Complete ==
  /\ state = "executing" /\ frames = <<>>
  /\ GiveUp
  /\ input' = NoCompletion /\ output' = NoOutput /\ log' = Append(log, Answered(Taken))
  /\ UNCHANGED <<program, resumed>>

Next ==
  \/ state # "executing" /\ Len(resumed) < MaxResumes /\ \E completion \in Completions : Resume(completion)
  \/ Dispatch \/ Yields \/ Complete
Spec == Init /\ [][Next]_vars /\ WF_vars(Dispatch \/ Yields \/ Complete)

-----------------------------------------------------------------------------
\* The body under the recursive evaluator, with a yield that takes the next
\* completion: what it sees, and how the calls that find it done are answered.
Answers(completions) == [i \in 1..Len(completions) |-> Answered(completions[i])]
LogOf(replay) ==
  IF replay.completion.type = "suspend" THEN replay.run.log
  ELSE replay.run.log \o Answers(<<replay.completion>> \o replay.run.inputs)
Replayed ==
  IF resumed[1].type # "normal" THEN Answers(resumed)
  ELSE LogOf(StatementList(Programs[program].body, 1, <<>>, EMPTY, Run(<<>>, Tail(resumed))))

(* A generator observably runs its body the way the recursive evaluator      *)
(* would if a yield were an ordinary call: the same guest operations in the  *)
(* same order and contexts, and the same answers to the same calls of        *)
(* next(), throw() and return(), wherever the machine suspends and whatever  *)
(* it leaves to the evaluator.                                               *)
RunsLikeTheEvaluator == state # "executing" /\ resumed # <<>> => log = Replayed

(* The two channels are empty whenever the body does not run, and the result *)
(* that a frame finds is of a kind it expects: a completion from a statement *)
(* or from what ends early, a reference where it has asked for one.  The     *)
(* code throws a host TypeError where this fails.                            *)
StatementPhases ==
  {<<"statement-list", "statement">>, <<"block", "body">>, <<"if", "branch">>, <<"while", "body">>,
   <<"do-while", "body-result">>, <<"for", "body">>, <<"for-in", "body">>, <<"for-of", "body">>,
   <<"switch", "body">>, <<"labelled", "body">>, <<"with", "body">>, <<"try", "try">>,
   <<"try", "catch">>, <<"try", "finally">>}
ReferencePhases ==
  {<<"assign", "left">>, <<"update", "argument">>, <<"target", "identifier">>}
EitherPhases == {<<"call", "callee">>, <<"tagged", "callee">>, <<"unary", "argument">>}
ResultFits(frame) ==
  LET at == <<frame.kind, frame.phase>> IN
  CASE output.type = "completion" -> at \in StatementPhases \/ Taken.type # "normal" \/ frame.kind = "for"
    [] output.type = "value"      -> at \notin StatementPhases \cup ReferencePhases
    [] output.type = "reference"  -> at \in ReferencePhases \cup EitherPhases
ChannelsFit ==
  /\ state # "executing" => input = NoCompletion /\ output = NoOutput
  /\ frames # <<>> /\ output # NoOutput => ResultFits(Top)
  /\ frames = <<>> /\ state = "executing" =>
       output.type = "completion" /\ Taken.type \in {"normal", "return", "throw"}

(* Every iterator that is opened is ended once and only once: it is done, it *)
(* fails, or it is closed, unless a frame still holds it, through every way  *)
(* a loop, a pattern, a spread or a delegating yield can be left.            *)
Ends == {"done", "failed", "close"}
Holding == {i \in 1..Len(frames) : frames[i].record # NoRecord /\ ~frames[i].done}
IteratorsEndOnce == Count({"iterate"}) = Count(Ends) + Cardinality(Holding)

(* A resumed body comes back: no dispatch is ever missing, and frames whose  *)
(* children are done do not push them again for ever.                        *)
ResumesReturn == state = "executing" ~> state # "executing"

TypeOK ==
  /\ program \in DOMAIN Programs
  /\ state \in {"suspendedStart", "executing", "suspendedYield", "completed"}
  /\ Len(resumed) <= MaxResumes
  /\ \A i \in 1..Len(frames) : frames[i].phase # "start" \/ i = Len(frames)
  /\ state = "suspendedYield" => frames # <<>> /\ Top.kind \in {"yield", "yield*"} /\ Phase = "suspended"
  /\ state = "completed" => frames = <<>>
=============================================================================
