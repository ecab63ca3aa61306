-------------------------- MODULE ModuleEvaluation --------------------------
(***************************************************************************)
(* Evaluation of linked modules (src/src/evaluator/modules.js).            *)
(*                                                                         *)
(* Evaluation is synchronous, but the body of a module may reach a host    *)
(* function that links or evaluates again, so evaluations nest.  Each has  *)
(* a ModuleEvaluationTransaction of its own; `transactions` is the call    *)
(* stack of them, innermost last, and the last frame of each but the       *)
(* innermost is running its module's body.                                 *)
(***************************************************************************)
EXTENDS ModuleLinking

CONSTANTS
  MaxDepth,      \* bound: evaluations inside one another
  MaxHostErrors  \* bound: bodies ended by an error that is not the guest's

ASSUME DepthAssumption == MaxDepth \in Nat /\ MaxHostErrors \in Nat

VARIABLES
  evaluationStatus,
  evaluationCompletion,  \* of an errored module, the module whose body threw
  evaluationBodyCompleted,
  deferredDependents,    \* DEFERRED_EVALUATION_DEPENDENTS
  transactions,
  bodiesStarted,         \* history: bodies begun, but for those a host error ended
  repeated,              \* history: bodies begun again
  waited,                \* history: which module was deferred on which
  hostErrors

outcomeVars == <<evaluationStatus, evaluationCompletion, deferredDependents, waited>>
bodyVars    == <<evaluationBodyCompleted, bodiesStarted, repeated, hostErrors>>
evalVars    == <<outcomeVars, bodyVars, transactions>>
vars        == <<source, linkVars, evalVars>>

Transaction == Last(transactions)
Evaluating  == transactions # <<>> /\ ~Linking
Top         == Last(Transaction.pending)
Module      == Top.record
Members(m)  == evaluationSccMembers[m]
RunsBody    == Evaluating /\ Transaction.running
Traverses   == Evaluating /\ ~Transaction.running

\* The host, or a function it gave to the guest, is executing.
MayCall == ~Linking /\ (transactions = <<>> \/ RunsBody)

NewTransaction(m) == [pending |-> <<Frame(m)>>, active |-> {}, completed |-> {}, running |-> FALSE]

\* The innermost evaluation goes on as t; it returns when no frame is left.
Proceed(t) ==
  transactions' = IF t.pending = <<>> THEN Front(transactions)
                                      ELSE Append(Front(transactions), t)
Return == transactions' = Front(transactions)

Init ==
  /\ LinkInit
  /\ evaluationStatus = [m \in Modules |-> "unevaluated"]
  /\ evaluationCompletion = [m \in Modules |-> NoModule]
  /\ deferredDependents = [m \in Modules |-> {}] /\ waited = {}
  /\ evaluationBodyCompleted = {} /\ bodiesStarted = {} /\ repeated = {}
  /\ hostErrors = 0
  /\ transactions = <<>>

\* linkModuleGraph(), before an evaluation or from inside one.
Link(m) ==
  /\ MayCall
  /\ LinkModuleGraph(m)
  /\ UNCHANGED evalVars

LinkProceeds == LinkStep /\ UNCHANGED evalVars

\* evaluateModule() of a linked module.
EvaluateModule(m) ==
  /\ MayCall /\ Len(transactions) < MaxDepth
  /\ m \in Linked
  /\ transactions' = Append(transactions, NewTransaction(m))
  /\ UNCHANGED <<source, linkVars, outcomeVars, bodyVars>>

-----------------------------------------------------------------------------
\* completeAbruptly() of all components under way in the innermost evaluation,
\* and of what was deferred on them, with what the body of `thrower` threw.
EnteredComponents ==
  UNION {Members(f.record) : f \in {g \in Range(Transaction.pending) : g.entered}}
\* Mistake: what waits for a member that was not entered is not told.
CascadeOfEntered == EnteredComponents
\* The least set with the failed components and the components of whatever was
\* deferred on one of its modules.
Cascade ==
  LET Closed(S) == /\ EnteredComponents \subseteq S
                   /\ \A m \in S, d \in Modules : d \in deferredDependents[m] => Members(d) \subseteq S
      closed == {S \in SUBSET Modules : Closed(S)}
  IN CHOOSE S \in closed : \A other \in closed : S \subseteq other

Throw(thrower) ==
  LET undecided == {m \in Cascade : evaluationStatus[m] \in {"unevaluated", "evaluating"}} IN
  /\ evaluationStatus' =
       [m \in Modules |-> IF m \in undecided THEN "errored" ELSE evaluationStatus[m]]
  /\ evaluationCompletion' =
       [m \in Modules |-> IF m \in undecided THEN thrower ELSE evaluationCompletion[m]]
  /\ deferredDependents' = [m \in Modules |-> IF m \in Cascade THEN {} ELSE deferredDependents[m]]
  /\ Return
  /\ UNCHANGED waited

\* Mistake: only the modules whose frames are left are taken back.
AbortedFrames ==
  LET frames == {f.record : f \in {g \in Range(Transaction.pending) : g.entered}}
  IN [m \in Modules |-> IF m \in frames /\ evaluationStatus[m] = "evaluating"
                           THEN "unevaluated" ELSE evaluationStatus[m]]
\* abort(): what this evaluation has entered is unevaluated again, though the
\* bodies that are completed stay so.
Aborted ==
  [m \in Modules |-> IF m \in Transaction.active /\ evaluationStatus[m] = "evaluating"
                       THEN "unevaluated" ELSE evaluationStatus[m]]

\* Mistake: any module under evaluation counts as the end of a cycle.
IsBackEdgeAlways(m) == TRUE
\* owns(): it is this evaluation that has entered m.
IsBackEdge(m) == m \in Transaction.active

\* A frame that is done without a change.
Pass(t) == /\ Proceed([t EXCEPT !.pending = Front(@)])
           /\ UNCHANGED outcomeVars

Enter ==
  LET t == Transaction IN
  /\ Traverses /\ ~Top.entered
  /\ \/ evaluationStatus[Module] = "evaluated" /\ Pass(t)
     \/ evaluationStatus[Module] = "errored" /\ Throw(evaluationCompletion[Module])
     \/ evaluationStatus[Module] = "evaluating" /\ IsBackEdge(Module) /\ Pass(t)
     \/ /\ evaluationStatus[Module] = "evaluating" /\ ~IsBackEdge(Module)
        /\ deferredDependents' = [deferredDependents EXCEPT ![Module] = @ \cup t.active]
        /\ waited' = waited \cup (t.active \X {Module})
        /\ evaluationStatus' = Aborted
        /\ Return
        /\ UNCHANGED evaluationCompletion
     \/ /\ evaluationStatus[Module] = "unevaluated"
        /\ evaluationStatus' = [evaluationStatus EXCEPT ![Module] = "evaluating"]
        /\ Proceed([t EXCEPT !.pending = Append(Front(@), [Top EXCEPT !.entered = TRUE]),
                             !.active = @ \cup {Module}])
        /\ UNCHANGED <<evaluationCompletion, deferredDependents, waited>>
  /\ UNCHANGED <<source, linkVars, bodyVars>>

HasRequest == Top.dependencyIndex < Len(requested[Module])

VisitRequest ==
  LET t == Transaction
      visited == [Top EXCEPT !.dependencyIndex = @ + 1]
  IN
  /\ Traverses /\ Top.entered /\ HasRequest
  /\ Proceed([t EXCEPT !.pending =
       Append(Append(Front(@), visited), Frame(requested[Module][visited.dependencyIndex]))])
  /\ UNCHANGED <<source, linkVars, outcomeVars, bodyVars>>

-----------------------------------------------------------------------------
\* completeNormally() of the module on top: its component is committed with the
\* last of its members, and until then remains under evaluation.
Complete ==
  LET t == Transaction
      completed == t.completed \cup {Module}
      done      == Members(Module) \subseteq completed
      members   == IF done THEN Members(Module) ELSE {}
  IN
  /\ evaluationStatus' =
       [m \in Modules |-> IF m \in members THEN "evaluated" ELSE evaluationStatus[m]]
  /\ deferredDependents' = [m \in Modules |-> IF m \in members THEN {} ELSE deferredDependents[m]]
  /\ Proceed([t EXCEPT !.pending = Front(@), !.running = FALSE,
                       !.active = @ \ members, !.completed = completed \ members])
  /\ UNCHANGED <<evaluationCompletion, waited>>

\* Mistake: what an evaluation that was deferred had completed is forgotten.
HasRunUnlessAborted(m) == m \in Transaction.completed
HasRun(m) == m \in evaluationBodyCompleted

\* All requests are done, and the body was run by an evaluation that was
\* deferred afterwards.
SkipBody ==
  /\ Traverses /\ Top.entered /\ ~HasRequest
  /\ HasRun(Module)
  /\ Complete
  /\ UNCHANGED <<source, linkVars, bodyVars>>

StartBody ==
  /\ Traverses /\ Top.entered /\ ~HasRequest
  /\ ~HasRun(Module)
  /\ Proceed([Transaction EXCEPT !.running = TRUE])
  /\ bodiesStarted' = bodiesStarted \cup {Module}
  /\ repeated' = IF Module \in bodiesStarted THEN repeated \cup {Module} ELSE repeated
  /\ UNCHANGED <<source, linkVars, outcomeVars, evaluationBodyCompleted, hostErrors>>

BodyReturns ==
  /\ RunsBody
  /\ evaluationBodyCompleted' = evaluationBodyCompleted \cup {Module}
  /\ Complete
  /\ UNCHANGED <<source, linkVars, bodiesStarted, repeated, hostErrors>>

\* The guest throws, or does not catch what a nested evaluation threw.
BodyThrows ==
  /\ RunsBody
  /\ Throw(Module)
  /\ UNCHANGED <<source, linkVars, bodyVars>>

\* An error of the host or the engine passes through.
BodyAborts ==
  /\ RunsBody /\ hostErrors < MaxHostErrors
  /\ hostErrors' = hostErrors + 1
  /\ evaluationStatus' = Aborted
  /\ bodiesStarted' = bodiesStarted \ {Module}
  /\ Return
  /\ UNCHANGED <<source, linkVars, evaluationCompletion, deferredDependents, waited,
                 evaluationBodyCompleted, repeated>>

Next ==
  \/ \E m \in Modules : Link(m) \/ EvaluateModule(m)
  \/ LinkProceeds
  \/ Enter \/ VisitRequest
  \/ SkipBody \/ StartBody \/ BodyReturns \/ BodyThrows \/ BodyAborts

Spec == Init /\ [][Next]_vars

-----------------------------------------------------------------------------
TypeOK ==
  /\ LinkTypeOK
  /\ evaluationStatus \in [Modules -> {"unevaluated", "evaluating", "evaluated", "errored"}]
  /\ evaluationCompletion \in [Modules -> Modules \cup {NoModule}]
  /\ deferredDependents \in [Modules -> SUBSET Modules]
  /\ waited \in SUBSET (Modules \X Modules)
  /\ evaluationBodyCompleted \subseteq bodiesStarted
  /\ bodiesStarted \subseteq Linked /\ repeated \subseteq Modules
  /\ transactions \in Seq([pending: Seq([record: Modules, dependencyIndex: Nat, entered: BOOLEAN]),
                           active: SUBSET Modules, completed: SUBSET Modules, running: BOOLEAN])
  /\ hostErrors \in 0..MaxHostErrors

\* Components get their outcome at once and for good, a normal one only after
\* everything they depend on, and an error only from a module they depend on:
\* "reentrant evaluation cannot commit a dependent before its active
\* dependency", "a deferred error does not overwrite an earlier abrupt
\* completion".
Commits == INSTANCE ModuleCommits WITH
  dependsOn <- Dependencies[requested],
  outcome <- [m \in Modules |->
    CASE evaluationStatus[m] = "evaluated" -> [kind |-> "normal"]
      [] evaluationStatus[m] = "errored"   -> [kind |-> "thrown", by |-> evaluationCompletion[m]]
      [] OTHER                             -> [kind |-> "none"]]
ImplementsModuleCommits == Commits!Spec

\* "Executes every module once": no body is begun twice, even when evaluations
\* are deferred, abandoned and taken up again from another module, unless a
\* host error ended it.
BodiesRunOnce == repeated = {}

\* When a body runs, the modules it requests outside its component are
\* evaluated, however deep in nested evaluations it is reached.
DependenciesRunFirst ==
  \A i \in 1..Len(transactions) : transactions[i].running =>
    LET m == Last(transactions[i].pending).record
    IN  \A n \in Requests(m) \ Component(m) : evaluationStatus[n] = "evaluated"

\* A module is under evaluation only while an evaluation that has not returned
\* holds it: one that failed, was deferred or abandoned leaves nothing behind
\* that would defer every later one.
NothingIsLeftEvaluating ==
  \A m \in Modules : evaluationStatus[m] = "evaluating" =>
    \E i \in 1..Len(transactions) : m \in transactions[i].active

\* "Records every active caller as waiting for an in-flight dependency": whoever
\* was deferred on a module that fails in the end fails with it, with all of its
\* component, and is not evaluated on its own later.
WaitersFailTogether ==
  \A wait \in waited : evaluationStatus[wait[2]] = "errored" =>
    \A m \in Component(wait[1]) : evaluationStatus[m] = "errored"

\* The outcome of a module reaches everyone who depends on it: before their bodies run
\* when it is a normal one, with all of their component when it is an error.
OutcomesAreShared == DependenciesRunFirst /\ WaitersFailTogether
=============================================================================
