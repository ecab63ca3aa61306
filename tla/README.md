# Verification of jsjs

TLA+ models, model checks and proofs for jsjs, a JavaScript engine written in
JavaScript. The engine is single threaded, yet almost everything that is hard in
it is interleaving: guest code and the embedder's hooks run *inside* engine
operations and may call back into the same objects before those return, jobs and
Promise reactions split work over time, and the module loader keeps many
asynchronous activities in flight that share caches. The models keep that
control and abstract the data.

Line references are to the repository; the engine is under `src/src/` here
because the repository itself has a `src` directory.

## 1. The system

### Inventory

| component | state it keeps | operations | status |
|---|---|---|---|
| Agent job queue (`runtime/jobs.js`) | queue array and head, checkpoint state and generations, durable failures, job Realm | enqueue, run, checkpoint closures, recording and taking of failures | modelled, proved |
| Promises (`runtime/promise.js`, `builtins/promise.js`) | state, reactions, handled flags, reaction-job buffer; pairs of resolving functions | constructor, resolve, reject, then, reaction and thenable jobs, rejection tracking | modelled and proved but for the combinators |
| Module loader (`runtime/module-loader.js`) | record cache, in-flight promises, completed graphs, failure queues per traversal | loadModuleGraph, resolution, source loads, request acquisition, graph discovery | modelled to where linking begins, partly proved |
| Module linking (`runtime/module-linker.js`) | status, environments, DFS indices, components | linkModuleGraph, rollback | modelled, proved; which records link is an input |
| Module evaluation (`evaluator/modules.js`) | status, completions, deferred dependents, transaction stack | evaluateModule, deferral, commit, cascade, abort | modelled, proved |
| Agents, Realms and call chains (`runtime/agent.js`, `stack-guard.js`) | synchronous and generator host chains and the guards charged to them | enter, leave, attach, adopt, merge, release | modelled; Realm frames in `JobQueue` |
| Generators (`generator-object.js`, `generator-*-frames.js`) | generator state, frame stack | next, return, throw; the frame machine | modelled |
| Recursive evaluator (`evaluator/`) | none beyond environments | statements, expressions, patterns, classes | modelled as the reference for the frame machine |
| Iterators, Promise.all and race | iterator records, element counters | step, close, delegate; combine | stepping and closing modelled |
| Objects, properties, arrays | property maps, prototypes, lengths | essential internal methods, Array methods, for-in | modelled |
| Environments and declarations | environment records, global object | declaration instantiation, references, eval | modelled |
| Functions and construction | function environments, instances | call, construct, super, new.target | modelled |
| Parser front end (`parser.js` without Acorn) | none kept; trees, graphs, contexts during a call | early errors, shape of custom trees, snapshots, program reuse | modelled |
| Roadmap authority ledger (`tools/test262/es2015-provenance*.js`) | tracked files and the ledger of authority records on main | the range check of a pull request | modelled, abstractions in section 2 |
| Conversions and operators, number formats | none | ToPrimitive, comparison, arithmetic; digits | modelled on integers |
| Dates; JSON; URI functions | a time value; none; none | calendar, zones, texts, setters; parse, stringify, revive; encode, decode | modelled |
| Imports, exports and namespaces (`module-record.js`, `module-linker.js`, `module-namespace.js`) | entries of records, bindings of module environments, names of namespaces | resolveExport, binding, initialization | modelled |
| RegExp, Strings, Symbols and errors, embedding API, tools | | | left out, see section 7 |

How they interact. `api.js` hands the embedder an Agent with Realms. Every
asynchronous effect is a *job* of the Agent: Promise reactions and thenable
adoption call `enqueueJob`, which appends to the queue and, if no checkpoint is
scheduled, calls the embedder's `scheduleMicrotask` **synchronously** with a
closure. The closure, a manual `runJobs`, or both, drain the queue; jobs run guest
code, which settles other Promises, which enqueue more. Promises also call the
embedder's rejection tracker. The module loader is the one part that uses *host*
Promises: it awaits the embedder's `resolve` and `load` hooks and then hands
a fully acquired graph to the linker and the evaluator, which are
synchronous; a module body may reach a host function that links and evaluates
again. Guest code reaches objects, environments and constructors through the two
evaluators; every essential method of an object may in turn call guest code.

What is hard, therefore:

- re-entry at every point where a hook or guest code runs (scheduling hook,
  tracker, reporter, `then` getters, handlers, module bodies, accessors,
  conversions, callbacks of built-ins);
- errors that guest code cannot catch, which unwind through half-done loops;
- shared in-flight work in the loader: one failure must reach the traversals it
  belongs to and no later one;
- evaluation of a cycle that is suspended by the evaluation it is nested in;
- frames of several Agents on one host stack, charged through structures that merge,
  end and are released by `finally` blocks in an order no caller sees;
- a generator body that stops inside any expression, pattern or statement and has
  to go on as if it had not, in a second implementation of the language;
- lists and compacted arrays whose indices move while in use, and the same for
  lengths, keys and bindings that guest code changes under a built-in;
- checks that are written twice and must agree: the tables of the parser, the two
  walks over an embedder's tree, the range check and what main becomes by it.

`PROJECT.json` lists the hazards at their lines with the properties that guard
against them.

### What makes each component correct

- *Job queue*: accepted jobs start once, in order; a pending job is always
  covered by a drain or a live closure; drains do not nest; the failure list is
  the window it claims to be; jobs run in their Realm.
- *Promises*: exactly one way to settle a pending promise; every reaction runs
  once, in order of registration; the tracker is told the truth; adoption keeps
  the outcome and completes.
- *Loader*: a graph is complete only if closed; failure waves separate retries
  from older traversals; the ledger of failures is exact and empties; every root
  call settles.
- *Linking*: all or nothing; stored components are the graph's strongly connected
  components.
- *Evaluation*: bodies run once, after their dependencies; a component has one
  outcome; whoever was deferred on a failure fails with it; nothing is left
  under evaluation.
- *Call chains*: a chain has charged exactly the active frames of its Agents; it
  lasts as long as the calls it is for; recursion across Agents keeps to a shared
  budget.
- *Generators*: a body does what the recursive evaluator would do if a yield
  were a call; iterators are ended once however a loop is left; a resume comes
  back.
- *Objects*: no step of any operation breaks an invariant of the essential methods
  (frozen stays frozen, prototype chains end, a length covers its elements); a built-in
  that nothing disturbs computes what its definition says.
- *Environments, construction*: names mean what is declared around them, a
  declaration changes its own scope only, `this` is bound once, instances inherit
  from the new target.
- *Front end*: what is accepted is what the rules accept; what is run is what was
  handed in.
- *Ledger*: main holds what its ledger says, and only the ledger changes what it owns.
- *Library functions*: they meet reference definitions and are inverses of one
  another where they should be.

## 2. Modules

| module | models | role |
|---|---|---|
| `AgentJobs` | – | abstract FIFO that an Agent promises |
| `JobQueue` | `jobs.js`, Realm frames of `agent.js` | detailed; implements `AgentJobs` |
| `Promises` | `promise.js`, `builtins/promise.js` | uses the queue as the FIFO `JobQueue` is shown to be |
| `ModuleLoader`, `MCModuleLoader` | `module-loader.js` | acquisition of graphs |
| `ModuleLinking` | `linkModuleGraph` | linking and its rollback |
| `ModuleCommits` | – | abstract outcomes of evaluation |
| `ModuleEvaluation`, `MCModuleEvaluation` | `evaluator/modules.js` | extends `ModuleLinking`; implements `ModuleCommits` |
| `HostChains` | `stack-guard.js`, chains of `agent.js` | accounting of the host stack |
| `SyntaxTrees`, `Evaluator` | `completion.js`, `reference.js`, `iterator.js`, `statements.js`, `expressions.js`, `patterns.js`, `classes.js` | nodes and completions; the recursive evaluator (`RECURSIVE`, TLC only) |
| `StatementFrames`, `ExpressionFrames`, `GeneratorMachine` | `generator-*.js` | one action per kind of frame; the generator object on top |
| `ModuleExports` | `module-record.js`, `resolveExport`, `module-namespace.js` | names that modules import from one another (`RECURSIVE`, TLC only) |
| `ObjectModel`, `Objects` | `object.js`, `array-object.js` and the other exotics, `builtins/array.js`, `builtins/object.js` | functions of a heap; methods as sequences of operations; their interleaving with guest code |
| `Scopes`, `Construction` | `environment.js`, `declarations.js`, `eval.js`; `function-object.js`, `builtins/function.js` | declaration and reference; calls and constructions |
| `EarlyErrors`, `SyntaxTables`, `ProgramGraphs`, `ProgramReuse` | `parser.js`, `static-semantics.js`, `directive.js` | the four jobs of the front end |
| `RangeCheck`, `RoadmapAuthority` | `es2015-provenance.js`, `es2015-provenance-check.js` | files, records and the check of one range; the life of main |
| `Dates`, `JsonText`, `JsonGrammar`, `JsonWalk`, `GlobalUri`, `Operators`, `NumberFormat` | the built-ins of these names, `operators.js`, `conversion.js` | algorithms against reference definitions |
| `MCExecution`, `MCObjects`, `MCScopes`, `MCFrontend`, `MCRoadmapAuthority`, `MCBuiltins` | – | instances; most compose several modules, a behaviour being one of theirs |
| `SequenceLemmas` | – | lemmas on slices, splices, `Front`, `Last`, and counts of elements in a set |
| `JobQueueProofs`, `PromisesProofs`, `AdoptionProofs`, `ReactionProofs`, `ModuleLoaderProofs`, `ModuleEvaluationProofs` | – | the theorems of section 5 |

In all modules, operators whose comment begins with `Mistake:` are not part of the
model: each is a deliberately wrong variant of the definition after it, a slip that
could be made in the code. `PROJECT.json` pairs every property of every passing run
with one such variant under which TLC finds the property violated, which shows
that the property can fail at all on the instance it is checked on.

### JobQueue

`stack` is the JavaScript call stack restricted to activations that matter: a
drain, a job, the scheduling hook, the reporter, a call into a Realm. An action
is a stretch of engine code between two points where foreign code runs;
foreign code is executing whenever the innermost frame is not a drain. So
`scheduleCheckpoint` is `ScheduleCheckpoint` (up to the call of the hook) and
`HookReturn` or `HookThrow`; `run` is `BeginDrain`, `StartJob`, `JobReturns` or
`JobFails`, and `EndDrain`. A checkpoint closure is its generation number in
`callbacks`; the host may call it any number of times and at any moment.
`enqueued`, `started`, `failureLog` and `schedulerFailed` are history for the
properties. `validateJob` and the drain report (a return value) are left out.

### Promises

The same style with the activations of Promise code: `trigger` is the loop of
`triggerPromiseReactions`, `flush` that of `enqueueRejectedPromiseReaction`,
`getThen` the reading of `then` in a resolve function, `handler`, `native` and
`thenable` the calls made by jobs. `thrown` says that an error which guests
cannot catch is unwinding the stack. Abstractions: one handler field stands for
both reactions of a registration; only intrinsic constructors occur; the handled
flag of a fulfilled promise, which the code never reads, is left out.

### ModuleLoader

A set of activities (root calls, traversals, request acquisitions), each of
which awaits one thing at a time; `awaits` says what. An action is the code from
one `await` to the next. Which ready activity goes on first is left open, an
over-approximation of the host's microtask order, and so are the moments at
which hooks settle. A settlement and the `finally` that removes the in-flight
entry are one action where nobody can see between them; for request
acquisition somebody can, so it closes in a step of its own (`RequestCloses`).
The failure queues are kept with their sequence numbers, counts and
compaction; `FoundFailure` says what the binary search finds.
`loadModuleGraph` from inside a load hook is known by the one fact that matters,
whether it is the hook of the module it asks for.
The test of `activeLoadIdentifiers` in `acquireSourceRecord` cannot be reached
with another outcome and is left out. So is the cache of evaluations by root in
`loadAndEvaluate` (`module-loader.js:163`): `ImplementsModuleCommits` shows that
the outcomes it keeps never change.

A root call that joins a traversal in flight may get an error that was recorded
before the call was made; the model has this behaviour, and the properties
allow it.

### ModuleLinking and ModuleEvaluation

One action is one turn of the loop of `linkRecord`, or of the evaluation loop.
`linkPending` and `transactions[i].pending` are the explicit frame stacks of the
code. `broken` is the set of records whose imports or exports do not resolve; it
is fixed at the start and stands for the results of `resolveExport` and of
the validation before it. `dfsOnStack` is membership of `linkStack`. Evaluations
nest: `transactions` is the stack of them, and while the innermost runs a body,
that body may `Link` or `EvaluateModule` any module, as the native functions in
`test/module-evaluation.test.js` do. An error is named by the module whose body
threw it. `bodiesStarted`, `repeated` and `waited` are history. `Dependencies` is
reachability, defined as the least closed set, so that it can be reasoned about
without induction.

### HostChains

`stack` is again the JavaScript call stack, here restricted to the activations
with something to undo in a `finally`: `link` is `callFunction`, `guard` a
guarded frame, `reference` and `resume` the two parts of a generator method,
`iterate` the frame that `iteratorNextWithMethod` charges by itself. `throwing` says
that an error is on its way down; `Unwind` is the innermost `finally` in both
cases. The two kinds of chain have the same shape, so their books are two values of
one type: the chains of the union-find structure, the chain each Agent is on, and
the tokens each guard keeps. A guard is active when its depth is not 0. Left out:
path compression, the counters that repeat the lengths of the token lists, and
`withLinkedActiveExecutionRealm`, whose check `ParticipantsStayLinked` shows to
pass. Constructors, accessors and coercions make the same links as calls.

The documentation of `StackGuard` (`stack-guard.js:84`) says that the synchronous
count exists only while at least two Agents share a path. The code makes a chain
for two Realms of one Agent as well, as a test expects
(`test/stack-overflow.test.js`, "cross-Realm recursion on one Agent"); the model
follows the code.

### The generator machine

Generators run on frames of their own (`GeneratorExecution`), everything else on
the recursive evaluator, and a frame leaves to that evaluator whatever contains
no yield. So the language is implemented twice, and the halves meet at every
node that has a yield somewhere below. `Evaluator` is the recursive evaluator, as
operators from a tree, a context and a *run* (the guest operations so far) to a
completion and the run after it. `StatementFrames` and `ExpressionFrames` are
the dispatch functions: one action per kind of frame, one disjunct per phase, which
pushes a child, pops with a result or suspends. `frames`, `input` and `output` are
the fields of `GeneratorExecution`; `log` is what guest code has observed; `state`
is that of `GeneratorObject`, `resumed` the completions it was called with.

For the comparison, and only there, a yield in `Evaluator` is a call that
takes the next completion sent: this is what ECMAScript says a yield is.
`RunsLikeTheEvaluator` replays the calls made so far under it and compares the
two logs.

Abstractions. A value is one of a few strings; an environment is a name and a
copy number, so a context says which block, iteration or class scope code runs
in; a variable or property holds its own name, and reading or writing some
of them fails. What a program can tell apart is therefore the order of the
operations, their operands, contexts and errors. Left out: function declarations
in blocks and Annex B (they are in `Scopes`), names given to anonymous functions
and classes, `new.target`, `super()` calls (they are in `Construction`), and the
binding of a catch parameter.

### Objects

`ObjectModel` gives each kind of object its essential methods as functions from a
heap to a result and a heap. `Objects` has a stack of guest code and of the
built-ins that wait for it; between any two operations of a built-in guest code may
define, delete, assign, change a prototype or freeze. Its first part describes each
Array method twice: as the sequence of operations it performs, and as what it is for.
`MaxLength` stands for 2^32 - 1, so that lengths and indices meet their limit.

### Scopes and Construction

Code is what it declares; what a body does between its declarations is any action,
in any order. `Scopes` keeps the records and the global object (an object of
`ObjectModel`), `Construction` the function environments, `this` and prototypes.

### ModuleExports

Three modules are written item by item, linked from any root and evaluated. A link is one
step: its order is in `ModuleLinking`, where `broken` is the set of records for which
`Links` is false here. `ResolutionIsExact` compares the search of `resolveExport`, whose
branches share the pairs they have entered, with a definition that has no search: the set
of bindings that any way of following lists and stars ends at. `LinkedNamesAreBound` says
what a link leaves: imports are one step from a binding that exists, namespaces have
the names that resolve, and what is uninitialized is what the body initializes.

### The front end

`EarlyErrors` grows a program node by node and compares the walk of the code with
the early errors of ECMAScript, stated over the whole tree. `SyntaxTables` walks down
custom trees and compares the three tables with the grammar. `ProgramGraphs` runs the
copy and the checks on graphs with sharing, cycles, accessors and exotic prototypes.
`ProgramReuse` writes a program in pieces. Acorn is external.

### The roadmap ledger

A commit is a function from the roles of tracked files to contents, a digest of a
content is the content. A pull request starts from what its author intends (external
operators named `Intended...`) and may deviate in one file, one record or its body;
one may wait while main moves.

Not every check reads the files it lets through. The decision profile allows changes to
the conformance page, report, audit and taxonomy, and `validateRangeContent`
(`es2015-provenance-check.js:5562`) reads the decision fragment only; foundation and
maintenance allow any conformance page; without a marker, a base of version 2 does not
protect the subset, and before the foundation no generated file is protected.
Such a range may put any bytes there, and the model's does. What main takes so is
remembered in the history variable `unread`, and **`MainIsTheLedger` holds only with that
exception**: it says nothing of a file in `unread`, nor of what is computed from one,
save that an audit or taxonomy still tells the truth about the campaigns applied later, and
`CurrentAuthoritiesAreUsable` asks that report and subset be read and that all
generated files parse, since a report is projected from the records of BASE and a wrong
one stops campaigns. Without the exception the invariant fails at once: found,
migrate, and decide with a wrong file. `LedgerIsAuthority` needs no exception. Main
goes on from such files when they are of their kind (`Misgenerated`, for the roots in
`Misjudged`, up to commit `MaxUnread`); bytes that do not parse are reached and not
continued, as every stray is (`MaxStrays`), for nothing can be projected from them.

Merging assumes that the guard was run again on
present main; GitHub is external; repairs are merged on the ordinary check alone, over the
guard's refusal, as the workflow has it. Abstracted: path aliasing, sorted lists,
the details of the H0 bundle and its reconciliation, the bootstrap and issue-77
ranges that one old commit alone can use, the repair of a bootstrap; the
projection of an ES5 selection is that of level P0 only. A maintenance range at a
v2 base accepts a HEAD with a v3 manifest (`es2015-provenance-check.js:954`); the model does too.

### Library functions

`Dates` counts days one by one against the closed formulas, in four time zones.
`LocalTimeIsInverted` excepts the last hour of summer time in the range, where
the probe for standard time is not clamped (`date.js:831`), and the first year,
-271821. `JsonText` is the recursive descent, `JsonGrammar` writes texts as long as the
parser asks for more and compares with the grammar, `JsonWalk` has the two walks with
guest code changing the objects. The escapes `\/` and `\f` are left out (data), and with
three objects no walk gets as deep as `MaxDepth`, so `TooDeep` is there but does not happen. `GlobalUri` works on code units and octets. Which ASCII characters `decodeURI` leaves
escaped is only lightly constrained by `UrisReadBack`.
`Operators` uses words of 4 bits and leaves out fractions and -0. `NumberFormat` has
significands of up to 6 bits, limbs of two digits and correspondingly small limits.

## 3. Runs

Every run of kind *pass* finishes without an error within minutes.

| run | question | bounds |
|---|---|---|
| `job_queue` | FIFO refinement, coverage, failure window, Realms, accepted jobs start | 2 jobs, 3 foreign activations, window of 2 with an edge of 1, compaction at every step |
| `promises` | one route, reactions once and in order, tracker, adoption | 3 promises, 4 pairs, 3 activations, hooks that call back and uncatchable errors; an embedder with a scheduler, and one without |
| `promises_liveness` | adoption completes | 3 promises, 4 pairs, 2 activations |
| `promises_hook_order` | *violation*: registration order with a scheduling hook that calls back | 4 promises, 4 pairs |
| `module_loader` | closed graphs, waves, ledger, root calls settle | 2 modules that import each other, 3 root calls, 2 failures |
| `module_evaluation` | linking and evaluation, refinement of `ModuleCommits` | four graphs of 4 modules, 3 nested evaluations, 1 host error, any set of broken modules |
| `execution` | charges, chains, shared budgets; agreement of generators with the recursive evaluator, iterators, resumes return | 2 Agents with 2 Realms each, 8 activations, budgets around a default of 4; bodies over every kind of frame, 4 resumes |
| `objects` | promises of objects, methods, for-in; conversions, operators, number texts | 3 objects, indices up to 4, 2 operations of guest code, 5 activations; 8 objects to convert; numbers of 6 bits |
| `scopes` | names, declarations, bindings, imports and exports; construction | 3 bodies, 1 change by guest code, 2 names; programs of up to 4 activations over seven functions; graphs of 3 modules and 4 items in two vocabularies |
| `frontend` | early errors, tables, snapshots, reuse | programs of up to 6 nodes in five vocabularies; every path down a custom tree; graphs of 3 objects and 4 properties; 3 statements in pieces of 2 |
| `roadmap_authority` | main is its ledger but for files taken unread, the ledger governs | 6 commits, 5 once a file was taken unread, 2 campaigns over disjoint roots and one applied before, 1 waiting pull request |
| `builtins` | dates, JSON, URIs | four zones, days at the ends of years, summer time and range; texts to bounds by alphabet; 3 objects, 2 changes; texts of 3 units or 4 octets |

Why these bounds are enough for the cases that matter. Two jobs pass and compact a
queue with one job appended while another runs, and overflow a window of 2; the
thresholds of the code (`DURABLE_JOB_FAILURE_DETAIL_LIMIT` and so on) are constants of
the module, so the boundary is reached with few jobs. Three activations are a hook
inside a job inside a drain, the deepest pattern in which two engine loops are under
way at once. Four pairs are two registrations on one promise, or one registration and
an adoption. Three roots and two failures are the least with an older wave, a
retry and a traversal between them. The graphs have a cycle that is entered at one
member and left at another, a component above a component, a cycle held up by two
leaves, and a chain with a shortcut; three nested evaluations let an inner one
suspend on the middle one while the outermost has a further claim. Where the
theorems of section 5 hold, these bounds do not matter any more. Eight activations
are two calls across Agents with guarded frames between them and a generator method
below, enough to form two chains, merge them, and end one while frames it
charged are active. The generator bodies are every kind of expression with yields in
and between its operands, every pattern against iterables that are shorter, longer,
failing or that fail to close, every statement around every jump; four resumes
pass two yields in each of two operands. Two operations of guest code are a change and
what undoes or exploits it, with a hole and an undeletable element in the array. Three
bodies are a function inside an eval inside a script. Four items are two stars and two
declarations that they lead to, or a cycle of stars with one. Six commits prepare, apply and repair
with another campaign between them. The other bounds are at the edges that
the code distinguishes.

`CHECK_DEADLOCK FALSE` stands where the system really ends or the input does: the
loader when the root calls are used up and all is settled, evaluation when everything
is evaluated or failed, a generator when its resumes are used up, a program, text or
history of its largest size. In the other runs the bounds are on foreign code and
something can always go on.

### Findings

- `promises_hook_order` (code). `docs/conformance.md` says "Reactions preserve
  registration order". `triggerPromiseReactions` marks the promise settled,
  then enqueues its reactions one at a time; the first enqueue calls
  `scheduleMicrotask`, and a `then` on the same promise from inside that hook is
  enqueued ahead of the reactions not yet reached. `ReactionsRunOnceInOrder`
  shows that without such a hook the order is kept, the tracker's calls included.

Other disagreements between the code and its texts that were met while modelling. The
models follow the code; no run is kept for them.

- A throwing `scheduleMicrotask` is said to invalidate "that generation" (async-runtime
  design document, lines 189-190). If the hook itself drains and enqueues again, so that a
  newer generation is scheduled, the `catch` at `jobs.js:218` invalidates the newer one.
- The comment of the array class (`array-object.js:21-24`) has the new length converted
  before anything else; the code reads the current length first (line 81).
- A block function that Annex B hoists makes a var of a name that is a lexical global of
  another script (`declarations.js:257`, against the comment at 105-107).
- The namespaces of `es2015-provenance-check.js:2889` differ from those of the design
  document of 2026-08-21, line 484.

## 4. Fairness

Engine steps are ordinary code and get weak fairness. Foreign code is assumed to
return: an activation at a given stack depth that could complete again and again
does (strong fairness, by depth, since it may call others first). A host that
accepted a closure runs it once its stack is empty (strong fairness of
`HostTurn`), which is what `queueMicrotask` does. The loader assumes that the
embedder's `resolve` and `load` Promises settle and that the host runs ready
reactions (weak fairness of `Progress`). A resume of a generator is a synchronous
loop, so its dispatches have weak fairness; resumes have none. Nothing is assumed to
*start*: no fairness on enqueues, registrations, root calls.

## 5. Proofs

TLAPS proves, for every value of the constants that the named assumptions allow:

| module | theorem | statement |
|---|---|---|
| `JobQueueProofs` | `Typing` | `Spec => []TypeOK` |
| | `JobsAreFifo` | `Spec => ImplementsAgentJobs` |
| | `FailuresAreWindow` | `Spec => []DurableFailuresAreWindow` |
| | `DrainsNeverNest` | `Spec => []OneDrainAtATime` |
| | `JobsAreCovered` | `Spec => []PendingJobsAreCovered` |
| | `JobsRunInTheirRealm` | `Spec => []JobRunsInItsRealm` |
| `PromisesProofs` | `Typing` | `Spec => []TypeOK` |
| | `SettlementsAreFinal` | no step changes a settled promise, re-opens a used pair, or changes whom a promise follows |
| | `OneRoute` | `Spec => []ExactlyOneRoute` |
| | `TrackerHearsTheTruth` | `Spec => []TrackerIsTruthful` |
| `AdoptionProofs` | `AdoptionsAreKept` | `Spec => []AdoptedOutcomeIsKept` |
| `ReactionProofs` | `ReactionsRunOnce` | `Spec => []EveryReactionRunsOnce` |
| | `ReactionsRunInOrder` | `Spec => []ReactionsRunOnceInOrder` |
| `ModuleLoaderProofs` | `Typing` | `Spec => []TypeOK` |
| | `CompleteGraphsAreClosed` | `Spec => []CompletedGraphsAreClosed` |
| | `LedgerExact` | `Spec => []FailureLedgerIsExact` |
| | `WavesPreserved` | `Spec => []WavesArePreserved` |
| `ModuleEvaluationProofs` | `LinksStayWhole` | `Spec => []LinksAreWhole` |
| | `Typing` | `Spec => []TypeOK` |
| | `BodiesBeginOnce` | `Spec => []BodiesRunOnce` |
| | `NothingStaysEvaluating` | `Spec => []NothingIsLeftEvaluating` |
| | `OutcomesReachDependents` | `Spec => []OutcomesAreShared` |
| | `CommitsAreKept` | `Spec => ImplementsModuleCommits` |

Assumptions. Those of the modules, which TLC evaluates too: `null` is no Realm and no
record, the two primitive values of `Promises` differ and are no promises, the edge of
the failure window is smaller than its limit, bounds and thresholds are naturals,
graphs map modules to sequences of modules. No set of modules, Realms or values has to
be finite. The bounds on foreign code are constants like the others: no theorem depends
on their values.

### The arguments

*Job queue.* Three independent invariants give the types: `QueueInv` (the slots
from `jobHead` on hold jobs), `ControlInv` (states, frames, generations) and
`WindowInv` (the list is `Window(failureLog)` *and* the overflow count is the
number dropped, without which the window is not inductive: the marker is
computed from the count). FIFO rests on `QueueInv` and three lemmas on sequences:
compaction keeps the rest of the queue, taking the first slot is `Tail`, and
appending a job appends to the pending part; every other action stutters in
`AgentJobs`. `OneDrainAtATime` is inductive only together with
`HooksBelowDrains`: a hook frame above the drain would return into
a state the drain did not leave. `PendingJobsAreCovered` needs besides that
a scheduled generation's closure is in the host's hands. `JobRunsInItsRealm` needs
`Matched`, that the Realm frames of the Agent are those of the calls and jobs on the
stack, one for one, read from the innermost down.

*Promises.* The types depend on how many promises and pairs there are: `TypeInv`
says that no reaction, job or activation names one that has not been made, and the
lemmas are stated for any n and m, so that making one more enlarges every type at
once. `OneRoute` counts the ways a pending promise can be settled: an unused pair is
one way per place that can call it, and such places are sequences (the reactions of a
promise, the queue, the stack). The count is the sum over these sequences of the number
of their elements that hit; `SequenceLemmas` says what `Append`, `Front`, `Tail` and
one changed element do to such a number, and each action moves one hit from one
sequence to another. `Begun` adds that what has been started is under way.
`TrackerHearsTheTruth` is inductive in the form `UpToDate \/ AboutToHear(p)`: either the
tracker has been told of every rejection without a handler, or the activation on top of
the stack is the fresh trigger loop of the one promise it is going to be told of;
the activations that the code leaves are such that nobody can look in
between. `AdoptionsAreKept` says more than that outcomes are equal: as long as a promise
is bound to repeat another's settlement, the only open pair that can settle it is used
by one reaction of the promise it follows (`Loyal`), held by no program, run by no
handler; that a getter cannot find another route is `OneRoute`.

*Reactions.* `EveryReactionRunsOnce` counts where a pair is in use: in the reactions of
promises, in what a flush has still to take from a buffer, in the queue, in trigger loops
and in running jobs and handlers. `ReactionInv` is `Balanced`, that this number is 1 for a pair
which is due and 0 for any other, with what it rests on (`Sane`): a promise has at most
one flush loop, which is somewhere in its buffer, settled promises have no
reactions left, a promise that is not being flushed has an empty buffer, and a pair the
program holds is not that of a lost promise. A step moves a use from one place to
another, and the places on both sides are sequences, so the lemmas on counts and on
sums over sequences (`SumOn`) suffice. Order (`OrderInv`): pairs are numbered as their
reactions are registered; in every place the reactions of a promise stand in the order of
these numbers, and those that are not in the queue are behind those that are. Its
heart is `TodoLines`: without a scheduler only the innermost activation can be a trigger loop with
reactions left, because an enqueue calls nobody, and its promise has neither
reactions nor a buffer. A flush calls the tracker in the middle, and there the buffer keeps
the order: what is registered meanwhile joins it behind the rest.

*Loader.* `ClosureInv`: of what a traversal has discovered, all but the module it visits
has its requests, and those are discovered or still to be looked at (`TraversalOK`). When
nothing is left to look at, the set is closed and joins the closed set
`completedGraphs`; what was complete before is skipped rightly. The rest says which
activity waits for what, so that an answer reaches the one that asked.
`LedgerInv` adds the failures: every queue of failures is ordered by sequence number,
which makes the halved search find its place, and holds just the failures that
some traversal keeps it for; trimming, compaction and release keep it so. A request in
flight remembers the queue its failure would join, so that a traversal that was
under way when the request failed finds the failure there although other
traversals came and went in between. What the folds over waiting activities and kept
failures compute is shown by induction on numbers and on finite sets, in the form that the
provers accept: among the counterexamples there would be a least one
(`NatInd` of `SequenceLemmas` and what follows it).

*Linking.* The proof that Tarjan's algorithm as it is written here finds the strongly
connected components, with links that begin where others ended or failed.
A record is open while it is on the link's stack. Every open record is in a cycle with
the record of one frame, its owner, the last that was entered before it (`OwnerInv`);
the ancestor index of a frame's record is the index of an open record that it
reaches (`LowInv`); and what an open record has looked at is linked, or open and
not below its owner's ancestor index (`EdgeInv`). So when the two indices are equal at
the end of a frame, what is on the stack above it reaches that record and is
reached by it, and requests nothing open below: it is a component. `LinkedInv` says that linked
records are closed under requests and have their components, so that a failed link
takes back its own records and nothing that an earlier link completed needs them.

*Evaluation.* `EvalInv` says of the stack of evaluations that all but the last are running a
body and that no two hold the same module. Of each one (`TransactionInv`): its frames
follow requests; what it holds, entered and not committed, is in the component
of an entered frame's record (`Holds`), is evaluating or failed (`InFlight`) and depends on the record on
top; and of what its records have requested up to now, all is evaluated or is held by
the same evaluation in the same component (`Resolves`). The last needs that a request found
under evaluation in this same transaction ends a cycle: it reaches the record on top
because it is held, so it is in its component. Bodies: one that began and has not ended is
running, or its module has failed and is held by nobody (`BodyInv`), so it cannot
begin again. Commits: when a component is committed all its members are held and all it
requests is evaluated or in it; no member has failed, because what failed depends on a
failed module that nobody holds (`OutcomeInv`), and that one would be evaluated or in
the component. Failures: the cascade is the least set that is closed under components
and under waiting, and three closed sets bound it: what is linked for good, what
consists of whole components, and what depends on the record on top. So whatever
fails depends on the thrower; nothing evaluated is among it, since
evaluated modules request evaluated ones only; and everything held fails, so that no module
is left evaluating. Waiting: whoever was deferred on a module is told with it, or
the module is evaluated (`WaitInv`). The refinement follows from what a completion
and a throw do (`CompleteEffect`, `ThrowEffect`): the first is `Commit` of one component
or a stutter, the second `Fail` of whole components or a stutter, and all
other steps change no outcome. TLC checked `LinkInv` and the parts of `EvalInv` on the
instance of `module_evaluation` before they were proved.

### What stays with TLC

- Liveness (`JobsEventuallyStart`, `AdoptionCompletes`, `RootsSettle`, `ResumesReturn`): fairness
  and `ENABLED` are outside the prover's reach.
- `ChargesAreExact` and `BudgetIsShared`: sums over sets of Realms and roots of a
  union-find structure of any height.
- `RunsLikeTheEvaluator` and what extends `Evaluator`: induction over trees, with
  `RECURSIVE` operators.
- The remaining modules, whose properties compare an algorithm with a definition on
  bounded data.

## 6. Plan

Done: the queue, Promises, the loader's closure, linking and evaluation with their
theorems; the other components as models. Left, the most important first:

1. `EnvironmentsKeepTheirBindings` of `Scopes` and `EssentialInvariants` of `ObjectModel` as
   theorems: they are about single steps and need no induction.
2. `ChainsLastAsLongAsCalls` of `HostChains`, with roots as a relation instead of a
   recursive function.
3. The counter of `Promise.all` and `race`, composed with `Promises`.
4. `ModuleExports` composed with `ModuleLinking`, so that `broken` becomes a consequence.

## 7. Not modelled

- Declarations of modules that bind several names, and what is nested in their statements.
- Regular expression matching is the host's; the text functions of String are
  sequential translations of data without state or callbacks.
- Arithmetic on doubles is out of TLC's reach; operators are checked on small
  integers and number texts on small significands.
- `Promise.all` and `Promise.race`, and constructors from `Symbol.species`.
- The in-flight evaluation in `loadAndEvaluate` (section 2, ModuleLoader).
- Symbols, errors, Math and the wiring of built-ins have no behaviour of their
  own beyond tables; `api.js` forwards to what is modelled.
- Conformance, benchmark and CI tools are programs around the engine, but for the
  roadmap ledger, which keeps state over commits.
