------------------------------ MODULE Promises ------------------------------
(***************************************************************************)
(* Promise objects, their resolving functions, reactions and rejection     *)
(* tracking (src/src/runtime/promise.js and builtins/promise.js) in one    *)
(* Agent.  The Agent's jobs are the FIFO queue that module JobQueue shows  *)
(* them to be.                                                             *)
(*                                                                         *)
(* As in JobQueue an action is a stretch of engine code between two points *)
(* at which foreign code runs; `stack` holds the activations that have not *)
(* returned.  Foreign code runs at the bottom of the stack and on top of   *)
(* an executing handler, a thenable's `then`, a `then` getter, the         *)
(* rejection tracker and the scheduling hook.                              *)
(***************************************************************************)
EXTENDS Integers, SequencesExt

CONSTANTS
  Primitive, GuestError, \* a non-object value; the reason of every rejection
  JobHosts,              \* the hooks embedders supply
  HookCalls,             \* may scheduleMicrotask call back into the Agent?
  HostErrors,            \* may foreign code fail with an error guests cannot catch?
  MaxPromises,           \* bound: promises ever created
  MaxPairs,              \* bound: pairs of resolving functions ever created
  MaxDepth               \* bound: activations when foreign code makes a call

ASSUME ValueAssumption == /\ Primitive # GuestError
                          /\ {Primitive, GuestError} \cap Int = {}
ASSUME HostAssumption == /\ JobHosts \subseteq SUBSET {"scheduler", "tracker"}
                         /\ HookCalls \in BOOLEAN
                         /\ HostErrors \in BOOLEAN
ASSUME BoundAssumption == /\ MaxPromises \in Nat
                          /\ MaxPairs \in Nat
                          /\ MaxDepth \in Nat

VARIABLES
  jobHost,         \* the hooks this embedder supplied; fixed
  promises,        \* the PromiseObjects, in order of creation
  pairs,           \* the pairs (resolve, reject) of createResolvingFunctions
  queue,           \* accepted jobs not yet started
  checkpointState,
  stack,           \* activations, innermost last
  thrown           \* an error guest code cannot catch is unwinding the stack

vars == <<jobHost, promises, pairs, queue, checkpointState, stack, thrown>>

NewObject == 0                      \* an object that is not a promise
Value == {Primitive, GuestError, NewObject} \cup 1..MaxPromises
IsObject(value) == value \in 0..MaxPromises

\* The onFulfilled and onRejected of one registration: both absent, both a
\* function of the program, or both functions of the pair of that number.
\* Only the one that suits the settlement is ever used.
NoHandler == 0
Program   == -1
Handler   == {NoHandler, Program} \cup 1..MaxPairs

\* The fulfil and the reject reaction of one registration; `derived` is the
\* pair of its capability and `source`, for the properties, its promise.
Reaction == [source: 1..MaxPromises, derived: 1..MaxPairs, handler: Handler]

Settled == {"fulfilled", "rejected"}

Job == [kind: {"reaction"}, reaction: Reaction, type: Settled, argument: Value]
         \cup [kind: {"thenable"}, promise: 1..MaxPromises, thenable: Value,
               intrinsic: BOOLEAN]
ReactionJob(reaction, type, argument) ==
  [kind |-> "reaction", reaction |-> reaction, type |-> type, argument |-> argument]
ThenableJob(p, thenable, intrinsic) ==
  [kind |-> "thenable", promise |-> p, thenable |-> thenable, intrinsic |-> intrinsic]

\* reactions stands for promiseFulfillReactions and promiseRejectReactions,
\* which always hold the same registrations.  promiseIsHandled matters only
\* until and after a rejection; that of a fulfilled promise is never read.
\* For the properties: `reports`, what the tracker was told of it; `follows`,
\* the promise whose settlement it last undertook to repeat; `lost`, an
\* uncatchable error dropped the only way to settle it.
Promise == [state: Settled \cup {"pending"}, result: Value,
            reactions: Seq(Reaction), handled: BOOLEAN, handleReported: BOOLEAN,
            enqueueInProgress: BOOLEAN, reactionJobs: Seq(Job),
            reachable: BOOLEAN, follows: 0..MaxPromises, lost: BOOLEAN,
            reports: Seq({"reject", "handle"})]
PendingPromise(reachable, follows) ==
  [state |-> "pending", result |-> Primitive,
   reactions |-> <<>>, handled |-> FALSE, handleReported |-> FALSE,
   enqueueInProgress |-> FALSE, reactionJobs |-> <<>>,
   reachable |-> reachable, follows |-> follows, lost |-> FALSE,
   reports |-> <<>>]

\* `exposed`: the program holds these functions.
Pair == [promise: 1..MaxPromises, alreadyResolved: BOOLEAN, exposed: BOOLEAN]
NewPair(p, exposed) ==
  [promise |-> p, alreadyResolved |-> FALSE, exposed |-> exposed]

DrainFrame             == [kind |-> "drain"]
HookFrame              == [kind |-> "hook"]
TrackerFrame           == [kind |-> "tracker"]
JobFrame(job)          == [kind |-> "job", job |-> job]
HandlerFrame(c)        == [kind |-> "handler", pair |-> c]
NativeFrame(c)         == [kind |-> "native", pair |-> c]
ThenableFrame(c)       == [kind |-> "thenable", pair |-> c]
GetThenFrame(p, value) == [kind |-> "getThen", promise |-> p, resolution |-> value]
TriggerFrame(p, todo, threw) ==
  [kind |-> "trigger", promise |-> p, todo |-> todo, threw |-> threw]
FlushFrame(p, next, threw) ==
  [kind |-> "flush", promise |-> p, next |-> next, threw |-> threw]

Frame ==
  [kind: {"drain", "hook", "tracker"}]
    \cup [kind: {"job"}, job: Job]
    \cup [kind: {"handler", "native", "thenable"}, pair: 1..MaxPairs]
    \cup [kind: {"getThen"}, promise: 1..MaxPromises, resolution: Value]
    \cup [kind: {"trigger"}, promise: 1..MaxPromises, todo: Seq(Reaction), threw: BOOLEAN]
    \cup [kind: {"flush"}, promise: 1..MaxPromises, next: Nat, threw: BOOLEAN]

running       == IF stack = <<>> THEN "embedder" ELSE Last(stack).kind
Running(kind) == running = kind
Engine(kind)  == ~thrown /\ Running(kind)
Foreign       == running \in {"embedder", "handler", "thenable", "getThen", "tracker", "hook"}
\* Foreign code that may call the Agent.
ForeignCode == /\ ~thrown /\ Foreign
               /\ Running("hook") => HookCalls
               /\ Len(stack) < MaxDepth

\* Ids are kept for the promise and the pairs that intrinsic thenable jobs
\* will create, so that the bounds never keep a job from running.
Owed == Cardinality({i \in 1..Len(queue) : queue[i].kind = "thenable"})
Room(newPromises, newPairs) ==
  /\ Len(promises) + Owed + newPromises <= MaxPromises
  /\ Len(pairs) + 2 * Owed + newPairs <= MaxPairs

-----------------------------------------------------------------------------
Init ==
  /\ jobHost \in JobHosts
  /\ promises = <<>> /\ pairs = <<>> /\ queue = <<>>
  /\ checkpointState = "idle" /\ stack = <<>> /\ thrown = FALSE

\* enqueueJob(job) by a caller whose activations are `base`.
Enqueue(job, base) ==
  /\ queue' = Append(queue, job)
  /\ IF "scheduler" \in jobHost /\ checkpointState = "idle"
       THEN checkpointState' = "scheduled" /\ stack' = Append(base, HookFrame)
       ELSE UNCHANGED checkpointState /\ stack' = base

\* settlePromise() up to its loop over the reactions.
Settle(p, state, result, base) ==
  /\ IF promises[p].state # "pending"
       THEN UNCHANGED promises /\ stack' = base
       ELSE /\ promises' = [promises EXCEPT ![p].state = state,
                                            ![p].result = result,
                                            ![p].reactions = <<>>]
            /\ stack' = Append(base, TriggerFrame(p, promises[p].reactions, FALSE))
  /\ UNCHANGED <<queue, checkpointState>>

\* Mistake: only the promise is looked at, not the pair's alreadyResolved.
IgnoredWhenSettled(c) == promises[pairs[c].promise].state # "pending"
Ignored(c) == pairs[c].alreadyResolved

CallReject(c, base) ==
  IF Ignored(c)
    THEN stack' = base /\ UNCHANGED <<promises, pairs, queue, checkpointState>>
    ELSE /\ pairs' = [pairs EXCEPT ![c].alreadyResolved = TRUE]
         /\ Settle(pairs[c].promise, "rejected", GuestError, base)

CallResolve(c, resolution, base) ==
  LET p == pairs[c].promise IN
  IF Ignored(c)
    THEN stack' = base /\ UNCHANGED <<promises, pairs, queue, checkpointState>>
    ELSE /\ pairs' = [pairs EXCEPT ![c].alreadyResolved = TRUE]
         /\ \/ resolution = p /\ Settle(p, "rejected", GuestError, base)
            \/ ~IsObject(resolution) /\ Settle(p, "fulfilled", resolution, base)
            \/ /\ IsObject(resolution) /\ resolution # p
               /\ stack' = Append(base, GetThenFrame(p, resolution))
               /\ UNCHANGED <<promises, queue, checkpointState>>

\* The getter of `then` throws, or the value is no function.
ThenThrows ==
  /\ Engine("getThen")
  /\ Settle(Last(stack).promise, "rejected", GuestError, Front(stack))
  /\ UNCHANGED <<jobHost, pairs, thrown>>

ThenNotCallable ==
  /\ Engine("getThen")
  /\ Settle(Last(stack).promise, "fulfilled", Last(stack).resolution, Front(stack))
  /\ UNCHANGED <<jobHost, pairs, thrown>>

\* `then` is a function; for a promise it may be the intrinsic one.
ThenCallable(intrinsic) ==
  LET p     == Last(stack).promise
      value == Last(stack).resolution
  IN
  /\ Engine("getThen") /\ Room(1, 2)
  /\ intrinsic => value # NewObject
  /\ Enqueue(ThenableJob(p, value, intrinsic), Front(stack))
  /\ promises' = IF intrinsic THEN [promises EXCEPT ![p].follows = value] ELSE promises
  /\ UNCHANGED <<jobHost, pairs, thrown>>

-----------------------------------------------------------------------------
\* One turn of the loop of triggerPromiseReactions().
TriggerNext ==
  LET frame == Last(stack)
      p     == frame.promise
  IN
  /\ Engine("trigger") /\ frame.todo # <<>>
  /\ Enqueue(ReactionJob(Head(frame.todo), promises[p].state, promises[p].result),
             Append(Front(stack), TriggerFrame(p, Tail(frame.todo), frame.threw)))
  /\ UNCHANGED <<jobHost, promises, pairs, thrown>>

Track(p, operation, changed, base) ==
  IF "tracker" \in jobHost
    THEN /\ promises' = [changed EXCEPT ![p].reports = Append(@, operation)]
         /\ stack' = Append(base, TrackerFrame)
    ELSE promises' = changed /\ stack' = base

\* Mistake: the first error is thrown before the loop is over.
TriggerThrowsEarly ==
  /\ Engine("trigger") /\ Last(stack).threw
  /\ thrown' = TRUE /\ stack' = Front(stack)
  /\ UNCHANGED <<jobHost, promises, pairs, queue, checkpointState>>

\* The loop is over: settlePromise() throws the first error, or tells the
\* tracker of an unhandled rejection.
TriggerThrows ==
  /\ Engine("trigger") /\ Last(stack).todo = <<>> /\ Last(stack).threw
  /\ thrown' = TRUE /\ stack' = Front(stack)
  /\ UNCHANGED <<jobHost, promises, pairs, queue, checkpointState>>

\* Mistake: a handled rejection is reported as well.
TriggerReportsAll ==
  LET p == Last(stack).promise IN
  /\ Engine("trigger") /\ Last(stack).todo = <<>> /\ ~Last(stack).threw
  /\ IF promises[p].state = "rejected"
       THEN Track(p, "reject", promises, Front(stack))
       ELSE UNCHANGED promises /\ stack' = Front(stack)
  /\ UNCHANGED <<jobHost, pairs, queue, checkpointState, thrown>>

TriggerReturns ==
  LET p == Last(stack).promise IN
  /\ Engine("trigger") /\ Last(stack).todo = <<>> /\ ~Last(stack).threw
  /\ IF promises[p].state = "rejected" /\ ~promises[p].handled
       THEN Track(p, "reject", promises, Front(stack))
       ELSE UNCHANGED promises /\ stack' = Front(stack)
  /\ UNCHANGED <<jobHost, pairs, queue, checkpointState, thrown>>

\* markPromiseHandled() of a rejected promise, on activations `base`;
\* `changed` is what its caller has made of the promises.
MarkHandled(p, changed, base) ==
  LET report == ~promises[p].handled /\ ~promises[p].handleReported
      marked == [changed EXCEPT ![p].handled = TRUE,
                                ![p].handleReported = @ \/ report]
  IN IF report THEN Track(p, "handle", marked, base)
               ELSE promises' = marked /\ stack' = base

\* An outer call of enqueueRejectedPromiseReaction() will enqueue the job.
Buffers(p) == promises[p].enqueueInProgress

\* performPromiseThen() with a new intrinsic promise as its capability, called
\* on activations `base` when the pairs made so far are `before`.  A rejected
\* promise buffers the job while an outer call of the same function is still
\* telling the tracker or enqueueing.
PerformThen(p, handler, before, reachable, base) ==
  LET derived  == Len(before) + 1
      reaction == [source |-> p, derived |-> derived, handler |-> handler]
      job      == ReactionJob(reaction, promises[p].state, promises[p].result)
      child    == PendingPromise(reachable, IF handler = NoHandler THEN p ELSE 0)
  IN
  /\ pairs' = Append(before, NewPair(Len(promises) + 1, FALSE))
  /\ \/ /\ promises[p].state = "pending"
        /\ promises' = Append([promises EXCEPT ![p].reactions = Append(@, reaction),
                                               ![p].handled = TRUE], child)
        /\ stack' = base /\ UNCHANGED <<queue, checkpointState>>
     \/ /\ promises[p].state = "fulfilled"
        /\ promises' = Append(promises, child)
        /\ Enqueue(job, base)
     \/ /\ promises[p].state = "rejected" /\ Buffers(p)
        /\ promises' = Append([promises EXCEPT ![p].reactionJobs = Append(@, job)], child)
        /\ stack' = base /\ UNCHANGED <<queue, checkpointState>>
     \/ /\ promises[p].state = "rejected" /\ ~Buffers(p)
        /\ MarkHandled(p, Append([promises EXCEPT ![p].enqueueInProgress = TRUE,
                                                  ![p].reactionJobs = <<job>>], child),
                       Append(base, FlushFrame(p, 1, FALSE)))
        /\ UNCHANGED <<queue, checkpointState>>

\* One turn of the loop of enqueueRejectedPromiseReaction().
FlushNext ==
  LET frame == Last(stack) IN
  /\ Engine("flush") /\ frame.next <= Len(promises[frame.promise].reactionJobs)
  /\ Enqueue(promises[frame.promise].reactionJobs[frame.next],
             Append(Front(stack), FlushFrame(frame.promise, frame.next + 1, frame.threw)))
  /\ UNCHANGED <<jobHost, promises, pairs, thrown>>

FlushEnds ==
  LET frame == Last(stack) IN
  /\ Engine("flush") /\ frame.next > Len(promises[frame.promise].reactionJobs)
  /\ promises' = [promises EXCEPT ![frame.promise].reactionJobs = <<>>,
                                  ![frame.promise].enqueueInProgress = FALSE]
  /\ stack' = Front(stack) /\ thrown' = frame.threw
  /\ UNCHANGED <<jobHost, pairs, queue, checkpointState>>

-----------------------------------------------------------------------------
\* new Promise(executor), or a new capability of Promise.resolve and .reject;
\* the executor's own calls are the program's.
NewPromise ==
  /\ ForeignCode /\ Room(1, 1)
  /\ promises' = Append(promises, PendingPromise(TRUE, 0))
  /\ pairs' = Append(pairs, NewPair(Len(promises) + 1, TRUE))
  /\ UNCHANGED <<jobHost, queue, checkpointState, stack, thrown>>

Exposed(c)   == c \in 1..Len(pairs) /\ pairs[c].exposed
Reachable(p) == p \in 1..Len(promises) /\ promises[p].reachable

ProgramResolves(c, resolution) ==
  /\ ForeignCode /\ Exposed(c) /\ ~pairs[c].alreadyResolved
  /\ resolution \in {Primitive, NewObject} \/ Reachable(resolution)
  /\ CallResolve(c, resolution, stack)
  /\ UNCHANGED <<jobHost, thrown>>

ProgramRejects(c) ==
  /\ ForeignCode /\ Exposed(c)
  /\ CallReject(c, stack)
  /\ UNCHANGED <<jobHost, thrown>>

ProgramThen(p, handler) ==
  /\ ForeignCode /\ Reachable(p) /\ Room(1, 1)
  /\ PerformThen(p, handler, pairs, TRUE, stack)
  /\ UNCHANGED <<jobHost, thrown>>

\* runJobs(), or the host runs the checkpoint it was given.
RunJobs ==
  /\ ForeignCode /\ checkpointState # "draining"
  /\ checkpointState' = "draining" /\ stack' = Append(stack, DrainFrame)
  /\ UNCHANGED <<jobHost, promises, pairs, queue, thrown>>

\* Mistake: the checkpoint state is not reset.
EndDrainKeepsState ==
  /\ Engine("drain") /\ queue = <<>>
  /\ stack' = Front(stack)
  /\ UNCHANGED <<jobHost, promises, pairs, queue, checkpointState, thrown>>

EndDrain ==
  /\ Engine("drain") /\ queue = <<>>
  /\ checkpointState' = "idle" /\ stack' = Front(stack)
  /\ UNCHANGED <<jobHost, promises, pairs, queue, thrown>>

StartJob ==
  /\ Engine("drain") /\ queue # <<>>
  /\ queue' = Tail(queue)
  /\ stack' = Append(stack, JobFrame(Head(queue)))
  /\ UNCHANGED <<jobHost, promises, pairs, checkpointState, thrown>>

\* Mistake: a rejection is passed on as a value.
CallPairResolves(c, type, argument, base) == CallResolve(c, argument, base)

\* Calls resolve or reject of pair c with the outcome of a settlement.
CallPair(c, type, argument, base) ==
  IF type = "fulfilled" THEN CallResolve(c, argument, base) ELSE CallReject(c, base)

\* The callback of newPromiseReactionJob(): without a handler the derived
\* promise takes over the outcome, a function of the program runs as foreign
\* code, and a resolving function runs before the derived promise is resolved.
RunReaction ==
  LET job     == Last(stack).job
      derived == job.reaction.derived
      handler == job.reaction.handler
  IN
  /\ Engine("job") /\ job.kind = "reaction"
  /\ \/ /\ handler = NoHandler
        /\ CallPair(derived, job.type, job.argument, Front(stack))
     \/ /\ handler = Program
        /\ stack' = Append(Front(stack), HandlerFrame(derived))
        /\ UNCHANGED <<promises, pairs, queue, checkpointState>>
     \/ /\ handler \in 1..MaxPairs
        /\ CallPair(handler, job.type, job.argument,
                    Append(Front(stack), NativeFrame(derived)))
  /\ UNCHANGED <<jobHost, thrown>>

\* The callback of newPromiseResolveThenableJob(): a new pair for the promise,
\* handed to the intrinsic `then` or to a function of the program.
RunThenable ==
  LET job  == Last(stack).job
      pair == Len(pairs) + 1
  IN
  /\ Engine("job") /\ job.kind = "thenable"
  /\ \/ /\ job.intrinsic
        /\ PerformThen(job.thenable, pair, Append(pairs, NewPair(job.promise, FALSE)),
                       FALSE, Front(stack))
     \/ /\ ~job.intrinsic
        /\ pairs' = Append(pairs, NewPair(job.promise, TRUE))
        /\ stack' = Append(Front(stack), ThenableFrame(pair))
        /\ UNCHANGED <<promises, queue, checkpointState>>
  /\ UNCHANGED <<jobHost, thrown>>

NativeReturns ==
  /\ Engine("native")
  /\ CallResolve(Last(stack).pair, Primitive, Front(stack))
  /\ UNCHANGED <<jobHost, thrown>>

HandlerReturns(value) ==
  /\ Engine("handler")
  /\ value \in {Primitive, NewObject} \/ Reachable(value)
  /\ CallResolve(Last(stack).pair, value, Front(stack))
  /\ UNCHANGED <<jobHost, thrown>>

HandlerThrows ==
  /\ Engine("handler")
  /\ CallReject(Last(stack).pair, Front(stack))
  /\ UNCHANGED <<jobHost, thrown>>

\* A thenable's `then` returns; when it throws, its pair is rejected.
ThenReturns ==
  /\ Engine("thenable") /\ stack' = Front(stack)
  /\ UNCHANGED <<jobHost, promises, pairs, queue, checkpointState, thrown>>

ThenFails ==
  /\ Engine("thenable")
  /\ CallReject(Last(stack).pair, Front(stack))
  /\ UNCHANGED <<jobHost, thrown>>

HookReturns ==
  /\ Engine("hook") /\ stack' = Front(stack)
  /\ UNCHANGED <<jobHost, promises, pairs, queue, checkpointState, thrown>>

\* The tracker returns or throws; an error is recorded by the Agent.
TrackerEnds ==
  /\ Running("tracker") /\ stack' = Front(stack) /\ thrown' = FALSE
  /\ UNCHANGED <<jobHost, promises, pairs, queue, checkpointState>>

-----------------------------------------------------------------------------
\* Foreign code fails with an error that no guest handler sees.
HostError ==
  /\ HostErrors /\ ~thrown /\ stack # <<>> /\ Foreign
  /\ thrown' = TRUE
  /\ UNCHANGED <<jobHost, promises, pairs, queue, checkpointState, stack>>

\* The embedder's own functions may catch it; run() does.
Caught ==
  /\ thrown
  /\ Foreign \/ Running("drain")
  /\ thrown' = FALSE
  /\ UNCHANGED <<jobHost, promises, pairs, queue, checkpointState, stack>>

\* abruptValue() rethrows it: the promise the activation was to settle is
\* left to whoever else holds its functions, which for a `then` getter, a
\* handler or a resolving function used as one is nobody.
Unwinds ==
  LET frame == Last(stack)
      p     == IF frame.kind = "getThen" THEN frame.promise ELSE pairs[frame.pair].promise
  IN
  /\ thrown /\ running \in {"getThen", "handler", "native", "thenable"}
  /\ stack' = Front(stack)
  /\ promises' = IF frame.kind = "thenable" THEN promises
                 ELSE [promises EXCEPT ![p].lost = TRUE]
  /\ UNCHANGED <<jobHost, pairs, queue, checkpointState, thrown>>

HookThrows ==
  /\ thrown /\ Running("hook") /\ stack' = Front(stack)
  /\ checkpointState' = "idle"
  /\ UNCHANGED <<jobHost, promises, pairs, queue, thrown>>

\* The two loops over reactions go on and throw when they are over.
LoopKeepsError ==
  /\ thrown
  /\ Running("trigger") \/ Running("flush")
  /\ thrown' = FALSE
  /\ stack' = [stack EXCEPT ![Len(stack)].threw = TRUE]
  /\ UNCHANGED <<jobHost, promises, pairs, queue, checkpointState>>

Next ==
  \/ NewPromise
  \/ \E c \in 1..MaxPairs :
       \/ ProgramRejects(c)
       \/ \E resolution \in {Primitive, NewObject} \cup 1..MaxPromises :
            ProgramResolves(c, resolution)
  \/ \E p \in 1..MaxPromises, handler \in {NoHandler, Program} : ProgramThen(p, handler)
  \/ RunJobs \/ EndDrain \/ StartJob \/ RunReaction \/ RunThenable
  \/ ThenThrows \/ ThenNotCallable
  \/ \E intrinsic \in BOOLEAN : ThenCallable(intrinsic)
  \/ TriggerNext \/ TriggerThrows \/ TriggerReturns
  \/ FlushNext \/ FlushEnds
  \/ NativeReturns \/ HandlerThrows
  \/ \E value \in {Primitive, NewObject} \cup 1..MaxPromises : HandlerReturns(value)
  \/ ThenReturns \/ ThenFails \/ HookReturns \/ TrackerEnds
  \/ HostError \/ Caught \/ Unwinds \/ HookThrows \/ LoopKeepsError

Spec == Init /\ [][Next]_vars

(***************************************************************************)
(* Fairness.  Engine code does not stall, every activation of foreign code *)
(* ends some time, and a host that was given a checkpoint runs it once its *)
(* stack is empty.                                                         *)
(***************************************************************************)
EngineStep ==
  \/ EndDrain \/ StartJob \/ RunReaction \/ RunThenable \/ NativeReturns
  \/ TriggerNext \/ TriggerThrows \/ TriggerReturns \/ FlushNext \/ FlushEnds
ForeignEnds ==
  \/ ThenThrows \/ ThenNotCallable \/ \E intrinsic \in BOOLEAN : ThenCallable(intrinsic)
  \/ HandlerThrows \/ HandlerReturns(Primitive)
  \/ ThenReturns \/ ThenFails \/ HookReturns \/ TrackerEnds
HostTurn == stack = <<>> /\ checkpointState = "scheduled" /\ RunJobs

Fairness ==
  /\ WF_vars(EngineStep)
  /\ \A depth \in 1..(MaxDepth + 3) : SF_vars(Len(stack) = depth /\ ForeignEnds)
  /\ SF_vars(HostTurn)

FairSpec == Spec /\ Fairness

-----------------------------------------------------------------------------
TypeOK ==
  /\ jobHost \in JobHosts
  /\ promises \in Seq(Promise) /\ Len(promises) <= MaxPromises
  /\ pairs \in Seq(Pair) /\ Len(pairs) <= MaxPairs
  /\ queue \in Seq(Job)
  /\ checkpointState \in {"idle", "scheduled", "draining"}
  /\ stack \in Seq(Frame)
  /\ thrown \in BOOLEAN

\* Everything that can still settle promise p: a pair not used yet, a `then`
\* being read for it, a thenable job waiting or just taken.
OpenPairs(p)  == {c \in 1..Len(pairs) : pairs[c].promise = p /\ ~pairs[c].alreadyResolved}
IsThenableJob(job, p) == job.kind = "thenable" /\ job.promise = p
Getters(p)    == {i \in 1..Len(stack) : stack[i].kind = "getThen" /\ stack[i].promise = p}
WaitingJobs(p) == {i \in 1..Len(queue) : IsThenableJob(queue[i], p)}
TakenJobs(p)  == {i \in 1..Len(stack) : stack[i].kind = "job" /\ IsThenableJob(stack[i].job, p)}
Routes(p) == Cardinality(OpenPairs(p)) + Cardinality(Getters(p))
               + Cardinality(WaitingJobs(p)) + Cardinality(TakenJobs(p))

\* A promise can be settled in exactly one way at any time until it is, and in
\* none afterwards: no second call of its functions, from whatever reader of
\* `then`, thenable or handler, competes with the first, and only an error that
\* guests cannot catch leaves a pending promise without any.
ExactlyOneRoute ==
  \A p \in 1..Len(promises) :
    IF promises[p].state = "pending"
      THEN Routes(p) = 1 \/ (Routes(p) = 0 /\ promises[p].lost)
      ELSE Routes(p) = 0

\* Where the reaction waits or runs that will use pair c, as its capability or
\* as its handler.
Uses(reaction, c) == c \in {reaction.derived, reaction.handler}
Holds(reactions, c) == {i \in 1..Len(reactions) : Uses(reactions[i], c)}
IsReactionJob(job, c) == job.kind = "reaction" /\ Uses(job.reaction, c)
HoldsJob(jobs, c) == {i \in 1..Len(jobs) : IsReactionJob(jobs[i], c)}
RunsFor(frame, c) ==
  \/ frame.kind \in {"handler", "native"} /\ frame.pair = c
  \/ frame.kind = "job" /\ IsReactionJob(frame.job, c)
Flushed(p) ==   \* how much of p's reactionJobs is enqueued already
  LET at == {i \in 1..Len(stack) : stack[i].kind = "flush" /\ stack[i].promise = p}
  IN  IF at = {} THEN 0 ELSE stack[CHOOSE i \in at : TRUE].next - 1
Buffered(p) == SubSeq(promises[p].reactionJobs, Flushed(p) + 1, Len(promises[p].reactionJobs))
Places(c) ==
  LET InTrigger(i) == IF stack[i].kind = "trigger" THEN Cardinality(Holds(stack[i].todo, c)) ELSE 0
      InPromise(p) == Cardinality(Holds(promises[p].reactions, c))
                        + Cardinality(HoldsJob(Buffered(p), c))
  IN Cardinality(HoldsJob(queue, c)) + Cardinality({i \in 1..Len(stack) : RunsFor(stack[i], c)})
       + FoldFunction(+, 0, [i \in 1..Len(stack) |-> InTrigger(i)])
       + FoldFunction(+, 0, [p \in 1..Len(promises) |-> InPromise(p)])

\* A reaction is never lost or run twice: as long as a pair the program does not
\* hold is unused, one reaction will use it, and none will afterwards.
EveryReactionRunsOnce ==
  \A c \in 1..Len(pairs) :
    Places(c) = IF \/ pairs[c].exposed \/ pairs[c].alreadyResolved
                   \/ promises[pairs[c].promise].lost THEN 0 ELSE 1

\* What the tracker was told agrees with the promises: at most one rejection,
\* then at most one handling; when no engine or foreign code runs, the promises
\* reported and not taken back are those rejected without a handler.
TrackerIsTruthful ==
  \A p \in 1..Len(promises) :
    /\ promises[p].reports \in {<<>>, <<"reject">>, <<"reject", "handle">>}
    /\ (stack = <<>> /\ "tracker" \in jobHost) =>
         (promises[p].reports = <<"reject">>
            <=> promises[p].state = "rejected" /\ ~promises[p].handled)

\* A promise that adopted another through the intrinsic `then`, or was derived
\* from it without a handler, is settled after it and exactly like it, unless
\* the result is an object, whose own `then` is read again.
AdoptedOutcomeIsKept ==
  \A p \in 1..Len(promises) :
    LET q == promises[p].follows IN
    (promises[p].state \in Settled /\ q # 0) =>
      /\ promises[q].state \in Settled
      /\ ~IsObject(promises[q].result) =>
           /\ promises[p].state = promises[q].state
           /\ promises[p].result = promises[q].result

HasSettled(p) == p <= Len(promises) /\ promises[p].state \in Settled
MustFollow(p) ==
  /\ p <= Len(promises) /\ promises[p].follows # 0
  /\ HasSettled(promises[p].follows) /\ ~IsObject(promises[promises[p].follows].result)

\* An adoption ends: once the promise followed is settled with a non-object, its
\* follower is settled too.
AdoptionCompletes ==
  \A p \in 1..MaxPromises : MustFollow(p) ~> HasSettled(p)

\* The reactions registered on p that will still run, each with the place where
\* it waits: those enqueued come first, then those a loop has still to enqueue.
Waiting(p) ==
  LET Queued == {i \in 1..Len(queue) : queue[i].kind = "reaction" /\ queue[i].reaction.source = p}
      Loops  == {i \in 1..Len(stack) : stack[i].kind = "trigger"}
      Todo(i) == {k \in 1..Len(stack[i].todo) : stack[i].todo[k].source = p}
  IN {<<1, i, 0, queue[i].reaction.derived>> : i \in Queued}
       \cup (UNION {{<<2, i, k, stack[i].todo[k].derived>> : k \in Todo(i)} : i \in Loops})
       \cup {<<3, k, 0, Buffered(p)[k].reaction.derived>> : k \in 1..Len(Buffered(p))}
       \cup {<<4, k, 0, promises[p].reactions[k].derived>> : k \in 1..Len(promises[p].reactions)}
Precedes(x, y) ==
  \E n \in 1..3 : x[n] < y[n] /\ \A k \in 1..(n - 1) : x[k] = y[k]

\* "Reactions preserve registration order": of the reactions registered on one
\* promise, numbered as they were registered, the earlier run before the later.
RegistrationOrder ==
  \A p \in 1..Len(promises) :
    \A x, y \in Waiting(p) : Precedes(x, y) => x[4] < y[4]

\* An embedder that only drains the queue itself sees that order, whatever the
\* tracker, handlers and errors no guest can catch do while reactions are being
\* enqueued: enqueueRejectedPromiseReaction() buffers for the outermost call.
OrderIsKeptWithoutScheduler == "scheduler" \notin jobHost => RegistrationOrder

\* A reaction registered with then() is run once, whatever throws or calls back while
\* the reactions of its promise are enqueued, and not ahead of an earlier one.
ReactionsRunOnceInOrder == EveryReactionRunsOnce /\ OrderIsKeptWithoutScheduler
=============================================================================
