--------------------------- MODULE PromisesProofs ---------------------------
(***************************************************************************)
(* What TLAPS proves of Promises for any number of promises, pairs and     *)
(* activations, any hooks and any foreign code: types, that settlements    *)
(* are final, the single route by which a promise can be settled, and what *)
(* the rejection tracker is told.  AdoptionProofs goes on from here.       *)
(***************************************************************************)
EXTENDS Promises, SequenceLemmas

-----------------------------------------------------------------------------
(* Types, when n promises and m pairs have been made *)

Values(n) == {Primitive, GuestError} \cup 0..n

\* The pair of a handler is made before that of the capability.
Reactions(n, m) ==
  {reaction \in [source: 1..n, derived: 1..m, handler: {NoHandler, Program} \cup 1..m] :
     reaction.handler < reaction.derived}
ReactionJobs(n, m) ==
  [kind: {"reaction"}, reaction: Reactions(n, m), type: Settled, argument: Values(n)]
ThenableJobs(n) ==
  {job \in [kind: {"thenable"}, promise: 1..n, thenable: 0..n, intrinsic: BOOLEAN] :
     job.intrinsic => job.thenable # NewObject}
Jobs(n, m) == ReactionJobs(n, m) \cup ThenableJobs(n)

PromiseObjects(n, m) ==
  [state: Settled \cup {"pending"}, result: Values(n),
   reactions: Seq(Reactions(n, m)), handled: BOOLEAN, handleReported: BOOLEAN,
   enqueueInProgress: BOOLEAN, reactionJobs: Seq(ReactionJobs(n, m)),
   reachable: BOOLEAN, follows: 0..n, lost: BOOLEAN,
   reports: Seq({"reject", "handle"})]
Pairs(n) == [promise: 1..n, alreadyResolved: BOOLEAN, exposed: BOOLEAN]

PlainFrames         == [kind: {"drain", "hook", "tracker"}]
PairFrames(m)       == [kind: {"handler", "native", "thenable"}, pair: 1..m]
GetterFrames(n)     == [kind: {"getThen"}, promise: 1..n, resolution: 0..n]
TriggerFrames(n, m) ==
  [kind: {"trigger"}, promise: 1..n, todo: Seq(Reactions(n, m)), threw: BOOLEAN]
FlushFrames(n)      == [kind: {"flush"}, promise: 1..n, next: Nat \ {0}, threw: BOOLEAN]
JobFrames(n, m)     == [kind: {"job"}, job: Jobs(n, m)]
CallFrames(n, m)    == PlainFrames \cup PairFrames(m) \cup GetterFrames(n)
                         \cup TriggerFrames(n, m) \cup FlushFrames(n)

Thenables == {job \in Job : job.kind = "thenable"}

LEMMA ConstantsAreApart ==
  /\ Primitive # GuestError /\ Primitive \notin Int /\ GuestError \notin Int
  /\ MaxPromises \in Nat /\ MaxPairs \in Nat /\ MaxDepth \in Nat
BY ValueAssumption, BoundAssumption

\* New promises and pairs take nothing away.
LEMMA Growth ==
  ASSUME NEW n \in Nat, NEW m \in Nat, NEW n2 \in Nat, NEW m2 \in Nat, n <= n2, m <= m2
  PROVE  /\ Values(n) \subseteq Values(n2)
         /\ Reactions(n, m) \subseteq Reactions(n2, m2)
         /\ ReactionJobs(n, m) \subseteq ReactionJobs(n2, m2)
         /\ ThenableJobs(n) \subseteq ThenableJobs(n2)
         /\ Jobs(n, m) \subseteq Jobs(n2, m2)
         /\ PromiseObjects(n, m) \subseteq PromiseObjects(n2, m2)
         /\ Pairs(n) \subseteq Pairs(n2)
         /\ CallFrames(n, m) \subseteq CallFrames(n2, m2)
<1>1. 1..n \subseteq 1..n2 /\ 0..n \subseteq 0..n2 /\ 1..m \subseteq 1..m2
  OBVIOUS
<1>2. Values(n) \subseteq Values(n2)
  BY DEF Values
<1>3. Reactions(n, m) \subseteq Reactions(n2, m2)
  BY <1>1 DEF Reactions
<1>4. ReactionJobs(n, m) \subseteq ReactionJobs(n2, m2)
  BY <1>2, <1>3 DEF ReactionJobs
<1>5. ThenableJobs(n) \subseteq ThenableJobs(n2)
  BY <1>1 DEF ThenableJobs
<1>6. Seq(Reactions(n, m)) \subseteq Seq(Reactions(n2, m2))
  BY <1>3, SeqMonotonic
<1>7. Seq(ReactionJobs(n, m)) \subseteq Seq(ReactionJobs(n2, m2))
  BY <1>4, SeqMonotonic
<1>8. PromiseObjects(n, m) \subseteq PromiseObjects(n2, m2)
  BY <1>1, <1>2, <1>6, <1>7 DEF PromiseObjects
<1>9. Pairs(n) \subseteq Pairs(n2)
  BY <1>1 DEF Pairs
<1>10. CallFrames(n, m) \subseteq CallFrames(n2, m2)
  BY <1>1, <1>6 DEF CallFrames, PairFrames, GetterFrames, TriggerFrames, FlushFrames
<1> QED BY <1>2, <1>3, <1>4, <1>5, <1>8, <1>9, <1>10 DEF Jobs

\* What these sets are for.
LEMMA TypesAreTypes ==
  ASSUME NEW n \in 0..MaxPromises, NEW m \in 0..MaxPairs
  PROVE  /\ Values(n) \subseteq Value
         /\ Jobs(n, m) \subseteq Job
         /\ PromiseObjects(n, m) \subseteq Promise
         /\ Pairs(n) \subseteq Pair
         /\ CallFrames(n, m) \subseteq Frame
         /\ JobFrames(n, m) \subseteq Frame
         /\ ThenableJobs(n) \subseteq Thenables
         /\ ReactionJobs(n, m) \cap Thenables = {}
<1>1. 1..n \subseteq 1..MaxPromises /\ 0..n \subseteq 0..MaxPromises /\ 1..m \subseteq 1..MaxPairs
  BY ConstantsAreApart
<1>2. Values(n) \subseteq Value /\ 0..n \subseteq Value
  BY <1>1 DEF Values, Value, NewObject
<1>3. Reactions(n, m) \subseteq Reaction
  BY <1>1 DEF Reactions, Reaction, Handler
<1>4. ReactionJobs(n, m) \subseteq Job
  BY <1>2, <1>3 DEF ReactionJobs, Job
<1>5. ThenableJobs(n) \subseteq Job
  BY <1>1, <1>2 DEF ThenableJobs, Job
<1>6. Seq(Reactions(n, m)) \subseteq Seq(Reaction)
  BY <1>3, SeqMonotonic
<1>7. Seq(ReactionJobs(n, m)) \subseteq Seq(Job)
  BY <1>4, SeqMonotonic
<1>8. PromiseObjects(n, m) \subseteq Promise
  BY <1>1, <1>2, <1>6, <1>7 DEF PromiseObjects, Promise
<1>9. Pairs(n) \subseteq Pair
  BY <1>1 DEF Pairs, Pair
<1>10. PlainFrames \cup PairFrames(m) \cup GetterFrames(n) \subseteq Frame
  BY <1>1, <1>2 DEF PlainFrames, PairFrames, GetterFrames, Frame
<1>11. TriggerFrames(n, m) \subseteq Frame
  BY <1>1, <1>6 DEF TriggerFrames, Frame
<1>12. FlushFrames(n) \subseteq Frame
  BY <1>1 DEF FlushFrames, Frame
<1>13. JobFrames(n, m) \subseteq Frame
  BY <1>4, <1>5 DEF JobFrames, Jobs, Frame
<1>14. ThenableJobs(n) \subseteq Thenables
  BY <1>5 DEF ThenableJobs, Thenables
<1>15. ReactionJobs(n, m) \cap Thenables = {}
  BY DEF ReactionJobs, Thenables
<1> QED BY <1>2, <1>4, <1>5, <1>8, <1>9, <1>10, <1>11, <1>12, <1>13, <1>14, <1>15
        DEF Jobs, CallFrames

-----------------------------------------------------------------------------
(* The state between steps *)

\* Everything but the activations, and `base` as activations none of which is
\* a job about to be run.
Ready(base) ==
  /\ jobHost \in JobHosts
  /\ promises \in Seq(PromiseObjects(Len(promises), Len(pairs)))
  /\ pairs \in Seq(Pairs(Len(promises)))
  /\ queue \in Seq(Jobs(Len(promises), Len(pairs)))
  /\ checkpointState \in {"idle", "scheduled", "draining"}
  /\ base \in Seq(CallFrames(Len(promises), Len(pairs)))
  /\ thrown \in BOOLEAN

\* What k thenable jobs that were taken from the queue will still make, and
\* those in the queue, is within the bounds.
Fits(k) ==
  /\ Len(promises) + Hits(queue, Thenables) + k <= MaxPromises
  /\ Len(pairs) + 2 * (Hits(queue, Thenables) + k) <= MaxPairs

TakenThenables(frame) == IF frame.job.kind = "thenable" THEN 1 ELSE 0

\* A job is run at once when it was taken.
TypeInv ==
  \/ Ready(stack) /\ Fits(0)
  \/ /\ stack # <<>> /\ stack = Append(Front(stack), Last(stack)) /\ Ready(Front(stack))
     /\ Last(stack) \in JobFrames(Len(promises), Len(pairs))
     /\ Fits(TakenThenables(Last(stack)))

LEMMA Kinds ==
  /\ DrainFrame.kind = "drain" /\ HookFrame.kind = "hook" /\ TrackerFrame.kind = "tracker"
  /\ \A job : JobFrame(job).kind = "job" /\ JobFrame(job).job = job
  /\ \A c : /\ HandlerFrame(c).kind = "handler" /\ HandlerFrame(c).pair = c
            /\ NativeFrame(c).kind = "native" /\ NativeFrame(c).pair = c
            /\ ThenableFrame(c).kind = "thenable" /\ ThenableFrame(c).pair = c
  /\ \A p, value : /\ GetThenFrame(p, value).kind = "getThen"
                   /\ GetThenFrame(p, value).promise = p
                   /\ GetThenFrame(p, value).resolution = value
  /\ \A p, todo, threw : /\ TriggerFrame(p, todo, threw).kind = "trigger"
                         /\ TriggerFrame(p, todo, threw).promise = p
                         /\ TriggerFrame(p, todo, threw).todo = todo
                         /\ TriggerFrame(p, todo, threw).threw = threw
  /\ \A p, next, threw : /\ FlushFrame(p, next, threw).kind = "flush"
                         /\ FlushFrame(p, next, threw).promise = p
                         /\ FlushFrame(p, next, threw).next = next
                         /\ FlushFrame(p, next, threw).threw = threw
BY DEF DrainFrame, HookFrame, TrackerFrame, JobFrame, HandlerFrame, NativeFrame,
       ThenableFrame, GetThenFrame, TriggerFrame, FlushFrame

\* The frames that engine code makes.
LEMMA FramesAreFrames ==
  ASSUME NEW n \in Nat, NEW m \in Nat
  PROVE  /\ {DrainFrame, HookFrame, TrackerFrame} \subseteq CallFrames(n, m)
         /\ \A c \in 1..m :
              {HandlerFrame(c), NativeFrame(c), ThenableFrame(c)} \subseteq CallFrames(n, m)
         /\ \A p \in 1..n, value \in 0..n : GetThenFrame(p, value) \in CallFrames(n, m)
         /\ \A p \in 1..n, todo \in Seq(Reactions(n, m)), threw \in BOOLEAN :
              TriggerFrame(p, todo, threw) \in CallFrames(n, m)
         /\ \A p \in 1..n, next \in Nat \ {0}, threw \in BOOLEAN :
              FlushFrame(p, next, threw) \in CallFrames(n, m)
         /\ \A job \in Jobs(n, m) : JobFrame(job) \in JobFrames(n, m)
BY DEF DrainFrame, HookFrame, TrackerFrame, JobFrame, HandlerFrame, NativeFrame,
       ThenableFrame, GetThenFrame, TriggerFrame, FlushFrame, CallFrames, JobFrames,
       PlainFrames, PairFrames, GetterFrames, TriggerFrames, FlushFrames

\* A frame's kind tells its fields.
LEMMA FrameFields ==
  ASSUME NEW n \in Nat, NEW m \in Nat, NEW frame \in CallFrames(n, m)
  PROVE  /\ frame.kind \in {"drain", "hook", "tracker", "handler", "native", "thenable",
                            "getThen", "trigger", "flush"}
         /\ frame.kind \in {"handler", "native", "thenable"} => frame.pair \in 1..m
         /\ frame.kind = "getThen" => frame.promise \in 1..n /\ frame.resolution \in 0..n
         /\ frame.kind = "trigger" =>
              /\ frame.promise \in 1..n /\ frame.todo \in Seq(Reactions(n, m))
              /\ frame.threw \in BOOLEAN
              /\ frame = TriggerFrame(frame.promise, frame.todo, frame.threw)
         /\ frame.kind = "flush" =>
              /\ frame.promise \in 1..n /\ frame.next \in Nat \ {0}
              /\ frame.threw \in BOOLEAN
              /\ frame = FlushFrame(frame.promise, frame.next, frame.threw)
BY DEF CallFrames, PlainFrames, PairFrames, GetterFrames, TriggerFrames, FlushFrames,
       TriggerFrame, FlushFrame

\* The loops' frames after a turn, and after an error.
AfterTurn(frame)  == TriggerFrame(frame.promise, Tail(frame.todo), frame.threw)
AfterFlush(frame) == FlushFrame(frame.promise, frame.next + 1, frame.threw)
Erring(frame)     == [frame EXCEPT !.threw = TRUE]

LEMMA LoopFrames ==
  ASSUME NEW n \in Nat, NEW m \in Nat, NEW frame \in CallFrames(n, m)
  PROVE  /\ frame.kind = "trigger" /\ frame.todo # <<>> =>
              /\ AfterTurn(frame) \in CallFrames(n, m) /\ AfterTurn(frame).kind = "trigger"
              /\ AfterTurn(frame).promise = frame.promise
         /\ frame.kind = "flush" =>
              /\ AfterFlush(frame) \in CallFrames(n, m) /\ AfterFlush(frame).kind = "flush"
         /\ frame.kind \in {"trigger", "flush"} =>
              /\ Erring(frame) \in CallFrames(n, m) /\ Erring(frame).kind = frame.kind
              /\ Erring(frame).promise = frame.promise
<1>1. ASSUME frame.kind = "trigger"
      PROVE  /\ frame \in TriggerFrames(n, m) /\ frame.promise \in 1..n
             /\ frame.todo \in Seq(Reactions(n, m)) /\ frame.threw \in BOOLEAN
  BY <1>1 DEF CallFrames, PlainFrames, PairFrames, GetterFrames, TriggerFrames, FlushFrames
<1>2. ASSUME frame.kind = "flush" PROVE frame \in FlushFrames(n)
  BY <1>2 DEF CallFrames, PlainFrames, PairFrames, GetterFrames, TriggerFrames, FlushFrames
<1>3. ASSUME frame.kind = "trigger", frame.todo # <<>>
      PROVE  /\ AfterTurn(frame) \in CallFrames(n, m) /\ AfterTurn(frame).kind = "trigger"
             /\ AfterTurn(frame).promise = frame.promise
  <2>1. Tail(frame.todo) \in Seq(Reactions(n, m))
    BY <1>1, <1>3, HeadTailProperties
  <2> QED BY <1>1, <1>3, <2>1 DEF AfterTurn, TriggerFrame, TriggerFrames, CallFrames
<1>4. ASSUME frame.kind = "flush"
      PROVE  AfterFlush(frame) \in CallFrames(n, m) /\ AfterFlush(frame).kind = "flush"
  BY <1>2, <1>4 DEF AfterFlush, FlushFrame, FlushFrames, CallFrames
<1>5. ASSUME frame.kind = "flush"
      PROVE  /\ Erring(frame) \in CallFrames(n, m) /\ Erring(frame).kind = frame.kind
             /\ Erring(frame).promise = frame.promise
  BY <1>2, <1>5 DEF Erring, FlushFrames, CallFrames
<1>6. ASSUME frame.kind = "trigger"
      PROVE  /\ Erring(frame) \in CallFrames(n, m) /\ Erring(frame).kind = frame.kind
             /\ Erring(frame).promise = frame.promise
  BY <1>1, <1>6 DEF Erring, TriggerFrames, CallFrames
<1> QED BY <1>3, <1>4, <1>5, <1>6

\* Promises that a loop leaves behind, that an error robbed of a route, and that
\* follow another.
Reported(record, operation) == [record EXCEPT !.reports = Append(@, operation)]
FlushedOut(record) == [record EXCEPT !.reactionJobs = <<>>, !.enqueueInProgress = FALSE]
Orphaned(record)   == [record EXCEPT !.lost = TRUE]
Following(record, q) == [record EXCEPT !.follows = q]

LEMMA RecordTypes ==
  ASSUME NEW n \in Nat, NEW m \in Nat, NEW record \in PromiseObjects(n, m)
  PROVE  /\ FlushedOut(record) \in PromiseObjects(n, m)
         /\ FlushedOut(record).state = record.state /\ FlushedOut(record).result = record.result
         /\ FlushedOut(record).lost = record.lost /\ Orphaned(record).lost
         /\ Orphaned(record) \in PromiseObjects(n, m)
         /\ Orphaned(record).state = record.state /\ Orphaned(record).result = record.result
         /\ \A q \in 0..n :
              /\ Following(record, q) \in PromiseObjects(n, m)
              /\ Following(record, q).state = record.state
              /\ Following(record, q).result = record.result
              /\ Following(record, q).lost = record.lost
         /\ \A operation \in {"reject", "handle"} :
              /\ Reported(record, operation) \in PromiseObjects(n, m)
              /\ Reported(record, operation).state = record.state
              /\ Reported(record, operation).result = record.result
              /\ Reported(record, operation).lost = record.lost
<1>1. <<>> \in Seq(ReactionJobs(n, m)) /\ record.reports \in Seq({"reject", "handle"})
  BY EmptySeq DEF PromiseObjects
<1>2. \A operation \in {"reject", "handle"} :
        Append(record.reports, operation) \in Seq({"reject", "handle"})
  BY <1>1, AppendProperties
<1> QED BY <1>1, <1>2 DEF FlushedOut, Orphaned, Following, Reported, PromiseObjects

\* What is on top of the stack.
LEMMA TopFrame ==
  ASSUME TypeInv
  PROVE  /\ stack # <<>> => Ready(Front(stack)) /\ running = Last(stack).kind
         /\ stack = <<>> => running = "embedder"
         /\ running = "job" =>
              /\ stack # <<>> /\ Last(stack) \in JobFrames(Len(promises), Len(pairs))
              /\ Fits(TakenThenables(Last(stack)))
         /\ running # "job" =>
              /\ Ready(stack) /\ Fits(0)
              /\ stack # <<>> => Last(stack) \in CallFrames(Len(promises), Len(pairs))
         /\ Len(promises) \in Nat /\ Len(pairs) \in Nat /\ Hits(queue, Thenables) \in Nat
         /\ Len(promises) \in 0..MaxPromises /\ Len(pairs) \in 0..MaxPairs
<1>1. running = IF stack = <<>> THEN "embedder" ELSE Last(stack).kind
  BY DEF running
<1>2. Len(promises) \in Nat /\ Len(pairs) \in Nat /\ Hits(queue, Thenables) \in Nat
  BY LenProperties, HitsType DEF TypeInv, Ready
<1>3. CASE Ready(stack) /\ Fits(0)
  <2>1. stack # <<>> => /\ Front(stack) \in Seq(CallFrames(Len(promises), Len(pairs)))
                        /\ Last(stack) \in CallFrames(Len(promises), Len(pairs))
    BY <1>3, FrontLast DEF Ready
  <2>2. stack # <<>> => Last(stack).kind # "job"
    BY <1>2, <2>1, FrameFields
  <2>3. Len(promises) <= MaxPromises /\ Len(pairs) <= MaxPairs
    BY <1>2, <1>3, ConstantsAreApart DEF Fits
  <2>4. stack # <<>> => Ready(Front(stack))
    BY <1>3, <2>1 DEF Ready
  <2> QED BY <1>1, <1>2, <1>3, <2>1, <2>2, <2>3, <2>4, ConstantsAreApart
<1>4. CASE /\ stack # <<>> /\ Ready(Front(stack))
           /\ Last(stack) \in JobFrames(Len(promises), Len(pairs))
           /\ Fits(TakenThenables(Last(stack)))
  <2>1. Last(stack).kind = "job"
    BY <1>4 DEF JobFrames
  <2>2. TakenThenables(Last(stack)) \in 0..1
    BY DEF TakenThenables
  <2>3. Len(promises) <= MaxPromises /\ Len(pairs) <= MaxPairs
    BY <1>2, <1>4, <2>2, ConstantsAreApart DEF Fits
  <2> QED BY <1>1, <1>2, <1>4, <2>1, <2>3, ConstantsAreApart
<1> QED BY <1>3, <1>4 DEF TypeInv

LEMMA EnqueueTypes ==
  ASSUME NEW S, queue \in Seq(S), NEW job \in S, NEW F, NEW base \in Seq(F), HookFrame \in F,
         checkpointState \in {"idle", "scheduled", "draining"},
         Enqueue(job, base), NEW T
  PROVE  /\ queue' \in Seq(S) /\ stack' \in Seq(F)
         /\ checkpointState' \in {"idle", "scheduled", "draining"}
         /\ Hits(queue', T) = Hits(queue, T) + (IF job \in T THEN 1 ELSE 0)
<1>1. queue' = Append(queue, job) /\ stack' \in {base, Append(base, HookFrame)}
  BY DEF Enqueue
<1>2. queue' \in Seq(S) /\ Append(base, HookFrame) \in Seq(F)
  BY <1>1, AppendProperties
<1>3. Hits(queue', T) = Hits(queue, T) + (IF job \in T THEN 1 ELSE 0)
  BY <1>1, HitsAppend
<1> QED BY <1>1, <1>2, <1>3 DEF Enqueue

\* The loop over the reactions of a promise, about to begin; the one over the
\* jobs buffered for it; a promise once it is settled.
FreshTrigger(p, todo) == TriggerFrame(p, todo, FALSE)
FreshFlush(p)         == FlushFrame(p, 1, FALSE)
SettledAs(record, state, result) ==
  [record EXCEPT !.state = state, !.result = result, !.reactions = <<>>]

LEMMA FreshFrames ==
  ASSUME NEW n \in Nat, NEW m \in Nat, NEW p \in 1..n
  PROVE  /\ \A todo \in Seq(Reactions(n, m)) : FreshTrigger(p, todo) \in CallFrames(n, m)
         /\ FreshFlush(p) \in CallFrames(n, m)
         /\ \A todo : /\ FreshTrigger(p, todo).kind = "trigger"
                      /\ FreshTrigger(p, todo).promise = p
         /\ FreshFlush(p).kind = "flush" /\ FreshFlush(p).promise = p
BY DEF FreshTrigger, FreshFlush, TriggerFrame, FlushFrame, CallFrames, TriggerFrames, FlushFrames

LEMMA SettledTypes ==
  ASSUME NEW n \in Nat, NEW m \in Nat, NEW record \in PromiseObjects(n, m),
         NEW state \in Settled, NEW result \in Values(n)
  PROVE  /\ SettledAs(record, state, result) \in PromiseObjects(n, m)
         /\ SettledAs(record, state, result).state = state
         /\ SettledAs(record, state, result).state # "pending"
         /\ SettledAs(record, state, result).result = result
<1>1. <<>> \in Seq(Reactions(n, m))
  BY EmptySeq
<1> QED BY <1>1 DEF SettledAs, PromiseObjects, Settled

\* A settlement changes one promise and starts the loop over its reactions.
LEMMA SettleChanges ==
  ASSUME NEW n \in Nat, NEW m \in Nat, promises \in Seq(PromiseObjects(n, m)),
         n = Len(promises), NEW p \in 1..n, NEW state \in Settled, NEW result \in Values(n),
         NEW base \in Seq(CallFrames(n, m)), Settle(p, state, result, base)
  PROVE  /\ promises' \in Seq(PromiseObjects(n, m)) /\ Len(promises') = Len(promises)
         /\ stack' \in Seq(CallFrames(n, m))
         /\ queue' = queue /\ checkpointState' = checkpointState
         /\ promises[p].state # "pending" => promises' = promises /\ stack' = base
         /\ promises[p].state = "pending" =>
              /\ stack' = Append(base, FreshTrigger(p, promises[p].reactions))
              /\ \A q \in 1..Len(promises) : promises'[q] =
                   IF q = p THEN SettledAs(promises[p], state, result) ELSE promises[q]
<1>1. promises[p] \in PromiseObjects(n, m) /\ p \in 1..Len(promises)
  BY ElementOfSeq
<1>2. CASE promises[p].state # "pending"
  BY <1>2 DEF Settle
<1>3. CASE promises[p].state = "pending"
  <2>1. PICK r : r = SettledAs(promises[p], state, result)
    OBVIOUS
  <2>2. r \in PromiseObjects(n, m)
    BY <1>1, <2>1, SettledTypes
  <2>3. promises' = [promises EXCEPT ![p] = r]
    BY <1>3, <2>1, LenProperties DEF Settle, SettledAs
  <2>4. promises' \in Seq(PromiseObjects(n, m)) /\ Len(promises') = Len(promises)
    BY <2>2, <2>3, ExceptSeq
  <2>5. \A q \in 1..Len(promises) : promises'[q] = IF q = p THEN r ELSE promises[q]
    BY <2>2, <2>3, ExceptSeq
  <2>6. promises[p].reactions \in Seq(Reactions(n, m)) /\ p \in 1..Len(promises)
    BY <1>1 DEF PromiseObjects
  <2>7. PICK frame : frame = FreshTrigger(p, promises[p].reactions)
    OBVIOUS
  <2>8. stack' = Append(base, frame)
    BY <1>3, <2>7 DEF Settle, FreshTrigger
  <2>9. frame \in CallFrames(n, m)
    BY <2>6, <2>7 DEF FreshTrigger, TriggerFrame, TriggerFrames, CallFrames
  <2>10. stack' \in Seq(CallFrames(n, m))
    BY <2>8, <2>9, AppendProperties
  <2> QED BY <1>3, <2>1, <2>4, <2>5, <2>7, <2>8, <2>10 DEF Settle
<1> QED BY <1>2, <1>3

\* Of the resolving functions of pair c only the first call counts.
LEMMA UsePair ==
  ASSUME NEW n \in Nat, pairs \in Seq(Pairs(n)), NEW c \in 1..Len(pairs),
         pairs' = [pairs EXCEPT ![c].alreadyResolved = TRUE]
  PROVE  /\ pairs' \in Seq(Pairs(n)) /\ Len(pairs') = Len(pairs)
         /\ \A d \in 1..Len(pairs) :
              pairs'[d] = IF d = c THEN [pairs[c] EXCEPT !.alreadyResolved = TRUE] ELSE pairs[d]
         /\ [pairs[c] EXCEPT !.alreadyResolved = TRUE] \in Pairs(n)
         /\ pairs' = [pairs EXCEPT ![c] = [pairs[c] EXCEPT !.alreadyResolved = TRUE]]
<1>1. pairs[c] \in Pairs(n)
  BY ElementOfSeq
<1>2. PICK r : r = [pairs[c] EXCEPT !.alreadyResolved = TRUE]
  OBVIOUS
<1>3. r \in Pairs(n)
  BY <1>1, <1>2 DEF Pairs
<1>4. pairs' = [pairs EXCEPT ![c] = r]
  BY <1>2, LenProperties
<1>5. pairs \in Seq(Pairs(n)) /\ c \in 1..Len(pairs)
  OBVIOUS
<1>6. pairs' \in Seq(Pairs(n)) /\ Len(pairs') = Len(pairs)
  BY ONLY <1>3, <1>4, <1>5, ExceptSeq
<1>7. \A d \in 1..Len(pairs) : pairs'[d] = IF d = c THEN r ELSE pairs[d]
  BY ONLY <1>3, <1>4, <1>5, ExceptSeq
<1> QED BY <1>2, <1>3, <1>4, <1>6, <1>7

Resolving(c, value, base) == CallResolve(c, value, base) \/ CallReject(c, base)

\* What a call of a resolving function may do.
LEMMA CallCases ==
  ASSUME NEW n \in 0..MaxPromises, NEW c, NEW value \in Values(n), NEW base,
         Resolving(c, value, base)
  PROVE  \/ /\ pairs[c].alreadyResolved
            /\ stack' = base /\ UNCHANGED <<promises, pairs, queue, checkpointState>>
         \/ /\ ~pairs[c].alreadyResolved
            /\ pairs' = [pairs EXCEPT ![c].alreadyResolved = TRUE]
            /\ \E state \in Settled, result \in Values(n) :
                 Settle(pairs[c].promise, state, result, base)
         \/ /\ ~pairs[c].alreadyResolved
            /\ pairs' = [pairs EXCEPT ![c].alreadyResolved = TRUE]
            /\ value \in 0..n /\ value # pairs[c].promise
            /\ stack' = Append(base, GetThenFrame(pairs[c].promise, value))
            /\ UNCHANGED <<promises, queue, checkpointState>>
<1>1. IsObject(value) => value \in 0..n
  BY ConstantsAreApart DEF IsObject, Values
<1>2. GuestError \in Values(n) /\ {"fulfilled", "rejected"} \subseteq Settled
  BY DEF Values, Settled
<1> DEFINE Settles(state, result) == Settle(pairs[c].promise, state, result, base)
<1>3. CASE CallReject(c, base)
  <2>1. ~pairs[c].alreadyResolved => Settles("rejected", GuestError)
    BY <1>3 DEF CallReject, Ignored
  <2> HIDE DEF Settles
  <2>2. ~pairs[c].alreadyResolved => \E state \in Settled, result \in Values(n) :
                                        Settles(state, result)
    BY <1>2, <2>1
  <2> QED BY <1>3, <2>2 DEF CallReject, Ignored, Settles
<1>4. CASE CallResolve(c, value, base)
  <2>1. ~pairs[c].alreadyResolved =>
          \/ Settles("rejected", GuestError)
          \/ value \in Values(n) /\ Settles("fulfilled", value)
          \/ /\ value \in 0..n /\ value # pairs[c].promise
             /\ stack' = Append(base, GetThenFrame(pairs[c].promise, value))
             /\ UNCHANGED <<promises, queue, checkpointState>>
    BY <1>1, <1>4 DEF CallResolve, Ignored
  <2> HIDE DEF Settles
  <2>2. ~pairs[c].alreadyResolved =>
          \/ \E state \in Settled, result \in Values(n) : Settles(state, result)
          \/ /\ value \in 0..n /\ value # pairs[c].promise
             /\ stack' = Append(base, GetThenFrame(pairs[c].promise, value))
             /\ UNCHANGED <<promises, queue, checkpointState>>
    BY <1>2, <2>1
  <2> QED BY <1>4, <2>2 DEF CallResolve, Ignored, Settles
<1> QED BY <1>3, <1>4 DEF Resolving

LEMMA CallTypes ==
  ASSUME NEW base, Ready(base), Fits(0), NEW c \in 1..Len(pairs),
         NEW value \in Values(Len(promises)), Resolving(c, value, base),
         UNCHANGED <<jobHost, thrown>>
  PROVE  /\ Ready(stack)' /\ Fits(0)'
         /\ Len(promises') = Len(promises) /\ Len(pairs') = Len(pairs) /\ queue' = queue
<1>1. PICK n : n = Len(promises)
  OBVIOUS
<1>2. PICK m : m = Len(pairs)
  OBVIOUS
<1>3. n \in Nat /\ m \in Nat /\ Hits(queue, Thenables) \in Nat
  BY <1>1, <1>2, LenProperties, HitsType DEF Ready
<1>4. n \in 0..MaxPromises
  BY <1>1, <1>3, ConstantsAreApart DEF Fits
<1>5. /\ promises \in Seq(PromiseObjects(n, m)) /\ pairs \in Seq(Pairs(n))
      /\ base \in Seq(CallFrames(n, m)) /\ queue \in Seq(Jobs(n, m))
  BY <1>1, <1>2 DEF Ready
<1>6. pairs[c] \in Pairs(n)
  BY <1>5, ElementOfSeq
<1>7. PICK p : p = pairs[c].promise
  OBVIOUS
<1>8. p \in 1..n
  BY <1>6, <1>7 DEF Pairs
<1>9. value \in Values(n)
  BY <1>1
<1>10. ASSUME promises' \in Seq(PromiseObjects(n, m)), Len(promises') = n,
              pairs' \in Seq(Pairs(n)), Len(pairs') = m, queue' = queue,
              checkpointState' = checkpointState, stack' \in Seq(CallFrames(n, m))
       PROVE  /\ Ready(stack)' /\ Fits(0)'
              /\ Len(promises') = Len(promises) /\ Len(pairs') = Len(pairs) /\ queue' = queue
  BY <1>1, <1>2, <1>5, <1>10 DEF Ready, Fits
<1>11. CASE pairs[c].alreadyResolved
  BY <1>1, <1>2, <1>4, <1>5, <1>9, <1>10, <1>11, CallCases
<1>12. CASE ~pairs[c].alreadyResolved
  <2>1. pairs' = [pairs EXCEPT ![c].alreadyResolved = TRUE]
    BY <1>4, <1>9, <1>12, CallCases
  <2>2. pairs' \in Seq(Pairs(n)) /\ Len(pairs') = m
    BY <1>2, <1>3, <1>5, <2>1, UsePair
  <2>3. CASE \E state \in Settled, result \in Values(n) : Settle(p, state, result, base)
    <3>1. PICK state \in Settled, result \in Values(n) : Settle(p, state, result, base)
      BY <2>3
    <3> QED BY <1>1, <1>3, <1>5, <1>8, <1>10, <2>2, <3>1, SettleChanges
  <2>4. CASE /\ value \in 0..n
             /\ stack' = Append(base, GetThenFrame(p, value))
             /\ UNCHANGED <<promises, queue, checkpointState>>
    <3>1. GetThenFrame(p, value) \in CallFrames(n, m)
      BY <1>3, <1>8, <2>4, FramesAreFrames
    <3>2. stack' \in Seq(CallFrames(n, m))
      BY <1>5, <2>4, <3>1, AppendProperties
    <3> QED BY <1>1, <1>5, <1>10, <2>2, <2>4, <3>2
  <2> QED BY <1>4, <1>7, <1>9, <1>12, <2>3, <2>4, CallCases
<1> QED BY <1>11, <1>12

-----------------------------------------------------------------------------
(* Registering reactions *)

LEMMA NewcomerTypes ==
  ASSUME NEW n \in Nat, NEW m \in Nat
  PROVE  /\ \A reachable \in BOOLEAN, follows \in 0..n :
              PendingPromise(reachable, follows) \in PromiseObjects(n, m)
         /\ \A p \in 1..n, exposed \in BOOLEAN : NewPair(p, exposed) \in Pairs(n)
<1>1. <<>> \in Seq(Reactions(n, m)) /\ <<>> \in Seq(ReactionJobs(n, m))
      /\ <<>> \in Seq({"reject", "handle"})
  BY EmptySeq
<1>2. Primitive \in Values(n)
  BY DEF Values
<1> QED BY <1>1, <1>2 DEF PendingPromise, PromiseObjects, NewPair, Pairs

LEMMA TrackTypes ==
  ASSUME NEW n \in Nat, NEW m \in Nat, NEW changed \in Seq(PromiseObjects(n, m)),
         NEW p \in 1..Len(changed), NEW operation \in {"reject", "handle"},
         NEW base \in Seq(CallFrames(n, m)), Track(p, operation, changed, base)
  PROVE  /\ promises' \in Seq(PromiseObjects(n, m)) /\ Len(promises') = Len(changed)
         /\ stack' \in Seq(CallFrames(n, m))
         /\ "tracker" \in jobHost =>
              /\ stack' = Append(base, TrackerFrame)
              /\ \A q \in 1..Len(changed) : promises'[q] =
                   IF q = p THEN Reported(changed[p], operation) ELSE changed[q]
         /\ "tracker" \notin jobHost => promises' = changed /\ stack' = base
<1>1. CASE "tracker" \notin jobHost
  BY <1>1 DEF Track
<1>2. CASE "tracker" \in jobHost
  <2>1. changed[p] \in PromiseObjects(n, m)
    BY ElementOfSeq
  <2>2. PICK r : r = [changed[p] EXCEPT !.reports = Append(changed[p].reports, operation)]
    OBVIOUS
  <2>3. changed[p].reports \in Seq({"reject", "handle"})
    BY <2>1 DEF PromiseObjects
  <2>4. Append(changed[p].reports, operation) \in Seq({"reject", "handle"})
    BY <2>3, AppendProperties
  <2>5. r \in PromiseObjects(n, m)
    BY <2>1, <2>2, <2>4 DEF PromiseObjects
  <2>6. promises' = [changed EXCEPT ![p] = r] /\ stack' = Append(base, TrackerFrame)
    BY <1>2, <2>2, LenProperties DEF Track
  <2>7. promises' \in Seq(PromiseObjects(n, m)) /\ Len(promises') = Len(changed)
    BY <2>5, <2>6, ExceptSeq
  <2>8. \A q \in 1..Len(changed) : promises'[q] = IF q = p THEN r ELSE changed[q]
    BY <2>5, <2>6, ExceptSeq
  <2>9. stack' \in Seq(CallFrames(n, m))
    BY <2>6, FramesAreFrames, AppendProperties
  <2> QED BY <1>2, <2>2, <2>6, <2>7, <2>8, <2>9 DEF Reported
<1> QED BY <1>1, <1>2

\* A promise object once markPromiseHandled() has been through; `report` says
\* whether it has a report to make, `told` whether a tracker hears it.
Marked(record, report, told) ==
  LET marked == [record EXCEPT !.handled = TRUE, !.handleReported = @ \/ report]
  IN IF told THEN Reported(marked, "handle") ELSE marked

\* markPromiseHandled() has a handling to report, and a tracker to tell.
Reports(p) == ~promises[p].handled /\ ~promises[p].handleReported
Tells(p)   == Reports(p) /\ "tracker" \in jobHost
MarkedNow(p, record) == Marked(record, Reports(p), Tells(p))

LEMMA MarkEffect ==
  ASSUME NEW n \in Nat, NEW m \in Nat, NEW changed \in Seq(PromiseObjects(n, m)),
         NEW p \in 1..Len(changed), NEW base \in Seq(CallFrames(n, m)),
         MarkHandled(p, changed, base)
  PROVE  /\ promises' \in Seq(PromiseObjects(n, m)) /\ Len(promises') = Len(changed)
         /\ stack' \in Seq(CallFrames(n, m))
         /\ stack' = IF Tells(p) THEN Append(base, TrackerFrame) ELSE base
         /\ \A q \in 1..Len(changed) :
              promises'[q] = IF q = p THEN MarkedNow(p, changed[p]) ELSE changed[q]
<1>1. changed[p] \in PromiseObjects(n, m) /\ Reports(p) \in BOOLEAN
  BY ElementOfSeq DEF Reports
<1>2. PICK r : r = [changed[p] EXCEPT !.handled = TRUE, !.handleReported = @ \/ Reports(p)]
  OBVIOUS
<1>3. r \in PromiseObjects(n, m)
  BY <1>1, <1>2 DEF PromiseObjects
<1>4. PICK marked : marked = [changed EXCEPT ![p] = r]
  OBVIOUS
<1>5. marked = [changed EXCEPT ![p].handled = TRUE, ![p].handleReported = @ \/ Reports(p)]
  BY <1>2, <1>4, LenProperties
<1>6. marked \in Seq(PromiseObjects(n, m)) /\ Len(marked) = Len(changed)
  BY <1>3, <1>4, ExceptSeq
<1>7. \A q \in 1..Len(changed) : marked[q] = IF q = p THEN r ELSE changed[q]
  BY <1>3, <1>4, ExceptSeq
<1>8. CASE ~Reports(p)
  <2>1. promises' = marked /\ stack' = base
    BY <1>5, <1>8 DEF MarkHandled, Reports
  <2> QED BY <1>2, <1>6, <1>7, <1>8, <2>1 DEF MarkedNow, Marked, Tells
<1>9. CASE Reports(p)
  <2>1. Track(p, "handle", marked, base)
    BY <1>5, <1>9 DEF MarkHandled, Reports
  <2>2. CASE ~Tells(p)
    <3>1. promises' = marked /\ stack' = base
      BY <1>9, <2>1, <2>2 DEF Track, Tells
    <3> QED BY <1>2, <1>6, <1>7, <1>9, <2>2, <3>1 DEF MarkedNow, Marked
  <2>3. CASE Tells(p)
    <3>1. "tracker" \in jobHost /\ "handle" \in {"reject", "handle"} /\ p \in 1..Len(marked)
      BY <1>6, <2>3 DEF Tells
    <3>2. \A q \in 1..Len(changed) : promises'[q] =
            IF q = p THEN Reported(marked[p], "handle") ELSE marked[q]
      BY <1>6, <2>1, <3>1, TrackTypes
    <3>3. marked[p] = r /\ \A q \in 1..Len(changed) : q # p => marked[q] = changed[q]
      BY <1>7
    <3>4. \A q \in 1..Len(changed) : promises'[q] =
            IF q = p THEN Reported(r, "handle") ELSE changed[q]
      BY <3>2, <3>3
    <3>5. /\ promises' \in Seq(PromiseObjects(n, m)) /\ Len(promises') = Len(changed)
          /\ stack' \in Seq(CallFrames(n, m)) /\ stack' = Append(base, TrackerFrame)
      BY <1>6, <2>1, <3>1, TrackTypes
    <3> QED BY <1>2, <1>9, <2>3, <3>4, <3>5 DEF MarkedNow, Marked
  <2> QED BY <2>2, <2>3
<1> QED BY <1>8, <1>9

\* A promise that got a reaction, a job for later, or a first job to flush; the
\* promise that performPromiseThen() makes, and its pair.
Registered(record, reaction) ==
  [record EXCEPT !.reactions = Append(@, reaction), !.handled = TRUE]
HoldingBack(record, job) == [record EXCEPT !.reactionJobs = Append(@, job)]
Flushing(record, job) ==
  [record EXCEPT !.enqueueInProgress = TRUE, !.reactionJobs = <<job>>]
Child(p, handler, reachable) ==
  PendingPromise(reachable, IF handler = NoHandler THEN p ELSE 0)
HiddenPair(p) == NewPair(p, FALSE)

NewReaction(p, m, handler) == [source |-> p, derived |-> m + 1, handler |-> handler]
JobNow(p, reaction) == ReactionJob(reaction, promises[p].state, promises[p].result)

\* What performPromiseThen() does to the state.
ThenDone(p, handler, before, reachable, base) ==
  LET n        == Len(promises) + 1
      reaction == NewReaction(p, Len(before), handler)
      job      == JobNow(p, reaction)
  IN
  /\ Len(promises') = n /\ promises'[n] = Child(p, handler, reachable)
  /\ \A q \in 1..Len(promises) : q # p => promises'[q] = promises[q]
  /\ pairs' = Append(before, HiddenPair(n))
  /\ Hits(queue', Thenables) = Hits(queue, Thenables)
  /\ \/ /\ promises[p].state = "pending"
        /\ promises'[p] = Registered(promises[p], reaction)
        /\ stack' = base /\ UNCHANGED <<queue, checkpointState>>
     \/ /\ promises[p].state = "fulfilled"
        /\ promises'[p] = promises[p] /\ Enqueue(job, base)
        /\ job \in ReactionJobs(n, Len(before) + 1)
     \/ /\ promises[p].state = "rejected" /\ Buffers(p)
        /\ promises'[p] = HoldingBack(promises[p], job)
        /\ job \in ReactionJobs(n, Len(before) + 1)
        /\ stack' = base /\ UNCHANGED <<queue, checkpointState>>
     \/ /\ promises[p].state = "rejected" /\ ~Buffers(p)
        /\ promises'[p] = MarkedNow(p, Flushing(promises[p], job))
        /\ stack' = IF Tells(p) THEN Append(Append(base, FreshFlush(p)), TrackerFrame)
                                ELSE Append(base, FreshFlush(p))
        /\ job \in ReactionJobs(n, Len(before) + 1)
        /\ UNCHANGED <<queue, checkpointState>>

LEMMA ThenEffect ==
  ASSUME NEW base, Ready(base), NEW before \in Seq(Pairs(Len(promises))),
         Len(pairs) <= Len(before), NEW p \in 1..Len(promises),
         NEW handler \in {NoHandler, Program} \cup 1..Len(before), NEW reachable \in BOOLEAN,
         PerformThen(p, handler, before, reachable, base), UNCHANGED <<jobHost, thrown>>
  PROVE  Ready(stack)' /\ ThenDone(p, handler, before, reachable, base)
<1>. PICK n : n = Len(promises)
  OBVIOUS
<1>. PICK m : m = Len(before)
  OBVIOUS
<1>1. PICK n2 : n2 = n + 1
  OBVIOUS
<1>2. PICK m2 : m2 = m + 1
  OBVIOUS
<1> DEFINE P == PromiseObjects(n2, m2)
           F == CallFrames(n2, m2)
           J == Jobs(n2, m2)
           child == Child(p, handler, reachable)
           reaction == NewReaction(p, m, handler)
           job == JobNow(p, reaction)
           flushing == Append(base, FreshFlush(p))
<1>3. n \in Nat /\ m \in Nat /\ Len(pairs) \in Nat /\ n2 \in Nat /\ m2 \in Nat
      /\ n2 = n + 1 /\ m2 = m + 1
      /\ 1..n \subseteq 1..n2 /\ n2 \in 1..n2 /\ p \in 1..n2
  BY <1>1, <1>2, LenProperties DEF Ready
<1>4. promises \in Seq(P) /\ base \in Seq(F) /\ queue \in Seq(J) /\ before \in Seq(Pairs(n2))
  <2>1. /\ PromiseObjects(n, Len(pairs)) \subseteq P
        /\ CallFrames(n, Len(pairs)) \subseteq F
        /\ Jobs(n, Len(pairs)) \subseteq J
        /\ Pairs(n) \subseteq Pairs(n2)
    BY <1>3, Growth, SMTT(30)
  <2>2. /\ promises \in Seq(PromiseObjects(n, Len(pairs))) /\ queue \in Seq(Jobs(n, Len(pairs)))
        /\ base \in Seq(CallFrames(n, Len(pairs)))
    BY DEF Ready
  <2> QED BY <2>1, <2>2, SeqMonotonic
<1>5. child \in P /\ HiddenPair(n2) \in Pairs(n2)
  <2>1. (IF handler = NoHandler THEN p ELSE 0) \in 0..n2
    BY <1>3
  <2> QED BY <1>3, <2>1, NewcomerTypes DEF Child, HiddenPair
<1>6. promises[p] \in P
  BY <1>4, ElementOfSeq
<1>7. reaction \in Reactions(n2, m2)
  <2>1. m \in Nat /\ m2 = m + 1 /\ p \in 1..n2 /\ handler \in {NoHandler, Program} \cup 1..m
    BY <1>3
  <2>2. handler < m2 /\ handler \in {NoHandler, Program} \cup 1..m2 /\ m2 \in 1..m2
    BY <2>1 DEF NoHandler, Program
  <2> QED BY <2>1, <2>2 DEF Reactions, NewReaction
<1>8. pairs' = Append(before, HiddenPair(n2))
  BY <1>3 DEF PerformThen, HiddenPair
<1>9. pairs' \in Seq(Pairs(n2)) /\ Len(pairs') = m2
  <2>1. m = Len(before) /\ m2 = m + 1
    BY <1>3
  <2> QED BY ONLY <1>4, <1>5, <1>8, <2>1, AppendProperties
<1>10. promises[p].state # "pending" => job \in ReactionJobs(n2, m2)
  BY <1>6, <1>7 DEF JobNow, ReactionJob, ReactionJobs, PromiseObjects
<1>11. ReactionJobs(n2, m2) \subseteq J
  BY DEF Jobs
<1>12. promises[p].state # "pending" => job \notin Thenables
  BY <1>10 DEF ReactionJobs, Thenables
<1> HIDE DEF P, F, J, child, reaction, job, flushing
<1>13. ASSUME promises' \in Seq(P), Len(promises') = n2, stack' \in Seq(F), queue' \in Seq(J),
              checkpointState' \in {"idle", "scheduled", "draining"}
       PROVE  Ready(stack)'
  BY <1>9, <1>13 DEF Ready, P, F, J
<1> DEFINE Longer(r) == Append([promises EXCEPT ![p] = r], child)
<1>14. ASSUME NEW r \in P
       PROVE  /\ Longer(r) \in Seq(P) /\ Len(Longer(r)) = n2 /\ Longer(r)[n2] = child
              /\ \A q \in 1..n : Longer(r)[q] = IF q = p THEN r ELSE promises[q]
  <2>1. PICK changed : changed = [promises EXCEPT ![p] = r]
    OBVIOUS
  <2>2. changed \in Seq(P) /\ Len(changed) = n
    BY <1>4, <2>1, ExceptSeq
  <2>3. \A q \in 1..n : changed[q] = IF q = p THEN r ELSE promises[q]
    BY <1>4, <2>1, ExceptSeq
  <2>4. /\ Append(changed, child) \in Seq(P) /\ Len(Append(changed, child)) = n2
        /\ Append(changed, child)[n2] = child
    BY <1>3, <1>5, <2>2, AppendProperties, SMTT(30)
  <2>5. \A q \in 1..n : Append(changed, child)[q] = changed[q]
    BY <1>5, <2>2, AppendProperties
  <2> QED BY <2>1, <2>3, <2>4, <2>5
<1> HIDE DEF Longer
<1>15. CASE promises[p].state = "pending"
  <2>1. PICK r : r = Registered(promises[p], reaction)
    OBVIOUS
  <2>2. promises[p].reactions \in Seq(Reactions(n2, m2))
    BY <1>6 DEF P, PromiseObjects
  <2>3. Append(promises[p].reactions, reaction) \in Seq(Reactions(n2, m2))
    BY <1>7, <2>2, AppendProperties
  <2>4. r \in P
    BY <1>6, <2>1, <2>3 DEF P, PromiseObjects, Registered
  <2>5. /\ promises' = Longer(r) /\ stack' = base
        /\ UNCHANGED <<queue, checkpointState>>
    BY <1>4, <1>15, <2>1, LenProperties
       DEF PerformThen, Longer, child, reaction, job, flushing, NewReaction, JobNow, Child,
           Registered, HoldingBack, Flushing, FreshFlush
  <2>6. /\ promises' \in Seq(P) /\ Len(promises') = n2 /\ promises'[n2] = child
        /\ \A q \in 1..n : promises'[q] = IF q = p THEN r ELSE promises[q]
    BY <1>14, <2>4, <2>5
  <2>7. Ready(stack)'
    BY <1>4, <1>13, <2>5, <2>6 DEF Ready
  <2> QED BY <1>3, <1>8, <1>15, <2>1, <2>5, <2>6, <2>7 DEF ThenDone, child, reaction, job, flushing
<1>16. CASE promises[p].state = "fulfilled"
  <2>1. promises' = Append(promises, child) /\ Enqueue(job, base)
    BY <1>16 DEF PerformThen, child, reaction, job, NewReaction, JobNow, Child
  <2>2. Longer(promises[p]) = promises'
    BY <1>4, <2>1, LenProperties DEF Longer
  <2>3. /\ promises' \in Seq(P) /\ Len(promises') = n2 /\ promises'[n2] = child
        /\ \A q \in 1..n : promises'[q] = promises[q]
    BY <1>6, <1>14, <2>2
  <2>4. HookFrame \in F /\ job \in J /\ job \notin Thenables
    BY <1>3, <1>10, <1>11, <1>12, <1>16, FramesAreFrames DEF F
  <2>5. checkpointState \in {"idle", "scheduled", "draining"}
    BY DEF Ready
  <2>6. /\ queue' \in Seq(J) /\ stack' \in Seq(F)
        /\ checkpointState' \in {"idle", "scheduled", "draining"}
        /\ Hits(queue', Thenables) = Hits(queue, Thenables) + 0
    BY <1>4, <2>1, <2>4, <2>5, EnqueueTypes
  <2>7. Hits(queue', Thenables) = Hits(queue, Thenables)
    BY <1>4, <2>6, HitsType
  <2>8. Ready(stack)'
    BY <1>13, <2>3, <2>6
  <2> QED BY <1>3, <1>8, <1>10, <1>16, <2>1, <2>3, <2>7, <2>8 DEF ThenDone, child, reaction, job, flushing
<1>17. CASE promises[p].state = "rejected" /\ Buffers(p)
  <2>1. PICK r : r = HoldingBack(promises[p], job)
    OBVIOUS
  <2>2. promises[p].reactionJobs \in Seq(ReactionJobs(n2, m2))
    BY <1>6 DEF P, PromiseObjects
  <2>3. Append(promises[p].reactionJobs, job) \in Seq(ReactionJobs(n2, m2))
    BY <1>10, <1>17, <2>2, AppendProperties
  <2>4. r \in P
    BY <1>6, <2>1, <2>3 DEF P, PromiseObjects, HoldingBack
  <2>5. /\ promises' = Longer(r) /\ stack' = base
        /\ UNCHANGED <<queue, checkpointState>>
    BY <1>4, <1>17, <2>1, LenProperties
       DEF PerformThen, Longer, child, reaction, job, flushing, NewReaction, JobNow, Child,
           Registered, HoldingBack, Flushing, FreshFlush
  <2>6. /\ promises' \in Seq(P) /\ Len(promises') = n2 /\ promises'[n2] = child
        /\ \A q \in 1..n : promises'[q] = IF q = p THEN r ELSE promises[q]
    BY <1>14, <2>4, <2>5
  <2>7. Ready(stack)'
    BY <1>4, <1>13, <2>5, <2>6 DEF Ready
  <2> QED BY <1>3, <1>8, <1>10, <1>17, <2>1, <2>5, <2>6, <2>7 DEF ThenDone, child, reaction, job, flushing
<1>18. CASE promises[p].state = "rejected" /\ ~Buffers(p)
  <2>1. PICK r : r = Flushing(promises[p], job)
    OBVIOUS
  <2>2. <<job>> \in Seq(ReactionJobs(n2, m2))
    BY <1>10, <1>18
  <2>3. r \in P
    BY <1>6, <2>1, <2>2 DEF P, PromiseObjects, Flushing
  <2>4. PICK longer : longer = Longer(r)
    OBVIOUS
  <2>5. /\ MarkHandled(p, longer, flushing)
        /\ UNCHANGED <<queue, checkpointState>>
    BY <1>4, <1>18, <2>1, <2>4, LenProperties
       DEF PerformThen, Longer, child, reaction, job, flushing, NewReaction, JobNow, Child,
           Registered, HoldingBack, Flushing, FreshFlush
  <2>6. /\ longer \in Seq(P) /\ Len(longer) = n2 /\ longer[n2] = child
        /\ \A q \in 1..n : longer[q] = IF q = p THEN r ELSE promises[q]
    BY <1>14, <2>3, <2>4
  <2>7. flushing \in Seq(F)
    <3>1. FreshFlush(p) \in F
      BY <1>3, FreshFrames DEF F
    <3> QED BY <1>4, <3>1, AppendProperties DEF flushing
  <2>8. p \in 1..Len(longer)
    BY <1>3, <2>6
  <2>9. /\ promises' \in Seq(P) /\ Len(promises') = n2
        /\ stack' \in Seq(F)
        /\ stack' = IF Tells(p) THEN Append(flushing, TrackerFrame) ELSE flushing
        /\ \A q \in 1..n2 :
             promises'[q] = IF q = p THEN MarkedNow(p, longer[p]) ELSE longer[q]
    BY <1>3, <2>5, <2>6, <2>7, <2>8, MarkEffect DEF P, F
  <2>10. Ready(stack)'
    BY <1>4, <1>13, <2>5, <2>9 DEF Ready
  <2>11. /\ promises'[n2] = child /\ promises'[p] = MarkedNow(p, r)
         /\ \A q \in 1..n : q # p => promises'[q] = promises[q]
    BY <1>3, <2>6, <2>9
  <2> QED BY <1>3, <1>8, <1>10, <1>18, <2>1, <2>5, <2>9, <2>10, <2>11 DEF ThenDone, child, reaction, job, flushing
<1>19. promises[p].state \in {"pending", "fulfilled", "rejected"}
  BY <1>6 DEF P, PromiseObjects, Settled
<1> QED BY <1>15, <1>16, <1>17, <1>18, <1>19

-----------------------------------------------------------------------------
(* A settlement is for good, and loops over reactions follow one *)

\* Every loop among `frames` is over the reactions of a settled promise.
Begun(frames, objects) ==
  \A i \in 1..Len(frames) :
    frames[i].kind = "trigger" => objects[frames[i].promise].state # "pending"

\* What is settled stays as it is.
Keeps ==
  /\ Len(promises) <= Len(promises')
  /\ \A q \in 1..Len(promises) : promises[q].state # "pending" =>
       promises'[q].state = promises[q].state /\ promises'[q].result = promises[q].result

LEMMA LastEntry ==
  ASSUME NEW S, NEW s \in Seq(S), s # <<>>
  PROVE  Last(s) = s[Len(s)] /\ Len(s) \in 1..Len(s) /\ Last(s) \in S
BY FrontLast DEF Last

LEMMA BegunPush ==
  ASSUME NEW F, NEW base \in Seq(F), NEW frame \in F, NEW objects, Begun(base, objects),
         frame.kind = "trigger" => objects[frame.promise].state # "pending"
  PROVE  Begun(Append(base, frame), objects)
<1>1. PICK frames : frames = Append(base, frame)
  OBVIOUS
<1>2. Len(frames) = Len(base) + 1 /\ frames[Len(base) + 1] = frame /\ Len(base) \in Nat
  BY <1>1, AppendProperties, LenProperties
<1>3. \A i \in 1..Len(base) : frames[i] = base[i]
  BY <1>1, AppendProperties
<1>4. \A i \in 1..Len(frames) : i \in 1..Len(base) \/ i = Len(base) + 1
  BY <1>2
<1> QED BY <1>1, <1>2, <1>3, <1>4 DEF Begun

LEMMA BegunPop ==
  ASSUME NEW F, NEW frames \in Seq(F), frames # <<>>, NEW objects, Begun(frames, objects)
  PROVE  Begun(Front(frames), objects)
<1>1. /\ Len(frames) \in Nat \ {0} /\ Len(Front(frames)) = Len(frames) - 1
      /\ \A i \in 1..(Len(frames) - 1) : Front(frames)[i] = frames[i]
  BY FrontLast
<1>2. \A i \in 1..(Len(frames) - 1) : i \in 1..Len(frames)
  BY <1>1
<1> QED BY <1>1, <1>2 DEF Begun

LEMMA BegunKept ==
  ASSUME NEW n \in Nat, NEW m \in Nat, NEW base \in Seq(CallFrames(n, m)),
         n = Len(promises), Begun(base, promises), Keeps
  PROVE  Begun(base, promises')
<1>1. \A i \in 1..Len(base) : base[i].kind = "trigger" => base[i].promise \in 1..n
  <2> TAKE i \in 1..Len(base)
  <2>1. base[i] \in CallFrames(n, m)
    BY ElementOfSeq
  <2> QED BY <2>1, FrameFields
<1> QED BY <1>1 DEF Begun, Keeps

LEMMA SettleKeeps ==
  ASSUME NEW n \in Nat, NEW m \in Nat, promises \in Seq(PromiseObjects(n, m)), n = Len(promises),
         NEW p \in 1..n, NEW state \in Settled, NEW result \in Values(n),
         NEW base \in Seq(CallFrames(n, m)), Begun(base, promises),
         Settle(p, state, result, base)
  PROVE  Keeps /\ Begun(stack', promises')
<1>1. p \in 1..Len(promises)
  OBVIOUS
<1>2. CASE promises[p].state # "pending"
  <2>1. promises' = promises /\ stack' = base
    BY <1>2, SettleChanges
  <2> QED BY <2>1 DEF Keeps
<1>3. CASE promises[p].state = "pending"
  <2>1. PICK r : r = SettledAs(promises[p], state, result)
    OBVIOUS
  <2>2. /\ Len(promises') = Len(promises)
        /\ \A q \in 1..Len(promises) : promises'[q] = IF q = p THEN r ELSE promises[q]
        /\ stack' = Append(base, FreshTrigger(p, promises[p].reactions))
    BY <1>3, <2>1, SettleChanges
  <2>3. Keeps
    BY <1>3, <2>2 DEF Keeps
  <2>4. promises[p] \in PromiseObjects(n, m)
    BY <1>1, ElementOfSeq
  <2>5. promises'[p].state # "pending"
    BY <1>1, <2>1, <2>2, <2>4, SettledTypes
  <2>6. promises[p].reactions \in Seq(Reactions(n, m))
    BY <2>4 DEF PromiseObjects
  <2>7. PICK frame : frame = FreshTrigger(p, promises[p].reactions)
    OBVIOUS
  <2>8. frame \in CallFrames(n, m) /\ frame.promise = p
    BY <2>6, <2>7, FreshFrames
  <2>9. Begun(base, promises')
    BY <2>3, BegunKept
  <2> QED BY <2>2, <2>3, <2>5, <2>7, <2>8, <2>9, BegunPush
<1> QED BY <1>2, <1>3

LEMMA CallKeeps ==
  ASSUME NEW base, Ready(base), Begun(base, promises), NEW c \in 1..Len(pairs),
         Len(promises) \in 0..MaxPromises,
         NEW value \in Values(Len(promises)), Resolving(c, value, base)
  PROVE  Keeps /\ Begun(stack', promises')
<1>1. PICK n : n = Len(promises)
  OBVIOUS
<1>2. PICK m : m = Len(pairs)
  OBVIOUS
<1>3. /\ promises \in Seq(PromiseObjects(n, m)) /\ base \in Seq(CallFrames(n, m))
      /\ pairs \in Seq(Pairs(n))
      /\ n \in 0..MaxPromises /\ n \in Nat /\ m \in Nat
  BY <1>1, <1>2, LenProperties DEF Ready
<1>4. PICK p : p = pairs[c].promise
  OBVIOUS
<1>5. pairs[c] \in Pairs(n)
  BY <1>3, ElementOfSeq
<1>6. p \in 1..n
  BY <1>4, <1>5 DEF Pairs
<1>7. CASE promises' = promises /\ stack' = base
  BY <1>1, <1>3, <1>7 DEF Keeps
<1>8. CASE \E state \in Settled, result \in Values(n) : Settle(p, state, result, base)
  <2>1. PICK state \in Settled, result \in Values(n) : Settle(p, state, result, base)
    BY <1>8
  <2> QED BY <1>1, <1>3, <1>6, <2>1, SettleKeeps
<1>9. CASE value \in 0..n /\ stack' = Append(base, GetThenFrame(p, value)) /\ promises' = promises
  <2>1. GetThenFrame(p, value) \in CallFrames(n, m) /\ GetThenFrame(p, value).kind = "getThen"
    BY <1>3, <1>6, <1>9, FramesAreFrames, Kinds
  <2>2. Begun(Append(base, GetThenFrame(p, value)), promises)
    BY <1>3, <2>1, BegunPush
  <2> QED BY <1>1, <1>3, <1>9, <2>2 DEF Keeps
<1>10. value \in Values(n)
  BY <1>1
<1>11. \/ promises' = promises /\ stack' = base
       \/ \E state \in Settled, result \in Values(n) : Settle(p, state, result, base)
       \/ value \in 0..n /\ stack' = Append(base, GetThenFrame(p, value)) /\ promises' = promises
  BY <1>3, <1>4, <1>10, CallCases
<1> QED BY <1>7, <1>8, <1>9, <1>11

\* Registering leaves the settlement alone.
LEMMA Alike ==
  ASSUME NEW n \in Nat, NEW m \in Nat, NEW record \in PromiseObjects(n, m)
  PROVE  /\ \A reaction : /\ Registered(record, reaction).state = record.state
                          /\ Registered(record, reaction).result = record.result
                          /\ Registered(record, reaction).lost = record.lost
         /\ \A job : /\ HoldingBack(record, job).state = record.state
                     /\ HoldingBack(record, job).result = record.result
                     /\ HoldingBack(record, job).lost = record.lost
         /\ \A job, p : /\ MarkedNow(p, Flushing(record, job)).state = record.state
                        /\ MarkedNow(p, Flushing(record, job)).result = record.result
                        /\ MarkedNow(p, Flushing(record, job)).lost = record.lost
BY DEF Registered, HoldingBack, Flushing, MarkedNow, Marked, Reported, PromiseObjects

LEMMA ThenKeeps ==
  ASSUME NEW base, Ready(base), Begun(base, promises),
         NEW before \in Seq(Pairs(Len(promises))), Len(pairs) <= Len(before),
         NEW p \in 1..Len(promises),
         NEW handler \in {NoHandler, Program} \cup 1..Len(before), NEW reachable \in BOOLEAN,
         PerformThen(p, handler, before, reachable, base), UNCHANGED <<jobHost, thrown>>
  PROVE  Keeps /\ Begun(stack', promises')
<1>. PICK n : n = Len(promises)
  OBVIOUS
<1>1. /\ base \in Seq(CallFrames(n, Len(pairs))) /\ promises \in Seq(PromiseObjects(n, Len(pairs)))
      /\ n \in Nat /\ Len(pairs) \in Nat
  BY LenProperties DEF Ready
<1>2. promises[p] \in PromiseObjects(n, Len(pairs))
  BY <1>1, ElementOfSeq
<1>3. ThenDone(p, handler, before, reachable, base)
  BY ThenEffect
<1>4. promises'[p].state = promises[p].state /\ promises'[p].result = promises[p].result
  BY <1>1, <1>2, <1>3, Alike DEF ThenDone
<1>5. Keeps
  <2>1. Len(promises') = Len(promises) + 1
        /\ \A q \in 1..Len(promises) : q # p => promises'[q] = promises[q]
    BY <1>3 DEF ThenDone
  <2>2. ASSUME NEW q \in 1..Len(promises)
        PROVE  promises'[q].state = promises[q].state /\ promises'[q].result = promises[q].result
    BY <1>4, <2>1
  <2>3. Len(promises) \in Nat
    BY <1>1
  <2> QED BY <2>1, <2>2, <2>3 DEF Keeps
<1>6. Begun(base, promises')
  BY <1>1, <1>5, BegunKept
<1>7. PICK F : F = CallFrames(n, Len(pairs))
  OBVIOUS
<1>8. HookFrame \in F /\ TrackerFrame \in F /\ FreshFlush(p) \in F
  BY <1>1, <1>7, FramesAreFrames, FreshFrames
<1>9. PICK flushing : flushing = Append(base, FreshFlush(p))
  OBVIOUS
<1>10. flushing \in Seq(F) /\ Begun(flushing, promises')
  BY <1>1, <1>6, <1>7, <1>8, <1>9, BegunPush, AppendProperties, FreshFrames
<1>11. Begun(Append(flushing, TrackerFrame), promises')
  BY <1>8, <1>10, BegunPush, Kinds
<1>12. Begun(Append(base, HookFrame), promises')
  BY <1>1, <1>6, <1>7, <1>8, BegunPush, Kinds
<1>13. stack' \in {base, Append(base, HookFrame), flushing, Append(flushing, TrackerFrame)}
  BY <1>3, <1>9 DEF ThenDone, Enqueue
<1> QED BY <1>5, <1>6, <1>10, <1>11, <1>12, <1>13

-----------------------------------------------------------------------------
(* Every step keeps the types *)

LEMMA TypeInit == Init => TypeInv
<1> SUFFICES ASSUME Init PROVE TypeInv
  OBVIOUS
<1>1. \A S : <<>> \in Seq(S) /\ Len(<<>>) = 0
  BY EmptySeq
<1>2. Hits(queue, Thenables) = 0
  BY HitsNone DEF Init
<1>3. Len(promises) = 0 /\ Len(pairs) = 0
  BY <1>1 DEF Init
<1>4. Ready(stack)
  BY <1>1 DEF Init, Ready
<1>5. Fits(0)
  BY <1>2, <1>3, ConstantsAreApart DEF Fits
<1> QED BY <1>4, <1>5 DEF TypeInv

\* The bounds count what is counted here.
LEMMA OwedIsCounted ==
  ASSUME TypeInv
  PROVE  Owed = Hits(queue, Thenables)
<1>1. PICK n \in 0..MaxPromises, m \in 0..MaxPairs : n = Len(promises) /\ m = Len(pairs)
  BY TopFrame
<1>2. queue \in Seq(Jobs(n, m))
  BY <1>1 DEF TypeInv, Ready
<1>3. \A i \in 1..Len(queue) : queue[i] \in Jobs(n, m)
  BY <1>2, ElementOfSeq
<1>4. \A i \in 1..Len(queue) : queue[i] \in Thenables <=> queue[i].kind = "thenable"
  BY <1>3, TypesAreTypes DEF Thenables
<1>5. {i \in 1..Len(queue) : queue[i].kind = "thenable"} = PlacesOf(queue, Thenables)
  BY <1>4 DEF PlacesOf
<1> QED BY <1>5 DEF Owed, Hits

LEMMA QuietTypes ==
  ASSUME TypeInv, running # "job", UNCHANGED <<jobHost, promises, pairs, queue>>,
         checkpointState' \in {"idle", "scheduled", "draining"}, thrown' \in BOOLEAN,
         \/ stack' = stack
         \/ stack # <<>> /\ stack' = Front(stack)
         \/ stack' = Append(stack, DrainFrame)
  PROVE  TypeInv'
<1>1. /\ Ready(stack) /\ Fits(0) /\ Len(promises) \in Nat /\ Len(pairs) \in Nat
      /\ stack # <<>> => Ready(Front(stack))
  BY TopFrame
<1>2. DrainFrame \in CallFrames(Len(promises), Len(pairs))
  BY <1>1, FramesAreFrames
<1>3. Append(stack, DrainFrame) \in Seq(CallFrames(Len(promises), Len(pairs)))
  BY <1>1, <1>2, AppendProperties DEF Ready
<1>4. stack' \in Seq(CallFrames(Len(promises), Len(pairs)))
  BY <1>1, <1>3 DEF Ready
<1> QED BY <1>1, <1>4 DEF TypeInv, Ready, Fits

\* One promise changes, and the activations.
LEMMA ChangeTypes ==
  ASSUME Ready(stack), Fits(0),
         NEW p \in 1..Len(promises), NEW r \in PromiseObjects(Len(promises), Len(pairs)), promises' = [promises EXCEPT ![p] = r],
         UNCHANGED <<jobHost, pairs, queue, checkpointState>>,
         stack' \in Seq(CallFrames(Len(promises), Len(pairs))), thrown' \in BOOLEAN
  PROVE  TypeInv'
<1>1. promises \in Seq(PromiseObjects(Len(promises), Len(pairs)))
  BY DEF Ready
<1>2. promises' \in Seq(PromiseObjects(Len(promises), Len(pairs))) /\ Len(promises') = Len(promises)
  BY <1>1, ExceptSeq
<1> QED BY <1>2 DEF TypeInv, Ready, Fits

LEMMA GetThenTypes ==
  ASSUME TypeInv, Engine("getThen"), UNCHANGED <<jobHost, pairs, thrown>>,
         \/ ThenThrows \/ ThenNotCallable
         \/ \E intrinsic \in BOOLEAN : ThenCallable(intrinsic)
  PROVE  TypeInv'
<1>1. PICK n : n = Len(promises)
  OBVIOUS
<1>2. PICK m : m = Len(pairs)
  OBVIOUS
<1>3. /\ stack # <<>> /\ Last(stack).kind = "getThen" /\ Last(stack) \in CallFrames(n, m)
      /\ Ready(stack) /\ Fits(0) /\ Ready(Front(stack))
      /\ n \in Nat /\ m \in Nat /\ Hits(queue, Thenables) \in Nat
      /\ n \in 0..MaxPromises /\ m \in 0..MaxPairs
  BY <1>1, <1>2, TopFrame DEF Engine, Running
<1>4. PICK p : p = Last(stack).promise
  OBVIOUS
<1>5. PICK value : value = Last(stack).resolution
  OBVIOUS
<1>6. p \in 1..n /\ value \in 0..n
  BY <1>3, <1>4, <1>5, FrameFields
<1>7. /\ promises \in Seq(PromiseObjects(n, m)) /\ queue \in Seq(Jobs(n, m))
      /\ Front(stack) \in Seq(CallFrames(n, m))
  BY <1>1, <1>2, <1>3 DEF Ready
<1>8. GuestError \in Values(n) /\ value \in Values(n) /\ {"fulfilled", "rejected"} \subseteq Settled
  BY <1>6 DEF Values, Settled
<1>9. CASE \E state \in Settled, result \in Values(n) : Settle(p, state, result, Front(stack))
  <2>1. PICK state \in Settled, result \in Values(n) : Settle(p, state, result, Front(stack))
    BY <1>9
  <2>2. /\ promises' \in Seq(PromiseObjects(n, m)) /\ Len(promises') = n
        /\ stack' \in Seq(CallFrames(n, m))
        /\ queue' = queue /\ checkpointState' = checkpointState
    BY <1>1, <1>3, <1>6, <1>7, <2>1, SettleChanges
  <2> QED BY <1>1, <1>2, <1>3, <2>2 DEF TypeInv, Ready, Fits
<1>10. ASSUME NEW intrinsic \in BOOLEAN, ThenCallable(intrinsic) PROVE TypeInv'
  <2>1. PICK job : job = ThenableJob(p, value, intrinsic)
    OBVIOUS
  <2>2. job \in ThenableJobs(n)
    BY <1>4, <1>5, <1>6, <1>10, <2>1 DEF ThenCallable, ThenableJob, ThenableJobs
  <2>3. job \in Jobs(n, m) /\ job \in Thenables
    BY <1>3, <2>2, TypesAreTypes DEF Jobs
  <2>4. Enqueue(job, Front(stack))
    BY <1>4, <1>5, <1>10, <2>1 DEF ThenCallable
  <2>5. HookFrame \in CallFrames(n, m)
    BY <1>3, FramesAreFrames
  <2>6. /\ queue' \in Seq(Jobs(n, m)) /\ stack' \in Seq(CallFrames(n, m))
        /\ checkpointState' \in {"idle", "scheduled", "draining"}
        /\ Hits(queue', Thenables) = Hits(queue, Thenables) + 1
    BY <1>3, <1>7, <2>3, <2>4, <2>5, EnqueueTypes DEF Ready
  <2>7. promises' \in Seq(PromiseObjects(n, m)) /\ Len(promises') = n
    <3>1. PICK r : r = Following(promises[p], value)
      OBVIOUS
    <3>2. promises[p] \in PromiseObjects(n, m)
      BY <1>1, <1>6, <1>7, ElementOfSeq
    <3>3. r \in PromiseObjects(n, m)
      BY <1>3, <1>6, <3>1, <3>2, RecordTypes
    <3>4. promises' \in {promises, [promises EXCEPT ![p] = r]}
      BY <1>4, <1>5, <1>6, <1>7, <1>10, <3>1, LenProperties DEF ThenCallable, Following
    <3>5. /\ [promises EXCEPT ![p] = r] \in Seq(PromiseObjects(n, m))
          /\ Len([promises EXCEPT ![p] = r]) = n
      BY <1>1, <1>6, <1>7, <3>3, ExceptSeq
    <3> QED BY <1>1, <1>7, <3>4, <3>5
  <2>8. n + Hits(queue, Thenables) + 1 <= MaxPromises /\ m + 2 * Hits(queue, Thenables) + 2 <= MaxPairs
    <3>1. Owed = Hits(queue, Thenables)
      BY OwedIsCounted
    <3> QED BY <1>1, <1>2, <1>3, <1>10, <3>1, ConstantsAreApart DEF ThenCallable, Room
  <2>9. Fits(0)'
    BY <1>1, <1>2, <1>3, <2>6, <2>7, <2>8, ConstantsAreApart, SMTT(30) DEF Fits
  <2>10. Ready(stack)'
    BY <1>1, <1>2, <1>3, <2>6, <2>7 DEF Ready
  <2> QED BY <2>9, <2>10 DEF TypeInv
<1>11. CASE ThenThrows
  BY <1>4, <1>8, <1>9, <1>11 DEF ThenThrows
<1>12. CASE ThenNotCallable
  BY <1>4, <1>5, <1>8, <1>9, <1>12 DEF ThenNotCallable
<1> QED BY <1>10, <1>11, <1>12

\* A function of the program, or foreign code's end, settles something.
LEMMA SettlingTypes ==
  ASSUME TypeInv, running # "job", NEW c \in 1..Len(pairs), NEW value \in Values(Len(promises)),
         NEW base, base = stack \/ (stack # <<>> /\ base = Front(stack)),
         Resolving(c, value, base), UNCHANGED <<jobHost, thrown>>
  PROVE  TypeInv'
<1>1. Ready(base) /\ Fits(0)
  BY TopFrame
<1>2. Ready(stack)' /\ Fits(0)'
  BY <1>1, CallTypes
<1> QED BY <1>2 DEF TypeInv

LEMMA LoopTypes ==
  ASSUME TypeInv, Begun(stack, promises),
         TriggerNext \/ TriggerReturns \/ FlushNext \/ FlushEnds \/ LoopKeepsError
  PROVE  TypeInv'
<1>1. PICK n : n = Len(promises)
  OBVIOUS
<1>2. PICK m : m = Len(pairs)
  OBVIOUS
<1>3. PICK frame : frame = Last(stack)
  OBVIOUS
<1>4. /\ stack # <<>> /\ frame.kind \in {"trigger", "flush"} /\ frame \in CallFrames(n, m)
      /\ Ready(stack) /\ Fits(0) /\ Ready(Front(stack))
      /\ n \in Nat /\ m \in Nat /\ Hits(queue, Thenables) \in Nat
      /\ n \in 0..MaxPromises /\ m \in 0..MaxPairs
  BY <1>1, <1>2, <1>3, TopFrame
     DEF TriggerNext, TriggerReturns, FlushNext, FlushEnds, LoopKeepsError, Engine, Running
<1>5. PICK p : p = frame.promise
  OBVIOUS
<1>6. p \in 1..n /\ frame.threw \in BOOLEAN
  BY <1>4, <1>5, FrameFields
<1>7. /\ promises \in Seq(PromiseObjects(n, m)) /\ queue \in Seq(Jobs(n, m))
      /\ pairs \in Seq(Pairs(n))
      /\ stack \in Seq(CallFrames(n, m)) /\ Front(stack) \in Seq(CallFrames(n, m))
  BY <1>1, <1>2, <1>4 DEF Ready
<1>8. promises[p] \in PromiseObjects(n, m)
  BY <1>1, <1>6, <1>7, ElementOfSeq
<1>9. thrown \in BOOLEAN
  BY <1>4 DEF Ready
<1>10. ASSUME NEW job \in ReactionJobs(n, m), NEW next \in CallFrames(n, m),
              Enqueue(job, Append(Front(stack), next)), UNCHANGED <<jobHost, promises, pairs, thrown>>
       PROVE  TypeInv'
  <2>1. job \in Jobs(n, m) /\ job \notin Thenables
    BY <1>4, TypesAreTypes DEF Jobs
  <2>2. HookFrame \in CallFrames(n, m)
    BY <1>4, FramesAreFrames
  <2>3. PICK base : base = Append(Front(stack), next)
    OBVIOUS
  <2>4. Enqueue(job, base) /\ base \in Seq(CallFrames(n, m))
    BY <1>7, <1>10, <2>3, AppendProperties
  <2>5. checkpointState \in {"idle", "scheduled", "draining"}
    BY <1>4 DEF Ready
  <2>6. /\ queue' \in Seq(Jobs(n, m)) /\ stack' \in Seq(CallFrames(n, m))
        /\ checkpointState' \in {"idle", "scheduled", "draining"}
        /\ Hits(queue', Thenables) = Hits(queue, Thenables) + (IF job \in Thenables THEN 1 ELSE 0)
    BY <1>7, <2>1, <2>2, <2>4, <2>5, EnqueueTypes
  <2>7. Hits(queue', Thenables) = Hits(queue, Thenables)
    BY <1>4, <2>1, <2>6
  <2> QED BY <1>1, <1>2, <1>4, <1>10, <2>6, <2>7 DEF TypeInv, Ready, Fits
<1>11. CASE TriggerNext
  <2>1. frame.kind = "trigger" /\ frame.todo # <<>>
    BY <1>3, <1>4, <1>11 DEF TriggerNext, Engine, Running, running
  <2>2. frame.todo \in Seq(Reactions(n, m))
    BY <1>4, <2>1, FrameFields
  <2>3. Head(frame.todo) \in Reactions(n, m)
    BY <2>1, <2>2, HeadTailProperties
  <2>4. AfterTurn(frame) \in CallFrames(n, m)
    BY <1>4, <2>1, LoopFrames
  <2>5. PICK job : job = ReactionJob(Head(frame.todo), promises[p].state, promises[p].result)
    OBVIOUS
  <2>6. promises[p].state \in Settled
    <3>1. frame = stack[Len(stack)] /\ Len(stack) \in 1..Len(stack)
      BY <1>3, <1>4, <1>7, LastEntry
    <3> QED BY <1>5, <1>8, <2>1, <3>1 DEF Begun, PromiseObjects
  <2>7. job \in ReactionJobs(n, m)
    BY <1>8, <2>3, <2>5, <2>6 DEF ReactionJob, ReactionJobs, PromiseObjects
  <2>8. Enqueue(job, Append(Front(stack), AfterTurn(frame)))
    BY <1>3, <1>5, <1>11, <2>5 DEF TriggerNext, AfterTurn
  <2>9. UNCHANGED <<jobHost, promises, pairs, thrown>>
    BY <1>11 DEF TriggerNext
  <2> QED BY <1>10, <2>4, <2>7, <2>8, <2>9
<1>12. CASE FlushNext
  <2>1. frame.kind = "flush" /\ frame.next <= Len(promises[p].reactionJobs)
    BY <1>3, <1>4, <1>5, <1>12 DEF FlushNext, Engine, Running, running
  <2>2. promises[p].reactionJobs \in Seq(ReactionJobs(n, m)) /\ frame.next \in Nat \ {0}
    BY <1>4, <1>8, <2>1, FrameFields DEF PromiseObjects
  <2>3. frame.next \in 1..Len(promises[p].reactionJobs)
    BY <2>1, <2>2, LenProperties
  <2>4. PICK job : job = promises[p].reactionJobs[frame.next]
    OBVIOUS
  <2>5. job \in ReactionJobs(n, m)
    BY <2>2, <2>3, <2>4, ElementOfSeq
  <2>6. AfterFlush(frame) \in CallFrames(n, m)
    BY <1>4, <2>1, LoopFrames
  <2>7. Enqueue(job, Append(Front(stack), AfterFlush(frame)))
    BY <1>3, <1>5, <1>12, <2>4 DEF FlushNext, AfterFlush
  <2>8. UNCHANGED <<jobHost, promises, pairs, thrown>>
    BY <1>12 DEF FlushNext
  <2> QED BY <1>10, <2>5, <2>6, <2>7, <2>8
<1>13. CASE FlushEnds
  <2>1. PICK r : r = FlushedOut(promises[p])
    OBVIOUS
  <2>2. r \in PromiseObjects(n, m)
    BY <1>4, <1>8, <2>1, RecordTypes
  <2>3. promises' = [promises EXCEPT ![p] = r]
    BY <1>1, <1>3, <1>5, <1>6, <1>7, <1>13, <2>1, LenProperties DEF FlushEnds, FlushedOut
  <2>4. /\ stack' = Front(stack) /\ thrown' \in BOOLEAN
        /\ UNCHANGED <<jobHost, pairs, queue, checkpointState>>
    BY <1>3, <1>6, <1>13 DEF FlushEnds
  <2>5. promises' \in Seq(PromiseObjects(n, m)) /\ Len(promises') = n
    BY <1>1, <1>6, <1>7, <2>2, <2>3, ExceptSeq
  <2> QED BY <1>1, <1>2, <1>4, <1>7, <2>4, <2>5 DEF TypeInv, Ready, Fits
<1>14. CASE TriggerReturns
  <2>1. UNCHANGED <<jobHost, pairs, queue, checkpointState, thrown>>
    BY <1>14 DEF TriggerReturns
  <2>2. CASE Track(p, "reject", promises, Front(stack))
    <3>1. "reject" \in {"reject", "handle"}
      OBVIOUS
    <3>2. /\ promises' \in Seq(PromiseObjects(n, m)) /\ Len(promises') = n
          /\ stack' \in Seq(CallFrames(n, m))
      BY <1>1, <1>4, <1>6, <1>7, <2>2, <3>1, TrackTypes
    <3> QED BY <1>1, <1>2, <1>4, <2>1, <3>2 DEF TypeInv, Ready, Fits
  <2>3. CASE UNCHANGED promises /\ stack' = Front(stack)
    BY <1>1, <1>2, <1>4, <2>1, <2>3 DEF TypeInv, Ready, Fits
  <2> QED BY <1>3, <1>5, <1>14, <2>2, <2>3 DEF TriggerReturns
<1>15. CASE LoopKeepsError
  <2>1. Erring(frame) \in CallFrames(n, m)
    BY <1>4, LoopFrames
  <2>2. Len(stack) \in 1..Len(stack)
    BY <1>4, <1>7, LastEntry
  <2>3. stack' = [stack EXCEPT ![Len(stack)] = Erring(frame)]
    BY <1>3, <1>15 DEF LoopKeepsError, Erring, Last
  <2>4. stack' \in Seq(CallFrames(n, m))
    BY <1>7, <2>1, <2>2, <2>3, ExceptSeq
  <2>5. UNCHANGED <<jobHost, promises, pairs, queue, checkpointState>> /\ thrown' = FALSE
    BY <1>15 DEF LoopKeepsError
  <2> QED BY <1>4, <1>1, <1>2, <2>4, <2>5 DEF TypeInv, Ready, Fits
<1> QED BY <1>11, <1>12, <1>13, <1>14, <1>15

-----------------------------------------------------------------------------
(* The kinds of steps *)

\* The activations under which resolving functions are called, and those under
\* which performPromiseThen() is.
CallBase(base) ==
  \/ Foreign /\ base = stack
  \/ running \in {"native", "handler", "thenable"} /\ base = Front(stack)
  \/ /\ running = "job" /\ Last(stack).job.kind = "reaction"
     /\ \/ base = Front(stack)
        \/ \E d \in 1..Len(pairs) : base = Append(Front(stack), NativeFrame(d))

CallStep ==
  /\ \E c \in 1..Len(pairs), value \in Values(Len(promises)), base \in Seq(Frame) :
       CallBase(base) /\ Resolving(c, value, base)
  /\ ~thrown /\ UNCHANGED <<jobHost, thrown>>

HandlerStep ==
  /\ running = "job" /\ Last(stack).job.kind = "reaction"
  /\ \E d \in 1..Len(pairs) : stack' = Append(Front(stack), HandlerFrame(d))
  /\ UNCHANGED <<jobHost, promises, pairs, queue, checkpointState, thrown>>

ThenStep ==
  /\ Foreign /\ Room(1, 1)
  /\ \E p \in 1..Len(promises), handler \in {NoHandler, Program} :
       PerformThen(p, handler, pairs, TRUE, stack)
  /\ UNCHANGED <<jobHost, thrown>>

GetThenStep ==
  ThenThrows \/ ThenNotCallable \/ \E intrinsic \in BOOLEAN : ThenCallable(intrinsic)

LoopStep == TriggerNext \/ TriggerReturns \/ FlushNext \/ FlushEnds \/ LoopKeepsError

\* Steps that leave the promises, pairs and jobs alone.
QuietStep ==
  /\ running # "job"
  /\ \/ stack' = stack /\ running # "trigger"
     \/ /\ running \in {"drain", "hook", "tracker", "thenable", "trigger"}
        /\ stack' = Front(stack)
        /\ running = "trigger" => Last(stack).threw
     \/ Foreign /\ stack' = Append(stack, DrainFrame)
  /\ checkpointState' \in {checkpointState, "idle", "draining"}
  /\ thrown' \in BOOLEAN
  /\ UNCHANGED <<jobHost, promises, pairs, queue>>

LEMMA StackTypes ==
  ASSUME TypeInv
  PROVE  TypeOK /\ Front(stack) \in Seq(Frame)
<1>1. PICK n \in 0..MaxPromises, m \in 0..MaxPairs : n = Len(promises) /\ m = Len(pairs)
  BY TopFrame
<1>2. /\ PromiseObjects(n, m) \subseteq Promise /\ Pairs(n) \subseteq Pair
      /\ Jobs(n, m) \subseteq Job /\ CallFrames(n, m) \subseteq Frame
      /\ JobFrames(n, m) \subseteq Frame
  BY TypesAreTypes
<1>3. /\ promises \in Seq(PromiseObjects(n, m)) /\ pairs \in Seq(Pairs(n))
      /\ queue \in Seq(Jobs(n, m)) /\ jobHost \in JobHosts /\ thrown \in BOOLEAN
      /\ checkpointState \in {"idle", "scheduled", "draining"}
  BY <1>1 DEF TypeInv, Ready
<1>4. promises \in Seq(Promise) /\ pairs \in Seq(Pair) /\ queue \in Seq(Job)
  BY <1>2, <1>3, SeqMonotonic
<1>5. stack \in Seq(Frame)
  <2>1. CASE stack \in Seq(CallFrames(n, m))
    BY <1>2, <2>1, SeqMonotonic
  <2>2. CASE stack \notin Seq(CallFrames(n, m))
    <3>1. /\ stack = Append(Front(stack), Last(stack))
          /\ Front(stack) \in Seq(CallFrames(n, m)) /\ Last(stack) \in JobFrames(n, m)
      BY <1>1, <2>2 DEF TypeInv, Ready
    <3>2. Front(stack) \in Seq(Frame) /\ Last(stack) \in Frame
      BY <1>2, <3>1, SeqMonotonic
    <3> QED BY <3>1, <3>2, AppendProperties
  <2> QED BY <2>1, <2>2
<1>6. Front(stack) \in Seq(Frame)
  BY <1>5, FrontLast
<1> QED BY <1>1, <1>3, <1>4, <1>5, <1>6 DEF TypeOK

LEMMA QuietSteps ==
  ASSUME TypeInv,
         \/ HookReturns \/ TrackerEnds \/ HostError \/ Caught \/ HookThrows \/ EndDrain
         \/ RunJobs \/ ThenReturns \/ TriggerThrows
  PROVE  QuietStep
<1>1. stack \in Seq(Frame) /\ Front(stack) \in Seq(Frame) /\ thrown \in BOOLEAN
  BY TopFrame, StackTypes DEF TypeOK
<1>2. CASE HookReturns \/ ThenReturns
  BY <1>1, <1>2 DEF HookReturns, ThenReturns, QuietStep, Engine, Running
<1>3. CASE TrackerEnds
  BY <1>1, <1>3 DEF TrackerEnds, QuietStep, Running
<1>4. CASE HostError
  BY <1>1, <1>4 DEF HostError, QuietStep, Foreign
<1>5. CASE Caught
  BY <1>1, <1>5 DEF Caught, QuietStep, Foreign, Running
<1>6. CASE HookThrows
  BY <1>1, <1>6 DEF HookThrows, QuietStep, Running
<1>7. CASE EndDrain
  BY <1>1, <1>7 DEF EndDrain, QuietStep, Engine, Running
<1>8. CASE RunJobs
  BY <1>1, <1>8 DEF RunJobs, QuietStep, ForeignCode, Foreign
<1>9. CASE TriggerThrows
  BY <1>1, <1>9 DEF TriggerThrows, QuietStep, Engine, Running
<1> QED BY <1>2, <1>3, <1>4, <1>5, <1>6, <1>7, <1>8, <1>9

LEMMA StepKinds ==
  ASSUME TypeInv, Next
  PROVE  \/ NewPromise \/ CallStep \/ HandlerStep \/ ThenStep \/ RunThenable \/ StartJob
         \/ GetThenStep \/ LoopStep \/ Unwinds \/ QuietStep
<1>1. PICK n : n = Len(promises)
  OBVIOUS
<1>2. PICK m : m = Len(pairs)
  OBVIOUS
<1>3. /\ n \in Nat /\ m \in Nat /\ n \in 0..MaxPromises /\ m \in 0..MaxPairs
      /\ stack \in Seq(Frame) /\ Front(stack) \in Seq(Frame)
      /\ thrown \in BOOLEAN
  BY <1>1, <1>2, TopFrame, StackTypes DEF TypeOK
<1>4. {Primitive, GuestError} \cup 0..n = Values(n)
  BY DEF Values
<1>5. ASSUME NEW c \in 1..m, NEW value \in Values(n), NEW base \in Seq(Frame),
             CallBase(base), CallResolve(c, value, base) \/ CallReject(c, base),
             ~thrown, UNCHANGED <<jobHost, thrown>>
      PROVE  CallStep
  BY <1>1, <1>2, <1>5 DEF CallStep, Resolving
<1>6. ASSUME NEW c \in 1..MaxPairs, ProgramRejects(c) PROVE CallStep
  <2>1. c \in 1..m /\ CallReject(c, stack) /\ Foreign /\ ~thrown /\ UNCHANGED <<jobHost, thrown>>
    BY <1>2, <1>6 DEF ProgramRejects, Exposed, ForeignCode
  <2> QED BY <1>3, <1>4, <1>5, <2>1 DEF CallBase
<1>7. ASSUME NEW c \in 1..MaxPairs,
             NEW value \in {Primitive, NewObject} \cup 1..MaxPromises, ProgramResolves(c, value)
      PROVE  CallStep
  <2>1. c \in 1..m /\ CallResolve(c, value, stack) /\ Foreign /\ ~thrown /\ UNCHANGED <<jobHost, thrown>>
        /\ value \in {Primitive, NewObject} \cup 1..n
    BY <1>1, <1>2, <1>7 DEF ProgramResolves, Exposed, Reachable, ForeignCode
  <2>2. value \in Values(n)
    BY <1>3, <2>1 DEF Values, NewObject
  <2> QED BY <1>3, <1>5, <2>1, <2>2 DEF CallBase
<1>8. ASSUME running \in {"native", "handler", "thenable"}
      PROVE  Last(stack).pair \in 1..m
  <2>1. stack # <<>> /\ Last(stack).kind = running /\ Last(stack) \in CallFrames(n, m)
    BY <1>1, <1>2, <1>8, TopFrame
  <2> QED BY <1>3, <1>8, <2>1, FrameFields
<1>9. CASE NativeReturns
  <2>1. Primitive \in Values(n)
    BY <1>4
  <2> QED BY <1>3, <1>5, <1>8, <1>9, <2>1 DEF NativeReturns, Engine, Running, CallBase
<1>10. CASE HandlerThrows \/ ThenFails
  <2>1. GuestError \in Values(n)
    BY <1>4
  <2> QED BY <1>3, <1>5, <1>8, <1>10, <2>1 DEF HandlerThrows, ThenFails, Engine, Running, CallBase
<1>11. ASSUME NEW value \in {Primitive, NewObject} \cup 1..MaxPromises, HandlerReturns(value)
       PROVE  CallStep
  <2>1. value \in Values(n)
    BY <1>1, <1>3, <1>11 DEF HandlerReturns, Reachable, Values, NewObject
  <2> QED BY <1>3, <1>5, <1>8, <1>11, <2>1 DEF HandlerReturns, Engine, Running, CallBase
<1>12. ASSUME RunReaction PROVE CallStep \/ HandlerStep
  <2>1. PICK job : job = Last(stack).job
    OBVIOUS
  <2>2. running = "job" /\ job.kind = "reaction"
    BY <1>12, <2>1 DEF RunReaction, Engine, Running
  <2>3. stack # <<>> /\ job \in Jobs(n, m)
    BY <1>1, <1>2, <2>1, <2>2, TopFrame DEF JobFrames
  <2>4. job \in ReactionJobs(n, m)
    BY <2>2, <2>3 DEF Jobs, ThenableJobs
  <2>5. PICK d : d = job.reaction.derived
    OBVIOUS
  <2>6. PICK handler : handler = job.reaction.handler
    OBVIOUS
  <2>7. /\ d \in 1..m /\ handler \in {NoHandler, Program} \cup 1..m
        /\ job.argument \in Values(n)
    BY <2>4, <2>5, <2>6 DEF ReactionJobs, Reactions
  <2>8. \/ handler = NoHandler /\ CallPair(d, job.type, job.argument, Front(stack))
        \/ /\ stack' = Append(Front(stack), HandlerFrame(d))
           /\ UNCHANGED <<promises, pairs, queue, checkpointState>>
        \/ /\ handler \in 1..MaxPairs
           /\ CallPair(handler, job.type, job.argument, Append(Front(stack), NativeFrame(d)))
    BY <1>12, <2>1, <2>5, <2>6 DEF RunReaction
  <2>9. ~thrown /\ UNCHANGED <<jobHost, thrown>>
    BY <1>12 DEF RunReaction, Engine
  <2>10. CASE CallPair(d, job.type, job.argument, Front(stack))
    <3>1. CallBase(Front(stack))
      BY <2>1, <2>2 DEF CallBase
    <3>2. CallResolve(d, job.argument, Front(stack)) \/ CallReject(d, Front(stack))
      BY <2>10 DEF CallPair
    <3> QED BY <1>3, <1>5, <2>7, <2>9, <3>1, <3>2
  <2>11. CASE /\ handler \in 1..MaxPairs
              /\ CallPair(handler, job.type, job.argument, Append(Front(stack), NativeFrame(d)))
    <3>1. PICK base : base = Append(Front(stack), NativeFrame(d))
      OBVIOUS
    <3>2. NativeFrame(d) \in Frame
      BY <1>3, <2>7, FramesAreFrames, TypesAreTypes
    <3>3. base \in Seq(Frame) /\ CallBase(base)
      BY <1>2, <1>3, <2>1, <2>2, <2>7, <3>1, <3>2, AppendProperties DEF CallBase
    <3>4. CallResolve(handler, job.argument, base) \/ CallReject(handler, base)
      BY <2>11, <3>1 DEF CallPair
    <3>5. handler \in 1..m
      BY <2>7, <2>11 DEF NoHandler, Program
    <3> QED BY <1>5, <2>7, <2>9, <3>3, <3>4, <3>5
  <2>12. CASE /\ stack' = Append(Front(stack), HandlerFrame(d))
              /\ UNCHANGED <<promises, pairs, queue, checkpointState>>
    BY <1>2, <2>1, <2>2, <2>7, <2>9, <2>12 DEF HandlerStep
  <2> QED BY <2>8, <2>10, <2>11, <2>12
<1>13. ASSUME NEW p \in 1..MaxPromises, NEW handler \in {NoHandler, Program},
              ProgramThen(p, handler)
       PROVE  ThenStep
  BY <1>13 DEF ProgramThen, ThenStep, Reachable, ForeignCode
<1>14. CASE HookReturns \/ TrackerEnds \/ HostError \/ Caught \/ HookThrows \/ EndDrain \/ RunJobs
            \/ ThenReturns \/ TriggerThrows
  BY <1>14, QuietSteps
<1> QED BY <1>6, <1>7, <1>9, <1>10, <1>11, <1>12, <1>13, <1>14 DEF Next, GetThenStep, LoopStep

-----------------------------------------------------------------------------
(* Every kind of step keeps the types, and settlements *)

LEMMA BaseTypes ==
  ASSUME TypeInv, NEW base, CallBase(base)
  PROVE  Ready(base) /\ Fits(0)
<1>1. PICK n : n = Len(promises)
  OBVIOUS
<1>2. PICK m : m = Len(pairs)
  OBVIOUS
<1>3. n \in Nat /\ m \in Nat
  BY <1>1, <1>2, TopFrame
<1>4. CASE Foreign /\ base = stack
  BY <1>4, TopFrame DEF Foreign
<1>5. CASE running \in {"native", "handler", "thenable"} /\ base = Front(stack)
  BY <1>5, TopFrame
<1>6. CASE running = "job" /\ Last(stack).job.kind = "reaction"
  <2>1. Ready(Front(stack)) /\ Fits(0)
    BY <1>6, TopFrame DEF TakenThenables
  <2>2. ASSUME NEW d \in 1..m, base = Append(Front(stack), NativeFrame(d))
        PROVE  Ready(base)
    <3>1. NativeFrame(d) \in CallFrames(n, m)
      BY <1>3, FramesAreFrames
    <3>2. base \in Seq(CallFrames(n, m))
      BY <1>1, <1>2, <2>1, <2>2, <3>1, AppendProperties DEF Ready
    <3> QED BY <1>1, <1>2, <2>1, <3>2 DEF Ready
  <2>3. base = Front(stack) \/ \E d \in 1..m : base = Append(Front(stack), NativeFrame(d))
    BY <1>2, <1>6 DEF CallBase, Foreign
  <2> QED BY <2>1, <2>2, <2>3
<1> QED BY <1>4, <1>5, <1>6 DEF CallBase

LEMMA BaseBegun ==
  ASSUME TypeInv, Begun(stack, promises), NEW base, CallBase(base)
  PROVE  Begun(base, promises)
<1>1. stack \in Seq(Frame) /\ Front(stack) \in Seq(Frame)
      /\ Len(promises) \in 0..MaxPromises /\ Len(pairs) \in 0..MaxPairs
      /\ Len(promises) \in Nat /\ Len(pairs) \in Nat
  BY StackTypes, TopFrame DEF TypeOK
<1>2. stack # <<>> => Begun(Front(stack), promises)
  BY <1>1, BegunPop
<1>3. running \in {"native", "handler", "thenable", "job"} => stack # <<>>
  BY TopFrame
<1>4. ASSUME NEW d \in 1..Len(pairs), Begun(Front(stack), promises)
      PROVE  Begun(Append(Front(stack), NativeFrame(d)), promises)
  <2>1. NativeFrame(d) \in Frame /\ NativeFrame(d).kind # "trigger"
    BY <1>1, FramesAreFrames, TypesAreTypes, Kinds
  <2> QED BY <1>1, <1>4, <2>1, BegunPush
<1> QED BY <1>2, <1>3, <1>4 DEF CallBase

\* What every step keeps.
Kept == TypeInv' /\ Begun(stack', promises') /\ Keeps

LEMMA CallKept ==
  ASSUME TypeInv, Begun(stack, promises), CallStep
  PROVE  Kept
<1>1. PICK c \in 1..Len(pairs), value \in Values(Len(promises)), base \in Seq(Frame) :
        CallBase(base) /\ Resolving(c, value, base)
  BY DEF CallStep
<1>2. Ready(base) /\ Fits(0) /\ Begun(base, promises) /\ Len(promises) \in 0..MaxPromises
  BY <1>1, BaseTypes, BaseBegun, TopFrame
<1>3. UNCHANGED <<jobHost, thrown>>
  BY DEF CallStep
<1>4. Ready(stack)' /\ Fits(0)'
  BY <1>1, <1>2, <1>3, CallTypes
<1>5. Keeps /\ Begun(stack', promises')
  BY <1>1, <1>2, CallKeeps
<1> QED BY <1>4, <1>5 DEF Kept, TypeInv

LEMMA HandlerKept ==
  ASSUME TypeInv, Begun(stack, promises), HandlerStep
  PROVE  Kept
<1>1. PICK n : n = Len(promises)
  OBVIOUS
<1>2. PICK m : m = Len(pairs)
  OBVIOUS
<1>3. PICK d \in 1..m : stack' = Append(Front(stack), HandlerFrame(d))
  BY <1>2 DEF HandlerStep
<1>4. /\ Ready(Front(stack)) /\ Fits(0) /\ n \in Nat /\ m \in Nat /\ stack # <<>>
      /\ stack \in Seq(Frame)
  BY <1>1, <1>2, TopFrame, StackTypes DEF HandlerStep, TakenThenables, TypeOK
<1>5. HandlerFrame(d) \in CallFrames(n, m) /\ HandlerFrame(d).kind # "trigger"
  BY <1>4, FramesAreFrames, Kinds
<1>6. Front(stack) \in Seq(CallFrames(n, m))
  BY <1>1, <1>2, <1>4 DEF Ready
<1>7. stack' \in Seq(CallFrames(n, m))
  BY <1>3, <1>5, <1>6, AppendProperties
<1>8. Begun(Front(stack), promises)
  BY <1>4, BegunPop
<1>9. Begun(stack', promises)
  BY <1>3, <1>5, <1>6, <1>8, BegunPush
<1>10. UNCHANGED <<jobHost, promises, pairs, queue, checkpointState, thrown>>
  BY DEF HandlerStep
<1>11. Ready(stack)' /\ Fits(0)'
  BY <1>1, <1>2, <1>4, <1>7, <1>10 DEF Ready, Fits
<1> QED BY <1>1, <1>4, <1>9, <1>10, <1>11 DEF Kept, Keeps, TypeInv

LEMMA QuietKept ==
  ASSUME TypeInv, Begun(stack, promises), QuietStep
  PROVE  Kept
<1>1. running # "job" /\ UNCHANGED <<jobHost, promises, pairs, queue>> /\ thrown' \in BOOLEAN
  BY DEF QuietStep
<1>2. Ready(stack) /\ Len(promises) \in Nat /\ Len(pairs) \in Nat
  BY <1>1, TopFrame
<1>3. checkpointState' \in {"idle", "scheduled", "draining"}
  BY <1>2 DEF QuietStep, Ready
<1>4. \/ stack' = stack
      \/ stack # <<>> /\ stack' = Front(stack)
      \/ stack' = Append(stack, DrainFrame)
  BY TopFrame DEF QuietStep
<1>5. TypeInv'
  BY <1>1, <1>3, <1>4, QuietTypes
<1>6. stack \in Seq(CallFrames(Len(promises), Len(pairs)))
  BY <1>2 DEF Ready
<1>7. DrainFrame \in CallFrames(Len(promises), Len(pairs)) /\ DrainFrame.kind # "trigger"
  BY <1>2, FramesAreFrames, Kinds
<1>8. Begun(Append(stack, DrainFrame), promises)
  BY <1>6, <1>7, BegunPush
<1>9. Begun(stack', promises')
  BY <1>1, <1>4, <1>6, <1>8, BegunPop
<1> QED BY <1>1, <1>2, <1>5, <1>9 DEF Kept, Keeps

LEMMA ThenKept ==
  ASSUME TypeInv, Begun(stack, promises), ThenStep
  PROVE  Kept
<1>1. PICK p \in 1..Len(promises), handler \in {NoHandler, Program} :
        PerformThen(p, handler, pairs, TRUE, stack)
  BY DEF ThenStep
<1>2. Ready(stack) /\ Fits(0)
  BY TopFrame DEF ThenStep, Foreign
<1>3. PICK n : n = Len(promises)
  OBVIOUS
<1>4. PICK m : m = Len(pairs)
  OBVIOUS
<1>5. n \in Nat /\ m \in Nat /\ pairs \in Seq(Pairs(Len(promises)))
      /\ Len(pairs) <= Len(pairs) /\ Hits(queue, Thenables) \in Nat
  BY <1>2, <1>3, <1>4, TopFrame DEF Ready
<1>6. handler \in {NoHandler, Program} \cup 1..Len(pairs) /\ TRUE \in BOOLEAN
  OBVIOUS
<1>7. UNCHANGED <<jobHost, thrown>>
  BY DEF ThenStep
<1>8. Ready(stack)' /\ ThenDone(p, handler, pairs, TRUE, stack)
  BY <1>1, <1>2, <1>5, <1>6, <1>7, ThenEffect
<1>9. Keeps /\ Begun(stack', promises')
  BY <1>1, <1>2, <1>5, <1>6, <1>7, ThenKeeps
<1>10. Fits(0)'
  <2>1. /\ Len(promises') = n + 1 /\ Hits(queue', Thenables) = Hits(queue, Thenables)
        /\ pairs' = Append(pairs, HiddenPair(n + 1))
    BY <1>3, <1>8 DEF ThenDone
  <2>2. Len(pairs') = m + 1
    BY <1>4, <1>5, <2>1, AppendAny
  <2>3. n + Hits(queue, Thenables) + 1 <= MaxPromises
        /\ m + 2 * Hits(queue, Thenables) + 1 <= MaxPairs
    <3>1. Owed = Hits(queue, Thenables)
      BY OwedIsCounted
    <3> QED BY <1>3, <1>4, <3>1 DEF ThenStep, Room
  <2> QED BY <1>5, <2>1, <2>2, <2>3, ConstantsAreApart, SMTT(30) DEF Fits
<1> QED BY <1>8, <1>9, <1>10 DEF Kept, TypeInv

LEMMA NewKept ==
  ASSUME TypeInv, Begun(stack, promises), NewPromise
  PROVE  Kept
<1>1. PICK n : n = Len(promises)
  OBVIOUS
<1>2. PICK m : m = Len(pairs)
  OBVIOUS
<1>3. PICK n2 : n2 = n + 1
  OBVIOUS
<1>4. PICK m2 : m2 = m + 1
  OBVIOUS
<1>5. Ready(stack) /\ n \in Nat /\ m \in Nat /\ Hits(queue, Thenables) \in Nat
  BY <1>1, <1>2, TopFrame DEF NewPromise, ForeignCode, Foreign
<1>6. /\ promises' = Append(promises, PendingPromise(TRUE, 0))
      /\ pairs' = Append(pairs, NewPair(n2, TRUE))
      /\ UNCHANGED <<jobHost, queue, checkpointState, stack, thrown>> /\ Room(1, 1)
  BY <1>1, <1>3 DEF NewPromise
<1>7. n2 \in Nat /\ m2 \in Nat /\ n <= n2 /\ m <= m2 /\ n2 \in 1..n2 /\ 0 \in 0..n2
  BY <1>3, <1>4, <1>5
<1>8. /\ promises \in Seq(PromiseObjects(n, m)) /\ pairs \in Seq(Pairs(n))
      /\ queue \in Seq(Jobs(n, m)) /\ stack \in Seq(CallFrames(n, m))
  BY <1>1, <1>2, <1>5 DEF Ready
<1>9. /\ promises \in Seq(PromiseObjects(n2, m2)) /\ pairs \in Seq(Pairs(n2))
      /\ queue \in Seq(Jobs(n2, m2)) /\ stack \in Seq(CallFrames(n2, m2))
  BY <1>5, <1>7, <1>8, Growth, SeqMonotonic, SMTT(30)
<1>10. PICK record : record = PendingPromise(TRUE, 0)
  OBVIOUS
<1>11. PICK pair : pair = NewPair(n2, TRUE)
  OBVIOUS
<1>12. record \in PromiseObjects(n2, m2) /\ pair \in Pairs(n2)
  BY <1>7, <1>10, <1>11, NewcomerTypes
<1>13. /\ promises' \in Seq(PromiseObjects(n2, m2)) /\ Len(promises') = n2
       /\ pairs' \in Seq(Pairs(n2)) /\ Len(pairs') = m2
       /\ \A q \in 1..n : promises'[q] = promises[q]
  <2>1. promises' = Append(promises, record) /\ pairs' = Append(pairs, pair)
    BY <1>6, <1>10, <1>11
  <2>2. promises' \in Seq(PromiseObjects(n2, m2)) /\ Len(promises') = Len(promises) + 1
        /\ \A q \in 1..Len(promises) : promises'[q] = promises[q]
    BY <1>9, <1>12, <2>1, AppendProperties
  <2>3. pairs' \in Seq(Pairs(n2)) /\ Len(pairs') = Len(pairs) + 1
    BY <1>9, <1>12, <2>1, AppendProperties
  <2> QED BY <1>1, <1>2, <1>3, <1>4, <2>2, <2>3
<1>14. Ready(stack)'
  BY <1>5, <1>6, <1>9, <1>13 DEF Ready
<1>15. Fits(0)'
  <2>1. Owed = Hits(queue, Thenables)
    BY OwedIsCounted
  <2> QED BY <1>1, <1>2, <1>3, <1>4, <1>5, <1>6, <1>13, <2>1, ConstantsAreApart, SMTT(30) DEF Fits, Room
<1>16. Keeps
  BY <1>1, <1>3, <1>5, <1>13 DEF Keeps
<1>17. Begun(stack, promises')
  BY <1>1, <1>5, <1>8, <1>16, BegunKept
<1> QED BY <1>6, <1>14, <1>15, <1>16, <1>17 DEF Kept, TypeInv

LEMMA StartKept ==
  ASSUME TypeInv, Begun(stack, promises), StartJob
  PROVE  Kept
<1>1. PICK n : n = Len(promises)
  OBVIOUS
<1>2. PICK m : m = Len(pairs)
  OBVIOUS
<1>3. Ready(stack) /\ Fits(0) /\ n \in Nat /\ m \in Nat /\ Hits(queue, Thenables) \in Nat
      /\ n \in 0..MaxPromises /\ m \in 0..MaxPairs
  BY <1>1, <1>2, TopFrame DEF StartJob, Engine, Running
<1>4. /\ queue # <<>> /\ queue' = Tail(queue) /\ stack' = Append(stack, JobFrame(Head(queue)))
      /\ UNCHANGED <<jobHost, promises, pairs, checkpointState, thrown>>
  BY DEF StartJob
<1>5. queue \in Seq(Jobs(n, m)) /\ stack \in Seq(CallFrames(n, m)) /\ stack \in Seq(Frame)
  BY <1>1, <1>2, <1>3, StackTypes DEF Ready, TypeOK
<1>6. PICK job : job = Head(queue)
  OBVIOUS
<1>7. job \in Jobs(n, m) /\ queue' \in Seq(Jobs(n, m))
  BY <1>4, <1>5, <1>6, HeadTailProperties
<1>8. PICK frame : frame = JobFrame(job)
  OBVIOUS
<1>9. frame \in JobFrames(n, m) /\ frame \in Frame /\ frame.kind = "job" /\ frame.job = job
  BY <1>3, <1>7, <1>8, FramesAreFrames, TypesAreTypes, Kinds
<1>10. /\ stack' # <<>> /\ Front(stack') = stack /\ Last(stack') = frame
       /\ stack' = Append(stack, frame)
  BY <1>4, <1>5, <1>6, <1>8, <1>9, FrontOfAppend
<1>11. Ready(Front(stack))'
  BY <1>1, <1>2, <1>3, <1>4, <1>7, <1>10 DEF Ready
<1>12. job \in Thenables <=> job.kind = "thenable"
  BY <1>3, <1>7, TypesAreTypes DEF Thenables, Jobs
<1>13. Hits(queue, Thenables) = Hits(queue', Thenables) + TakenThenables(frame)
  BY <1>4, <1>5, <1>6, <1>9, <1>12, HitsTail DEF TakenThenables
<1>14. Fits(TakenThenables(Last(stack)))'
  <2>1. Hits(queue', Thenables) \in Nat /\ TakenThenables(frame) \in 0..1
    BY <1>7, HitsType DEF TakenThenables
  <2>2. PICK taken \in 0..1 : taken = TakenThenables(frame)
    BY <2>1
  <2>3. TakenThenables(Last(stack))' = taken
    BY <1>10, <2>2 DEF TakenThenables
  <2> QED BY <1>1, <1>2, <1>3, <1>4, <1>13, <2>1, <2>2, <2>3, ConstantsAreApart, SMTT(30) DEF Fits
<1>15. Begun(stack', promises)
  BY <1>5, <1>9, <1>10, BegunPush
<1>16. Last(stack)' \in JobFrames(Len(promises), Len(pairs))'
  BY <1>1, <1>2, <1>4, <1>9, <1>10 DEF JobFrames, Jobs
<1> QED BY <1>1, <1>3, <1>4, <1>10, <1>11, <1>14, <1>15, <1>16 DEF Kept, Keeps, TypeInv

LEMMA UnwindsKept ==
  ASSUME TypeInv, Begun(stack, promises), Unwinds
  PROVE  Kept
<1>1. PICK n : n = Len(promises)
  OBVIOUS
<1>2. PICK m : m = Len(pairs)
  OBVIOUS
<1>3. PICK frame : frame = Last(stack)
  OBVIOUS
<1>4. frame.kind \in {"getThen", "handler", "native", "thenable"} /\ frame.kind = running
  BY <1>3, TopFrame DEF Unwinds
<1>5. /\ Ready(stack) /\ Fits(0) /\ Ready(Front(stack)) /\ stack # <<>>
      /\ n \in Nat /\ m \in Nat /\ frame \in CallFrames(n, m)
  BY <1>1, <1>2, <1>3, <1>4, TopFrame
<1>6. PICK p : p = IF frame.kind = "getThen" THEN frame.promise ELSE pairs[frame.pair].promise
  OBVIOUS
<1>7. /\ promises \in Seq(PromiseObjects(n, m)) /\ pairs \in Seq(Pairs(n))
      /\ stack \in Seq(CallFrames(n, m)) /\ Front(stack) \in Seq(CallFrames(n, m))
      /\ thrown \in BOOLEAN
  BY <1>1, <1>2, <1>5 DEF Ready
<1>8. p \in 1..n
  <2>1. CASE frame.kind = "getThen"
    BY <1>5, <1>6, <2>1, FrameFields
  <2>2. CASE frame.kind # "getThen"
    <3>1. frame.pair \in 1..Len(pairs)
      BY <1>2, <1>4, <1>5, <2>2, FrameFields
    <3>2. pairs[frame.pair] \in Pairs(n)
      BY <1>7, <3>1, ElementOfSeq
    <3> QED BY <1>6, <2>2, <3>2 DEF Pairs
  <2> QED BY <2>1, <2>2
<1>9. PICK r : r = Orphaned(promises[p])
  OBVIOUS
<1>10. promises[p] \in PromiseObjects(n, m)
  BY <1>1, <1>7, <1>8, ElementOfSeq
<1>11. r \in PromiseObjects(n, m) /\ r.state = promises[p].state /\ r.result = promises[p].result
  BY <1>5, <1>9, <1>10, RecordTypes
<1>12. /\ stack' = Front(stack) /\ UNCHANGED <<jobHost, pairs, queue, checkpointState, thrown>>
       /\ promises' \in {promises, [promises EXCEPT ![p] = r]}
  BY <1>1, <1>3, <1>6, <1>7, <1>8, <1>9, LenProperties DEF Unwinds, Orphaned
<1>13. /\ promises' \in Seq(PromiseObjects(n, m)) /\ Len(promises') = n
       /\ \A q \in 1..n : promises'[q] \in {promises[q], IF q = p THEN r ELSE promises[q]}
  <2>1. p \in 1..Len(promises)
    BY <1>1, <1>8
  <2>2. PICK changed : changed = [promises EXCEPT ![p] = r]
    OBVIOUS
  <2>3. /\ changed \in Seq(PromiseObjects(n, m)) /\ Len(changed) = n
        /\ \A q \in 1..n : changed[q] = IF q = p THEN r ELSE promises[q]
    BY <1>1, <1>7, <1>11, <2>1, <2>2, ExceptSeq
  <2>4. promises' = promises \/ promises' = changed
    BY <1>12, <2>2
  <2> QED BY <1>1, <1>7, <2>3, <2>4
<1>14. TypeInv'
  BY <1>1, <1>2, <1>5, <1>7, <1>12, <1>13 DEF TypeInv, Ready, Fits
<1>15. Keeps
  BY <1>1, <1>5, <1>11, <1>13 DEF Keeps
<1>16. Begun(Front(stack), promises)
  BY <1>5, <1>7, BegunPop
<1>17. Begun(stack', promises')
  BY <1>1, <1>5, <1>7, <1>12, <1>15, <1>16, BegunKept
<1> QED BY <1>14, <1>15, <1>17 DEF Kept

LEMMA GetThenKept ==
  ASSUME TypeInv, Begun(stack, promises), GetThenStep
  PROVE  Kept
<1>1. Engine("getThen") /\ UNCHANGED <<jobHost, pairs, thrown>>
  BY DEF GetThenStep, ThenThrows, ThenNotCallable, ThenCallable
<1>2. PICK n : n = Len(promises)
  OBVIOUS
<1>3. PICK m : m = Len(pairs)
  OBVIOUS
<1>4. PICK frame : frame = Last(stack)
  OBVIOUS
<1>5. /\ stack # <<>> /\ frame.kind = "getThen" /\ frame \in CallFrames(n, m)
      /\ Ready(stack) /\ Ready(Front(stack)) /\ n \in Nat /\ m \in Nat
  BY <1>1, <1>2, <1>3, <1>4, TopFrame DEF Engine, Running
<1>6. PICK p : p = frame.promise
  OBVIOUS
<1>7. PICK value : value = frame.resolution
  OBVIOUS
<1>8. p \in 1..n /\ value \in 0..n /\ value \in Values(n) /\ GuestError \in Values(n)
      /\ "fulfilled" \in Settled /\ "rejected" \in Settled
  BY <1>5, <1>6, <1>7, FrameFields DEF Values, Settled
<1>9. /\ promises \in Seq(PromiseObjects(n, m)) /\ stack \in Seq(CallFrames(n, m))
      /\ Front(stack) \in Seq(CallFrames(n, m))
  BY <1>2, <1>3, <1>5 DEF Ready
<1>10. Begun(Front(stack), promises)
  BY <1>5, <1>9, BegunPop
<1>11. TypeInv'
  BY <1>1, GetThenTypes DEF GetThenStep
<1>12. ASSUME NEW state \in Settled, NEW result \in Values(n),
              Settle(p, state, result, Front(stack))
       PROVE  Keeps /\ Begun(stack', promises')
  BY <1>2, <1>5, <1>8, <1>9, <1>10, <1>12, SettleKeeps
<1>13. ASSUME NEW intrinsic \in BOOLEAN, ThenCallable(intrinsic)
       PROVE  Keeps /\ Begun(stack', promises')
  <2>1. PICK r : r = Following(promises[p], value)
    OBVIOUS
  <2>2. promises[p] \in PromiseObjects(n, m)
    BY <1>2, <1>8, <1>9, ElementOfSeq
  <2>3. r \in PromiseObjects(n, m) /\ r.state = promises[p].state /\ r.result = promises[p].result
    BY <1>5, <1>8, <2>1, <2>2, RecordTypes
  <2>4. PICK changed : changed = [promises EXCEPT ![p] = r]
    OBVIOUS
  <2>5. p \in 1..Len(promises)
    BY <1>2, <1>8
  <2>6. /\ Len(changed) = n
        /\ \A q \in 1..n : changed[q] = IF q = p THEN r ELSE promises[q]
    BY <1>2, <1>9, <2>3, <2>4, <2>5, ExceptSeq
  <2>7. promises' = promises \/ promises' = changed
    BY <1>4, <1>6, <1>7, <1>9, <1>13, <2>1, <2>4, <2>5, LenProperties DEF ThenCallable, Following
  <2>8. Keeps
    BY <1>2, <1>5, <2>3, <2>6, <2>7 DEF Keeps
  <2>9. Begun(Front(stack), promises')
    BY <1>2, <1>5, <1>9, <1>10, <2>8, BegunKept
  <2>10. HookFrame \in CallFrames(n, m) /\ HookFrame.kind # "trigger"
    BY <1>5, FramesAreFrames, Kinds
  <2>11. Begun(Append(Front(stack), HookFrame), promises')
    BY <1>9, <2>9, <2>10, BegunPush
  <2>12. stack' \in {Front(stack), Append(Front(stack), HookFrame)}
    BY <1>13 DEF ThenCallable, Enqueue
  <2> QED BY <2>8, <2>9, <2>11, <2>12
<1>14. Keeps /\ Begun(stack', promises')
  BY <1>4, <1>6, <1>7, <1>8, <1>12, <1>13 DEF GetThenStep, ThenThrows, ThenNotCallable
<1> QED BY <1>11, <1>14 DEF Kept

LEMMA LoopKept ==
  ASSUME TypeInv, Begun(stack, promises), LoopStep
  PROVE  Kept
<1>1. PICK n : n = Len(promises)
  OBVIOUS
<1>2. PICK m : m = Len(pairs)
  OBVIOUS
<1>3. PICK frame : frame = Last(stack)
  OBVIOUS
<1>4. /\ stack # <<>> /\ frame.kind \in {"trigger", "flush"} /\ frame \in CallFrames(n, m)
      /\ frame.kind = running /\ Ready(stack) /\ Ready(Front(stack)) /\ n \in Nat /\ m \in Nat
  BY <1>1, <1>2, <1>3, TopFrame
     DEF LoopStep, TriggerNext, TriggerReturns, FlushNext, FlushEnds, LoopKeepsError, Engine, Running
<1>5. PICK p : p = frame.promise
  OBVIOUS
<1>6. p \in 1..n
  BY <1>4, <1>5, FrameFields
<1>7. /\ promises \in Seq(PromiseObjects(n, m)) /\ stack \in Seq(CallFrames(n, m))
      /\ Front(stack) \in Seq(CallFrames(n, m))
  BY <1>1, <1>2, <1>4 DEF Ready
<1>8. promises[p] \in PromiseObjects(n, m) /\ p \in 1..Len(promises)
  BY <1>1, <1>6, <1>7, ElementOfSeq
<1>9. Begun(Front(stack), promises)
  BY <1>4, <1>7, BegunPop
<1>10. frame.kind = "trigger" => promises[p].state # "pending"
  BY <1>3, <1>4, <1>5, <1>7, LastEntry DEF Begun
<1>11. TypeInv'
  BY LoopTypes DEF LoopStep
<1>12. HookFrame \in CallFrames(n, m) /\ HookFrame.kind # "trigger"
       /\ TrackerFrame \in CallFrames(n, m) /\ TrackerFrame.kind # "trigger"
  BY <1>4, FramesAreFrames, Kinds
<1>13. promises' = promises => Keeps
  BY <1>1, <1>4 DEF Keeps
<1>14. ASSUME NEW job, NEW next \in CallFrames(n, m), Enqueue(job, Append(Front(stack), next)),
              next.kind = "trigger" => frame.kind = "trigger" /\ next.promise = p,
              promises' = promises
       PROVE  Begun(stack', promises')
  <2>1. PICK base : base = Append(Front(stack), next)
    OBVIOUS
  <2>2. base \in Seq(CallFrames(n, m)) /\ Begun(base, promises)
    BY <1>7, <1>9, <1>10, <1>14, <2>1, AppendProperties, BegunPush
  <2>3. Begun(Append(base, HookFrame), promises)
    BY <1>12, <2>2, BegunPush
  <2>4. stack' \in {base, Append(base, HookFrame)}
    BY <1>14, <2>1 DEF Enqueue
  <2> QED BY <1>14, <2>2, <2>3, <2>4
<1>15. CASE TriggerNext
  <2>1. /\ AfterTurn(frame) \in CallFrames(n, m) /\ frame.kind = "trigger"
        /\ AfterTurn(frame).promise = p
    BY <1>3, <1>4, <1>5, <1>15, LoopFrames, ZenonT(30) DEF TriggerNext, Engine, Running
  <2>2. Enqueue(ReactionJob(Head(frame.todo), promises[p].state, promises[p].result),
                Append(Front(stack), AfterTurn(frame)))
    BY <1>3, <1>5, <1>15 DEF TriggerNext, AfterTurn
  <2>3. promises' = promises
    BY <1>15 DEF TriggerNext
  <2>4. Begun(stack', promises')
    BY <1>14, <2>1, <2>2, <2>3
  <2> QED BY <1>11, <1>13, <2>3, <2>4 DEF Kept
<1>16. CASE FlushNext
  <2>1. AfterFlush(frame) \in CallFrames(n, m) /\ AfterFlush(frame).kind = "flush"
    BY <1>3, <1>4, <1>16, LoopFrames DEF FlushNext, Engine, Running
  <2>2. Enqueue(promises[p].reactionJobs[frame.next], Append(Front(stack), AfterFlush(frame)))
    BY <1>3, <1>5, <1>16 DEF FlushNext, AfterFlush
  <2>3. promises' = promises
    BY <1>16 DEF FlushNext
  <2>4. Begun(stack', promises')
    BY <1>14, <2>1, <2>2, <2>3
  <2> QED BY <1>11, <1>13, <2>3, <2>4 DEF Kept
<1>17. ASSUME NEW r \in PromiseObjects(n, m), promises' = [promises EXCEPT ![p] = r],
              r.state = promises[p].state, r.result = promises[p].result
       PROVE  Keeps /\ Begun(Front(stack), promises')
  <2>1. /\ Len(promises') = n
        /\ \A q \in 1..n : promises'[q] = IF q = p THEN r ELSE promises[q]
    BY <1>1, <1>7, <1>8, <1>17, ExceptSeq
  <2>2. Keeps
    BY <1>1, <1>4, <1>17, <2>1 DEF Keeps
  <2> QED BY <1>1, <1>4, <1>7, <1>9, <2>2, BegunKept
<1>18. CASE FlushEnds
  <2>1. PICK r : r = FlushedOut(promises[p])
    OBVIOUS
  <2>2. r \in PromiseObjects(n, m) /\ r.state = promises[p].state /\ r.result = promises[p].result
    BY <1>4, <1>8, <2>1, RecordTypes
  <2>3. promises' = [promises EXCEPT ![p] = r] /\ stack' = Front(stack)
    BY <1>3, <1>5, <1>7, <1>8, <1>18, <2>1, LenProperties DEF FlushEnds, FlushedOut
  <2> QED BY <1>11, <1>17, <2>2, <2>3 DEF Kept
<1>19. CASE TriggerReturns
  <2>1. CASE UNCHANGED promises /\ stack' = Front(stack)
    BY <1>9, <1>11, <1>13, <2>1 DEF Kept
  <2>2. CASE Track(p, "reject", promises, Front(stack))
    <3>1. PICK r : r = Reported(promises[p], "reject")
      OBVIOUS
    <3>2. r \in PromiseObjects(n, m) /\ r.state = promises[p].state /\ r.result = promises[p].result
      BY <1>4, <1>8, <3>1, RecordTypes
    <3>3. promises' = promises \/ promises' = [promises EXCEPT ![p] = r]
      BY <1>7, <1>8, <2>2, <3>1, LenProperties DEF Track, Reported
    <3>4. Keeps /\ Begun(Front(stack), promises')
      BY <1>9, <1>13, <1>17, <3>2, <3>3
    <3>5. Begun(Append(Front(stack), TrackerFrame), promises')
      BY <1>7, <1>12, <3>4, BegunPush
    <3>6. stack' \in {Front(stack), Append(Front(stack), TrackerFrame)}
      BY <2>2 DEF Track
    <3> QED BY <1>11, <3>4, <3>5, <3>6 DEF Kept
  <2> QED BY <1>3, <1>5, <1>19, <2>1, <2>2 DEF TriggerReturns
<1>20. CASE LoopKeepsError
  <2>1. PICK next : next = Erring(frame)
    OBVIOUS
  <2>2. next \in CallFrames(n, m) /\ next.kind = frame.kind /\ next.promise = p
    BY <1>4, <1>5, <2>1, LoopFrames
  <2>3. Len(stack) \in 1..Len(stack) /\ promises' = promises
    BY <1>4, <1>7, <1>20, LastEntry DEF LoopKeepsError
  <2>4. stack' = [stack EXCEPT ![Len(stack)] = next]
    BY <1>3, <1>20, <2>1 DEF LoopKeepsError, Erring, Last
  <2>5. Len(stack') = Len(stack)
        /\ \A i \in 1..Len(stack) : stack'[i] = IF i = Len(stack) THEN next ELSE stack[i]
    BY <1>7, <2>2, <2>3, <2>4, ExceptSeq
  <2>6. Begun(stack', promises)
    BY <1>10, <2>2, <2>5 DEF Begun
  <2> QED BY <1>11, <1>13, <2>3, <2>6 DEF Kept
<1> QED BY <1>15, <1>16, <1>18, <1>19, <1>20 DEF LoopStep

\* The thenable job on top of the stack.
LEMMA ThenableOnTop ==
  ASSUME TypeInv, RunThenable
  PROVE  /\ stack # <<>> /\ Last(stack) \in JobFrames(Len(promises), Len(pairs))
         /\ Last(stack).job \in ThenableJobs(Len(promises)) /\ Last(stack).job.promise \in 1..Len(promises)
         /\ Last(stack).job.intrinsic => Last(stack).job.thenable \in 1..Len(promises)
         /\ Last(stack).job.kind = "thenable" /\ Last(stack).kind = "job"
         /\ Ready(Front(stack)) /\ Fits(1)
<1>1. running = "job" /\ Last(stack).job.kind = "thenable"
  BY DEF RunThenable, Engine, Running
<1>2. /\ stack # <<>> /\ Ready(Front(stack)) /\ Fits(1) /\ Last(stack).kind = "job"
      /\ Last(stack) \in JobFrames(Len(promises), Len(pairs)) /\ Len(promises) \in Nat
  BY <1>1, TopFrame DEF TakenThenables
<1>3. PICK job : job = Last(stack).job
  OBVIOUS
<1>4. job \in ThenableJobs(Len(promises))
  BY <1>1, <1>2, <1>3 DEF JobFrames, Jobs, ReactionJobs
<1>5. /\ job.promise \in 1..Len(promises)
      /\ job.intrinsic => job.thenable \in 1..Len(promises)
  BY <1>2, <1>4 DEF ThenableJobs, NewObject
<1> QED BY <1>1, <1>2, <1>3, <1>4, <1>5

LEMMA ThenableKept ==
  ASSUME TypeInv, Begun(stack, promises), RunThenable
  PROVE  Kept
<1>1. PICK n : n = Len(promises)
  OBVIOUS
<1>2. PICK m : m = Len(pairs)
  OBVIOUS
<1>3. PICK job : job = Last(stack).job
  OBVIOUS
<1>4. PICK base : base = Front(stack)
  OBVIOUS
<1>5. PICK m2 : m2 = m + 1
  OBVIOUS
<1>6. PICK q : q = job.promise
  OBVIOUS
<1>7. /\ stack # <<>> /\ q \in 1..n
      /\ job.intrinsic => job.thenable \in 1..n
      /\ Ready(base) /\ Fits(1)
  BY <1>6, <1>1, <1>3, <1>4, ThenableOnTop DEF ThenableJobs
<1>8. n \in Nat /\ m \in Nat /\ Hits(queue, Thenables) \in Nat /\ stack \in Seq(Frame)
      /\ m2 \in Nat /\ m2 \in 1..m2 /\ m <= m2
  BY <1>1, <1>2, <1>5, TopFrame, StackTypes DEF TypeOK
<1>9. PICK h : h = Hits(queue, Thenables)
  OBVIOUS
<1>10. n + h + 1 <= MaxPromises /\ m + 2 * (h + 1) <= MaxPairs /\ h \in Nat
  BY <1>1, <1>2, <1>7, <1>8, <1>9 DEF Fits
<1>11. n + h + 1 <= MaxPromises /\ m2 + 2 * h <= MaxPairs /\ m2 + 1 + 2 * h <= MaxPairs
       /\ n + h <= MaxPromises
  BY <1>5, <1>8, <1>10, ConstantsAreApart
<1>12. /\ promises \in Seq(PromiseObjects(n, m)) /\ pairs \in Seq(Pairs(n))
       /\ queue \in Seq(Jobs(n, m)) /\ base \in Seq(CallFrames(n, m))
  BY <1>1, <1>2, <1>7 DEF Ready
<1>13. Begun(base, promises)
  BY <1>4, <1>7, <1>8, BegunPop
<1>14. UNCHANGED <<jobHost, thrown>>
  BY DEF RunThenable
<1>15. ASSUME job.intrinsic PROVE Kept
  <2>1. PICK pair : pair = HiddenPair(q)
    OBVIOUS
  <2>2. PICK before : before = Append(pairs, pair)
    OBVIOUS
  <2>3. pair \in Pairs(n)
    BY <1>7, <1>8, <2>1, NewcomerTypes DEF HiddenPair
  <2>4. before \in Seq(Pairs(n)) /\ Len(before) = m2
    BY <1>2, <1>5, <1>12, <2>2, <2>3, AppendProperties
  <2>5. PICK p : p = job.thenable
    OBVIOUS
  <2>6. PerformThen(p, m2, before, FALSE, base)
    BY <1>2, <1>3, <1>4, <1>5, <1>6, <1>15, <2>1, <2>2, <2>5 DEF RunThenable, HiddenPair
  <2>7. /\ before \in Seq(Pairs(Len(promises))) /\ Len(pairs) <= Len(before)
        /\ p \in 1..Len(promises) /\ m2 \in {NoHandler, Program} \cup 1..Len(before)
        /\ FALSE \in BOOLEAN
    <3>1. p \in 1..n /\ m2 \in 1..Len(before) /\ Len(pairs) <= Len(before)
      BY <1>2, <1>7, <1>8, <1>15, <2>4, <2>5
    <3> QED BY <1>1, <2>4, <3>1
  <2>8. Ready(stack)' /\ ThenDone(p, m2, before, FALSE, base)
    BY <1>7, <1>14, <2>6, <2>7, ThenEffect
  <2>9. Keeps /\ Begun(stack', promises')
    BY <1>7, <1>13, <1>14, <2>6, <2>7, ThenKeeps
  <2>10. /\ Len(promises') = n + 1 /\ Hits(queue', Thenables) = Hits(queue, Thenables)
         /\ pairs' = Append(before, HiddenPair(n + 1))
    BY <1>1, <2>8 DEF ThenDone
  <2>11. Len(pairs') = m2 + 1
    BY <2>4, <2>10, AppendAny
  <2>12. Fits(0)'
    <3>1. Len(promises') = n + 1 /\ Len(pairs') = m2 + 1 /\ Hits(queue', Thenables) = h
      BY <1>9, <2>10, <2>11
    <3> QED BY <1>8, <1>10, <1>11, <3>1, ConstantsAreApart DEF Fits
  <2> QED BY <2>8, <2>9, <2>12 DEF Kept, TypeInv
<1>16. ASSUME ~job.intrinsic PROVE Kept
  <2>1. PICK pair : pair = NewPair(q, TRUE)
    OBVIOUS
  <2>2. pair \in Pairs(n)
    BY <1>7, <1>8, <2>1, NewcomerTypes
  <2>3. /\ pairs' = Append(pairs, pair) /\ stack' = Append(base, ThenableFrame(m2))
        /\ UNCHANGED <<promises, queue, checkpointState>>
    BY <1>2, <1>3, <1>4, <1>5, <1>6, <1>16, <2>1 DEF RunThenable
  <2>4. pairs' \in Seq(Pairs(n)) /\ Len(pairs') = m2
    BY <1>2, <1>5, <1>12, <2>2, <2>3, AppendProperties
  <2>5. /\ promises \in Seq(PromiseObjects(n, m2))
        /\ queue \in Seq(Jobs(n, m2)) /\ base \in Seq(CallFrames(n, m2))
    <3>1. /\ PromiseObjects(n, m) \subseteq PromiseObjects(n, m2) /\ Jobs(n, m) \subseteq Jobs(n, m2)
          /\ CallFrames(n, m) \subseteq CallFrames(n, m2) /\ n <= n
      BY <1>8, Growth
    <3> QED BY <1>12, <3>1, SeqMonotonic
  <2>6. ThenableFrame(m2) \in CallFrames(n, m2) /\ ThenableFrame(m2).kind # "trigger"
    BY <1>8, FramesAreFrames, Kinds
  <2>7. stack' \in Seq(CallFrames(n, m2)) /\ Begun(stack', promises)
    BY <1>13, <2>3, <2>5, <2>6, AppendProperties, BegunPush
  <2>8. Ready(stack)'
    BY <1>1, <1>7, <1>14, <2>3, <2>4, <2>5, <2>7 DEF Ready
  <2>9. Fits(0)'
    <3>1. Len(promises') = n /\ Len(pairs') = m2 /\ Hits(queue', Thenables) = h
      BY <1>1, <1>9, <2>3, <2>4
    <3> QED BY <1>8, <1>10, <1>11, <3>1, ConstantsAreApart DEF Fits
  <2> QED BY <1>1, <1>8, <2>3, <2>7, <2>8, <2>9 DEF Kept, Keeps, TypeInv
<1> QED BY <1>7, <1>15, <1>16

LEMMA StepKept ==
  ASSUME TypeInv, Begun(stack, promises), [Next]_vars
  PROVE  Kept
<1>1. CASE Next
  BY <1>1, StepKinds, NewKept, CallKept, HandlerKept, ThenKept, ThenableKept, StartKept,
     GetThenKept, LoopKept, UnwindsKept, QuietKept
<1>2. CASE UNCHANGED vars
  <2>1. Len(promises) \in Nat
    BY TopFrame
  <2> QED BY <1>2, <2>1 DEF vars, Kept, Keeps, TypeInv, Ready, Fits
<1> QED BY <1>1, <1>2

LEMMA TypesAlways == Spec => [](TypeInv /\ Begun(stack, promises))
<1>1. Init => TypeInv /\ Begun(stack, promises)
  <2>1. Init => Begun(stack, promises)
    BY EmptySeq DEF Init, Begun
  <2> QED BY <2>1, TypeInit
<1>2. TypeInv /\ Begun(stack, promises) /\ [Next]_vars
        => (TypeInv /\ Begun(stack, promises))'
  BY StepKept DEF Kept
<1> QED BY <1>1, <1>2, PTL DEF Spec

\* Every variable keeps its type: no handler, reaction, job or activation ever
\* names a promise or a pair of resolving functions that does not exist yet, and
\* the ids kept for jobs that wait always suffice.
THEOREM Typing == Spec => []TypeOK
<1>1. TypeInv => TypeOK
  BY StackTypes
<1> QED BY <1>1, TypesAlways, PTL

\* What has been settled stays as it is, whatever runs.
THEOREM SettlementsAreFinal == Spec => [][Keeps]_vars
<1>1. TypeInv /\ Begun(stack, promises) /\ [Next]_vars => [Keeps]_vars
  BY StepKept DEF Kept
<1> QED BY <1>1, TypesAlways, PTL DEF Spec

-----------------------------------------------------------------------------
(* Exactly one route *)

OpenTo(p)      == {pair \in Pair : pair.promise = p /\ ~pair.alreadyResolved}
ThenablesOf(p) == {job \in Job : IsThenableJob(job, p)}
IsRoute(frame, p) == \/ frame.kind = "getThen" /\ frame.promise = p
                     \/ frame.kind = "job" /\ IsThenableJob(frame.job, p)
RoutesOf(p)    == {frame \in Frame : IsRoute(frame, p)}

\* The routes of promise p, counted sequence by sequence.
Ways(p) == Hits(pairs, OpenTo(p)) + Hits(queue, ThenablesOf(p)) + Hits(stack, RoutesOf(p))

RouteIsSingle(p) ==
  IF promises[p].state = "pending"
    THEN Ways(p) = 1 \/ (Ways(p) = 0 /\ promises[p].lost)
    ELSE Ways(p) = 0
RoutesAreSingle == \A p \in 1..Len(promises) : RouteIsSingle(p)

LEMMA WaysAreNumbers ==
  ASSUME TypeInv, NEW p
  PROVE  /\ Hits(pairs, OpenTo(p)) \in Nat /\ Hits(queue, ThenablesOf(p)) \in Nat
         /\ Hits(stack, RoutesOf(p)) \in Nat /\ Ways(p) \in Nat
<1>1. pairs \in Seq(Pair) /\ queue \in Seq(Job) /\ stack \in Seq(Frame)
  BY StackTypes DEF TypeOK
<1>2. /\ Hits(pairs, OpenTo(p)) \in Nat /\ Hits(queue, ThenablesOf(p)) \in Nat
      /\ Hits(stack, RoutesOf(p)) \in Nat
  BY <1>1, HitsType
<1> QED BY <1>2 DEF Ways

LEMMA RoutesAreWays ==
  ASSUME TypeInv, NEW p
  PROVE  Routes(p) = Ways(p)
<1>1. pairs \in Seq(Pair) /\ queue \in Seq(Job) /\ stack \in Seq(Frame)
  BY StackTypes DEF TypeOK
<1>2. OpenPairs(p) = PlacesOf(pairs, OpenTo(p))
  <2>1. \A c \in 1..Len(pairs) : pairs[c] \in Pair
    BY <1>1, ElementOfSeq
  <2> QED BY <2>1 DEF OpenPairs, PlacesOf, OpenTo
<1>3. WaitingJobs(p) = PlacesOf(queue, ThenablesOf(p))
  <2>1. \A i \in 1..Len(queue) : queue[i] \in Job
    BY <1>1, ElementOfSeq
  <2> QED BY <2>1 DEF WaitingJobs, PlacesOf, ThenablesOf
<1>4. \A i \in 1..Len(stack) : stack[i] \in Frame
  BY <1>1, ElementOfSeq
<1>5. Getters(p) \cup TakenJobs(p) = PlacesOf(stack, RoutesOf(p))
  BY <1>4 DEF Getters, TakenJobs, PlacesOf, RoutesOf, IsRoute
<1>6. Getters(p) \cap TakenJobs(p) = {}
  BY DEF Getters, TakenJobs
<1>7. IsFiniteSet(PlacesOf(stack, RoutesOf(p)))
  BY <1>1, HitsType
<1>8. IsFiniteSet(Getters(p)) /\ IsFiniteSet(TakenJobs(p))
  BY <1>5, <1>7, FS_Subset
<1>9. Cardinality(Getters(p) \cup TakenJobs(p))
        = Cardinality(Getters(p)) + Cardinality(TakenJobs(p)) - Cardinality(Getters(p) \cap TakenJobs(p))
  BY <1>8, FS_Union
<1>10. Cardinality(Getters(p)) \in Nat /\ Cardinality(TakenJobs(p)) \in Nat
  BY <1>8, FS_CardinalityType
<1>11. Hits(stack, RoutesOf(p)) = Cardinality(Getters(p)) + Cardinality(TakenJobs(p))
  BY <1>5, <1>6, <1>9, <1>10, FS_EmptySet DEF Hits
<1>12. /\ Cardinality(OpenPairs(p)) = Hits(pairs, OpenTo(p))
       /\ Cardinality(WaitingJobs(p)) = Hits(queue, ThenablesOf(p))
  BY <1>2, <1>3 DEF Hits
<1>13. Hits(pairs, OpenTo(p)) \in Nat /\ Hits(queue, ThenablesOf(p)) \in Nat
  BY WaysAreNumbers
<1> QED BY <1>10, <1>11, <1>12, <1>13 DEF Routes, Ways

\* Activations that settle nothing by themselves.
Inert(frame) ==
  \/ frame.kind \notin {"getThen", "job"}
  \/ frame.kind = "job" /\ frame.job.kind = "reaction"

LEMMA InertIsNoRoute ==
  ASSUME NEW frame, Inert(frame), NEW p
  PROVE  frame \notin RoutesOf(p)
BY DEF Inert, RoutesOf, IsRoute, IsThenableJob

LEMMA InertPush ==
  ASSUME NEW frames \in Seq(Frame), NEW frame \in Frame, Inert(frame), NEW p
  PROVE  Hits(Append(frames, frame), RoutesOf(p)) = Hits(frames, RoutesOf(p))
<1>1. Hits(Append(frames, frame), RoutesOf(p))
        = Hits(frames, RoutesOf(p)) + (IF frame \in RoutesOf(p) THEN 1 ELSE 0)
  BY HitsAppend
<1>2. Hits(frames, RoutesOf(p)) \in Nat /\ frame \notin RoutesOf(p)
  BY HitsType, InertIsNoRoute
<1> QED BY <1>1, <1>2

LEMMA InertPop ==
  ASSUME NEW frames \in Seq(Frame), frames # <<>>, Inert(Last(frames)), NEW p
  PROVE  Hits(Front(frames), RoutesOf(p)) = Hits(frames, RoutesOf(p))
<1>1. Hits(frames, RoutesOf(p))
        = Hits(Front(frames), RoutesOf(p)) + (IF Last(frames) \in RoutesOf(p) THEN 1 ELSE 0)
  BY HitsFront
<1>2. Front(frames) \in Seq(Frame)
  BY FrontLast
<1>3. Hits(Front(frames), RoutesOf(p)) \in Nat /\ Last(frames) \notin RoutesOf(p)
  BY <1>2, HitsType, InertIsNoRoute
<1> QED BY <1>1, <1>3

\* Nothing can settle a promise that has not been made.
LEMMA NoWaysYet ==
  ASSUME TypeInv, NEW p, p \notin 1..Len(promises)
  PROVE  /\ Hits(pairs, OpenTo(p)) = 0 /\ Hits(queue, ThenablesOf(p)) = 0
         /\ Hits(stack, RoutesOf(p)) = 0
<1>1. PICK n : n = Len(promises)
  OBVIOUS
<1>2. PICK m : m = Len(pairs)
  OBVIOUS
<1>3. /\ pairs \in Seq(Pairs(n)) /\ queue \in Seq(Jobs(n, m)) /\ stack \in Seq(Frame)
      /\ n \in Nat /\ m \in Nat
  BY <1>1, <1>2, TopFrame, StackTypes DEF TypeInv, Ready, TypeOK
<1>4. \A c \in 1..Len(pairs) : pairs[c] \notin OpenTo(p)
  <2> TAKE c \in 1..Len(pairs)
  <2>1. pairs[c] \in Pairs(n)
    BY <1>3, ElementOfSeq
  <2> QED BY <1>1, <2>1 DEF Pairs, OpenTo
<1>5. \A job \in Jobs(n, m) : ~IsThenableJob(job, p)
  BY <1>1 DEF Jobs, ReactionJobs, ThenableJobs, IsThenableJob
<1>6. \A i \in 1..Len(queue) : queue[i] \notin ThenablesOf(p)
  <2> TAKE i \in 1..Len(queue)
  <2>1. queue[i] \in Jobs(n, m)
    BY <1>3, ElementOfSeq
  <2> QED BY <1>5, <2>1 DEF ThenablesOf
<1>7. \A frame \in CallFrames(n, m) \cup JobFrames(n, m) : frame \notin RoutesOf(p)
  <2>1. ASSUME NEW frame \in CallFrames(n, m) PROVE frame \notin RoutesOf(p)
    BY <1>1, <1>3, FrameFields DEF RoutesOf, IsRoute
  <2>2. ASSUME NEW frame \in JobFrames(n, m) PROVE frame \notin RoutesOf(p)
    BY <1>5 DEF JobFrames, RoutesOf, IsRoute
  <2> QED BY <2>1, <2>2
<1>8. \A i \in 1..Len(stack) : stack[i] \in CallFrames(n, m) \cup JobFrames(n, m)
  <2>1. stack \in Seq(CallFrames(n, m) \cup JobFrames(n, m))
    <3>1. CASE stack \in Seq(CallFrames(n, m))
      BY <3>1, SeqMonotonic
    <3>2. CASE stack \notin Seq(CallFrames(n, m))
      <4>1. /\ stack = Append(Front(stack), Last(stack))
            /\ Front(stack) \in Seq(CallFrames(n, m)) /\ Last(stack) \in JobFrames(n, m)
        BY <1>1, <1>2, <3>2 DEF TypeInv, Ready
      <4>2. Front(stack) \in Seq(CallFrames(n, m) \cup JobFrames(n, m))
            /\ Last(stack) \in CallFrames(n, m) \cup JobFrames(n, m)
        BY <4>1, SeqMonotonic
      <4> QED BY <4>1, <4>2, AppendProperties
    <3> QED BY <3>1, <3>2
  <2> QED BY <2>1, ElementOfSeq
<1>9. \A i \in 1..Len(stack) : stack[i] \notin RoutesOf(p)
  BY <1>7, <1>8
<1> QED BY <1>3, <1>4, <1>6, <1>9, HitsType

\* Under the activations of a call the routes are those of the stack.
LEMMA BaseRoutes ==
  ASSUME TypeInv, NEW base, CallBase(base), NEW p
  PROVE  Hits(base, RoutesOf(p)) = Hits(stack, RoutesOf(p))
<1>1. stack \in Seq(Frame) /\ Front(stack) \in Seq(Frame)
      /\ Len(promises) \in 0..MaxPromises /\ Len(pairs) \in 0..MaxPairs
      /\ Len(promises) \in Nat /\ Len(pairs) \in Nat
  BY StackTypes, TopFrame DEF TypeOK
<1>2. CASE base # stack
  <2>1. stack # <<>> /\ Last(stack).kind = running
    BY <1>2, TopFrame DEF CallBase
  <2>2. Inert(Last(stack))
    BY <1>2, <2>1 DEF CallBase, Inert
  <2>3. Hits(Front(stack), RoutesOf(p)) = Hits(stack, RoutesOf(p))
    BY <1>1, <2>1, <2>2, InertPop
  <2>4. ASSUME NEW d \in 1..Len(pairs)
        PROVE  Hits(Append(Front(stack), NativeFrame(d)), RoutesOf(p))
                 = Hits(Front(stack), RoutesOf(p))
    <3>1. NativeFrame(d) \in Frame /\ Inert(NativeFrame(d))
      BY <1>1, FramesAreFrames, TypesAreTypes, Kinds DEF Inert
    <3> QED BY <1>1, <3>1, InertPush
  <2>5. base = Front(stack) \/ \E d \in 1..Len(pairs) : base = Append(Front(stack), NativeFrame(d))
    BY <1>2 DEF CallBase
  <2> QED BY <2>3, <2>4, <2>5
<1> QED BY <1>2

LEMMA NewPairOpens ==
  ASSUME NEW before \in Seq(Pair), NEW q \in 1..MaxPromises, NEW pair \in Pair,
         pair.promise = q, ~pair.alreadyResolved, NEW p
  PROVE  Hits(Append(before, pair), OpenTo(p)) = Hits(before, OpenTo(p)) + (IF p = q THEN 1 ELSE 0)
<1>1. pair \in OpenTo(p) <=> p = q
  BY DEF OpenTo
<1> QED BY <1>1, HitsAppend

LEMMA UsedPairCloses ==
  ASSUME TypeInv, NEW c \in 1..Len(pairs), ~pairs[c].alreadyResolved,
         pairs' = [pairs EXCEPT ![c].alreadyResolved = TRUE], NEW p
  PROVE  Hits(pairs', OpenTo(p))
           = Hits(pairs, OpenTo(p)) - (IF p = pairs[c].promise THEN 1 ELSE 0)
<1>1. PICK used : used = [pairs[c] EXCEPT !.alreadyResolved = TRUE]
  OBVIOUS
<1>2. pairs \in Seq(Pair)
  BY StackTypes DEF TypeOK
<1>3. pairs[c] \in Pair
  BY <1>2, ElementOfSeq
<1>4. used \in Pair /\ used.alreadyResolved
  BY <1>1, <1>3 DEF Pair
<1>5. pairs' = [pairs EXCEPT ![c] = used]
  BY <1>1, <1>2, LenProperties
<1>6. PICK T : T = OpenTo(p)
  OBVIOUS
<1>7. c \in 1..Len(pairs)
  OBVIOUS
<1>8. Hits([pairs EXCEPT ![c] = used], T)
        = Hits(pairs, T) - (IF pairs[c] \in T THEN 1 ELSE 0) + (IF used \in T THEN 1 ELSE 0)
  BY ONLY <1>2, <1>4, <1>7, HitsExcept
<1>9. used \notin T /\ (pairs[c] \in T <=> p = pairs[c].promise)
  BY <1>3, <1>4, <1>6 DEF OpenTo
<1>10. Hits(pairs, T) \in Nat
  BY <1>2, HitsType
<1>11. PICK h \in Nat : h = Hits(pairs, T)
  BY <1>10
<1>12. Hits(pairs', T) = h - (IF pairs[c] \in T THEN 1 ELSE 0) + (IF used \in T THEN 1 ELSE 0)
  BY ONLY <1>5, <1>8, <1>11
<1>13. Hits(pairs', T) = Hits(pairs, T) - (IF p = pairs[c].promise THEN 1 ELSE 0)
  BY <1>9, <1>11, <1>12
<1> QED BY <1>6, <1>13

\* At most one promise's routes or fate change.
LEMMA OneRouteUsed ==
  ASSUME TypeInv, RoutesAreSingle, NEW q \in 1..Len(promises), Len(promises') = Len(promises),
         \A p \in 1..Len(promises) : p # q =>
           /\ Ways(p)' = Ways(p) /\ promises'[p].state = promises[p].state
           /\ promises'[p].lost = promises[p].lost,
         \/ /\ Ways(q)' = Ways(q) /\ promises'[q].state = promises[q].state
            /\ promises'[q].lost = promises[q].lost
         \/ /\ Ways(q) > 0 /\ Ways(q)' = Ways(q) - 1
            /\ promises'[q].state # "pending" \/ promises'[q].lost
  PROVE  RoutesAreSingle'
<1>1. Ways(q) \in Nat
  BY WaysAreNumbers
<1>2. ASSUME NEW p \in 1..Len(promises), p # q PROVE RouteIsSingle(p)'
  BY <1>2 DEF RoutesAreSingle, RouteIsSingle
<1>3. RouteIsSingle(q)'
  BY <1>1 DEF RoutesAreSingle, RouteIsSingle
<1> QED BY <1>2, <1>3 DEF RoutesAreSingle

LEMMA SameRoutes ==
  ASSUME TypeInv, RoutesAreSingle, Len(promises') = Len(promises),
         \A p \in 1..Len(promises) :
           /\ Ways(p)' = Ways(p) /\ promises'[p].state = promises[p].state
           /\ promises'[p].lost = promises[p].lost
  PROVE  RoutesAreSingle'
BY DEF RoutesAreSingle, RouteIsSingle

\* The three counts, before and after.
LEMMA WaysAdd ==
  ASSUME NEW p
  PROVE  /\ Ways(p) = Hits(pairs, OpenTo(p)) + Hits(queue, ThenablesOf(p)) + Hits(stack, RoutesOf(p))
         /\ Ways(p)' = Hits(pairs', OpenTo(p)) + Hits(queue', ThenablesOf(p)) + Hits(stack', RoutesOf(p))
BY DEF Ways

LEMMA SettledLost ==
  \A record, state, result : SettledAs(record, state, result).lost = record.lost
BY DEF SettledAs

LEMMA CallRoutes ==
  ASSUME TypeInv, RoutesAreSingle, CallStep
  PROVE  RoutesAreSingle'
<1>1. PICK n : n = Len(promises)
  OBVIOUS
<1>2. PICK m : m = Len(pairs)
  OBVIOUS
<1>3. PICK c \in 1..m, value \in Values(n), base \in Seq(Frame) :
        CallBase(base) /\ Resolving(c, value, base)
  BY <1>1, <1>2 DEF CallStep
<1>4. Ready(base) /\ n \in Nat /\ m \in Nat /\ n \in 0..MaxPromises /\ m \in 0..MaxPairs
  BY <1>1, <1>2, <1>3, BaseTypes, TopFrame
<1>5. /\ promises \in Seq(PromiseObjects(n, m)) /\ base \in Seq(CallFrames(n, m))
      /\ pairs \in Seq(Pairs(n)) /\ CallFrames(n, m) \subseteq Frame
  BY <1>1, <1>2, <1>4, TypesAreTypes DEF Ready
<1>6. PICK q : q = pairs[c].promise
  OBVIOUS
<1>7. pairs[c] \in Pairs(n) /\ pairs[c] \in Pair
  BY <1>2, <1>4, <1>5, ElementOfSeq, TypesAreTypes
<1>8. q \in 1..n
  BY <1>6, <1>7 DEF Pairs
<1>9. \A p : Hits(base, RoutesOf(p)) = Hits(stack, RoutesOf(p))
  BY <1>3, BaseRoutes
<1>10. \A p : /\ Hits(pairs, OpenTo(p)) \in Nat /\ Hits(queue, ThenablesOf(p)) \in Nat
              /\ Hits(stack, RoutesOf(p)) \in Nat
  BY WaysAreNumbers
<1>11. CASE UNCHANGED <<promises, pairs, queue>> /\ stack' = base
  BY <1>9, <1>11, SameRoutes DEF Ways
<1>12. ASSUME ~pairs[c].alreadyResolved, pairs' = [pairs EXCEPT ![c].alreadyResolved = TRUE]
       PROVE  /\ \A p : Hits(pairs', OpenTo(p)) = Hits(pairs, OpenTo(p)) - (IF p = q THEN 1 ELSE 0)
              /\ Ways(q) > 0
  <2>1. \A p : Hits(pairs', OpenTo(p)) = Hits(pairs, OpenTo(p)) - (IF p = q THEN 1 ELSE 0)
    BY <1>2, <1>6, <1>12, UsedPairCloses
  <2>2. pairs[c] \in OpenTo(q) /\ c \in 1..Len(pairs)
    BY <1>2, <1>6, <1>7, <1>12 DEF OpenTo
  <2>3. Hits(pairs, OpenTo(q)) # 0
    BY <1>5, <2>2, HitsType
  <2> QED BY <1>10, <2>1, <2>3 DEF Ways
<1>13. ASSUME ~pairs[c].alreadyResolved, pairs' = [pairs EXCEPT ![c].alreadyResolved = TRUE],
              NEW state \in Settled, NEW result \in Values(n), Settle(q, state, result, base)
       PROVE  RoutesAreSingle'
  <2>1. promises[q].state = "pending"
    BY <1>1, <1>8, <1>12, <1>13 DEF RoutesAreSingle, RouteIsSingle
  <2>2. promises[q] \in PromiseObjects(n, m)
    BY <1>1, <1>5, <1>8, ElementOfSeq
  <2>3. PICK frame : frame = FreshTrigger(q, promises[q].reactions)
    OBVIOUS
  <2>4. frame \in Frame /\ Inert(frame)
    BY <1>4, <1>5, <1>8, <2>2, <2>3, FreshFrames DEF PromiseObjects, Inert
  <2>5. /\ Len(promises') = Len(promises) /\ queue' = queue /\ stack' = Append(base, frame)
        /\ \A p \in 1..Len(promises) : promises'[p] =
             IF p = q THEN SettledAs(promises[q], state, result) ELSE promises[p]
    BY <1>1, <1>4, <1>5, <1>8, <1>13, <2>1, <2>3, SettleChanges
  <2>6. promises'[q].state # "pending"
    BY <1>1, <1>4, <1>8, <1>13, <2>2, <2>5, SettledTypes
  <2>7. \A p : Hits(stack', RoutesOf(p)) = Hits(stack, RoutesOf(p))
    BY <1>3, <1>9, <2>4, <2>5, InertPush
  <2>8. \A p : Ways(p)' = Ways(p) - (IF p = q THEN 1 ELSE 0)
    <3> TAKE p
    <3>1. /\ Hits(pairs', OpenTo(p)) = Hits(pairs, OpenTo(p)) - (IF p = q THEN 1 ELSE 0)
          /\ Hits(queue', ThenablesOf(p)) = Hits(queue, ThenablesOf(p))
          /\ Hits(stack', RoutesOf(p)) = Hits(stack, RoutesOf(p))
      BY <1>12, <1>13, <2>5, <2>7
    <3> QED BY <1>10, <3>1, WaysAdd
  <2>9. \A p : Ways(p) \in Nat
    BY WaysAreNumbers
  <2>10. \A p \in 1..Len(promises) : p # q =>
           /\ Ways(p)' = Ways(p) /\ promises'[p].state = promises[p].state
           /\ promises'[p].lost = promises[p].lost
    BY <2>5, <2>8, <2>9
  <2> QED BY <1>1, <1>8, <1>12, <1>13, <2>5, <2>6, <2>8, <2>10, OneRouteUsed
<1>14. ASSUME ~pairs[c].alreadyResolved, pairs' = [pairs EXCEPT ![c].alreadyResolved = TRUE],
              value \in 0..n, stack' = Append(base, GetThenFrame(q, value)),
              UNCHANGED <<promises, queue>>
       PROVE  RoutesAreSingle'
  <2>1. PICK frame : frame = GetThenFrame(q, value)
    OBVIOUS
  <2>2. frame \in Frame /\ frame.kind = "getThen" /\ frame.promise = q
    BY <1>4, <1>5, <1>8, <1>14, <2>1, FramesAreFrames, Kinds
  <2>3. \A p : frame \in RoutesOf(p) <=> p = q
    BY <2>2 DEF RoutesOf, IsRoute
  <2>4. \A p : Hits(stack', RoutesOf(p)) = Hits(stack, RoutesOf(p)) + (IF p = q THEN 1 ELSE 0)
    <3> TAKE p
    <3>1. PICK T : T = RoutesOf(p)
      OBVIOUS
    <3>2. Hits(stack', T) = Hits(base, T) + (IF frame \in T THEN 1 ELSE 0)
      BY <1>3, <1>14, <2>1, <2>2, HitsAppend
    <3> QED BY <1>9, <2>3, <3>1, <3>2
  <2>5. \A p : Ways(p)' = Ways(p)
    <3> TAKE p
    <3>1. /\ Hits(pairs', OpenTo(p)) = Hits(pairs, OpenTo(p)) - (IF p = q THEN 1 ELSE 0)
          /\ Hits(queue', ThenablesOf(p)) = Hits(queue, ThenablesOf(p))
          /\ Hits(stack', RoutesOf(p)) = Hits(stack, RoutesOf(p)) + (IF p = q THEN 1 ELSE 0)
      BY <1>12, <1>14, <2>4
    <3> QED BY <1>10, <3>1, WaysAdd
  <2> QED BY <1>14, <2>5, SameRoutes
<1> QED BY <1>3, <1>4, <1>6, <1>11, <1>13, <1>14, CallCases

\* A new promise has one route, the others what they had.
LEMMA OneRouteMore ==
  ASSUME TypeInv, RoutesAreSingle, NEW n \in Nat, n = Len(promises), Len(promises') = n + 1,
         \A p \in 1..n :
           /\ Ways(p)' = Ways(p) /\ promises'[p].state = promises[p].state
           /\ promises'[p].lost = promises[p].lost,
         promises'[n + 1].state = "pending", Ways(n + 1)' = 1
  PROVE  RoutesAreSingle'
<1>1. ASSUME NEW p \in 1..n PROVE RouteIsSingle(p)'
  BY DEF RoutesAreSingle, RouteIsSingle
<1>2. RouteIsSingle(n + 1)'
  BY DEF RouteIsSingle
<1>3. \A p \in 1..(n + 1) : p \in 1..n \/ p = n + 1
  OBVIOUS
<1> QED BY <1>1, <1>2, <1>3 DEF RoutesAreSingle

\* A reaction waits: nothing about routes changes.
LEMMA ReactionEnqueued ==
  ASSUME NEW J, queue \in Seq(J), NEW job, job.kind = "reaction", NEW base \in Seq(Frame),
         Enqueue(job, base), NEW p
  PROVE  /\ Hits(queue', ThenablesOf(p)) = Hits(queue, ThenablesOf(p))
         /\ Hits(stack', RoutesOf(p)) = Hits(base, RoutesOf(p))
<1>1. queue' = Append(queue, job) /\ stack' \in {base, Append(base, HookFrame)}
  BY DEF Enqueue
<1>2. job \notin ThenablesOf(p)
  BY DEF ThenablesOf, IsThenableJob
<1>3. Hits(queue, ThenablesOf(p)) \in Nat
  BY HitsType
<1>4. Hits(queue', ThenablesOf(p)) = Hits(queue, ThenablesOf(p))
  BY <1>1, <1>2, <1>3, HitsAppendAny
<1>5. HookFrame \in Frame /\ Inert(HookFrame)
  BY DEF HookFrame, Frame, Inert
<1>6. Hits(Append(base, HookFrame), RoutesOf(p)) = Hits(base, RoutesOf(p))
  BY <1>5, InertPush
<1> QED BY <1>1, <1>4, <1>6

LEMMA ThenRoutesKept ==
  ASSUME NEW n \in 0..MaxPromises, NEW m \in Nat, promises \in Seq(PromiseObjects(n, m)),
         n = Len(promises), NEW J, queue \in Seq(J), NEW base \in Seq(Frame), NEW p \in 1..n,
         NEW handler, NEW before, NEW reachable \in BOOLEAN,
         ThenDone(p, handler, before, reachable, base)
  PROVE  /\ \A q : /\ Hits(queue', ThenablesOf(q)) = Hits(queue, ThenablesOf(q))
                   /\ Hits(stack', RoutesOf(q)) = Hits(base, RoutesOf(q))
         /\ \A q \in 1..n : /\ promises'[q].state = promises[q].state
                            /\ promises'[q].lost = promises[q].lost
         /\ Len(promises') = n + 1 /\ promises'[n + 1].state = "pending"
<1>1. PICK job : job = JobNow(p, NewReaction(p, Len(before), handler))
  OBVIOUS
<1>2. job.kind = "reaction"
  BY <1>1 DEF JobNow, ReactionJob
<1>3. TrackerFrame \in Frame /\ Inert(TrackerFrame)
  BY DEF TrackerFrame, Frame, Inert
<1>4. PICK flush : flush = FreshFlush(p)
  OBVIOUS
<1>5. flush \in Frame /\ Inert(flush)
  <2>1. p \in 1..MaxPromises
    BY ConstantsAreApart
  <2> QED BY <1>4, <2>1 DEF FreshFlush, FlushFrame, Frame, Inert
<1>6. promises[p] \in PromiseObjects(n, m) /\ n \in Nat
  BY ElementOfSeq, ConstantsAreApart
<1>7. ASSUME NEW q
      PROVE  /\ Hits(queue', ThenablesOf(q)) = Hits(queue, ThenablesOf(q))
             /\ Hits(stack', RoutesOf(q)) = Hits(base, RoutesOf(q))
  <2>1. CASE Enqueue(job, base)
    BY <1>2, <2>1, ReactionEnqueued
  <2>2. CASE queue' = queue /\ stack' \in {base, Append(base, flush), Append(Append(base, flush), TrackerFrame)}
    <3>1. PICK flushing : flushing = Append(base, flush)
      OBVIOUS
    <3>2. flushing \in Seq(Frame) /\ Hits(flushing, RoutesOf(q)) = Hits(base, RoutesOf(q))
      BY <1>5, <3>1, AppendProperties, InertPush
    <3>3. Hits(Append(flushing, TrackerFrame), RoutesOf(q)) = Hits(base, RoutesOf(q))
      BY <1>3, <3>2, InertPush
    <3> QED BY <2>2, <3>1, <3>2, <3>3
  <2>3. \/ Enqueue(job, base)
        \/ queue' = queue /\ stack' \in {base, Append(base, flush), Append(Append(base, flush), TrackerFrame)}
    BY <1>1, <1>4 DEF ThenDone
  <2> QED BY <2>1, <2>2, <2>3
<1>8. promises'[p].state = promises[p].state /\ promises'[p].lost = promises[p].lost
  BY <1>6, Alike DEF ThenDone
<1>9. \A q \in 1..n : q # p => promises'[q] = promises[q]
  BY DEF ThenDone
<1>10. Len(promises') = n + 1 /\ promises'[n + 1].state = "pending"
  BY DEF ThenDone, Child, PendingPromise
<1> QED BY <1>7, <1>8, <1>9, <1>10

LEMMA NewRoutes ==
  ASSUME TypeInv, RoutesAreSingle, NewPromise
  PROVE  RoutesAreSingle'
<1>1. PICK n \in 0..MaxPromises : n = Len(promises)
  BY TopFrame
<1>2. /\ promises \in Seq(Promise) /\ pairs \in Seq(Pair) /\ n \in Nat
      /\ UNCHANGED <<queue, stack>>
  BY <1>1, StackTypes, TopFrame DEF NewPromise, TypeOK
<1>3. PICK q : q = n + 1
  OBVIOUS
<1>4. PICK pair : pair = NewPair(q, TRUE)
  OBVIOUS
<1>5. PICK record : record = PendingPromise(TRUE, 0)
  OBVIOUS
<1>6. /\ promises' = Append(promises, record) /\ pairs' = Append(pairs, pair)
      /\ record.state = "pending"
  BY <1>1, <1>3, <1>4, <1>5 DEF NewPromise, PendingPromise
<1>7. q \in 1..MaxPromises /\ q \notin 1..n
  <2>1. n + 1 <= MaxPromises
    <3>1. Owed \in Nat
      BY OwedIsCounted, TopFrame
    <3> QED BY <1>1, <1>2, <3>1, ConstantsAreApart DEF NewPromise, Room
  <2> QED BY <1>2, <1>3, <2>1, ConstantsAreApart
<1>8. pair \in Pair /\ pair.promise = q /\ ~pair.alreadyResolved
  BY <1>4, <1>7 DEF NewPair, Pair
<1>9. \A p : Hits(pairs', OpenTo(p)) = Hits(pairs, OpenTo(p)) + (IF p = q THEN 1 ELSE 0)
  BY <1>2, <1>6, <1>7, <1>8, NewPairOpens
<1>10. \A p : Ways(p)' = Ways(p) + (IF p = q THEN 1 ELSE 0)
  <2> TAKE p
  <2>1. /\ Hits(pairs, OpenTo(p)) \in Nat /\ Hits(queue, ThenablesOf(p)) \in Nat
        /\ Hits(stack, RoutesOf(p)) \in Nat
    BY WaysAreNumbers
  <2>2. /\ Hits(queue', ThenablesOf(p)) = Hits(queue, ThenablesOf(p))
        /\ Hits(stack', RoutesOf(p)) = Hits(stack, RoutesOf(p))
    BY <1>2
  <2> QED BY <1>9, <2>1, <2>2, WaysAdd
<1>11. Ways(q) = 0
  BY <1>1, <1>7, NoWaysYet, WaysAdd
<1>12. /\ Len(promises') = n + 1 /\ promises'[n + 1].state = "pending"
       /\ \A p \in 1..n : promises'[p] = promises[p]
  BY <1>1, <1>2, <1>6, AppendAny
<1>13. \A p : Ways(p) \in Nat
  BY WaysAreNumbers
<1>14. \A p \in 1..n : Ways(p)' = Ways(p)
  BY <1>7, <1>10, <1>13
<1> QED BY <1>1, <1>2, <1>3, <1>10, <1>11, <1>12, <1>14, OneRouteMore

LEMMA HandlerRoutes ==
  ASSUME TypeInv, RoutesAreSingle, HandlerStep
  PROVE  RoutesAreSingle'
<1>1. stack \in Seq(Frame) /\ Front(stack) \in Seq(Frame) /\ stack # <<>>
      /\ Len(promises) \in 0..MaxPromises /\ Len(pairs) \in 0..MaxPairs
      /\ Len(promises) \in Nat /\ Len(pairs) \in Nat /\ Last(stack).kind = "job"
  BY StackTypes, TopFrame DEF TypeOK, HandlerStep
<1>2. PICK d \in 1..Len(pairs) : stack' = Append(Front(stack), HandlerFrame(d))
  BY DEF HandlerStep
<1>3. HandlerFrame(d) \in Frame /\ Inert(HandlerFrame(d)) /\ Inert(Last(stack))
  BY <1>1, FramesAreFrames, TypesAreTypes, Kinds DEF Inert, HandlerStep
<1>4. \A p : Hits(stack', RoutesOf(p)) = Hits(stack, RoutesOf(p))
  BY <1>1, <1>2, <1>3, InertPush, InertPop
<1>5. UNCHANGED <<promises, pairs, queue>>
  BY DEF HandlerStep
<1> QED BY <1>4, <1>5, SameRoutes DEF Ways

LEMMA QuietRoutes ==
  ASSUME TypeInv, RoutesAreSingle, QuietStep
  PROVE  RoutesAreSingle'
<1>1. stack \in Seq(Frame) /\ UNCHANGED <<promises, pairs, queue>>
  BY StackTypes DEF TypeOK, QuietStep
<1>2. ASSUME NEW p PROVE Hits(stack', RoutesOf(p)) = Hits(stack, RoutesOf(p))
  <2>1. CASE stack' = stack
    BY <2>1
  <2>2. CASE /\ running \in {"drain", "hook", "tracker", "thenable", "trigger"}
             /\ stack' = Front(stack)
    <3>1. stack # <<>> /\ Inert(Last(stack))
      BY <2>2, TopFrame DEF Inert
    <3> QED BY <1>1, <2>2, <3>1, InertPop
  <2>3. CASE stack' = Append(stack, DrainFrame)
    <3>1. DrainFrame \in Frame /\ Inert(DrainFrame)
      BY DEF DrainFrame, Frame, Inert
    <3> QED BY <1>1, <2>3, <3>1, InertPush
  <2> QED BY <2>1, <2>2, <2>3 DEF QuietStep
<1> QED BY <1>1, <1>2, SameRoutes DEF Ways

\* A taken job goes from the queue to the stack.
LEMMA StartRoutes ==
  ASSUME TypeInv, RoutesAreSingle, StartJob
  PROVE  RoutesAreSingle'
<1>1. /\ queue \in Seq(Job) /\ queue # <<>> /\ queue' = Tail(queue) /\ stack \in Seq(Frame)
      /\ UNCHANGED <<promises, pairs>> /\ stack' = Append(stack, JobFrame(Head(queue)))
  BY StackTypes DEF StartJob, TypeOK
<1>2. PICK job : job = Head(queue)
  OBVIOUS
<1>3. job \in Job /\ queue' \in Seq(Job)
  BY <1>1, <1>2, HeadTailProperties
<1>4. PICK frame : frame = JobFrame(job)
  OBVIOUS
<1>5. frame.kind = "job" /\ frame.job = job /\ frame \in Frame
  BY <1>3, <1>4 DEF JobFrame, Frame
<1>6. \A p : frame \in RoutesOf(p) <=> job \in ThenablesOf(p)
  BY <1>3, <1>5 DEF RoutesOf, IsRoute, ThenablesOf
<1>7. ASSUME NEW p PROVE Ways(p)' = Ways(p)
  <2>1. /\ Hits(pairs, OpenTo(p)) \in Nat /\ Hits(queue, ThenablesOf(p)) \in Nat
        /\ Hits(stack, RoutesOf(p)) \in Nat /\ Hits(queue', ThenablesOf(p)) \in Nat
    BY <1>3, WaysAreNumbers, HitsType
  <2>2. Hits(queue, ThenablesOf(p))
          = Hits(queue', ThenablesOf(p)) + (IF job \in ThenablesOf(p) THEN 1 ELSE 0)
    BY <1>1, <1>2, HitsTail
  <2>3. Hits(stack', RoutesOf(p)) = Hits(stack, RoutesOf(p)) + (IF frame \in RoutesOf(p) THEN 1 ELSE 0)
    BY <1>1, <1>2, <1>4, <1>5, HitsAppend
  <2>4. Hits(pairs', OpenTo(p)) = Hits(pairs, OpenTo(p))
    BY <1>1
  <2> QED BY <1>6, <2>1, <2>2, <2>3, <2>4, WaysAdd
<1> QED BY <1>1, <1>7, SameRoutes

LEMMA ThenRoutes ==
  ASSUME TypeInv, RoutesAreSingle, ThenStep
  PROVE  RoutesAreSingle'
<1>1. PICK p \in 1..Len(promises), handler \in {NoHandler, Program} :
        PerformThen(p, handler, pairs, TRUE, stack)
  BY DEF ThenStep
<1>2. Ready(stack)
  BY TopFrame DEF ThenStep, Foreign
<1>3. PICK n : n = Len(promises)
  OBVIOUS
<1>4. PICK m : m = Len(pairs)
  OBVIOUS
<1>5. /\ n \in Nat /\ m \in Nat /\ n \in 0..MaxPromises /\ pairs \in Seq(Pairs(Len(promises)))
      /\ Len(pairs) <= Len(pairs)
      /\ handler \in {NoHandler, Program} \cup 1..Len(pairs) /\ TRUE \in BOOLEAN
      /\ UNCHANGED <<jobHost, thrown>>
  BY <1>2, <1>3, <1>4, TopFrame DEF Ready, ThenStep
<1>6. ThenDone(p, handler, pairs, TRUE, stack)
  BY <1>1, <1>2, <1>5, ThenEffect
<1>7. /\ promises \in Seq(PromiseObjects(n, m)) /\ queue \in Seq(Job) /\ stack \in Seq(Frame)
      /\ pairs \in Seq(Pair) /\ p \in 1..n
  BY <1>2, <1>3, <1>4, StackTypes DEF Ready, TypeOK
<1>8. /\ \A q : /\ Hits(queue', ThenablesOf(q)) = Hits(queue, ThenablesOf(q))
                /\ Hits(stack', RoutesOf(q)) = Hits(stack, RoutesOf(q))
      /\ \A q \in 1..n : /\ promises'[q].state = promises[q].state
                         /\ promises'[q].lost = promises[q].lost
      /\ Len(promises') = n + 1 /\ promises'[n + 1].state = "pending"
  BY <1>3, <1>5, <1>6, <1>7, ThenRoutesKept
<1>9. PICK child : child = n + 1
  OBVIOUS
<1>10. child \in 1..MaxPromises /\ child \notin 1..n
  <2>1. n + 1 <= MaxPromises
    <3>1. Owed \in Nat
      BY OwedIsCounted, TopFrame
    <3> QED BY <1>3, <1>5, <3>1, ConstantsAreApart DEF ThenStep, Room
  <2> QED BY <1>5, <1>9, <2>1, ConstantsAreApart
<1>11. PICK pair : pair = HiddenPair(child)
  OBVIOUS
<1>12. /\ pair \in Pair /\ pair.promise = child /\ ~pair.alreadyResolved
       /\ pairs' = Append(pairs, pair)
  BY <1>3, <1>6, <1>9, <1>10, <1>11 DEF ThenDone, HiddenPair, NewPair, Pair
<1>13. \A q : Hits(pairs', OpenTo(q)) = Hits(pairs, OpenTo(q)) + (IF q = child THEN 1 ELSE 0)
  BY <1>7, <1>10, <1>12, NewPairOpens
<1>14. \A q : Ways(q)' = Ways(q) + (IF q = child THEN 1 ELSE 0)
  <2> TAKE q
  <2>1. /\ Hits(pairs, OpenTo(q)) \in Nat /\ Hits(queue, ThenablesOf(q)) \in Nat
        /\ Hits(stack, RoutesOf(q)) \in Nat
    BY WaysAreNumbers
  <2> QED BY <1>8, <1>13, <2>1, WaysAdd
<1>15. Ways(child) = 0 /\ \A q : Ways(q) \in Nat
  <2>1. child \notin 1..Len(promises)
    BY <1>3, <1>10
  <2>2. /\ Hits(pairs, OpenTo(child)) = 0 /\ Hits(queue, ThenablesOf(child)) = 0
        /\ Hits(stack, RoutesOf(child)) = 0
    BY <2>1, NoWaysYet
  <2>3. Ways(child) = 0
    BY <2>2, WaysAdd
  <2> QED BY <2>3, WaysAreNumbers
<1>16. \A q \in 1..n : Ways(q)' = Ways(q)
  BY <1>10, <1>14, <1>15
<1> QED BY <1>3, <1>5, <1>8, <1>9, <1>14, <1>15, <1>16, OneRouteMore, SMTT(30)

LEMMA UnwindsRoutes ==
  ASSUME TypeInv, RoutesAreSingle, Unwinds
  PROVE  RoutesAreSingle'
<1>1. PICK n : n = Len(promises)
  OBVIOUS
<1>2. PICK m : m = Len(pairs)
  OBVIOUS
<1>3. PICK frame : frame = Last(stack)
  OBVIOUS
<1>4. frame.kind \in {"getThen", "handler", "native", "thenable"} /\ frame.kind = running
  BY <1>3, TopFrame DEF Unwinds
<1>5. /\ Ready(stack) /\ stack # <<>> /\ stack \in Seq(Frame) /\ Front(stack) \in Seq(Frame)
      /\ n \in Nat /\ m \in Nat /\ frame \in CallFrames(n, m)
      /\ pairs \in Seq(Pairs(n)) /\ promises \in Seq(PromiseObjects(n, m))
      /\ stack' = Front(stack) /\ UNCHANGED <<pairs, queue>>
  BY <1>1, <1>2, <1>3, <1>4, TopFrame, StackTypes DEF TypeOK, Ready, Unwinds
<1>6. PICK q : q = IF frame.kind = "getThen" THEN frame.promise ELSE pairs[frame.pair].promise
  OBVIOUS
<1>7. q \in 1..n
  <2>1. CASE frame.kind = "getThen"
    BY <1>5, <1>6, <2>1, FrameFields
  <2>2. CASE frame.kind # "getThen"
    <3>1. frame.pair \in 1..Len(pairs)
      BY <1>2, <1>4, <1>5, <2>2, FrameFields
    <3>2. pairs[frame.pair] \in Pairs(n)
      BY <1>5, <3>1, ElementOfSeq
    <3> QED BY <1>6, <2>2, <3>2 DEF Pairs
  <2> QED BY <2>1, <2>2
<1>8. PICK r : r = Orphaned(promises[q])
  OBVIOUS
<1>9. promises[q] \in PromiseObjects(n, m) /\ q \in 1..Len(promises)
  BY <1>1, <1>5, <1>7, ElementOfSeq
<1>10. r \in PromiseObjects(n, m) /\ r.state = promises[q].state /\ r.lost
  BY <1>5, <1>8, <1>9, RecordTypes
<1>11. ASSUME promises' = [promises EXCEPT ![q] = r]
       PROVE  /\ Len(promises') = Len(promises) /\ promises'[q] = r
              /\ \A p \in 1..Len(promises) : p # q => promises'[p] = promises[p]
  BY <1>5, <1>9, <1>10, <1>11, ExceptSeq
<1>12. IF frame.kind = "thenable" THEN promises' = promises ELSE promises' = [promises EXCEPT ![q] = r]
  BY <1>3, <1>5, <1>6, <1>8, <1>9, LenProperties DEF Unwinds, Orphaned
<1>13. \A p : Hits(stack, RoutesOf(p))
                = Hits(Front(stack), RoutesOf(p)) + (IF frame \in RoutesOf(p) THEN 1 ELSE 0)
  BY <1>3, <1>5, HitsFront
<1>14. \A p : /\ Hits(pairs, OpenTo(p)) \in Nat /\ Hits(queue, ThenablesOf(p)) \in Nat
              /\ Hits(stack, RoutesOf(p)) \in Nat /\ Hits(Front(stack), RoutesOf(p)) \in Nat
  BY <1>5, WaysAreNumbers, HitsType
<1>15. \A p : Ways(p)' = Ways(p) - (IF frame \in RoutesOf(p) THEN 1 ELSE 0)
  <2> TAKE p
  <2>1. /\ Hits(pairs', OpenTo(p)) = Hits(pairs, OpenTo(p))
        /\ Hits(queue', ThenablesOf(p)) = Hits(queue, ThenablesOf(p))
        /\ Hits(stack', RoutesOf(p)) = Hits(Front(stack), RoutesOf(p))
    BY <1>5
  <2> QED BY <1>13, <1>14, <2>1, WaysAdd
<1>16. \A p : Ways(p) \in Nat
  BY WaysAreNumbers
<1>17. CASE frame.kind = "getThen"
  <2>1. frame \in Frame
    BY <1>3, <1>5, LastEntry
  <2>2. \A p : frame \in RoutesOf(p) <=> p = q
    BY <1>6, <1>17, <2>1 DEF RoutesOf, IsRoute
  <2>3. Ways(q) > 0
    BY <1>13, <1>14, <2>2, WaysAdd
  <2>4. \A p \in 1..Len(promises) : p # q => Ways(p)' = Ways(p)
    BY <1>15, <1>16, <2>2
  <2>5. Ways(q)' = Ways(q) - 1
    BY <1>15, <2>2
  <2> QED BY <1>9, <1>10, <1>11, <1>12, <1>17, <2>3, <2>4, <2>5, OneRouteUsed
<1>18. CASE frame.kind # "getThen"
  <2>1. \A p : frame \notin RoutesOf(p)
    BY <1>4, <1>18 DEF RoutesOf, IsRoute
  <2>2. \A p : Ways(p)' = Ways(p)
    BY <1>15, <1>16, <2>1
  <2>3. CASE promises' = promises
    BY <2>2, <2>3, SameRoutes
  <2>4. CASE promises' = [promises EXCEPT ![q] = r]
    <3>1. \A p \in 1..Len(promises) : promises'[p].state = promises[p].state
      BY <1>10, <1>11, <2>4
    <3>2. \A p \in 1..Len(promises) : promises[p].lost => promises'[p].lost
      BY <1>10, <1>11, <2>4
    <3> QED BY <1>11, <2>2, <2>4, <3>1, <3>2 DEF RoutesAreSingle, RouteIsSingle
  <2> QED BY <1>12, <2>3, <2>4
<1> QED BY <1>17, <1>18

\* Reading `then` ends: a settlement, or a job instead of the activation.
LEMMA GetThenRoutes ==
  ASSUME TypeInv, RoutesAreSingle, GetThenStep
  PROVE  RoutesAreSingle'
<1>1. PICK n : n = Len(promises)
  OBVIOUS
<1>2. PICK m : m = Len(pairs)
  OBVIOUS
<1>3. PICK frame : frame = Last(stack)
  OBVIOUS
<1>4. Engine("getThen") /\ UNCHANGED pairs
  BY DEF GetThenStep, ThenThrows, ThenNotCallable, ThenCallable
<1>5. /\ stack # <<>> /\ frame.kind = "getThen" /\ frame \in CallFrames(n, m)
      /\ Ready(stack) /\ n \in Nat /\ m \in Nat /\ n \in 0..MaxPromises /\ m \in 0..MaxPairs
      /\ stack \in Seq(Frame) /\ Front(stack) \in Seq(Frame) /\ Ready(Front(stack))
      /\ queue \in Seq(Job) /\ frame \in Frame
  BY <1>1, <1>2, <1>3, <1>4, TopFrame, StackTypes, FrontLast DEF TypeOK, Engine, Running
<1>6. PICK q : q = frame.promise
  OBVIOUS
<1>7. PICK value : value = frame.resolution
  OBVIOUS
<1>8. q \in 1..n /\ value \in 0..n /\ value \in Values(n) /\ GuestError \in Values(n)
      /\ "fulfilled" \in Settled /\ "rejected" \in Settled
  BY <1>5, <1>6, <1>7, FrameFields DEF Values, Settled
<1>9. /\ promises \in Seq(PromiseObjects(n, m)) /\ Front(stack) \in Seq(CallFrames(n, m))
  BY <1>1, <1>2, <1>5 DEF Ready
<1>10. \A p : frame \in RoutesOf(p) <=> p = q
  BY <1>5, <1>6 DEF RoutesOf, IsRoute
<1>11. ASSUME NEW p
       PROVE  /\ Hits(pairs, OpenTo(p)) \in Nat /\ Hits(queue, ThenablesOf(p)) \in Nat
              /\ Hits(stack, RoutesOf(p)) \in Nat /\ Hits(Front(stack), RoutesOf(p)) \in Nat
              /\ Hits(stack, RoutesOf(p)) = Hits(Front(stack), RoutesOf(p)) + (IF p = q THEN 1 ELSE 0)
  <2>1. Hits(stack, RoutesOf(p))
          = Hits(Front(stack), RoutesOf(p)) + (IF frame \in RoutesOf(p) THEN 1 ELSE 0)
    BY <1>3, <1>5, HitsFront
  <2> QED BY <1>5, <1>10, <2>1, WaysAreNumbers, HitsType
<1>12. Ways(q) > 0 /\ \A p : Ways(p) \in Nat
  BY <1>11, WaysAdd, WaysAreNumbers
<1>13. promises[q] \in PromiseObjects(n, m) /\ q \in 1..Len(promises)
       /\ promises[q].state = "pending"
  BY <1>1, <1>8, <1>9, <1>12, ElementOfSeq DEF RoutesAreSingle, RouteIsSingle
<1>14. ASSUME NEW state \in Settled, NEW result \in Values(n),
              Settle(q, state, result, Front(stack))
       PROVE  RoutesAreSingle'
  <2>1. PICK next : next = FreshTrigger(q, promises[q].reactions)
    OBVIOUS
  <2>2. promises[q].reactions \in Seq(Reactions(n, m))
    BY <1>13 DEF PromiseObjects
  <2>3. next \in CallFrames(n, m) /\ next.kind = "trigger"
    BY <1>5, <1>8, <2>1, <2>2, FreshFrames
  <2>4. next \in Frame /\ Inert(next)
    BY <1>5, <2>3, TypesAreTypes DEF Inert
  <2>5. /\ Len(promises') = Len(promises) /\ queue' = queue /\ stack' = Append(Front(stack), next)
        /\ \A p \in 1..Len(promises) : promises'[p] =
             IF p = q THEN SettledAs(promises[q], state, result) ELSE promises[p]
    BY <1>1, <1>5, <1>8, <1>9, <1>13, <1>14, <2>1, SettleChanges
  <2>6. promises'[q].state # "pending"
    BY <1>5, <1>13, <1>14, <2>5, SettledTypes
  <2>7. \A p : Hits(stack', RoutesOf(p)) = Hits(Front(stack), RoutesOf(p))
    BY <1>5, <2>4, <2>5, InertPush
  <2>8. \A p : Ways(p)' = Ways(p) - (IF p = q THEN 1 ELSE 0)
    <3> TAKE p
    <3>1. /\ Hits(pairs', OpenTo(p)) = Hits(pairs, OpenTo(p))
          /\ Hits(queue', ThenablesOf(p)) = Hits(queue, ThenablesOf(p))
      BY <1>4, <2>5
    <3> QED BY <1>11, <2>7, <3>1, WaysAdd
  <2>9. \A p \in 1..Len(promises) : p # q =>
           /\ Ways(p)' = Ways(p) /\ promises'[p].state = promises[p].state
           /\ promises'[p].lost = promises[p].lost
    BY <1>12, <2>5, <2>8
  <2> QED BY <1>12, <1>13, <2>5, <2>6, <2>8, <2>9, OneRouteUsed
<1>15. ASSUME NEW intrinsic \in BOOLEAN, ThenCallable(intrinsic) PROVE RoutesAreSingle'
  <2>1. PICK job : job = ThenableJob(q, value, intrinsic)
    OBVIOUS
  <2>2. job \in Job /\ job.kind = "thenable" /\ job.promise = q
    <3>1. q \in 1..MaxPromises /\ value \in Value
      BY <1>5, <1>8, TypesAreTypes, ConstantsAreApart
    <3> QED BY <2>1, <3>1 DEF ThenableJob, Job
  <2>3. queue' = Append(queue, job) /\ stack' \in {Front(stack), Append(Front(stack), HookFrame)}
    BY <1>3, <1>6, <1>7, <1>15, <2>1 DEF ThenCallable, Enqueue
  <2>4. \A p : job \in ThenablesOf(p) <=> p = q
    BY <2>2 DEF ThenablesOf, IsThenableJob
  <2>5. HookFrame \in Frame /\ Inert(HookFrame)
    BY DEF HookFrame, Frame, Inert
  <2>6. ASSUME NEW p PROVE Ways(p)' = Ways(p)
    <3>1. Hits(queue', ThenablesOf(p)) = Hits(queue, ThenablesOf(p)) + (IF p = q THEN 1 ELSE 0)
      <4>1. Hits(queue', ThenablesOf(p))
              = Hits(queue, ThenablesOf(p)) + (IF job \in ThenablesOf(p) THEN 1 ELSE 0)
        BY <1>5, <2>2, <2>3, HitsAppend
      <4> QED BY <2>4, <4>1
    <3>2. Hits(stack', RoutesOf(p)) = Hits(Front(stack), RoutesOf(p))
      BY <1>5, <2>3, <2>5, InertPush, ZenonT(30)
    <3>3. Hits(pairs', OpenTo(p)) = Hits(pairs, OpenTo(p))
      BY <1>4
    <3> QED BY <1>11, <3>1, <3>2, <3>3, WaysAdd
  <2>7. PICK r : r = Following(promises[q], value)
    OBVIOUS
  <2>8. r \in PromiseObjects(n, m) /\ r.state = promises[q].state /\ r.lost = promises[q].lost
    <3>1. n \in Nat /\ m \in Nat /\ value \in 0..n /\ promises[q] \in PromiseObjects(n, m)
      BY <1>5, <1>8, <1>13
    <3> QED BY ONLY <2>7, <3>1, RecordTypes
  <2>9. PICK changed : changed = [promises EXCEPT ![q] = r]
    OBVIOUS
  <2>10. /\ Len(changed) = Len(promises)
         /\ \A p \in 1..Len(promises) : changed[p] = IF p = q THEN r ELSE promises[p]
    BY <1>9, <1>13, <2>8, <2>9, ExceptSeq
  <2>11. promises' = promises \/ promises' = changed
    BY <1>3, <1>6, <1>7, <1>9, <1>13, <1>15, <2>7, <2>9, LenProperties DEF ThenCallable, Following
  <2>12. /\ Len(promises') = Len(promises)
         /\ \A p \in 1..Len(promises) : /\ promises'[p].state = promises[p].state
                                        /\ promises'[p].lost = promises[p].lost
    BY <2>8, <2>10, <2>11
  <2> QED BY <2>6, <2>12, SameRoutes
<1> QED BY <1>3, <1>6, <1>7, <1>8, <1>14, <1>15 DEF GetThenStep, ThenThrows, ThenNotCallable

\* The loops over reactions.
LEMMA LoopRoutes ==
  ASSUME TypeInv, RoutesAreSingle, LoopStep
  PROVE  RoutesAreSingle'
<1>1. PICK n : n = Len(promises)
  OBVIOUS
<1>2. PICK m : m = Len(pairs)
  OBVIOUS
<1>3. PICK frame : frame = Last(stack)
  OBVIOUS
<1>4. /\ stack # <<>> /\ frame.kind \in {"trigger", "flush"} /\ frame \in CallFrames(n, m)
      /\ frame.kind = running /\ Ready(stack) /\ Ready(Front(stack)) /\ n \in Nat /\ m \in Nat
      /\ n \in 0..MaxPromises /\ m \in 0..MaxPairs /\ UNCHANGED pairs
  BY <1>1, <1>2, <1>3, TopFrame
     DEF LoopStep, TriggerNext, TriggerReturns, FlushNext, FlushEnds, LoopKeepsError, Engine, Running
<1>5. PICK q : q = frame.promise
  OBVIOUS
<1>6. q \in 1..n
  BY <1>4, <1>5, FrameFields
<1>7. /\ promises \in Seq(PromiseObjects(n, m)) /\ queue \in Seq(Jobs(n, m))
      /\ stack \in Seq(Frame) /\ Front(stack) \in Seq(Frame)
  BY <1>1, <1>2, <1>4, StackTypes DEF Ready, TypeOK
<1>8. promises[q] \in PromiseObjects(n, m) /\ q \in 1..Len(promises)
  BY <1>1, <1>6, <1>7, ElementOfSeq
<1>9. CallFrames(n, m) \subseteq Frame
  BY <1>4, TypesAreTypes
<1>10. \A p : Hits(Front(stack), RoutesOf(p)) = Hits(stack, RoutesOf(p))
  <2>1. Inert(Last(stack))
    BY <1>3, <1>4 DEF Inert
  <2> QED BY <1>4, <1>7, <2>1, InertPop
<1>11. ASSUME NEW job, job.kind = "reaction", NEW next \in CallFrames(n, m),
              next.kind \in {"trigger", "flush"}, Enqueue(job, Append(Front(stack), next)),
              promises' = promises
       PROVE  RoutesAreSingle'
  <2>1. PICK base : base = Append(Front(stack), next)
    OBVIOUS
  <2>2. next \in Frame /\ Inert(next)
    BY <1>9, <1>11 DEF Inert
  <2>3. base \in Seq(Frame) /\ \A p : Hits(base, RoutesOf(p)) = Hits(stack, RoutesOf(p))
    BY <1>7, <1>10, <2>1, <2>2, AppendProperties, InertPush
  <2>4. \A p : /\ Hits(queue', ThenablesOf(p)) = Hits(queue, ThenablesOf(p))
               /\ Hits(stack', RoutesOf(p)) = Hits(base, RoutesOf(p))
    BY <1>7, <1>11, <2>1, <2>3, ReactionEnqueued
  <2>5. \A p : Ways(p)' = Ways(p)
    <3> TAKE p
    <3>1. Hits(pairs', OpenTo(p)) = Hits(pairs, OpenTo(p))
      BY <1>4
    <3> QED BY <2>3, <2>4, <3>1, WaysAdd
  <2> QED BY <1>11, <2>5, SameRoutes
<1>12. ASSUME NEW r \in PromiseObjects(n, m), promises' \in {promises, [promises EXCEPT ![q] = r]},
              r.state = promises[q].state, r.lost = promises[q].lost,
              stack' \in {Front(stack), Append(Front(stack), TrackerFrame)}, queue' = queue
       PROVE  RoutesAreSingle'
  <2>1. PICK changed : changed = [promises EXCEPT ![q] = r]
    OBVIOUS
  <2>2. /\ Len(changed) = Len(promises)
        /\ \A p \in 1..Len(promises) : changed[p] = IF p = q THEN r ELSE promises[p]
    BY <1>7, <1>8, <2>1, ExceptSeq
  <2>3. /\ Len(promises') = Len(promises)
        /\ \A p \in 1..Len(promises) : /\ promises'[p].state = promises[p].state
                                       /\ promises'[p].lost = promises[p].lost
    BY <1>12, <2>1, <2>2
  <2>4. TrackerFrame \in Frame /\ Inert(TrackerFrame)
    BY DEF TrackerFrame, Frame, Inert
  <2>5. \A p : Hits(stack', RoutesOf(p)) = Hits(stack, RoutesOf(p))
    BY <1>7, <1>10, <1>12, <2>4, InertPush, ZenonT(30)
  <2>6. \A p : Ways(p)' = Ways(p)
    <3> TAKE p
    <3>1. /\ Hits(pairs', OpenTo(p)) = Hits(pairs, OpenTo(p))
          /\ Hits(queue', ThenablesOf(p)) = Hits(queue, ThenablesOf(p))
      BY <1>4, <1>12
    <3> QED BY <2>5, <3>1, WaysAdd
  <2> QED BY <2>3, <2>6, SameRoutes
<1>13. CASE TriggerNext
  <2>1. AfterTurn(frame) \in CallFrames(n, m) /\ AfterTurn(frame).kind = "trigger"
    BY <1>3, <1>4, <1>13, LoopFrames DEF TriggerNext, Engine, Running
  <2>2. PICK job : job = ReactionJob(Head(frame.todo), promises[q].state, promises[q].result)
    OBVIOUS
  <2>3. job.kind = "reaction"
    BY <2>2 DEF ReactionJob
  <2>4. Enqueue(job, Append(Front(stack), AfterTurn(frame))) /\ promises' = promises
    BY <1>3, <1>5, <1>13, <2>2 DEF TriggerNext, AfterTurn
  <2> QED BY <1>11, <2>1, <2>3, <2>4
<1>14. CASE FlushNext
  <2>1. /\ AfterFlush(frame) \in CallFrames(n, m) /\ AfterFlush(frame).kind = "flush"
        /\ frame.next \in Nat \ {0}
    BY <1>3, <1>4, <1>14, LoopFrames, FrameFields DEF FlushNext, Engine, Running
  <2>2. PICK job : job = promises[q].reactionJobs[frame.next]
    OBVIOUS
  <2>3. promises[q].reactionJobs \in Seq(ReactionJobs(n, m))
    BY <1>8 DEF PromiseObjects
  <2>4. frame.next \in 1..Len(promises[q].reactionJobs)
    BY <1>3, <1>5, <1>14, <2>1, <2>3, LenProperties DEF FlushNext
  <2>5. job \in ReactionJobs(n, m)
    BY <2>2, <2>3, <2>4, ElementOfSeq
  <2>6. job.kind = "reaction"
    BY <2>5 DEF ReactionJobs
  <2>7. Enqueue(job, Append(Front(stack), AfterFlush(frame))) /\ promises' = promises
    BY <1>3, <1>5, <1>14, <2>2 DEF FlushNext, AfterFlush
  <2> QED BY <1>11, <2>1, <2>6, <2>7
<1>15. CASE FlushEnds
  <2>1. PICK r : r = FlushedOut(promises[q])
    OBVIOUS
  <2>2. r \in PromiseObjects(n, m) /\ r.state = promises[q].state /\ r.lost = promises[q].lost
    BY <1>4, <1>8, <2>1, RecordTypes
  <2>3. promises' = [promises EXCEPT ![q] = r] /\ stack' = Front(stack) /\ queue' = queue
    BY <1>3, <1>5, <1>7, <1>8, <1>15, <2>1, LenProperties DEF FlushEnds, FlushedOut
  <2> QED BY <1>12, <2>2, <2>3
<1>16. CASE TriggerReturns
  <2>1. PICK r : r = Reported(promises[q], "reject")
    OBVIOUS
  <2>2. r \in PromiseObjects(n, m) /\ r.state = promises[q].state /\ r.lost = promises[q].lost
    BY <1>4, <1>8, <2>1, RecordTypes
  <2>3. \/ UNCHANGED promises /\ stack' = Front(stack)
        \/ Track(q, "reject", promises, Front(stack))
    BY <1>3, <1>5, <1>16 DEF TriggerReturns
  <2>4. promises' \in {promises, [promises EXCEPT ![q] = r]}
    BY <1>7, <1>8, <2>1, <2>3, LenProperties DEF Track, Reported
  <2>5. stack' \in {Front(stack), Append(Front(stack), TrackerFrame)} /\ queue' = queue
    BY <1>16, <2>3 DEF Track, TriggerReturns
  <2> QED BY <1>12, <2>2, <2>4, <2>5
<1>17. CASE LoopKeepsError
  <2>1. PICK next : next = Erring(frame)
    OBVIOUS
  <2>2. next \in CallFrames(n, m) /\ next.kind = frame.kind
    BY <1>4, <2>1, LoopFrames
  <2>3. next \in Frame /\ Inert(next) /\ Inert(frame)
    BY <1>4, <1>9, <2>2 DEF Inert
  <2>4. PICK k : k = Len(stack)
    OBVIOUS
  <2>5. k \in 1..Len(stack) /\ stack[k] = frame
    BY <1>3, <1>4, <1>7, <2>4, FrontLast DEF Last
  <2>6. stack' = [stack EXCEPT ![k] = next] /\ UNCHANGED <<promises, queue>>
    BY <1>3, <1>17, <2>1, <2>4 DEF LoopKeepsError, Erring, Last
  <2>7. ASSUME NEW p PROVE Hits(stack', RoutesOf(p)) = Hits(stack, RoutesOf(p))
    <3>1. PICK T : T = RoutesOf(p)
      OBVIOUS
    <3>2. next \notin T /\ stack[k] \notin T
      BY <2>3, <2>5, <3>1, InertIsNoRoute
    <3>3. Hits([stack EXCEPT ![k] = next], T)
            = Hits(stack, T) - (IF stack[k] \in T THEN 1 ELSE 0) + (IF next \in T THEN 1 ELSE 0)
      BY ONLY <1>7, <2>3, <2>5, HitsExcept
    <3>4. Hits(stack, T) \in Nat
      BY <1>7, HitsType
    <3>5. PICK h \in Nat : h = Hits(stack, T)
      BY <3>4
    <3>6. Hits(stack', T) = h
      BY <2>6, <3>2, <3>3, <3>5
    <3> QED BY <3>1, <3>5, <3>6
  <2>8. \A p : Ways(p)' = Ways(p)
    <3> TAKE p
    <3>1. /\ Hits(pairs', OpenTo(p)) = Hits(pairs, OpenTo(p))
          /\ Hits(queue', ThenablesOf(p)) = Hits(queue, ThenablesOf(p))
      BY <1>4, <2>6
    <3> QED BY <2>7, <3>1, WaysAdd
  <2> QED BY <2>6, <2>8, SameRoutes
<1> QED BY <1>13, <1>14, <1>15, <1>16, <1>17 DEF LoopStep

\* A thenable job: its promise gets a new pair instead, and the intrinsic `then`
\* a promise of its own.
LEMMA ThenableRoutes ==
  ASSUME TypeInv, RoutesAreSingle, RunThenable
  PROVE  RoutesAreSingle'
<1>1. PICK n : n = Len(promises)
  OBVIOUS
<1>2. PICK m : m = Len(pairs)
  OBVIOUS
<1>3. PICK frame : frame = Last(stack)
  OBVIOUS
<1>4. PICK job : job = frame.job
  OBVIOUS
<1>5. PICK base : base = Front(stack)
  OBVIOUS
<1>6. PICK q : q = job.promise
  OBVIOUS
<1>7. /\ stack # <<>> /\ frame.kind = "job" /\ job.kind = "thenable" /\ job \in ThenableJobs(n)
      /\ q \in 1..n /\ Ready(base) /\ Fits(1)
      /\ job.intrinsic => job.thenable \in 1..n
  BY <1>1, <1>3, <1>4, <1>5, <1>6, ThenableOnTop
<1>8. /\ n \in Nat /\ m \in Nat /\ n \in 0..MaxPromises /\ m \in 0..MaxPairs
      /\ stack \in Seq(Frame) /\ base \in Seq(Frame) /\ queue \in Seq(Job) /\ pairs \in Seq(Pair)
      /\ frame \in Frame /\ Hits(queue, Thenables) \in Nat
  BY <1>1, <1>2, <1>3, <1>5, <1>7, TopFrame, StackTypes, FrontLast DEF TypeOK
<1>9. /\ promises \in Seq(PromiseObjects(n, m)) /\ pairs \in Seq(Pairs(n))
      /\ Pairs(n) \subseteq Pair /\ ThenableJobs(n) \subseteq Job /\ q \in 1..MaxPromises
  <2>1. ThenableJobs(n) \subseteq Job
    BY <1>8, TypesAreTypes DEF Jobs
  <2> QED BY <1>1, <1>2, <1>7, <1>8, <2>1, TypesAreTypes, ConstantsAreApart DEF Ready
<1>10. \A p : frame \in RoutesOf(p) <=> p = q
  BY <1>4, <1>6, <1>7, <1>8 DEF RoutesOf, IsRoute, IsThenableJob
<1>11. ASSUME NEW p
       PROVE  /\ Hits(pairs, OpenTo(p)) \in Nat /\ Hits(queue, ThenablesOf(p)) \in Nat
              /\ Hits(stack, RoutesOf(p)) \in Nat /\ Hits(base, RoutesOf(p)) \in Nat
              /\ Hits(stack, RoutesOf(p)) = Hits(base, RoutesOf(p)) + (IF p = q THEN 1 ELSE 0)
  <2>1. Hits(stack, RoutesOf(p)) = Hits(base, RoutesOf(p)) + (IF frame \in RoutesOf(p) THEN 1 ELSE 0)
    BY <1>3, <1>5, <1>7, <1>8, HitsFront
  <2> QED BY <1>8, <1>10, <2>1, WaysAreNumbers, HitsType
<1>12. ASSUME NEW pair \in Pair, pair.promise = q, ~pair.alreadyResolved, NEW p
       PROVE  Hits(Append(pairs, pair), OpenTo(p)) = Hits(pairs, OpenTo(p)) + (IF p = q THEN 1 ELSE 0)
  BY <1>8, <1>9, <1>12, NewPairOpens
<1>13. CASE job.intrinsic
  <2>1. PICK pair : pair = HiddenPair(q)
    OBVIOUS
  <2>2. PICK before : before = Append(pairs, pair)
    OBVIOUS
  <2>3. pair \in Pairs(n) /\ pair \in Pair /\ pair.promise = q /\ ~pair.alreadyResolved
    BY <1>7, <1>9, <2>1 DEF HiddenPair, NewPair, Pairs
  <2>4. PICK m2 : m2 = m + 1
    OBVIOUS
  <2>5. before \in Seq(Pairs(n)) /\ Len(before) = m2 /\ before \in Seq(Pair)
    BY <1>2, <1>8, <1>9, <2>2, <2>3, <2>4, AppendProperties
  <2>6. PICK p : p = job.thenable
    OBVIOUS
  <2>7. PerformThen(p, m2, before, FALSE, base) /\ UNCHANGED <<jobHost, thrown>>
    BY <1>2, <1>3, <1>4, <1>5, <1>6, <1>13, <2>1, <2>2, <2>4, <2>6 DEF RunThenable, HiddenPair
  <2>8. /\ before \in Seq(Pairs(Len(promises))) /\ Len(pairs) <= Len(before)
        /\ p \in 1..Len(promises) /\ m2 \in {NoHandler, Program} \cup 1..Len(before)
        /\ FALSE \in BOOLEAN
    <3>1. p \in 1..n /\ m2 \in 1..Len(before) /\ Len(pairs) <= Len(before)
      BY <1>2, <1>7, <1>8, <1>13, <2>4, <2>5, <2>6
    <3> QED BY <1>1, <2>5, <3>1
  <2>9. ThenDone(p, m2, before, FALSE, base)
    BY <1>7, <2>7, <2>8, ThenEffect
  <2>10. /\ \A t : /\ Hits(queue', ThenablesOf(t)) = Hits(queue, ThenablesOf(t))
                   /\ Hits(stack', RoutesOf(t)) = Hits(base, RoutesOf(t))
         /\ \A t \in 1..n : /\ promises'[t].state = promises[t].state
                            /\ promises'[t].lost = promises[t].lost
         /\ Len(promises') = n + 1 /\ promises'[n + 1].state = "pending"
    BY <1>1, <1>8, <1>9, <2>8, <2>9, ThenRoutesKept
  <2>11. PICK child : child = n + 1
    OBVIOUS
  <2>12. child \in 1..MaxPromises /\ child \notin 1..n /\ child # q
    <3>1. n + 1 <= MaxPromises
      BY <1>1, <1>7, <1>8, ConstantsAreApart DEF Fits
    <3> QED BY <1>7, <1>8, <2>11, <3>1, ConstantsAreApart
  <2>13. PICK last : last = HiddenPair(child)
    OBVIOUS
  <2>14. /\ last \in Pair /\ last.promise = child /\ ~last.alreadyResolved
         /\ pairs' = Append(before, last)
    BY <1>1, <2>9, <2>11, <2>12, <2>13 DEF ThenDone, HiddenPair, NewPair, Pair
  <2>15. \A t : Hits(pairs', OpenTo(t)) = Hits(before, OpenTo(t)) + (IF t = child THEN 1 ELSE 0)
    BY <2>5, <2>12, <2>14, NewPairOpens
  <2>16. \A t : Hits(before, OpenTo(t)) = Hits(pairs, OpenTo(t)) + (IF t = q THEN 1 ELSE 0)
    BY <1>12, <2>2, <2>3
  <2>17. \A t : Ways(t)' = Ways(t) + (IF t = child THEN 1 ELSE 0)
    <3> TAKE t
    <3>1. /\ Hits(pairs', OpenTo(t)) = Hits(pairs, OpenTo(t)) + (IF t = q THEN 1 ELSE 0)
                                                                + (IF t = child THEN 1 ELSE 0)
          /\ Hits(queue', ThenablesOf(t)) = Hits(queue, ThenablesOf(t))
          /\ Hits(stack', RoutesOf(t)) = Hits(base, RoutesOf(t))
      BY <2>10, <2>15, <2>16
    <3> QED BY <1>11, <3>1, WaysAdd
  <2>18. Ways(child) = 0
    <3>1. child \notin 1..Len(promises)
      BY <1>1, <2>12
    <3>2. /\ Hits(pairs, OpenTo(child)) = 0 /\ Hits(queue, ThenablesOf(child)) = 0
          /\ Hits(stack, RoutesOf(child)) = 0
      BY <3>1, NoWaysYet
    <3> QED BY <3>2, WaysAdd
  <2>19. \A t : Ways(t) \in Nat
    BY WaysAreNumbers
  <2>20. \A t \in 1..n : Ways(t)' = Ways(t)
    BY <2>12, <2>17, <2>19
  <2>21. Ways(n + 1)' = 1
    BY <2>11, <2>17, <2>18
  <2>22. \A t \in 1..n : /\ Ways(t)' = Ways(t) /\ promises'[t].state = promises[t].state
                          /\ promises'[t].lost = promises[t].lost
    BY <2>10, <2>20
  <2>23. n \in Nat /\ n = Len(promises) /\ Len(promises') = n + 1
         /\ promises'[n + 1].state = "pending"
    BY <1>1, <1>8, <2>10
  <2> QED BY <2>21, <2>22, <2>23, OneRouteMore
<1>14. CASE ~job.intrinsic
  <2>1. PICK pair : pair = NewPair(q, TRUE)
    OBVIOUS
  <2>2. pair \in Pair /\ pair.promise = q /\ ~pair.alreadyResolved
    BY <1>9, <2>1 DEF NewPair, Pair
  <2>3. PICK next : next = ThenableFrame(m + 1)
    OBVIOUS
  <2>4. /\ pairs' = Append(pairs, pair) /\ stack' = Append(base, next)
        /\ UNCHANGED <<promises, queue>>
    BY <1>2, <1>3, <1>4, <1>5, <1>6, <1>14, <2>1, <2>3 DEF RunThenable
  <2>5. next \in Frame /\ Inert(next)
    <3>1. m + 1 \in 1..MaxPairs
      BY <1>1, <1>2, <1>7, <1>8, ConstantsAreApart DEF Fits
    <3> QED BY <2>3, <3>1 DEF ThenableFrame, Frame, Inert
  <2>6. \A t : Ways(t)' = Ways(t)
    <3> TAKE t
    <3>1. Hits(pairs', OpenTo(t)) = Hits(pairs, OpenTo(t)) + (IF t = q THEN 1 ELSE 0)
      BY <1>12, <2>2, <2>4
    <3>2. /\ Hits(queue', ThenablesOf(t)) = Hits(queue, ThenablesOf(t))
          /\ Hits(stack', RoutesOf(t)) = Hits(base, RoutesOf(t))
      BY <1>8, <2>4, <2>5, InertPush
    <3> QED BY <1>11, <3>1, <3>2, WaysAdd
  <2> QED BY <2>4, <2>6, SameRoutes
<1> QED BY <1>13, <1>14

LEMMA RoutesKept ==
  ASSUME TypeInv, RoutesAreSingle, [Next]_vars
  PROVE  RoutesAreSingle'
<1>1. CASE Next
  BY <1>1, StepKinds, NewRoutes, CallRoutes, HandlerRoutes, ThenRoutes, ThenableRoutes, StartRoutes,
     GetThenRoutes, LoopRoutes, UnwindsRoutes, QuietRoutes
<1>2. CASE UNCHANGED vars
  BY <1>2, SameRoutes DEF vars, Ways
<1> QED BY <1>1, <1>2

\* A promise can be settled in exactly one way at any time until it is, and in
\* none afterwards, whatever the program's `then` getters, thenables, handlers and
\* hooks do; and only an error guests cannot catch leaves a pending promise without.
THEOREM OneRoute == Spec => []ExactlyOneRoute
<1>1. Init => RoutesAreSingle
  BY DEF Init, RoutesAreSingle
<1>2. TypeInv /\ RoutesAreSingle /\ [Next]_vars => RoutesAreSingle'
  BY RoutesKept
<1>3. TypeInv /\ RoutesAreSingle => ExactlyOneRoute
  BY RoutesAreWays DEF RoutesAreSingle, RouteIsSingle, ExactlyOneRoute
<1> QED BY <1>1, <1>2, <1>3, TypesAlways, PTL DEF Spec

-----------------------------------------------------------------------------
(* What the rejection tracker is told *)

Hearing == "tracker" \in jobHost

\* No rejection of this promise will be reported by a loop that is running.
Calm(record) == record.state = "fulfilled" \/ record.handled
Tended(frames, objects) ==
  \A i \in 1..Len(frames) : frames[i].kind = "trigger" => Calm(objects[frames[i].promise])

\* A promise of which the tracker knows what there is to know.
Heard(record) ==
  /\ record.state = "pending" /\ ~record.handled => record.reactions = <<>>
  /\ record.handleReported => record.state = "rejected" /\ record.handled
  /\ record.state # "rejected" => record.reports = <<>>
  /\ record.state = "rejected" /\ ~record.handled =>
       record.reports = IF Hearing THEN <<"reject">> ELSE <<>>
  /\ record.state = "rejected" /\ record.handled =>
       record.reports \in IF Hearing THEN {<<>>, <<"reject", "handle">>} ELSE {<<>>}
AllHeard == \A p \in 1..Len(promises) : Heard(promises[p])

\* A promise just rejected that nobody handles.
Unheard(record) ==
  /\ record.state = "rejected" /\ ~record.handled /\ ~record.handleReported
  /\ record.reports = <<>>

\* The tracker is up to date, or the next thing to happen is that it hears of p.
UpToDate == Tended(stack, promises) /\ AllHeard
AboutToHear(p) ==
  /\ stack # <<>> /\ ~thrown /\ Tended(Front(stack), promises)
  /\ Last(stack) = FreshTrigger(p, <<>>) /\ Unheard(promises[p])
  /\ \A q \in 1..Len(promises) : q # p => Heard(promises[q])
TrackerInv == UpToDate \/ \E p \in 1..Len(promises) : AboutToHear(p)

\* Changes of which the tracker need not know.
SameToTracker(record, changed) ==
  /\ changed.state = record.state /\ changed.handled = record.handled
  /\ changed.handleReported = record.handleReported
  /\ changed.reactions = record.reactions /\ changed.reports = record.reports

LEMMA HeardAlike ==
  ASSUME NEW record, NEW changed, SameToTracker(record, changed)
  PROVE  /\ Heard(record) => Heard(changed)
         /\ Calm(record) => Calm(changed)
         /\ Unheard(record) => Unheard(changed)
BY DEF SameToTracker, Heard, Calm, Unheard

LEMMA NothingToHear ==
  ASSUME NEW n \in Nat, NEW m \in Nat, NEW record \in PromiseObjects(n, m)
  PROVE  /\ SameToTracker(record, record)
         /\ SameToTracker(record, FlushedOut(record))
         /\ SameToTracker(record, Orphaned(record))
         /\ \A q : SameToTracker(record, Following(record, q))
         /\ \A job : SameToTracker(record, HoldingBack(record, job))
BY DEF SameToTracker, FlushedOut, Orphaned, Following, HoldingBack, PromiseObjects

LEMMA ReportsGrow ==
  /\ Append(<<>>, "reject") = <<"reject">>
  /\ Append(<<"reject">>, "handle") = <<"reject", "handle">>
  /\ <<"reject">> # <<>> /\ <<"reject">> # <<"reject", "handle">>
<1>1. PICK S : S = {"reject", "handle"}
  OBVIOUS
<1>2. PICK one : one = <<"reject">>
  OBVIOUS
<1>3. PICK two : two = <<"reject", "handle">>
  OBVIOUS
<1>4. /\ one \in Seq(S) /\ Len(one) = 1 /\ one[1] = "reject" /\ "handle" \in S
      /\ two \in Seq(S) /\ Len(two) = 2 /\ two[1] = "reject" /\ two[2] = "handle"
  BY <1>1, <1>2, <1>3
<1>5. PICK both : both = Append(one, "handle")
  OBVIOUS
<1>6. both \in Seq(S) /\ Len(both) = 2 /\ both[1] = "reject" /\ both[2] = "handle"
  BY <1>4, <1>5, AppendProperties
<1>7. \A i \in 1..Len(both) : both[i] = two[i]
  BY <1>4, <1>6
<1>8. both = two
  BY <1>4, <1>6, <1>7, SeqEqual
<1>9. Append(<<>>, "reject") = <<"reject">>
  OBVIOUS
<1>10. one # two /\ one # <<>>
  BY <1>4
<1> QED BY <1>2, <1>3, <1>5, <1>8, <1>9, <1>10

\* A settlement, a registration and a rejection's first handler.
LEMMA HeardSettled ==
  ASSUME NEW n \in Nat, NEW m \in Nat, NEW record \in PromiseObjects(n, m), Heard(record),
         record.state = "pending", NEW result
  PROVE  /\ Heard(SettledAs(record, "fulfilled", result))
         /\ Calm(SettledAs(record, "fulfilled", result))
         /\ record.handled => /\ Heard(SettledAs(record, "rejected", result))
                              /\ Calm(SettledAs(record, "rejected", result))
         /\ ~record.handled => /\ Unheard(SettledAs(record, "rejected", result))
                               /\ record.reactions = <<>>
<1>1. PICK kept : kept = SettledAs(record, "fulfilled", result)
  OBVIOUS
<1>2. PICK broken : broken = SettledAs(record, "rejected", result)
  OBVIOUS
<1>3. /\ kept.state = "fulfilled" /\ kept.handled = record.handled
      /\ kept.handleReported = record.handleReported /\ kept.reports = record.reports
      /\ broken.state = "rejected" /\ broken.handled = record.handled
      /\ broken.handleReported = record.handleReported /\ broken.reports = record.reports
  BY <1>1, <1>2 DEF SettledAs, PromiseObjects
<1>4. record.handled \in BOOLEAN /\ record.handleReported \in BOOLEAN
  BY DEF PromiseObjects
<1>5. ~record.handleReported /\ record.reports = <<>>
      /\ (~record.handled => record.reactions = <<>>)
  BY <1>4 DEF Heard
<1>6. Heard(kept) /\ Calm(kept)
  BY <1>3, <1>4, <1>5 DEF Heard, Calm
<1>7. record.handled => Heard(broken) /\ Calm(broken)
  BY <1>3, <1>4, <1>5 DEF Heard, Calm
<1>8. ~record.handled => Unheard(broken)
  BY <1>3, <1>4, <1>5 DEF Unheard
<1> QED BY <1>1, <1>2, <1>5, <1>6, <1>7, <1>8

LEMMA HeardRegistered ==
  ASSUME NEW n \in Nat, NEW m \in Nat, NEW record \in PromiseObjects(n, m), Heard(record),
         record.state = "pending", NEW reaction
  PROVE  Heard(Registered(record, reaction)) /\ Calm(Registered(record, reaction))
<1>1. PICK r : r = Registered(record, reaction)
  OBVIOUS
<1>2. /\ r.state = "pending" /\ r.handled /\ r.handleReported = record.handleReported
      /\ r.reports = record.reports
  BY <1>1 DEF Registered, PromiseObjects
<1>3. ~record.handleReported /\ record.reports = <<>>
  BY DEF Heard
<1>4. Heard(r) /\ Calm(r)
  BY <1>2, <1>3 DEF Heard, Calm
<1> QED BY <1>1, <1>4

LEMMA HeardMarked ==
  ASSUME NEW n \in Nat, NEW m \in Nat, NEW p, promises[p] \in PromiseObjects(n, m),
         Heard(promises[p]), promises[p].state = "rejected", NEW job
  PROVE  /\ Heard(MarkedNow(p, Flushing(promises[p], job)))
         /\ Calm(MarkedNow(p, Flushing(promises[p], job)))
<1>1. PICK record : record = promises[p]
  OBVIOUS
<1>2. PICK r : r = MarkedNow(p, Flushing(record, job))
  OBVIOUS
<1>3. record \in PromiseObjects(n, m) /\ Heard(record) /\ record.state = "rejected"
  BY <1>1
<1>4. record.handled \in BOOLEAN /\ record.handleReported \in BOOLEAN
  BY <1>3 DEF PromiseObjects
<1>5. Reports(p) <=> ~record.handled
  BY <1>1, <1>3, <1>4 DEF Reports, Heard
<1>6. /\ r.state = "rejected" /\ r.handled
      /\ r.reports = IF Tells(p) THEN Append(record.reports, "handle") ELSE record.reports
  BY <1>2, <1>3 DEF MarkedNow, Marked, Reported, Flushing, PromiseObjects
<1>7. CASE record.handled
  <2>1. ~Tells(p)
    BY <1>5, <1>7 DEF Tells
  <2> QED BY <1>1, <1>2, <1>3, <1>6, <1>7, <2>1 DEF Heard, Calm
<1>8. CASE ~record.handled
  <2>1. Tells(p) <=> Hearing
    BY <1>5, <1>8 DEF Tells, Hearing
  <2>2. record.reports = IF Hearing THEN <<"reject">> ELSE <<>>
    BY <1>3, <1>8 DEF Heard
  <2>3. r.reports = IF Hearing THEN <<"reject", "handle">> ELSE <<>>
    BY <1>6, <2>1, <2>2, ReportsGrow
  <2> QED BY <1>1, <1>2, <1>6, <2>3 DEF Heard, Calm
<1> QED BY <1>7, <1>8

LEMMA HeardReported ==
  ASSUME NEW n \in Nat, NEW m \in Nat, NEW record \in PromiseObjects(n, m), Unheard(record)
  PROVE  IF Hearing THEN Heard(Reported(record, "reject")) ELSE Heard(record)
<1>1. PICK r : r = Reported(record, "reject")
  OBVIOUS
<1>2. /\ r.state = "rejected" /\ ~r.handled /\ ~r.handleReported
      /\ r.reports = Append(record.reports, "reject")
  BY <1>1 DEF Reported, Unheard, PromiseObjects
<1>3. r.reports = <<"reject">>
  BY <1>2, ReportsGrow DEF Unheard
<1>4. Hearing => Heard(r)
  BY <1>2, <1>3 DEF Heard
<1>5. ~Hearing => Heard(record)
  BY DEF Unheard, Heard
<1> QED BY <1>1, <1>4, <1>5

LEMMA TendedPush ==
  ASSUME NEW F, NEW base \in Seq(F), NEW frame, NEW objects, Tended(base, objects),
         frame.kind = "trigger" => Calm(objects[frame.promise])
  PROVE  Tended(Append(base, frame), objects)
<1>1. PICK frames : frames = Append(base, frame)
  OBVIOUS
<1>2. Len(frames) = Len(base) + 1 /\ frames[Len(base) + 1] = frame /\ Len(base) \in Nat
  BY <1>1, AppendAny, LenProperties
<1>3. \A i \in 1..Len(base) : frames[i] = base[i]
  BY <1>1, AppendAny
<1>4. \A i \in 1..Len(frames) : i \in 1..Len(base) \/ i = Len(base) + 1
  BY <1>2
<1> QED BY <1>1, <1>2, <1>3, <1>4 DEF Tended

LEMMA TendedPop ==
  ASSUME NEW F, NEW frames \in Seq(F), frames # <<>>, NEW objects, Tended(frames, objects)
  PROVE  Tended(Front(frames), objects)
<1>1. /\ Len(frames) \in Nat \ {0} /\ Len(Front(frames)) = Len(frames) - 1
      /\ \A i \in 1..(Len(frames) - 1) : Front(frames)[i] = frames[i]
  BY FrontLast
<1>2. \A i \in 1..(Len(frames) - 1) : i \in 1..Len(frames)
  BY <1>1
<1> QED BY <1>1, <1>2 DEF Tended

LEMMA TendedKept ==
  ASSUME NEW n \in Nat, NEW m \in Nat, NEW base \in Seq(CallFrames(n, m)),
         Tended(base, promises), \A q \in 1..n : Calm(promises[q]) => Calm(promises'[q])
  PROVE  Tended(base, promises')
<1>1. \A i \in 1..Len(base) : base[i].kind = "trigger" => base[i].promise \in 1..n
  <2> TAKE i \in 1..Len(base)
  <2>1. base[i] \in CallFrames(n, m)
    BY ElementOfSeq
  <2> QED BY <2>1, FrameFields
<1> QED BY <1>1 DEF Tended

\* A step of no interest to the tracker.
LEMMA StaysUpToDate ==
  ASSUME NEW n \in Nat, NEW m \in Nat, n = Len(promises), NEW base \in Seq(CallFrames(n, m)),
         Tended(base, promises), AllHeard, NEW frame,
         frame.kind = "trigger" => frame.promise \in 1..n /\ Calm(promises[frame.promise]),
         stack' \in {base, Append(base, frame)}, jobHost' = jobHost, Len(promises') = n,
         \A q \in 1..n : SameToTracker(promises[q], promises'[q])
  PROVE  UpToDate'
<1>1. \A q \in 1..n : Calm(promises[q]) => Calm(promises'[q])
  BY HeardAlike
<1>2. \A q \in 1..n : Heard(promises'[q])
  BY HeardAlike DEF AllHeard
<1>3. AllHeard'
  BY <1>2 DEF AllHeard, Heard, Hearing
<1>4. Tended(base, promises')
  BY <1>1, TendedKept
<1>5. Tended(Append(base, frame), promises')
  BY <1>1, <1>4, TendedPush
<1> QED BY <1>3, <1>4, <1>5 DEF UpToDate

LEMMA SettleHeard ==
  ASSUME NEW n \in Nat, NEW m \in Nat, promises \in Seq(PromiseObjects(n, m)), n = Len(promises),
         NEW p \in 1..n, NEW state \in Settled, NEW result \in Values(n),
         NEW base \in Seq(CallFrames(n, m)), Tended(base, promises), AllHeard,
         Settle(p, state, result, base), ~thrown, UNCHANGED <<jobHost, thrown>>
  PROVE  TrackerInv'
<1>1. promises[p] \in PromiseObjects(n, m) /\ Heard(promises[p]) /\ p \in 1..Len(promises)
  BY ElementOfSeq DEF AllHeard
<1>2. CASE promises[p].state # "pending"
  <2>1. promises' = promises /\ stack' = base
    BY <1>2, SettleChanges
  <2> QED BY <2>1 DEF TrackerInv, UpToDate, AllHeard, Heard, Hearing
<1>3. CASE promises[p].state = "pending"
  <2>1. PICK r : r = SettledAs(promises[p], state, result)
    OBVIOUS
  <2>2. PICK frame : frame = FreshTrigger(p, promises[p].reactions)
    OBVIOUS
  <2>3. /\ Len(promises') = n /\ stack' = Append(base, frame)
        /\ \A q \in 1..n : promises'[q] = IF q = p THEN r ELSE promises[q]
    BY <1>3, <2>1, <2>2, SettleChanges
  <2>4. frame.kind = "trigger" /\ frame.promise = p
    BY <2>2 DEF FreshTrigger, TriggerFrame
  <2>5. promises[p].reactions \in Seq(Reactions(n, m))
    BY <1>1 DEF PromiseObjects
  <2>6. frame \in CallFrames(n, m)
    BY <2>2, <2>5, FreshFrames
  <2>7. Tended(base, promises')
    <3>1. promises[p].handled => r.handled
      BY <1>1, <2>1 DEF SettledAs, PromiseObjects
    <3>2. \A q \in 1..n : Calm(promises[q]) => Calm(promises'[q])
      BY <1>3, <2>3, <3>1 DEF Calm
    <3> QED BY <3>2, TendedKept
  <2>8. \A q \in 1..n : q # p => Heard(promises'[q])
    BY <2>3 DEF AllHeard
  <2>9. CASE Heard(r) /\ Calm(r)
    <3>1. \A q \in 1..n : Heard(promises'[q])
      BY <2>3, <2>8, <2>9
    <3>2. AllHeard'
      BY <2>3, <3>1 DEF AllHeard, Heard, Hearing
    <3>3. Calm(promises'[frame.promise])
      BY <2>3, <2>4, <2>9
    <3>4. Tended(stack', promises')
      BY <2>3, <2>7, <3>3, TendedPush
    <3> QED BY <3>2, <3>4 DEF TrackerInv, UpToDate
  <2>10. CASE Unheard(r) /\ promises[p].reactions = <<>>
    <3>1. stack' # <<>> /\ Front(stack') = base /\ Last(stack') = frame
      BY <2>3, <2>6, FrontOfAppend
    <3>2. Last(stack') = FreshTrigger(p, <<>>)
      BY <2>2, <2>10, <3>1
    <3>3. \A q \in 1..n : q # p => Heard(promises[q])'
      BY <2>8 DEF Heard, Hearing
    <3>4. Unheard(promises'[p])
      BY <2>3, <2>10
    <3>5. AboutToHear(p)'
      BY <2>3, <2>7, <3>1, <3>2, <3>3, <3>4 DEF AboutToHear, Unheard
    <3> QED BY <2>3, <3>5 DEF TrackerInv
  <2>11. state \in {"fulfilled", "rejected"}
    BY DEF Settled
  <2>12. \/ Heard(r) /\ Calm(r)
         \/ Unheard(r) /\ promises[p].reactions = <<>>
    BY <1>1, <1>3, <2>1, <2>11, HeardSettled
  <2> QED BY <2>9, <2>10, <2>12
<1> QED BY <1>2, <1>3

LEMMA ThenHeard ==
  ASSUME NEW base, Ready(base), Tended(base, promises), AllHeard, NEW p \in 1..Len(promises),
         NEW handler, NEW before, NEW reachable, ThenDone(p, handler, before, reachable, base),
         jobHost' = jobHost
  PROVE  UpToDate'
<1>1. PICK n : n = Len(promises)
  OBVIOUS
<1>2. PICK m : m = Len(pairs)
  OBVIOUS
<1>3. /\ n \in Nat /\ m \in Nat /\ promises \in Seq(PromiseObjects(n, m))
      /\ base \in Seq(CallFrames(n, m)) /\ p \in 1..n
  BY <1>1, <1>2, LenProperties DEF Ready
<1>4. promises[p] \in PromiseObjects(n, m) /\ Heard(promises[p])
  BY <1>1, <1>3, ElementOfSeq DEF AllHeard
<1>5. Heard(promises'[p]) /\ (Calm(promises[p]) => Calm(promises'[p]))
  <2>1. PICK reaction : reaction = NewReaction(p, Len(before), handler)
    OBVIOUS
  <2>2. PICK job : job = JobNow(p, reaction)
    OBVIOUS
  <2>3. \/ promises[p].state = "pending" /\ promises'[p] = Registered(promises[p], reaction)
        \/ promises'[p] = promises[p]
        \/ promises'[p] = HoldingBack(promises[p], job)
        \/ /\ promises[p].state = "rejected"
           /\ promises'[p] = MarkedNow(p, Flushing(promises[p], job))
    BY <2>1, <2>2 DEF ThenDone
  <2>4. SameToTracker(promises[p], HoldingBack(promises[p], job))
    BY <1>3, <1>4, NothingToHear
  <2> QED BY <1>3, <1>4, <2>3, <2>4, HeardAlike, HeardRegistered, HeardMarked
<1>6. PICK child : child = Child(p, handler, reachable)
  OBVIOUS
<1>7. /\ Len(promises') = n + 1 /\ promises'[n + 1] = child
      /\ \A q \in 1..n : q # p => promises'[q] = promises[q]
  BY <1>1, <1>6 DEF ThenDone
<1>8. Heard(child)
  BY <1>6 DEF Child, PendingPromise, Heard
<1>9. \A q \in 1..(n + 1) : Heard(promises'[q])
  <2> TAKE q \in 1..(n + 1)
  <2>1. q = p \/ q = n + 1 \/ (q \in 1..n /\ q # p)
    BY <1>3
  <2> QED BY <1>1, <1>5, <1>7, <1>8, <2>1 DEF AllHeard
<1>10. AllHeard'
  BY <1>7, <1>9 DEF AllHeard, Heard, Hearing
<1>11. \A q \in 1..n : Calm(promises[q]) => Calm(promises'[q])
  BY <1>5, <1>7
<1>12. Tended(base, promises')
  BY <1>3, <1>11, TendedKept
<1>13. PICK flush : flush = FreshFlush(p)
  OBVIOUS
<1>14. flush \in CallFrames(n, m) /\ flush.kind = "flush"
  BY <1>3, <1>13, FreshFrames
<1>15. PICK flushing : flushing = Append(base, flush)
  OBVIOUS
<1>16. flushing \in Seq(CallFrames(n, m)) /\ Tended(flushing, promises')
  BY <1>3, <1>12, <1>14, <1>15, AppendProperties, TendedPush
<1>17. /\ Tended(Append(base, HookFrame), promises')
       /\ Tended(Append(flushing, TrackerFrame), promises')
  BY <1>3, <1>12, <1>16, TendedPush, Kinds
<1>18. stack' \in {base, Append(base, HookFrame), flushing, Append(flushing, TrackerFrame)}
  BY <1>13, <1>15 DEF ThenDone, Enqueue
<1> QED BY <1>10, <1>12, <1>16, <1>17, <1>18 DEF UpToDate

LEMMA BaseTended ==
  ASSUME TypeInv, Tended(stack, promises), NEW base, CallBase(base)
  PROVE  Tended(base, promises)
<1>1. stack \in Seq(Frame) /\ Front(stack) \in Seq(Frame)
  BY StackTypes DEF TypeOK
<1>2. stack # <<>> => Tended(Front(stack), promises)
  BY <1>1, TendedPop
<1>3. running \in {"native", "handler", "thenable", "job"} => stack # <<>>
  BY TopFrame
<1>4. ASSUME NEW d, Tended(Front(stack), promises)
      PROVE  Tended(Append(Front(stack), NativeFrame(d)), promises)
  BY <1>1, <1>4, TendedPush, Kinds
<1> QED BY <1>2, <1>3, <1>4 DEF CallBase

\* While the tracker is up to date, every kind of step leaves it so or is about to
\* tell it.
LEMMA CallHeard ==
  ASSUME TypeInv, UpToDate, CallStep
  PROVE  TrackerInv'
<1>1. PICK n : n = Len(promises)
  OBVIOUS
<1>2. PICK m : m = Len(pairs)
  OBVIOUS
<1>3. PICK c \in 1..m, value \in Values(n), base \in Seq(Frame) :
        CallBase(base) /\ Resolving(c, value, base)
  BY <1>1, <1>2 DEF CallStep
<1>4. /\ Ready(base) /\ n \in Nat /\ m \in Nat /\ n \in 0..MaxPromises
      /\ ~thrown /\ UNCHANGED <<jobHost, thrown>>
  BY <1>1, <1>2, <1>3, BaseTypes, TopFrame DEF CallStep
<1>5. /\ promises \in Seq(PromiseObjects(n, m)) /\ base \in Seq(CallFrames(n, m))
      /\ pairs \in Seq(Pairs(n))
  BY <1>1, <1>2, <1>4 DEF Ready
<1>6. PICK q : q = pairs[c].promise
  OBVIOUS
<1>7. q \in 1..n
  <2>1. pairs[c] \in Pairs(n)
    BY <1>2, <1>5, ElementOfSeq
  <2> QED BY <1>6, <2>1 DEF Pairs
<1>8. Tended(base, promises) /\ AllHeard
  BY <1>3, BaseTended DEF UpToDate
<1>9. ASSUME NEW frame, frame.kind # "trigger", stack' \in {base, Append(base, frame)},
             promises' = promises
      PROVE  TrackerInv'
  <2>1. \A p \in 1..n : SameToTracker(promises[p], promises'[p])
    BY <1>9 DEF SameToTracker
  <2>2. UpToDate'
    BY <1>1, <1>4, <1>5, <1>8, <1>9, <2>1, StaysUpToDate
  <2> QED BY <2>2 DEF TrackerInv
<1>10. ASSUME NEW state \in Settled, NEW result \in Values(n), Settle(q, state, result, base)
       PROVE  TrackerInv'
  BY <1>1, <1>4, <1>5, <1>7, <1>8, <1>10, SettleHeard
<1>11. \/ stack' = base /\ promises' = promises
       \/ \E state \in Settled, result \in Values(n) : Settle(q, state, result, base)
       \/ stack' = Append(base, GetThenFrame(q, value)) /\ promises' = promises
  BY <1>3, <1>4, <1>6, CallCases
<1>12. HookFrame.kind # "trigger" /\ GetThenFrame(q, value).kind # "trigger"
  BY Kinds
<1> QED BY <1>9, <1>10, <1>11, <1>12

\* Steps that change nothing about promises.
LEMMA QuietHeard ==
  ASSUME TypeInv, UpToDate, HandlerStep \/ QuietStep \/ StartJob
  PROVE  TrackerInv'
<1>1. PICK n : n = Len(promises)
  OBVIOUS
<1>2. PICK m : m = Len(pairs)
  OBVIOUS
<1>3. n \in Nat /\ m \in Nat /\ jobHost' = jobHost /\ promises' = promises
  BY <1>1, <1>2, TopFrame DEF HandlerStep, QuietStep, StartJob
<1>4. \A p \in 1..n : SameToTracker(promises[p], promises'[p])
  BY <1>3 DEF SameToTracker
<1>5. stack \in Seq(Frame) /\ Tended(stack, promises) /\ AllHeard
  BY StackTypes DEF UpToDate, TypeOK
<1>6. ASSUME NEW base \in Seq(CallFrames(n, m)), Tended(base, promises), NEW frame,
             frame.kind # "trigger", stack' \in {base, Append(base, frame)}
      PROVE  TrackerInv'
  <2>1. UpToDate'
    BY <1>1, <1>3, <1>4, <1>5, <1>6, StaysUpToDate
  <2> QED BY <2>1 DEF TrackerInv
<1>7. stack # <<>> => Tended(Front(stack), promises) /\ Front(stack) \in Seq(CallFrames(n, m))
  BY <1>1, <1>2, <1>5, TendedPop, TopFrame DEF Ready
<1>8. running # "job" => stack \in Seq(CallFrames(n, m))
  BY <1>1, <1>2, TopFrame DEF Ready
<1>9. CASE HandlerStep
  <2>1. PICK d \in 1..m : stack' = Append(Front(stack), HandlerFrame(d))
    BY <1>2, <1>9 DEF HandlerStep
  <2>2. stack # <<>>
    BY <1>9, TopFrame DEF HandlerStep
  <2> QED BY <1>6, <1>7, <2>1, <2>2, Kinds
<1>10. CASE StartJob
  <2>1. stack' = Append(stack, JobFrame(Head(queue))) /\ running # "job"
    BY <1>10 DEF StartJob, Engine, Running
  <2> QED BY <1>5, <1>6, <1>8, <2>1, Kinds
<1>11. CASE QuietStep
  <2>1. \/ stack' = stack
        \/ stack # <<>> /\ stack' = Front(stack)
        \/ stack' = Append(stack, DrainFrame)
    BY <1>11, TopFrame DEF QuietStep
  <2>2. running # "job"
    BY <1>11 DEF QuietStep
  <2> QED BY <1>5, <1>6, <1>7, <1>8, <2>1, <2>2, Kinds
<1> QED BY <1>9, <1>10, <1>11

LEMMA NewHeard ==
  ASSUME TypeInv, UpToDate, NewPromise
  PROVE  TrackerInv'
<1>1. PICK n : n = Len(promises)
  OBVIOUS
<1>2. PICK m : m = Len(pairs)
  OBVIOUS
<1>3. PICK child : child = PendingPromise(TRUE, 0)
  OBVIOUS
<1>4. /\ n \in Nat /\ m \in Nat /\ Ready(stack) /\ AllHeard /\ Tended(stack, promises)
      /\ UNCHANGED <<jobHost, stack>> /\ promises' = Append(promises, child)
  BY <1>1, <1>2, <1>3, TopFrame DEF NewPromise, ForeignCode, Foreign, UpToDate
<1>5. promises \in Seq(PromiseObjects(n, m)) /\ stack \in Seq(CallFrames(n, m))
  BY <1>1, <1>2, <1>4 DEF Ready
<1>6. Len(promises') = n + 1 /\ promises'[n + 1] = child /\ \A q \in 1..n : promises'[q] = promises[q]
  BY <1>1, <1>4, <1>5, AppendAny
<1>7. Heard(child)
  BY <1>3 DEF PendingPromise, Heard
<1>8. \A q \in 1..(n + 1) : Heard(promises'[q])
  <2> TAKE q \in 1..(n + 1)
  <2>1. q = n + 1 \/ q \in 1..n
    BY <1>4
  <2> QED BY <1>1, <1>4, <1>6, <1>7, <2>1 DEF AllHeard
<1>9. AllHeard'
  BY <1>4, <1>6, <1>8 DEF AllHeard, Heard, Hearing
<1>10. Tended(stack, promises')
  BY <1>4, <1>5, <1>6, TendedKept
<1> QED BY <1>4, <1>9, <1>10 DEF TrackerInv, UpToDate

LEMMA RegisteringHeard ==
  ASSUME TypeInv, UpToDate, ThenStep
  PROVE  TrackerInv'
<1>1. PICK p \in 1..Len(promises), handler \in {NoHandler, Program} :
        PerformThen(p, handler, pairs, TRUE, stack)
  BY DEF ThenStep
<1>2. Ready(stack) /\ UNCHANGED <<jobHost, thrown>> /\ Tended(stack, promises) /\ AllHeard
  BY TopFrame DEF ThenStep, Foreign, UpToDate
<1>3. /\ pairs \in Seq(Pairs(Len(promises))) /\ Len(pairs) <= Len(pairs)
      /\ handler \in {NoHandler, Program} \cup 1..Len(pairs) /\ TRUE \in BOOLEAN
  BY <1>2, TopFrame DEF Ready
<1>4. ThenDone(p, handler, pairs, TRUE, stack)
  BY <1>1, <1>2, <1>3, ThenEffect
<1>5. UpToDate'
  BY <1>2, <1>4, ThenHeard
<1> QED BY <1>5 DEF TrackerInv

LEMMA ThenableHeard ==
  ASSUME TypeInv, UpToDate, RunThenable
  PROVE  TrackerInv'
<1>1. PICK n : n = Len(promises)
  OBVIOUS
<1>2. PICK m : m = Len(pairs)
  OBVIOUS
<1>3. PICK job : job = Last(stack).job
  OBVIOUS
<1>4. PICK base : base = Front(stack)
  OBVIOUS
<1>5. PICK q : q = job.promise
  OBVIOUS
<1>6. PICK m2 : m2 = m + 1
  OBVIOUS
<1>7. /\ stack # <<>> /\ q \in 1..n /\ Ready(base) /\ (job.intrinsic => job.thenable \in 1..n)
      /\ n \in Nat /\ m \in Nat /\ stack \in Seq(Frame) /\ jobHost' = jobHost /\ thrown' = thrown
  BY <1>1, <1>2, <1>3, <1>4, <1>5, ThenableOnTop, TopFrame, StackTypes DEF TypeOK, RunThenable
<1>8. Tended(base, promises) /\ AllHeard
  BY <1>4, <1>7, TendedPop DEF UpToDate
<1>9. pairs \in Seq(Pairs(n)) /\ base \in Seq(CallFrames(n, m))
  BY <1>1, <1>2, <1>7 DEF Ready
<1>10. CASE job.intrinsic
  <2>1. PICK pair : pair = HiddenPair(q)
    OBVIOUS
  <2>2. PICK before : before = Append(pairs, pair)
    OBVIOUS
  <2>3. pair \in Pairs(n)
    BY <1>7, <2>1 DEF HiddenPair, NewPair, Pairs
  <2>4. before \in Seq(Pairs(n)) /\ Len(before) = m2
    BY <1>2, <1>6, <1>9, <2>2, <2>3, AppendProperties
  <2>5. PICK p : p = job.thenable
    OBVIOUS
  <2>6. PerformThen(p, m2, before, FALSE, base) /\ UNCHANGED <<jobHost, thrown>>
    BY <1>2, <1>3, <1>4, <1>5, <1>6, <1>7, <1>10, <2>1, <2>2, <2>5 DEF RunThenable, HiddenPair
  <2>7. /\ before \in Seq(Pairs(Len(promises))) /\ Len(pairs) <= Len(before)
        /\ p \in 1..Len(promises) /\ m2 \in {NoHandler, Program} \cup 1..Len(before)
        /\ FALSE \in BOOLEAN
    <3>1. p \in 1..n /\ m2 \in 1..Len(before) /\ Len(pairs) <= Len(before)
      BY <1>2, <1>6, <1>7, <1>10, <2>4, <2>5
    <3> QED BY <1>1, <2>4, <3>1
  <2>8. ThenDone(p, m2, before, FALSE, base)
    BY <1>7, <2>6, <2>7, ThenEffect
  <2>9. UpToDate'
    BY <1>7, <1>8, <2>7, <2>8, ThenHeard
  <2> QED BY <2>9 DEF TrackerInv
<1>11. CASE ~job.intrinsic
  <2>1. stack' = Append(base, ThenableFrame(m2)) /\ promises' = promises
    BY <1>2, <1>3, <1>4, <1>6, <1>11 DEF RunThenable
  <2>2. \A p \in 1..n : SameToTracker(promises[p], promises'[p])
    BY <2>1 DEF SameToTracker
  <2>3. ThenableFrame(m2).kind # "trigger"
    BY Kinds
  <2>4. UpToDate'
    BY <1>1, <1>7, <1>8, <1>9, <2>1, <2>2, <2>3, StaysUpToDate
  <2> QED BY <2>4 DEF TrackerInv
<1> QED BY <1>10, <1>11

LEMMA GetThenHeard ==
  ASSUME TypeInv, UpToDate, GetThenStep
  PROVE  TrackerInv'
<1>1. PICK n : n = Len(promises)
  OBVIOUS
<1>2. PICK m : m = Len(pairs)
  OBVIOUS
<1>3. PICK frame : frame = Last(stack)
  OBVIOUS
<1>4. PICK base : base = Front(stack)
  OBVIOUS
<1>5. Engine("getThen") /\ UNCHANGED <<jobHost, thrown>>
  BY DEF GetThenStep, ThenThrows, ThenNotCallable, ThenCallable
<1>6. /\ stack # <<>> /\ frame.kind = "getThen" /\ frame \in CallFrames(n, m) /\ ~thrown
      /\ Ready(stack) /\ Ready(base) /\ n \in Nat /\ m \in Nat /\ stack \in Seq(Frame)
  BY <1>1, <1>2, <1>3, <1>4, <1>5, TopFrame, StackTypes DEF Engine, Running, TypeOK
<1>7. PICK q : q = frame.promise
  OBVIOUS
<1>8. PICK value : value = frame.resolution
  OBVIOUS
<1>9. q \in 1..n /\ value \in 0..n /\ value \in Values(n) /\ GuestError \in Values(n)
      /\ "fulfilled" \in Settled /\ "rejected" \in Settled
  BY <1>6, <1>7, <1>8, FrameFields DEF Values, Settled
<1>10. /\ promises \in Seq(PromiseObjects(n, m)) /\ base \in Seq(CallFrames(n, m))
       /\ Tended(base, promises) /\ AllHeard
  BY <1>1, <1>2, <1>4, <1>6, TendedPop DEF Ready, UpToDate
<1>11. ASSUME NEW state \in Settled, NEW result \in Values(n), Settle(q, state, result, base)
       PROVE  TrackerInv'
  BY <1>1, <1>5, <1>6, <1>9, <1>10, <1>11, SettleHeard
<1>12. ASSUME NEW intrinsic \in BOOLEAN, ThenCallable(intrinsic) PROVE TrackerInv'
  <2>1. PICK r : r = Following(promises[q], value)
    OBVIOUS
  <2>2. promises[q] \in PromiseObjects(n, m) /\ q \in 1..Len(promises)
    BY <1>1, <1>9, <1>10, ElementOfSeq
  <2>3. n \in Nat /\ m \in Nat /\ value \in 0..n
    BY <1>6, <1>9
  <2>4. r \in PromiseObjects(n, m)
    BY ONLY <2>1, <2>2, <2>3, RecordTypes
  <2>5. SameToTracker(promises[q], r)
    BY <1>6, <2>1, <2>2, NothingToHear
  <2>6. PICK changed : changed = [promises EXCEPT ![q] = r]
    OBVIOUS
  <2>7. /\ Len(changed) = n
        /\ \A p \in 1..n : changed[p] = IF p = q THEN r ELSE promises[p]
    BY <1>1, <1>10, <2>2, <2>4, <2>6, ExceptSeq
  <2>8. promises' = promises \/ promises' = changed
    BY <1>3, <1>7, <1>8, <1>10, <1>12, <2>1, <2>2, <2>6, LenProperties DEF ThenCallable, Following
  <2>9. \A p : SameToTracker(promises[p], promises[p])
    BY DEF SameToTracker
  <2>10. \A p \in 1..n : SameToTracker(promises[p], promises'[p])
    BY <2>5, <2>7, <2>8, <2>9
  <2>11. stack' \in {base, Append(base, HookFrame)} /\ Len(promises') = n
    BY <1>1, <1>4, <1>12, <2>7, <2>8 DEF ThenCallable, Enqueue
  <2>12. HookFrame.kind # "trigger"
    BY Kinds
  <2>13. UpToDate'
    BY <1>1, <1>5, <1>6, <1>10, <2>10, <2>11, <2>12, StaysUpToDate
  <2> QED BY <2>13 DEF TrackerInv
<1> QED BY <1>3, <1>4, <1>7, <1>8, <1>9, <1>11, <1>12 DEF GetThenStep, ThenThrows, ThenNotCallable

LEMMA UnwindsHeard ==
  ASSUME TypeInv, UpToDate, Unwinds
  PROVE  TrackerInv'
<1>1. PICK n : n = Len(promises)
  OBVIOUS
<1>2. PICK m : m = Len(pairs)
  OBVIOUS
<1>3. PICK frame : frame = Last(stack)
  OBVIOUS
<1>4. PICK base : base = Front(stack)
  OBVIOUS
<1>5. frame.kind \in {"getThen", "handler", "native", "thenable"} /\ frame.kind = running
  BY <1>3, TopFrame DEF Unwinds
<1>6. /\ Ready(stack) /\ Ready(base) /\ stack # <<>> /\ n \in Nat /\ m \in Nat
      /\ frame \in CallFrames(n, m) /\ stack \in Seq(Frame)
      /\ stack' = base /\ jobHost' = jobHost
  BY <1>1, <1>2, <1>3, <1>4, <1>5, TopFrame, StackTypes DEF TypeOK, Unwinds
<1>7. PICK q : q = IF frame.kind = "getThen" THEN frame.promise ELSE pairs[frame.pair].promise
  OBVIOUS
<1>8. /\ promises \in Seq(PromiseObjects(n, m)) /\ pairs \in Seq(Pairs(n))
      /\ base \in Seq(CallFrames(n, m)) /\ Tended(base, promises) /\ AllHeard
  BY <1>1, <1>2, <1>4, <1>6, TendedPop DEF Ready, UpToDate
<1>9. q \in 1..n
  <2>1. CASE frame.kind = "getThen"
    BY <1>6, <1>7, <2>1, FrameFields
  <2>2. CASE frame.kind # "getThen"
    <3>1. frame.pair \in 1..Len(pairs)
      BY <1>2, <1>5, <1>6, <2>2, FrameFields
    <3>2. pairs[frame.pair] \in Pairs(n)
      BY <1>8, <3>1, ElementOfSeq
    <3> QED BY <1>7, <2>2, <3>2 DEF Pairs
  <2> QED BY <2>1, <2>2
<1>10. PICK r : r = Orphaned(promises[q])
  OBVIOUS
<1>11. promises[q] \in PromiseObjects(n, m) /\ q \in 1..Len(promises)
  BY <1>1, <1>8, <1>9, ElementOfSeq
<1>12. r \in PromiseObjects(n, m) /\ SameToTracker(promises[q], r)
  BY <1>6, <1>10, <1>11, RecordTypes, NothingToHear
<1>13. PICK changed : changed = [promises EXCEPT ![q] = r]
  OBVIOUS
<1>14. /\ Len(changed) = n
       /\ \A p \in 1..n : changed[p] = IF p = q THEN r ELSE promises[p]
  BY <1>1, <1>8, <1>11, <1>12, <1>13, ExceptSeq
<1>15. promises' = promises \/ promises' = changed
  BY <1>3, <1>7, <1>8, <1>10, <1>11, <1>13, LenProperties DEF Unwinds, Orphaned
<1>16. \A p : SameToTracker(promises[p], promises[p])
  BY DEF SameToTracker
<1>17. Len(promises') = n /\ \A p \in 1..n : SameToTracker(promises[p], promises'[p])
  BY <1>1, <1>12, <1>14, <1>15, <1>16
<1>18. HookFrame.kind # "trigger"
  BY Kinds
<1>19. UpToDate'
  BY <1>1, <1>6, <1>8, <1>17, <1>18, StaysUpToDate
<1> QED BY <1>19 DEF TrackerInv

LEMMA LoopHeard ==
  ASSUME TypeInv, UpToDate, LoopStep
  PROVE  TrackerInv'
<1>1. PICK n : n = Len(promises)
  OBVIOUS
<1>2. PICK m : m = Len(pairs)
  OBVIOUS
<1>3. PICK frame : frame = Last(stack)
  OBVIOUS
<1>4. PICK base : base = Front(stack)
  OBVIOUS
<1>5. /\ stack # <<>> /\ frame.kind \in {"trigger", "flush"} /\ frame \in CallFrames(n, m)
      /\ frame.kind = running /\ Ready(stack) /\ Ready(base) /\ n \in Nat /\ m \in Nat
      /\ stack \in Seq(Frame) /\ jobHost' = jobHost
  BY <1>1, <1>2, <1>3, <1>4, TopFrame, StackTypes
     DEF LoopStep, TriggerNext, TriggerReturns, FlushNext, FlushEnds, LoopKeepsError, Engine, Running, TypeOK
<1>6. PICK q : q = frame.promise
  OBVIOUS
<1>7. q \in 1..n
  BY <1>5, <1>6, FrameFields
<1>8. /\ promises \in Seq(PromiseObjects(n, m)) /\ stack \in Seq(CallFrames(n, m))
      /\ base \in Seq(CallFrames(n, m)) /\ Tended(base, promises) /\ AllHeard
  BY <1>1, <1>2, <1>4, <1>5, TendedPop DEF Ready, UpToDate
<1>9. promises[q] \in PromiseObjects(n, m) /\ q \in 1..Len(promises)
  BY <1>1, <1>7, <1>8, ElementOfSeq
<1>10. frame.kind = "trigger" => Calm(promises[q])
  BY <1>3, <1>5, <1>6, LastEntry DEF UpToDate, Tended
<1>11. HookFrame.kind # "trigger" /\ TrackerFrame.kind # "trigger"
  BY Kinds
<1>12. ASSUME NEW job, NEW next \in CallFrames(n, m), Enqueue(job, Append(base, next)),
              next.kind = "trigger" => frame.kind = "trigger" /\ next.promise = q,
              promises' = promises
       PROVE  TrackerInv'
  <2>1. PICK above : above = Append(base, next)
    OBVIOUS
  <2>2. above \in Seq(CallFrames(n, m)) /\ Tended(above, promises)
    BY <1>8, <1>10, <1>12, <2>1, AppendProperties, TendedPush
  <2>3. stack' \in {above, Append(above, HookFrame)}
    BY <1>12, <2>1 DEF Enqueue
  <2>4. \A p \in 1..n : SameToTracker(promises[p], promises'[p])
    BY <1>12 DEF SameToTracker
  <2>5. UpToDate'
    BY <1>1, <1>5, <1>8, <1>11, <1>12, <2>2, <2>3, <2>4, StaysUpToDate
  <2> QED BY <2>5 DEF TrackerInv
<1>13. CASE TriggerNext
  <2>1. /\ AfterTurn(frame) \in CallFrames(n, m) /\ frame.kind = "trigger"
        /\ AfterTurn(frame).promise = q
    BY <1>3, <1>5, <1>6, <1>13, LoopFrames DEF TriggerNext, Engine, Running
  <2>2. Enqueue(ReactionJob(Head(frame.todo), promises[q].state, promises[q].result),
                Append(base, AfterTurn(frame)))
    BY <1>3, <1>4, <1>6, <1>13 DEF TriggerNext, AfterTurn
  <2>3. promises' = promises
    BY <1>13 DEF TriggerNext
  <2> QED BY <1>12, <2>1, <2>2, <2>3
<1>14. CASE FlushNext
  <2>1. AfterFlush(frame) \in CallFrames(n, m) /\ AfterFlush(frame).kind = "flush"
    BY <1>3, <1>5, <1>14, LoopFrames DEF FlushNext, Engine, Running
  <2>2. Enqueue(promises[q].reactionJobs[frame.next], Append(base, AfterFlush(frame)))
    BY <1>3, <1>4, <1>6, <1>14 DEF FlushNext, AfterFlush
  <2>3. promises' = promises
    BY <1>14 DEF FlushNext
  <2> QED BY <1>12, <2>1, <2>2, <2>3
<1>15. CASE FlushEnds
  <2>1. PICK r : r = FlushedOut(promises[q])
    OBVIOUS
  <2>2. r \in PromiseObjects(n, m) /\ SameToTracker(promises[q], r)
    BY <1>5, <1>9, <2>1, RecordTypes, NothingToHear
  <2>3. promises' = [promises EXCEPT ![q] = r] /\ stack' = base
    BY <1>3, <1>4, <1>6, <1>8, <1>9, <1>15, <2>1, LenProperties DEF FlushEnds, FlushedOut
  <2>4. /\ Len(promises') = n
        /\ \A p \in 1..n : promises'[p] = IF p = q THEN r ELSE promises[p]
    BY <1>1, <1>8, <1>9, <2>2, <2>3, ExceptSeq
  <2>5. \A p : SameToTracker(promises[p], promises[p])
    BY DEF SameToTracker
  <2>6. \A p \in 1..n : SameToTracker(promises[p], promises'[p])
    BY <2>2, <2>4, <2>5
  <2>7. UpToDate'
    BY <1>1, <1>5, <1>8, <1>11, <2>3, <2>4, <2>6, StaysUpToDate
  <2> QED BY <2>7 DEF TrackerInv
<1>16. CASE TriggerReturns
  <2>1. Calm(promises[q])
    BY <1>3, <1>5, <1>10, <1>16 DEF TriggerReturns, Engine, Running
  <2>2. ~(promises[q].state = "rejected" /\ ~promises[q].handled)
    BY <2>1 DEF Calm
  <2>3. promises' = promises /\ stack' = base
    BY <1>3, <1>4, <1>6, <1>16, <2>2 DEF TriggerReturns
  <2>4. \A p \in 1..n : SameToTracker(promises[p], promises'[p])
    BY <2>3 DEF SameToTracker
  <2>5. UpToDate'
    BY <1>1, <1>5, <1>8, <1>11, <2>3, <2>4, StaysUpToDate
  <2> QED BY <2>5 DEF TrackerInv
<1>17. CASE LoopKeepsError
  <2>1. PICK next : next = Erring(frame)
    OBVIOUS
  <2>2. next \in CallFrames(n, m) /\ next.kind = frame.kind /\ next.promise = q
    BY <1>5, <1>6, <2>1, LoopFrames, ZenonT(30)
  <2>3. Len(stack) \in 1..Len(stack) /\ promises' = promises
    BY <1>5, <1>8, <1>17, LastEntry DEF LoopKeepsError
  <2>4. stack' = [stack EXCEPT ![Len(stack)] = next]
    BY <1>3, <1>17, <2>1 DEF LoopKeepsError, Erring, Last
  <2>5. Len(stack') = Len(stack)
        /\ \A i \in 1..Len(stack) : stack'[i] = IF i = Len(stack) THEN next ELSE stack[i]
    BY <1>8, <2>2, <2>3, <2>4, ExceptSeq
  <2>6. Tended(stack', promises)
    BY <1>10, <2>2, <2>5 DEF UpToDate, Tended
  <2>7. AllHeard'
    BY <1>5, <1>8, <2>3 DEF AllHeard, Heard, Hearing
  <2> QED BY <2>3, <2>6, <2>7 DEF TrackerInv, UpToDate
<1> QED BY <1>13, <1>14, <1>15, <1>16, <1>17 DEF LoopStep

\* Between a rejection and its report nothing else happens.
LEMMA ReportIsNext ==
  ASSUME TypeInv, NEW p \in 1..Len(promises), AboutToHear(p), Next
  PROVE  UpToDate'
<1>1. PICK n : n = Len(promises)
  OBVIOUS
<1>2. PICK m : m = Len(pairs)
  OBVIOUS
<1>3. PICK frame : frame = Last(stack)
  OBVIOUS
<1>4. PICK base : base = Front(stack)
  OBVIOUS
<1>5. /\ frame.kind = "trigger" /\ frame.promise = p /\ frame.todo = <<>> /\ ~frame.threw
      /\ stack # <<>> /\ ~thrown
  BY <1>3 DEF AboutToHear, FreshTrigger, TriggerFrame
<1>6. running = "trigger"
  BY <1>3, <1>5, TopFrame
<1>7. TriggerReturns
  <2>1. ~NewPromise /\ ~CallStep /\ ~HandlerStep /\ ~ThenStep /\ ~RunThenable /\ ~StartJob
        /\ ~GetThenStep /\ ~Unwinds
    BY <1>6 DEF NewPromise, ForeignCode, Foreign, CallStep, CallBase, HandlerStep, ThenStep, RunThenable,
       StartJob, GetThenStep, ThenThrows, ThenNotCallable, ThenCallable, Unwinds, Engine, Running
  <2>2. ~QuietStep
    BY <1>3, <1>5, <1>6 DEF QuietStep, Foreign
  <2>3. LoopStep
    BY <2>1, <2>2, StepKinds
  <2>4. ~TriggerNext /\ ~FlushNext /\ ~FlushEnds /\ ~LoopKeepsError
    BY <1>3, <1>5, <1>6 DEF TriggerNext, FlushNext, FlushEnds, LoopKeepsError, Engine, Running
  <2> QED BY <2>3, <2>4 DEF LoopStep
<1>8. /\ Ready(base) /\ n \in Nat /\ m \in Nat /\ Tended(base, promises) /\ Unheard(promises[p])
      /\ \A q \in 1..n : q # p => Heard(promises[q])
  BY <1>1, <1>2, <1>4, TopFrame DEF AboutToHear
<1>9. promises \in Seq(PromiseObjects(n, m)) /\ base \in Seq(CallFrames(n, m)) /\ p \in 1..n
  BY <1>1, <1>2, <1>8 DEF Ready
<1>10. promises[p] \in PromiseObjects(n, m)
  BY <1>1, <1>9, ElementOfSeq
<1>11. Track(p, "reject", promises, base) /\ jobHost' = jobHost
  BY <1>3, <1>4, <1>5, <1>7, <1>8 DEF TriggerReturns, Unheard
<1>12. PICK r : r = Reported(promises[p], "reject")
  OBVIOUS
<1>13. IF Hearing THEN Heard(r) ELSE Heard(promises[p])
  BY <1>8, <1>10, <1>12, HeardReported
<1>14. "reject" \in {"reject", "handle"}
  OBVIOUS
<1>15. /\ Len(promises') = n
       /\ Hearing => /\ stack' = Append(base, TrackerFrame)
                     /\ \A q \in 1..n : promises'[q] = IF q = p THEN r ELSE promises[q]
       /\ ~Hearing => promises' = promises /\ stack' = base
  BY <1>1, <1>8, <1>9, <1>11, <1>12, <1>14, TrackTypes DEF Hearing
<1>16. \A q \in 1..n : Heard(promises'[q])
  BY <1>8, <1>13, <1>15
<1>17. AllHeard'
  BY <1>11, <1>15, <1>16 DEF AllHeard, Heard, Hearing
<1>18. \A q \in 1..n : Calm(promises[q]) => Calm(promises'[q])
  <2>1. ~Calm(promises[p])
    BY <1>8 DEF Unheard, Calm
  <2> QED BY <1>15, <2>1
<1>19. Tended(base, promises')
  BY <1>8, <1>9, <1>18, TendedKept
<1>20. Tended(Append(base, TrackerFrame), promises')
  BY <1>9, <1>19, TendedPush, Kinds
<1> QED BY <1>15, <1>17, <1>19, <1>20 DEF UpToDate

LEMMA TrackerKept ==
  ASSUME TypeInv, TrackerInv, [Next]_vars
  PROVE  TrackerInv'
<1>1. CASE UNCHANGED vars
  BY <1>1 DEF vars, TrackerInv, UpToDate, AllHeard, Heard, Hearing, AboutToHear, Unheard
<1>2. CASE Next /\ UpToDate
  BY <1>2, StepKinds, NewHeard, CallHeard, RegisteringHeard, ThenableHeard, GetThenHeard, LoopHeard,
     UnwindsHeard, QuietHeard
<1>3. ASSUME Next, NEW p \in 1..Len(promises), AboutToHear(p) PROVE TrackerInv'
  <2>1. UpToDate'
    BY <1>3, ReportIsNext
  <2> QED BY <2>1 DEF TrackerInv
<1> QED BY <1>1, <1>2, <1>3 DEF TrackerInv

\* What the tracker was told agrees with the promises: at most one rejection, then
\* at most one handling, and whenever the stack is empty the reports not taken back
\* are exactly the rejections without a handler.
THEOREM TrackerHearsTheTruth == Spec => []TrackerIsTruthful
<1>1. Init => TrackerInv
  <2>1. Init => Len(promises) = 0 /\ Len(stack) = 0
    BY DEF Init
  <2> QED BY <2>1 DEF TrackerInv, UpToDate, Tended, AllHeard
<1>2. TypeInv /\ TrackerInv /\ [Next]_vars => TrackerInv'
  BY TrackerKept
<1>3. ASSUME TrackerInv PROVE TrackerIsTruthful
  <2>1. ASSUME NEW p \in 1..Len(promises), Heard(promises[p])
        PROVE  /\ promises[p].reports \in {<<>>, <<"reject">>, <<"reject", "handle">>}
               /\ Hearing => (promises[p].reports = <<"reject">>
                                <=> promises[p].state = "rejected" /\ ~promises[p].handled)
    <3>1. PICK record : record = promises[p]
      OBVIOUS
    <3>2. Heard(record)
      BY <2>1, <3>1
    <3>3. CASE record.state # "rejected"
      BY <3>1, <3>2, <3>3, ReportsGrow DEF Heard
    <3>4. CASE record.state = "rejected" /\ ~record.handled
      BY <3>1, <3>2, <3>4, ReportsGrow DEF Heard
    <3>5. CASE record.state = "rejected" /\ record.handled
      BY <3>1, <3>2, <3>5, ReportsGrow DEF Heard
    <3> QED BY <3>3, <3>4, <3>5
  <2>2. CASE UpToDate
    BY <2>1, <2>2 DEF UpToDate, AllHeard, TrackerIsTruthful, Hearing
  <2>3. ASSUME NEW p \in 1..Len(promises), AboutToHear(p) PROVE TrackerIsTruthful
    <3>1. \A q \in 1..Len(promises) :
            promises[q].reports \in {<<>>, <<"reject">>, <<"reject", "handle">>}
      BY <2>1, <2>3 DEF AboutToHear, Unheard
    <3>2. stack # <<>>
      BY <2>3 DEF AboutToHear
    <3> QED BY <3>1, <3>2 DEF TrackerIsTruthful
  <2> QED BY <1>3, <2>2, <2>3 DEF TrackerInv
<1> QED BY <1>1, <1>2, <1>3, TypesAlways, PTL DEF Spec
=============================================================================
