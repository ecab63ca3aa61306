------------------------------ MODULE JobQueue ------------------------------
(***************************************************************************)
(* AgentJobQueue (src/src/runtime/jobs.js) and the execution-Realm frames  *)
(* of its Agent (src/src/runtime/agent.js).                                *)
(*                                                                         *)
(* The engine is single threaded but deeply re-entrant: a job, the host's  *)
(* scheduling hook, the failure reporter and any guest call may enqueue    *)
(* jobs, ask for a drain or run a checkpoint callback before they return.  *)
(* `stack` is the JavaScript call stack restricted to the activations that *)
(* matter here; an action is one uninterrupted stretch of the queue's code *)
(* between two points at which foreign code runs.                          *)
(***************************************************************************)
EXTENDS Integers, SequencesExt

CONSTANTS
  Realms,               \* the Realms the Agent owns
  NullRealm,            \* `null`, and the barrier NO_ACTIVE_EXECUTION_REALM
  Consumed,             \* `undefined` in a slot of `jobs` already taken
  DetailLimit,          \* DURABLE_JOB_FAILURE_DETAIL_LIMIT
  EdgeSize,             \* DURABLE_JOB_FAILURE_EDGE_SIZE
  CompactionThreshold,  \* JOB_QUEUE_COMPACTION_THRESHOLD
  MaxJobs,              \* bound: jobs ever enqueued
  MaxHookFailures,      \* bound: failures recorded from outside a drain
  MaxDepth              \* bound: activations when foreign code makes a call

ASSUME RealmAssumption == NullRealm \notin Realms
ASSUME FailureAssumption == /\ DetailLimit \in Nat
                            /\ EdgeSize \in Nat
                            /\ EdgeSize < DetailLimit
ASSUME BoundAssumption == /\ CompactionThreshold \in Nat
                          /\ MaxJobs \in Nat
                          /\ MaxHookFailures \in Nat
                          /\ MaxDepth \in Nat

VARIABLES
  jobHost,              \* which hooks the embedder supplied; fixed
  jobs, jobHead,        \* the queue array and the index of its first live slot
  failures, failureOverflowCount,
  checkpointState, nextGeneration,
  scheduledGeneration,  \* 0 stands for null
  jobRealm,
  executionRealmFrames, \* Agent._executionRealmFrames
  stack,                \* activations, innermost last
  callbacks,            \* generations whose checkpoint closure the host holds
  enqueued, started, failureLog, schedulerFailed    \* history

queueVars   == <<jobs, jobHead, enqueued, started>>
failureVars == <<failures, failureOverflowCount, failureLog>>
stateVars   == <<checkpointState, nextGeneration, scheduledGeneration,
                 callbacks, schedulerFailed>>
realmVars   == <<jobRealm, executionRealmFrames>>
vars == <<jobHost, queueVars, failureVars, stateVars, realmVars, stack>>

Hosts == {"none", "scheduler", "scheduler+reporter"}
HasScheduler == jobHost # "none"
HasReporter  == jobHost = "scheduler+reporter"

Job == [id: 1..MaxJobs, realm: Realms \cup {NullRealm}]
NoJob == [id |-> 0, realm |-> NullRealm]

\* A failure names its category and the job it came from (0: from no job).
Failure == [category: {"job", "host-hook"}, id: Nat]
Overflow(dropped) == [category |-> "overflow", id |-> dropped]
DurableFailure == Failure \cup [category: {"overflow"}, id: Nat]

\* `realm` is the Realm a "call" entered, or the Realm a "job" will restore.
Frame == [kind: {"call", "hook", "drain", "job", "report"},
          realm: Realms \cup {NullRealm},
          job: Job \cup {NoJob},
          token: Nat]
CallFrame(realm)     == [kind |-> "call", realm |-> realm, job |-> NoJob, token |-> 0]
HookFrame(token)     == [kind |-> "hook", realm |-> NullRealm, job |-> NoJob, token |-> token]
DrainFrame           == [kind |-> "drain", realm |-> NullRealm, job |-> NoJob, token |-> 0]
JobFrame(job, realm) == [kind |-> "job", realm |-> realm, job |-> job, token |-> 0]
ReportFrame(job)     == [kind |-> "report", realm |-> NullRealm, job |-> job, token |-> 0]

Running(kind) == stack # <<>> /\ Last(stack).kind = kind
Push(frame)   == stack' = Append(stack, frame)
Pop           == stack' = Front(stack)
RoomToCall    == Len(stack) < MaxDepth

\* Foreign code (the embedder, a hook, a job, guest code) is executing.
ForeignCode == ~Running("drain")

Pending == SubSeq(jobs, jobHead + 1, Len(jobs))

activeExecutionRealm ==
  IF executionRealmFrames = <<>> THEN NullRealm ELSE Last(executionRealmFrames)

-----------------------------------------------------------------------------
Init ==
  /\ jobHost \in Hosts
  /\ jobs = <<>> /\ jobHead = 0
  /\ failures = <<>> /\ failureOverflowCount = 0
  /\ checkpointState = "idle"
  /\ nextGeneration = 0 /\ scheduledGeneration = 0
  /\ jobRealm = NullRealm /\ executionRealmFrames = <<>>
  /\ stack = <<>> /\ callbacks = {}
  /\ enqueued = 0 /\ started = <<>> /\ failureLog = <<>>
  /\ schedulerFailed = FALSE

\* scheduleCheckpoint() up to the point where the host's hook takes over.
ScheduleCheckpoint ==
  LET token == nextGeneration + 1 IN
  /\ RoomToCall
  /\ nextGeneration' = token
  /\ scheduledGeneration' = token
  /\ checkpointState' = "scheduled"
  /\ callbacks' = callbacks \cup {token}
  /\ schedulerFailed' = FALSE
  /\ Push(HookFrame(token))

Enqueue(realm) ==
  LET job == [id |-> enqueued + 1, realm |-> realm] IN
  /\ ForeignCode /\ enqueued < MaxJobs
  /\ enqueued' = enqueued + 1
  /\ jobs' = Append(jobs, job)
  /\ IF HasScheduler /\ checkpointState = "idle"
       THEN ScheduleCheckpoint
       ELSE UNCHANGED <<stateVars, stack>>
  /\ UNCHANGED <<jobHost, jobHead, started, failureVars, realmVars>>

\* scheduleMicrotask returns, or throws into scheduleCheckpoint's handler.
HookReturn ==
  /\ Running("hook") /\ Pop
  /\ UNCHANGED <<jobHost, queueVars, failureVars, stateVars, realmVars>>

HookThrow ==
  /\ Running("hook") /\ Pop
  /\ scheduledGeneration' = 0
  /\ checkpointState' = "idle"
  /\ schedulerFailed' = TRUE
  /\ UNCHANGED <<jobHost, queueVars, failureVars, realmVars, nextGeneration,
                 callbacks>>

-----------------------------------------------------------------------------
\* run() up to its loop.
BeginDrain ==
  /\ RoomToCall
  /\ scheduledGeneration' = 0
  /\ checkpointState' = "draining"
  /\ schedulerFailed' = FALSE
  /\ Push(DrainFrame)
  /\ UNCHANGED <<jobHost, queueVars, failureVars, realmVars, nextGeneration,
                 callbacks>>

\* runJobs(): called while draining it throws before any change.
RunJobs ==
  /\ ForeignCode /\ checkpointState # "draining"
  /\ BeginDrain

\* Mistake: a stale closure returns the queue to idle.
CheckpointResets(token) ==
  /\ ForeignCode /\ token \in callbacks
  /\ \/ /\ checkpointState = "scheduled" /\ scheduledGeneration = token
        /\ BeginDrain
     \/ /\ checkpointState = "scheduled" /\ scheduledGeneration # token
        /\ checkpointState' = "idle" /\ scheduledGeneration' = 0
        /\ UNCHANGED <<jobHost, queueVars, failureVars, realmVars, stack,
                       nextGeneration, callbacks, schedulerFailed>>

\* The host runs the closure of one generation; a stale one does nothing, and
\* the host may run the same closure again.
Checkpoint(token) ==
  /\ ForeignCode /\ token \in callbacks
  /\ checkpointState = "scheduled" /\ scheduledGeneration = token
  /\ BeginDrain

\* The queue and head that compactConsumedJobs() leaves behind.
KeepsPrefix(queue, head) ==
  head < CompactionThreshold \/ head * 2 < Len(queue)
CompactedJobs(queue, head) ==
  IF KeepsPrefix(queue, head) THEN queue ELSE SubSeq(queue, head + 1, Len(queue))
\* Mistake: the head still counts the prefix that was cut off.
CompactedHeadStale(queue, head) == head
CompactedHead(queue, head) == IF KeepsPrefix(queue, head) THEN head ELSE 0

StartJob ==
  LET job   == jobs[jobHead + 1]
      taken == [jobs EXCEPT ![jobHead + 1] = Consumed]
  IN
  /\ Running("drain") /\ jobHead < Len(jobs)
  /\ jobs' = CompactedJobs(taken, jobHead + 1)
  /\ jobHead' = CompactedHead(taken, jobHead + 1)
  /\ started' = Append(started, job)
  /\ jobRealm' = job.realm
  /\ executionRealmFrames' = Append(executionRealmFrames, job.realm)
  /\ Push(JobFrame(job, jobRealm))
  /\ UNCHANGED <<jobHost, enqueued, failureVars, stateVars>>

\* Mistake: the checkpoint state is not reset.
EndDrainKeepsState ==
  /\ Running("drain") /\ jobHead >= Len(jobs)
  /\ jobs' = <<>> /\ jobHead' = 0
  /\ scheduledGeneration' = 0
  /\ jobRealm' = NullRealm
  /\ Pop
  /\ UNCHANGED <<jobHost, enqueued, started, failureVars, checkpointState,
                 nextGeneration, callbacks, schedulerFailed,
                 executionRealmFrames>>

EndDrain ==
  /\ Running("drain") /\ jobHead >= Len(jobs)
  /\ jobs' = <<>> /\ jobHead' = 0
  /\ scheduledGeneration' = 0
  /\ checkpointState' = "idle"
  /\ jobRealm' = NullRealm
  /\ Pop
  /\ UNCHANGED <<jobHost, enqueued, started, failureVars, nextGeneration,
                 callbacks, schedulerFailed, executionRealmFrames>>

-----------------------------------------------------------------------------
\* Mistake: the slot after the marker is spliced as if the marker were not there.
RetainedForgetsMarker(dropped, next, failure) ==
  LET marked == Append(SubSeq(failures, 1, EdgeSize), Overflow(dropped))
  IN  Append(marked \o SubSeq(failures, EdgeSize + 2, Len(failures)), failure)

\* What recordDurableFailure() keeps once the list is full: the first EdgeSize
\* failures, a marker that counts what was dropped, the tail from slot `next`
\* on, and the new failure.
Retained(dropped, next, failure) ==
  LET marked == Append(SubSeq(failures, 1, EdgeSize), Overflow(dropped))
  IN  Append(marked \o SubSeq(failures, next, Len(failures)), failure)

RecordDurableFailure(failure) ==
  /\ failureLog' = Append(failureLog, failure)
  /\ \/ /\ failureOverflowCount = 0 /\ Len(failures) < DetailLimit
        /\ failures' = Append(failures, failure)
        /\ UNCHANGED failureOverflowCount
     \/ /\ failureOverflowCount = 0 /\ Len(failures) >= DetailLimit
        /\ failureOverflowCount' = 1
        /\ failures' = Retained(1, EdgeSize + 2, failure)
     \/ /\ failureOverflowCount > 0
        /\ failureOverflowCount' = failureOverflowCount + 1
        /\ failures' = Retained(failureOverflowCount + 1, EdgeSize + 3, failure)

\* Mistake: the barrier of a job without a Realm is not popped.
LeaveJobKeepsBarrier ==
  /\ Running("job")
  /\ jobRealm' = Last(stack).realm
  /\ executionRealmFrames' =
       IF Last(stack).job.realm = NullRealm THEN executionRealmFrames
                                            ELSE Front(executionRealmFrames)

\* Leaving a job: both finally blocks put back the Realms it replaced.
LeaveJob ==
  /\ Running("job")
  /\ jobRealm' = Last(stack).realm
  /\ executionRealmFrames' = Front(executionRealmFrames)

JobReturns ==
  /\ LeaveJob /\ Pop
  /\ UNCHANGED <<jobHost, queueVars, failureVars, stateVars>>

\* A throw, an abrupt completion or an invalid completion of the job; then the
\* embedder's reporter, when there is one, runs on top of the drain.
JobFails ==
  /\ LeaveJob
  /\ RecordDurableFailure([category |-> "job", id |-> Last(stack).job.id])
  /\ IF HasReporter
       THEN stack' = Append(Front(stack), ReportFrame(Last(stack).job))
       ELSE Pop
  /\ UNCHANGED <<jobHost, queueVars, stateVars>>

ReportReturns ==
  /\ Running("report") /\ Pop
  /\ UNCHANGED <<jobHost, queueVars, failureVars, stateVars, realmVars>>

ReportThrows ==
  /\ Running("report") /\ Pop
  /\ RecordDurableFailure([category |-> "host-hook", id |-> Last(stack).job.id])
  /\ UNCHANGED <<jobHost, queueVars, stateVars, realmVars>>

-----------------------------------------------------------------------------
TakeFailures ==
  /\ ForeignCode /\ failureLog # <<>>
  /\ failures' = <<>> /\ failureOverflowCount' = 0
  /\ failureLog' = <<>>
  /\ UNCHANGED <<jobHost, queueVars, stateVars, realmVars, stack>>

\* The Promise rejection tracker threw; its caller reports it here.
RecordHostHookFailure ==
  /\ ForeignCode
  /\ Len(failureLog) < MaxHookFailures
  /\ RecordDurableFailure([category |-> "host-hook", id |-> 0])
  /\ UNCHANGED <<jobHost, queueVars, stateVars, realmVars, stack>>

\* evaluateScript, a function call or a generator resume enters a Realm
\* through withActiveExecutionRealm, and leaves it however it completes.
EnterRealm(realm) ==
  /\ ForeignCode /\ RoomToCall
  /\ executionRealmFrames' = Append(executionRealmFrames, realm)
  /\ Push(CallFrame(realm))
  /\ UNCHANGED <<jobHost, queueVars, failureVars, stateVars, jobRealm>>

LeaveRealm ==
  /\ Running("call") /\ Pop
  /\ executionRealmFrames' = Front(executionRealmFrames)
  /\ UNCHANGED <<jobHost, queueVars, failureVars, stateVars, jobRealm>>

Next ==
  \/ \E realm \in Realms \cup {NullRealm} : Enqueue(realm)
  \/ HookReturn \/ HookThrow
  \/ RunJobs
  \/ \E token \in callbacks : Checkpoint(token)
  \/ StartJob \/ EndDrain
  \/ JobReturns \/ JobFails
  \/ ReportReturns \/ ReportThrows
  \/ TakeFailures \/ RecordHostHookFailure
  \/ \E realm \in Realms : EnterRealm(realm)
  \/ LeaveRealm

Spec == Init /\ [][Next]_vars

(***************************************************************************)
(* Fairness.  The engine's own steps are ordinary code and cannot stall;   *)
(* every activation of foreign code ends some time, however often it calls *)
(* others first; and a host that accepted a closure runs it once its stack *)
(* is empty, as every microtask queue does.                                *)
(***************************************************************************)
Completes ==
  \/ HookReturn \/ HookThrow \/ JobReturns \/ JobFails
  \/ ReportReturns \/ ReportThrows \/ LeaveRealm
HostTurn == stack = <<>> /\ \E token \in callbacks : Checkpoint(token)

Fairness ==
  /\ WF_vars(StartJob) /\ WF_vars(EndDrain)
  /\ \A depth \in 1..(MaxDepth + 2) : SF_vars(Len(stack) = depth /\ Completes)
  /\ SF_vars(HostTurn)

FairSpec == Spec /\ Fairness

-----------------------------------------------------------------------------
TypeOK ==
  /\ jobHost \in Hosts
  /\ jobs \in Seq(Job \cup {Consumed}) /\ jobHead \in 0..Len(jobs)
  /\ failures \in Seq(DurableFailure) /\ failureOverflowCount \in Nat
  /\ checkpointState \in {"idle", "scheduled", "draining"}
  /\ nextGeneration \in Nat /\ scheduledGeneration \in 0..nextGeneration
  /\ jobRealm \in Realms \cup {NullRealm}
  /\ executionRealmFrames \in Seq(Realms \cup {NullRealm})
  /\ stack \in Seq(Frame)
  /\ callbacks \subseteq 1..nextGeneration
  /\ enqueued \in Nat /\ started \in Seq(Job)
  /\ failureLog \in Seq(Failure)
  /\ schedulerFailed \in BOOLEAN

\* Whatever drives the draining, jobs start once each and in the order in
\* which enqueue() accepted them: the consumed prefix, its compaction and the
\* reset at the end of run() never lose, repeat or reorder one.
Fifo == INSTANCE AgentJobs WITH pending <- Pending
ImplementsAgentJobs == Fifo!Spec

\* The durable list is the window its comment promises: every failure since it
\* was last taken, or the first EdgeSize of them, a marker that says how many
\* were dropped, and the newest DetailLimit - EdgeSize.
Window(log) ==
  IF Len(log) <= DetailLimit THEN log
  ELSE [i \in 1..(DetailLimit + 1) |->
          IF i <= EdgeSize THEN log[i]
          ELSE IF i = EdgeSize + 1 THEN Overflow(Len(log) - DetailLimit)
          ELSE log[i - 1 + Len(log) - DetailLimit]]
DurableFailuresAreWindow == failures = Window(failureLog)

\* At an embedder with a scheduler a job never waits without a checkpoint that
\* will take it: either a drain is running, or the current generation's closure
\* is in the host's hands, or scheduleMicrotask itself threw since.
PendingJobsAreCovered ==
  (HasScheduler /\ Pending # <<>>) =>
    \/ checkpointState = "draining"
    \/ checkpointState = "scheduled" /\ scheduledGeneration \in callbacks
    \/ schedulerFailed

\* At most one activation of run() is on the stack, and the checkpoint state
\* says so: duplicate, stale and re-entrant checkpoints never start a second.
Drains == {i \in 1..Len(stack) : stack[i].kind = "drain"}
OneDrainAtATime ==
  /\ \A i, j \in Drains : i = j
  /\ (checkpointState = "draining") <=> (Drains # {})
  /\ (checkpointState = "scheduled") <=> (scheduledGeneration # 0)

\* A job runs in the Realm it was enqueued with, and in none when it has none,
\* also when the drain was started inside another Realm's code and after any
\* calls the job made; the reporter sees no job Realm, and the Realms of whoever
\* asked for the drain are back once it is over.
JobRunsInItsRealm ==
  /\ Running("job") =>
       /\ jobRealm = Last(stack).job.realm
       /\ activeExecutionRealm = Last(stack).job.realm
  /\ Running("call") => activeExecutionRealm = Last(stack).realm
  /\ Running("report") => jobRealm = NullRealm
  /\ stack = <<>> => executionRealmFrames = <<>> /\ jobRealm = NullRealm

\* Every job handed to an Agent with a scheduler is started some time, unless
\* the scheduler threw on the way.
JobsEventuallyStart ==
  \A n \in 1..MaxJobs :
    (HasScheduler /\ enqueued >= n) ~> (Len(started) >= n \/ schedulerFailed)

=============================================================================
