--------------------------- MODULE JobQueueProofs ---------------------------
(***************************************************************************)
(* What TLAPS proves of JobQueue for any Realms, any number of jobs and    *)
(* any limits: types, first-in first-out draining (the implementation of   *)
(* AgentJobs), the durable failure window and the checkpoint cover.        *)
(***************************************************************************)
EXTENDS JobQueue, SequenceLemmas

LEMMA FrameTypes ==
  /\ \A realm \in Realms : CallFrame(realm) \in Frame
  /\ \A token \in Nat : HookFrame(token) \in Frame
  /\ DrainFrame \in Frame
  /\ \A job \in Job, realm \in Realms \cup {NullRealm} : JobFrame(job, realm) \in Frame
  /\ \A job \in Job \cup {NoJob} : ReportFrame(job) \in Frame
BY DEF Frame, CallFrame, HookFrame, DrainFrame, JobFrame, ReportFrame

LEMMA FailureTypes ==
  /\ Failure \subseteq DurableFailure
  /\ \A n \in Nat : Overflow(n) \in DurableFailure
BY DEF DurableFailure, Overflow

-----------------------------------------------------------------------------
(* The durable window *)

\* The overflow count is determined by the log as the list is.
WindowInv ==
  /\ failureLog \in Seq(Failure)
  /\ failures = Window(failureLog)
  /\ failureOverflowCount =
       IF Len(failureLog) <= DetailLimit THEN 0 ELSE Len(failureLog) - DetailLimit

LEMMA WindowTypes ==
  ASSUME NEW log \in Seq(Failure)
  PROVE  /\ Window(log) \in Seq(DurableFailure)
         /\ Len(Window(log)) = IF Len(log) <= DetailLimit THEN Len(log)
                                                          ELSE DetailLimit + 1
<1>1. log \in Seq(DurableFailure) /\ Len(log) \in Nat
  BY SeqMonotonic, FailureTypes, LenProperties
<1>2. CASE Len(log) <= DetailLimit
  BY <1>1, <1>2 DEF Window
<1>3. CASE Len(log) > DetailLimit
  <2>1. \A i \in 1..(DetailLimit + 1) :
          (IF i <= EdgeSize THEN log[i]
           ELSE IF i = EdgeSize + 1 THEN Overflow(Len(log) - DetailLimit)
           ELSE log[i - 1 + Len(log) - DetailLimit]) \in DurableFailure
    BY <1>1, <1>3, FailureAssumption, FailureTypes, ElementOfSeq
  <2>2. Window(log) \in [1..(DetailLimit + 1) -> DurableFailure]
    BY <1>1, <1>3, <2>1, FailureAssumption DEF Window
  <2>3. Window(log) \in Seq(DurableFailure)
    BY <2>2, FailureAssumption, SeqDef
  <2>4. Len(Window(log)) = DetailLimit + 1
    BY <2>2, <2>3, FailureAssumption, LenProperties
  <2> QED BY <1>1, <1>3, <2>3, <2>4, FailureAssumption
<1> QED BY <1>1, <1>2, <1>3, FailureAssumption

LEMMA WindowEntries ==
  ASSUME NEW log \in Seq(Failure), Len(log) > DetailLimit,
         NEW i \in 1..(DetailLimit + 1)
  PROVE  Window(log)[i] =
           IF i <= EdgeSize THEN log[i]
           ELSE IF i = EdgeSize + 1 THEN Overflow(Len(log) - DetailLimit)
           ELSE log[i - 1 + Len(log) - DetailLimit]
<1>1. Len(log) \in Nat /\ DetailLimit \in Nat
  BY LenProperties, FailureAssumption
<1> QED BY <1>1 DEF Window

\* One more failure moves the window by one place.
LEMMA RecordKeepsWindow ==
  ASSUME WindowInv, NEW failure \in Failure, RecordDurableFailure(failure)
  PROVE  WindowInv'
<1> DEFINE n == Len(failureLog)
           log == Append(failureLog, failure)
<1>1. /\ n \in Nat /\ DetailLimit \in Nat /\ EdgeSize \in Nat
      /\ EdgeSize < DetailLimit
  BY LenProperties, FailureAssumption DEF WindowInv
<1>2. log \in Seq(Failure)
  BY AppendProperties DEF WindowInv
<1>3. /\ Len(log) = n + 1
      /\ \A i \in 1..n : log[i] = failureLog[i]
      /\ log[n + 1] = failure
  BY AppendProperties DEF WindowInv
<1>4. failureLog' = log
  BY DEF RecordDurableFailure
<1>5. failure \in DurableFailure
  BY FailureTypes
<1>6. failures \in Seq(DurableFailure)
  BY WindowTypes DEF WindowInv
<1>7. Len(failures) = IF n <= DetailLimit THEN n ELSE DetailLimit + 1
  BY WindowTypes DEF WindowInv
<1> HIDE DEF log
<1>8. CASE n < DetailLimit
  <2>1. failures = failureLog /\ failureOverflowCount = 0
    BY <1>1, <1>8 DEF WindowInv, Window
  <2>2. failures' = log /\ failureOverflowCount' = 0
    BY <1>1, <1>7, <1>8, <2>1 DEF RecordDurableFailure, log
  <2> QED BY <1>1, <1>2, <1>3, <1>4, <1>8, <2>2 DEF WindowInv, Window
<1>9. ASSUME NEW dropped \in Nat \ {0}, NEW next \in Nat,
             dropped = n + 1 - DetailLimit,
             next = IF n = DetailLimit THEN EdgeSize + 2 ELSE EdgeSize + 3,
             failures' = Retained(dropped, next, failure),
             failureOverflowCount' = dropped
      PROVE  WindowInv'
  <2> DEFINE front == SubSeq(failures, 1, EdgeSize)
             rear  == SubSeq(failures, next, Len(failures))
  <2>1. front \in Seq(DurableFailure)
    BY <1>1, <1>6, <1>7, <1>9, SliceProperties
  <2>2. /\ Len(front) = EdgeSize
        /\ \A i \in 1..EdgeSize : front[i] = failures[i]
    BY <1>1, <1>6, <1>7, <1>9, SliceProperties
  <2>3. rear \in Seq(DurableFailure)
    BY <1>1, <1>6, <1>7, <1>9, SliceProperties
  <2>4. /\ Len(rear) = DetailLimit - EdgeSize - 1
        /\ \A i \in 1..(DetailLimit - EdgeSize - 1) :
             rear[i] = failures[next + i - 1]
    BY <1>1, <1>6, <1>7, <1>9, SliceProperties
  <2>5. failures' = Append(Append(front, Overflow(dropped)) \o rear, failure)
    BY <1>9 DEF Retained
  <2> HIDE DEF front, rear
  <2>6. failures' \in Seq(DurableFailure)
    BY <1>5, <2>1, <2>3, <2>5, FailureTypes, SpliceProperties
  <2>7. /\ Len(failures') = Len(front) + Len(rear) + 2
        /\ \A i \in 1..Len(front) : failures'[i] = front[i]
        /\ failures'[Len(front) + 1] = Overflow(dropped)
        /\ \A i \in (Len(front) + 2)..(Len(front) + Len(rear) + 1) :
              failures'[i] = rear[i - (Len(front) + 1)]
        /\ failures'[Len(front) + Len(rear) + 2] = failure
    BY <1>5, <2>1, <2>3, <2>5, FailureTypes, SpliceProperties
  <2>8. /\ Len(failures') = DetailLimit + 1
        /\ \A i \in 1..EdgeSize : failures'[i] = failures[i]
        /\ failures'[EdgeSize + 1] = Overflow(dropped)
        /\ \A i \in (EdgeSize + 2)..DetailLimit :
              failures'[i] = failures[next + i - EdgeSize - 2]
        /\ failures'[DetailLimit + 1] = failure
    BY <1>1, <2>2, <2>4, <2>7
  <2>9. /\ \A i \in 1..EdgeSize : failures[i] = failureLog[i]
        /\ \A i \in (EdgeSize + 2)..DetailLimit :
              failures[next + i - EdgeSize - 2] = failureLog[i - 1 + dropped]
    <3>1. CASE n = DetailLimit
      <4>1. failures = failureLog
        BY <1>1, <3>1 DEF WindowInv, Window
      <4>2. \A i \in (EdgeSize + 2)..DetailLimit :
              next + i - EdgeSize - 2 = i - 1 + dropped
        BY <1>1, <1>9, <3>1
      <4> QED BY <4>1, <4>2
    <3>2. CASE n > DetailLimit
      <4>1. \A i \in 1..(DetailLimit + 1) : failures[i] =
              IF i <= EdgeSize THEN failureLog[i]
              ELSE IF i = EdgeSize + 1 THEN Overflow(n - DetailLimit)
              ELSE failureLog[i - 1 + n - DetailLimit]
        BY <3>2, WindowEntries DEF WindowInv
      <4>2. ASSUME NEW i \in (EdgeSize + 2)..DetailLimit
            PROVE  failures[next + i - EdgeSize - 2] = failureLog[i - 1 + dropped]
        <5>1. /\ next + i - EdgeSize - 2 = i + 1
              /\ i + 1 \in 1..(DetailLimit + 1)
              /\ i + 1 > EdgeSize + 1
              /\ (i + 1) - 1 + n - DetailLimit = i - 1 + dropped
          BY <1>1, <1>9, <3>2
        <5>2. failures[i + 1] = failureLog[(i + 1) - 1 + n - DetailLimit]
          BY <1>1, <4>1, <5>1
        <5> QED BY <5>1, <5>2
      <4>3. \A i \in 1..EdgeSize : failures[i] = failureLog[i]
        BY <1>1, <4>1
      <4> QED BY <4>2, <4>3
    <3> QED BY <1>1, <1>9, <3>1, <3>2
  <2>10. Len(Window(log)) = DetailLimit + 1 /\ Window(log) \in Seq(DurableFailure)
    BY <1>1, <1>2, <1>3, <1>9, WindowTypes
  <2>11. \A i \in 1..(DetailLimit + 1) : failures'[i] = Window(log)[i]
    <3>1. \A i \in 1..(DetailLimit + 1) : Window(log)[i] =
            IF i <= EdgeSize THEN log[i]
            ELSE IF i = EdgeSize + 1 THEN Overflow(dropped)
            ELSE log[i - 1 + dropped]
      <4>1. Len(log) > DetailLimit /\ Len(log) - DetailLimit = dropped
        BY <1>1, <1>3, <1>9
      <4>2. \A i \in 1..(DetailLimit + 1) :
              i - 1 + Len(log) - DetailLimit = i - 1 + dropped
        BY <1>1, <1>3, <1>9
      <4> QED BY <1>2, <4>1, <4>2, WindowEntries
    <3>2. ASSUME NEW i \in 1..EdgeSize
          PROVE  failures'[i] = Window(log)[i]
      BY <1>1, <1>3, <1>9, <2>8, <2>9, <3>1
    <3>3. failures'[EdgeSize + 1] = Window(log)[EdgeSize + 1]
      BY <1>1, <2>8, <3>1
    <3>4. ASSUME NEW i \in (EdgeSize + 2)..DetailLimit
          PROVE  failures'[i] = Window(log)[i]
      <4>1. Window(log)[i] = log[i - 1 + dropped]
        BY <1>1, <3>1
      <4>2. i - 1 + dropped \in 1..n
        BY <1>1, <1>9
      <4> QED BY <1>3, <2>8, <2>9, <4>1, <4>2
    <3>5. failures'[DetailLimit + 1] = Window(log)[DetailLimit + 1]
      <4>1. /\ DetailLimit + 1 \in 1..(DetailLimit + 1)
            /\ DetailLimit + 1 > EdgeSize + 1
            /\ (DetailLimit + 1) - 1 + dropped = n + 1
        BY <1>1, <1>9
      <4>2. Window(log)[DetailLimit + 1] = log[n + 1]
        BY <1>1, <3>1, <4>1
      <4> QED BY <1>3, <2>8, <4>2
    <3> QED BY <1>1, <3>2, <3>3, <3>4, <3>5
  <2>12. failures' = Window(log)
    BY <2>6, <2>8, <2>10, <2>11, SeqEqual
  <2> QED BY <1>1, <1>2, <1>3, <1>4, <1>9, <2>12 DEF WindowInv
<1>10. CASE n >= DetailLimit
  <2>1. failureOverflowCount = n - DetailLimit /\ Len(failures) >= DetailLimit
    BY <1>1, <1>7, <1>10 DEF WindowInv
  <2>2. CASE n = DetailLimit
    <3>1. failures' = Retained(1, EdgeSize + 2, failure) /\ failureOverflowCount' = 1
      BY <1>1, <2>1, <2>2 DEF RecordDurableFailure
    <3> QED BY <1>1, <1>9, <2>2, <3>1
  <2>3. CASE n > DetailLimit
    <3>1. /\ failures' = Retained(n + 1 - DetailLimit, EdgeSize + 3, failure)
          /\ failureOverflowCount' = n + 1 - DetailLimit
      <4>1. failureOverflowCount + 1 = n + 1 - DetailLimit /\ failureOverflowCount > 0
        BY <1>1, <2>1, <2>3
      <4> QED BY <4>1 DEF RecordDurableFailure
    <3> QED BY <1>1, <1>9, <2>3, <3>1
  <2> QED BY <1>1, <1>10, <2>2, <2>3
<1> QED BY <1>1, <1>8, <1>10

-----------------------------------------------------------------------------
(* The queue *)

Slot == Job \cup {Consumed}

\* Slots from jobHead on still hold jobs.
QueueInv ==
  /\ jobs \in Seq(Slot) /\ jobHead \in 0..Len(jobs)
  /\ \A i \in (jobHead + 1)..Len(jobs) : jobs[i] \in Job
  /\ enqueued \in Nat
  /\ started \in Seq(Job)

\* Compaction drops consumed slots and nothing else.
LEMMA CompactionKeepsRest ==
  ASSUME NEW queue \in Seq(Slot), NEW head \in 0..Len(queue),
         NEW queue2, queue2 = CompactedJobs(queue, head),
         NEW head2, head2 = CompactedHead(queue, head)
  PROVE  /\ queue2 \in Seq(Slot) /\ head2 \in 0..Len(queue2)
         /\ SubSeq(queue2, head2 + 1, Len(queue2)) = SubSeq(queue, head + 1, Len(queue))
         /\ (\A i \in (head + 1)..Len(queue) : queue[i] \in Job)
              => \A i \in (head2 + 1)..Len(queue2) : queue2[i] \in Job
<1>1. Len(queue) \in Nat
  BY LenProperties
<1>2. CASE KeepsPrefix(queue, head)
  BY <1>2 DEF CompactedJobs, CompactedHead
<1>3. CASE ~KeepsPrefix(queue, head)
  <2>1. queue2 = SubSeq(queue, head + 1, Len(queue)) /\ head2 = 0
    BY <1>3 DEF CompactedJobs, CompactedHead
  <2>2. queue2 \in Seq(Slot)
    BY <1>1, <2>1, SliceProperties
  <2>3. /\ Len(queue2) = Len(queue) - head
        /\ \A i \in 1..(Len(queue) - head) : queue2[i] = queue[head + i]
    <3>1. head + 1 \in Nat \ {0} /\ head + 1 <= Len(queue) + 1
      BY <1>1
    <3>2. /\ Len(queue2) = Len(queue) - (head + 1) + 1
          /\ \A i \in 1..(Len(queue) - (head + 1) + 1) : queue2[i] = queue[(head + 1) + i - 1]
      BY <1>1, <2>1, <3>1, SliceProperties
    <3> QED BY <1>1, <3>2
  <2>4. SubSeq(queue2, 1, Len(queue2)) = queue2
    BY <2>2, SubSeqFull
  <2>5. head2 + 1 = 1 /\ head2 \in 0..Len(queue2)
    BY <1>1, <2>1, <2>3
  <2>6. (\A i \in (head + 1)..Len(queue) : queue[i] \in Job)
              => \A i \in (head2 + 1)..Len(queue2) : queue2[i] \in Job
    BY <1>1, <2>1, <2>3
  <2> QED BY <2>1, <2>2, <2>4, <2>5, <2>6
<1> QED BY <1>2, <1>3

\* Taking the first live slot takes the head of what is pending.
LEMMA TakeFirstSlot ==
  ASSUME QueueInv, jobHead < Len(jobs),
         NEW taken, taken = [jobs EXCEPT ![jobHead + 1] = Consumed]
  PROVE  /\ taken \in Seq(Slot) /\ jobHead + 1 \in 0..Len(taken)
         /\ \A i \in (jobHead + 2)..Len(taken) : taken[i] \in Job
         /\ jobs[jobHead + 1] \in Job
         /\ Pending # <<>>
         /\ Head(Pending) = jobs[jobHead + 1]
         /\ Tail(Pending) = SubSeq(taken, jobHead + 2, Len(taken))
<1>1. Len(jobs) \in Nat /\ jobHead \in Nat /\ jobHead + 1 \in 1..Len(jobs)
  BY LenProperties DEF QueueInv
<1>2. Consumed \in Slot
  BY DEF Slot
<1>3. taken \in Seq(Slot)
  BY <1>1, <1>2, ExceptSeq DEF QueueInv
<1>4. /\ Len(taken) = Len(jobs)
      /\ \A j \in 1..Len(jobs) :
           taken[j] = IF j = jobHead + 1 THEN Consumed ELSE jobs[j]
  BY <1>1, <1>2, ExceptSeq DEF QueueInv
<1>5. \A i \in (jobHead + 2)..Len(taken) : taken[i] \in Job
  BY <1>1, <1>4 DEF QueueInv
<1>6. jobs[jobHead + 1] \in Job
  BY <1>1 DEF QueueInv
<1>7. /\ Head(Pending) = jobs[jobHead + 1]
      /\ Tail(Pending) = SubSeq(jobs, (jobHead + 1) + 1, Len(jobs))
  BY <1>1, HeadTailOfSubSeq DEF QueueInv, Pending
<1>8. Len(Pending) > 0
  BY <1>1, SliceProperties DEF QueueInv, Pending
<1>9. SubSeq(taken, jobHead + 2, Len(taken)) = SubSeq(jobs, jobHead + 2, Len(jobs))
  <2>1. jobHead + 2 \in Nat \ {0} /\ jobHead + 2 <= Len(jobs) + 1
    BY <1>1
  <2>2. jobs \in Seq(Slot)
    BY DEF QueueInv
  <2>3. \A i \in (jobHead + 2)..Len(jobs) : taken[i] = jobs[i]
    BY <1>1, <1>4
  <2> QED BY <1>1, <1>3, <1>4, <2>1, <2>2, <2>3, SliceEqual
<1>10. (jobHead + 1) + 1 = jobHead + 2 /\ Pending # <<>>
  BY <1>1, <1>8
<1> QED BY <1>1, <1>3, <1>4, <1>5, <1>6, <1>7, <1>9, <1>10

\* Enqueuing appends to what is pending.
LEMMA AppendToPending ==
  ASSUME QueueInv, NEW job \in Job
  PROVE  /\ Append(jobs, job) \in Seq(Slot)
         /\ Len(Append(jobs, job)) = Len(jobs) + 1
         /\ \A i \in (jobHead + 1)..(Len(jobs) + 1) : Append(jobs, job)[i] \in Job
         /\ SubSeq(Append(jobs, job), jobHead + 1, Len(jobs) + 1) = Append(Pending, job)
<1>1. Len(jobs) \in Nat /\ jobHead \in Nat /\ jobHead <= Len(jobs)
  BY LenProperties DEF QueueInv
<1>2. PICK longer : longer = Append(jobs, job)
  OBVIOUS
<1>3. jobs \in Seq(Slot) /\ job \in Slot
  BY DEF QueueInv, Slot
<1>4. longer \in Seq(Slot)
  BY <1>2, <1>3, AppendProperties
<1>5. /\ Len(longer) = Len(jobs) + 1
      /\ \A i \in 1..Len(jobs) : longer[i] = jobs[i]
      /\ longer[Len(jobs) + 1] = job
  BY <1>2, <1>3, AppendProperties
<1>6. \A i \in (jobHead + 1)..(Len(jobs) + 1) : longer[i] \in Job
  BY <1>1, <1>5 DEF QueueInv
<1>7. jobHead + 1 \in 1..Len(longer) /\ Len(longer) \in (jobHead + 1)..Len(longer)
  BY <1>1, <1>5
<1>8. SubSeq(longer, jobHead + 1, Len(longer))
        = SubSeq(longer, jobHead + 1, Len(longer) - 1) \o <<longer[Len(longer)]>>
  BY <1>4, <1>7, SubSeqRecursiveSecond
<1>9. SubSeq(longer, jobHead + 1, Len(jobs)) = Pending
  <2>1. jobHead + 1 \in Nat \ {0} /\ jobHead + 1 <= Len(jobs) + 1
    BY <1>1
  <2>2. Len(jobs) <= Len(longer)
    BY <1>1, <1>5
  <2>3. \A i \in (jobHead + 1)..Len(jobs) : longer[i] = jobs[i]
    BY <1>1, <1>5
  <2> QED BY <1>1, <1>3, <1>4, <2>1, <2>2, <2>3, SliceEqual DEF Pending
<1>10. Pending \in Seq(Slot)
  BY <1>1, <1>3, SliceProperties DEF Pending
<1>11. Append(Pending, job) = Pending \o <<job>>
  BY <1>3, <1>10, AppendIsConcat
<1>12. Len(longer) - 1 = Len(jobs) /\ longer[Len(longer)] = job
  BY <1>1, <1>5
<1> QED BY <1>2, <1>4, <1>5, <1>6, <1>8, <1>9, <1>11, <1>12

LEMMA QueueInit == Init => QueueInv
BY EmptySeq DEF Init, QueueInv

\* What each step does to the queue: an Enqueue appends to what is pending, a
\* StartJob moves its head to the started jobs, no other step is visible.
LEMMA QueueStep ==
  ASSUME QueueInv, [Next]_vars
  PROVE  /\ QueueInv'
         /\ \/ \E job \in Job : Pending' = Append(Pending, job) /\ UNCHANGED started
            \/ /\ Pending # <<>>
               /\ started' = Append(started, Head(Pending))
               /\ Pending' = Tail(Pending)
            \/ UNCHANGED <<Pending, started>>
<1>1. ASSUME NEW realm \in Realms \cup {NullRealm}, Enqueue(realm)
      PROVE  /\ QueueInv'
             /\ \E job \in Job : Pending' = Append(Pending, job) /\ UNCHANGED started
  <2> DEFINE job == [id |-> enqueued + 1, realm |-> realm]
  <2>1. job \in Job
    BY <1>1, BoundAssumption DEF Enqueue, Job, QueueInv
  <2>2. /\ jobs' = Append(jobs, job) /\ jobHead' = jobHead
        /\ started' = started /\ enqueued' = enqueued + 1
    BY <1>1 DEF Enqueue
  <2> HIDE DEF job
  <2>3. /\ jobs' \in Seq(Slot) /\ Len(jobs') = Len(jobs) + 1
        /\ \A i \in (jobHead + 1)..(Len(jobs) + 1) : jobs'[i] \in Job
        /\ SubSeq(jobs', jobHead + 1, Len(jobs) + 1) = Append(Pending, job)
    BY <2>1, <2>2, AppendToPending
  <2>4. jobHead' \in 0..Len(jobs') /\ enqueued' \in Nat
    BY <2>2, <2>3, LenProperties DEF QueueInv
  <2>5. QueueInv'
    <3>1. \A i \in (jobHead' + 1)..Len(jobs') : jobs'[i] \in Job
      BY <2>2, <2>3
    <3>2. started' \in Seq(Job)
      BY <2>2 DEF QueueInv
    <3> QED BY <2>3, <2>4, <3>1, <3>2 DEF QueueInv
  <2> QED BY <2>1, <2>2, <2>3, <2>5 DEF Pending
<1>2. ASSUME StartJob
      PROVE  /\ QueueInv'
             /\ Pending # <<>>
             /\ started' = Append(started, Head(Pending))
             /\ Pending' = Tail(Pending)
  <2>1. PICK taken : taken = [jobs EXCEPT ![jobHead + 1] = Consumed]
    OBVIOUS
  <2>2. /\ jobHead < Len(jobs)
        /\ jobs' = CompactedJobs(taken, jobHead + 1)
        /\ jobHead' = CompactedHead(taken, jobHead + 1)
        /\ started' = Append(started, jobs[jobHead + 1])
        /\ enqueued' = enqueued
    BY <1>2, <2>1 DEF StartJob
  <2>3. /\ taken \in Seq(Slot) /\ jobHead + 1 \in 0..Len(taken)
        /\ \A i \in (jobHead + 2)..Len(taken) : taken[i] \in Job
        /\ jobs[jobHead + 1] \in Job
        /\ Pending # <<>>
        /\ Head(Pending) = jobs[jobHead + 1]
        /\ Tail(Pending) = SubSeq(taken, jobHead + 2, Len(taken))
    BY <2>1, <2>2, TakeFirstSlot
  <2>4. (jobHead + 1) + 1 = jobHead + 2
    BY DEF QueueInv
  <2>5. /\ jobs' \in Seq(Slot) /\ jobHead' \in 0..Len(jobs')
        /\ SubSeq(jobs', jobHead' + 1, Len(jobs')) = SubSeq(taken, jobHead + 2, Len(taken))
        /\ \A i \in (jobHead' + 1)..Len(jobs') : jobs'[i] \in Job
    <3>1. PICK head : head = jobHead + 1
      OBVIOUS
    <3>2. /\ head \in 0..Len(taken) /\ head + 1 = jobHead + 2
          /\ jobs' = CompactedJobs(taken, head)
          /\ jobHead' = CompactedHead(taken, head)
      BY <2>2, <2>3, <2>4, <3>1
    <3>3. \A i \in (head + 1)..Len(taken) : taken[i] \in Job
      BY <2>3, <3>2
    <3>4. jobs' \in Seq(Slot) /\ jobHead' \in 0..Len(jobs')
      BY <2>3, <3>2, CompactionKeepsRest
    <3>5. SubSeq(jobs', jobHead' + 1, Len(jobs')) = SubSeq(taken, head + 1, Len(taken))
      BY <2>3, <3>2, CompactionKeepsRest
    <3>6. \A i \in (jobHead' + 1)..Len(jobs') : jobs'[i] \in Job
      BY <2>3, <3>2, <3>3, CompactionKeepsRest
    <3> QED BY <3>2, <3>4, <3>5, <3>6
  <2>6. started' \in Seq(Job)
    BY <2>2, <2>3, AppendProperties DEF QueueInv
  <2>7. QueueInv'
    <3>1. enqueued' \in Nat
      BY <2>2 DEF QueueInv
    <3> QED BY <2>5, <2>6, <3>1 DEF QueueInv
  <2> QED BY <2>2, <2>3, <2>5, <2>7 DEF Pending
<1>3. ASSUME EndDrain
      PROVE  QueueInv' /\ UNCHANGED <<Pending, started>>
  <2>1. /\ jobHead >= Len(jobs) /\ jobs' = <<>> /\ jobHead' = 0
        /\ enqueued' = enqueued /\ started' = started
    BY <1>3 DEF EndDrain
  <2>2. QueueInv'
    BY <2>1, EmptySeq DEF QueueInv
  <2>3. Len(jobs) \in Nat /\ jobHead + 1 > Len(jobs) /\ jobHead \in Nat
    BY <2>1, LenProperties DEF QueueInv
  <2>4. Pending = <<>>
    BY <2>3, SubSeqEmpty DEF Pending
  <2>5. Pending' = <<>>
    BY <2>1, EmptySeq, SubSeqEmpty DEF Pending
  <2> QED BY <2>1, <2>2, <2>4, <2>5
<1>4. ASSUME UNCHANGED queueVars
      PROVE  QueueInv' /\ UNCHANGED <<Pending, started>>
  BY <1>4 DEF QueueInv, Pending, queueVars
<1>5. \/ \E realm \in Realms \cup {NullRealm} : Enqueue(realm)
      \/ StartJob
      \/ EndDrain
      \/ UNCHANGED queueVars
  BY DEF Next, vars, queueVars, HookReturn, HookThrow, RunJobs, Checkpoint,
         BeginDrain, JobReturns, JobFails, ReportReturns, ReportThrows,
         TakeFailures, RecordHostHookFailure, EnterRealm, LeaveRealm
<1> QED BY <1>1, <1>2, <1>3, <1>4, <1>5

-----------------------------------------------------------------------------
(* First in, first out *)

\* Jobs start in the order of acceptance, once each, at every interleaving of
\* drains, callbacks, failures and re-entrant calls: JobQueue implements
\* AgentJobs, its `jobs` array past `jobHead` being the abstract queue.
THEOREM JobsAreFifo == Spec => ImplementsAgentJobs
<1>1. Init => QueueInv /\ Fifo!Init
  <2> SUFFICES ASSUME Init PROVE QueueInv /\ Fifo!Init
    OBVIOUS
  <2>1. Pending = <<>>
    BY EmptySeq, SubSeqEmpty DEF Init, Pending
  <2> QED BY <2>1, QueueInit DEF Init, Fifo!Init
<1>2. QueueInv /\ [Next]_vars => QueueInv' /\ [Fifo!Next]_Fifo!vars
  <2> SUFFICES ASSUME QueueInv, [Next]_vars
               PROVE  QueueInv' /\ [Fifo!Next]_Fifo!vars
    OBVIOUS
  <2> QED BY QueueStep DEF Fifo!Next, Fifo!vars, Fifo!Accept, Fifo!Start
<1> QED BY <1>1, <1>2, PTL DEF Spec, ImplementsAgentJobs, Fifo!Spec

-----------------------------------------------------------------------------
(* Types *)

RealmOrNull == Realms \cup {NullRealm}

ControlInv ==
  /\ jobHost \in Hosts
  /\ checkpointState \in {"idle", "scheduled", "draining"}
  /\ nextGeneration \in Nat /\ scheduledGeneration \in 0..nextGeneration
  /\ jobRealm \in RealmOrNull
  /\ executionRealmFrames \in Seq(RealmOrNull)
  /\ stack \in Seq(Frame)
  /\ callbacks \subseteq 1..nextGeneration
  /\ schedulerFailed \in BOOLEAN

\* The innermost activation, where there is one of a given kind.
LEMMA TopFrame ==
  ASSUME ControlInv, NEW kind, Running(kind)
  PROVE  /\ Last(stack) \in Frame /\ stack # <<>>
         /\ Last(stack).kind = kind
         /\ Last(stack).realm \in RealmOrNull
         /\ Last(stack).job \in Job \cup {NoJob}
         /\ Last(stack).token \in Nat
<1>1. stack # <<>> /\ Last(stack).kind = kind
  BY DEF Running
<1>2. Last(stack) \in Frame
  BY <1>1, FrontLast DEF ControlInv
<1> QED BY <1>1, <1>2 DEF Frame, RealmOrNull

LEMMA PushPop ==
  ASSUME ControlInv
  PROVE  /\ \A frame \in Frame : Append(stack, frame) \in Seq(Frame)
         /\ \A frame \in Frame : Append(Front(stack), frame) \in Seq(Frame)
         /\ Front(stack) \in Seq(Frame)
         /\ \A realm \in RealmOrNull : Append(executionRealmFrames, realm) \in Seq(RealmOrNull)
         /\ Front(executionRealmFrames) \in Seq(RealmOrNull)
<1>1. Front(stack) \in Seq(Frame) /\ stack \in Seq(Frame)
  BY FrontLast DEF ControlInv
<1>2. Front(executionRealmFrames) \in Seq(RealmOrNull)
  BY FrontLast DEF ControlInv
<1>3. executionRealmFrames \in Seq(RealmOrNull)
  BY DEF ControlInv
<1> QED BY <1>1, <1>2, <1>3, AppendProperties

LEMMA ControlInit == Init => ControlInv
<1> SUFFICES ASSUME Init PROVE ControlInv
  OBVIOUS
<1>1. stack \in Seq(Frame) /\ executionRealmFrames \in Seq(RealmOrNull)
  BY EmptySeq DEF Init
<1>2. jobHost \in Hosts
  BY DEF Init
<1>3. /\ checkpointState \in {"idle", "scheduled", "draining"}
      /\ jobRealm \in RealmOrNull
  BY DEF Init, RealmOrNull
<1>4. /\ nextGeneration \in Nat /\ scheduledGeneration \in 0..nextGeneration
      /\ callbacks \subseteq 1..nextGeneration
  BY DEF Init
<1>5. schedulerFailed \in BOOLEAN
  BY DEF Init
<1> QED BY <1>1, <1>2, <1>3, <1>4, <1>5 DEF ControlInv

LEMMA BeginDrainTypes == ASSUME ControlInv, BeginDrain PROVE ControlInv'
<1>1. stack' \in Seq(Frame)
  BY PushPop, FrameTypes DEF BeginDrain, Push
<1>2. checkpointState' \in {"idle", "scheduled", "draining"}
  BY DEF BeginDrain
<1>3. scheduledGeneration' \in 0..nextGeneration
  BY DEF BeginDrain, ControlInv
<1>4. schedulerFailed' \in BOOLEAN
  BY DEF BeginDrain
<1>5. UNCHANGED <<jobHost, nextGeneration, callbacks, jobRealm, executionRealmFrames>>
  BY DEF BeginDrain, realmVars
<1> QED BY <1>1, <1>2, <1>3, <1>4, <1>5 DEF ControlInv

LEMMA ControlStep ==
  ASSUME QueueInv, ControlInv, [Next]_vars
  PROVE  ControlInv'
<1>1. ASSUME NEW realm \in Realms \cup {NullRealm}, Enqueue(realm)
      PROVE  ControlInv'
  <2>1. CASE ScheduleCheckpoint
    <3>1. nextGeneration + 1 \in Nat
      BY DEF ControlInv
    <3>2. stack' \in Seq(Frame)
      BY <2>1, <3>1, PushPop, FrameTypes DEF ScheduleCheckpoint, Push
    <3>3. /\ nextGeneration' \in Nat /\ scheduledGeneration' \in 0..nextGeneration'
          /\ callbacks' \subseteq 1..nextGeneration'
          /\ checkpointState' = "scheduled" /\ schedulerFailed' = FALSE
      BY <2>1 DEF ScheduleCheckpoint, ControlInv
    <3>4. UNCHANGED <<jobHost, jobRealm, executionRealmFrames>>
      BY <1>1 DEF Enqueue, realmVars
    <3> QED BY <3>2, <3>3, <3>4 DEF ControlInv
  <2>2. CASE UNCHANGED <<stateVars, stack>>
    BY <1>1, <2>2 DEF Enqueue, ControlInv, stateVars, realmVars
  <2> QED BY <1>1, <2>1, <2>2 DEF Enqueue
<1>2. CASE HookReturn
  BY <1>2, PushPop DEF HookReturn, Pop, ControlInv, stateVars, realmVars
<1>3. CASE HookThrow
  BY <1>3, PushPop DEF HookThrow, Pop, ControlInv, realmVars
<1>4. CASE RunJobs
  BY <1>4, BeginDrainTypes DEF RunJobs
<1>5. ASSUME NEW token \in callbacks, Checkpoint(token)
      PROVE  ControlInv'
  BY <1>5, BeginDrainTypes DEF Checkpoint
<1>6. CASE StartJob
  <2> DEFINE job == jobs[jobHead + 1]
  <2>1. job \in Job /\ job.realm \in RealmOrNull
    <3>1. jobHead + 1 \in (jobHead + 1)..Len(jobs)
      BY <1>6, LenProperties DEF StartJob, QueueInv
    <3> QED BY <3>1 DEF QueueInv, Job, RealmOrNull
  <2>2. /\ jobRealm' = job.realm
        /\ executionRealmFrames' = Append(executionRealmFrames, job.realm)
        /\ stack' = Append(stack, JobFrame(job, jobRealm))
        /\ UNCHANGED <<jobHost, stateVars>>
    BY <1>6 DEF StartJob, Push
  <2> HIDE DEF job
  <2>3. JobFrame(job, jobRealm) \in Frame
    BY <2>1, FrameTypes DEF ControlInv, RealmOrNull
  <2>4. stack' \in Seq(Frame) /\ executionRealmFrames' \in Seq(RealmOrNull)
    BY <2>1, <2>2, <2>3, PushPop
  <2> QED BY <2>1, <2>2, <2>4 DEF ControlInv, stateVars
<1>7. CASE EndDrain
  BY <1>7, PushPop DEF EndDrain, Pop, ControlInv, RealmOrNull
<1>8. CASE JobReturns
  <2>1. jobRealm' \in RealmOrNull
    BY <1>8, TopFrame DEF JobReturns, LeaveJob
  <2> QED BY <1>8, <2>1, PushPop DEF JobReturns, LeaveJob, Pop, ControlInv, stateVars
<1>9. CASE JobFails
  <2>1. /\ Last(stack).realm \in RealmOrNull
        /\ ReportFrame(Last(stack).job) \in Frame
    BY <1>9, TopFrame, FrameTypes DEF JobFails, LeaveJob
  <2>2. stack' \in Seq(Frame)
    BY <1>9, <2>1, PushPop DEF JobFails, Pop
  <2>3. jobRealm' \in RealmOrNull /\ executionRealmFrames' \in Seq(RealmOrNull)
    BY <1>9, <2>1, PushPop DEF JobFails, LeaveJob
  <2> QED BY <1>9, <2>2, <2>3 DEF JobFails, ControlInv, stateVars
<1>10. CASE ReportReturns
  BY <1>10, PushPop DEF ReportReturns, Pop, ControlInv, stateVars, realmVars
<1>11. CASE ReportThrows
  BY <1>11, PushPop DEF ReportThrows, Pop, ControlInv, stateVars, realmVars
<1>12. CASE TakeFailures \/ RecordHostHookFailure
  BY <1>12 DEF TakeFailures, RecordHostHookFailure, ControlInv, stateVars, realmVars
<1>13. ASSUME NEW realm \in Realms, EnterRealm(realm)
       PROVE  ControlInv'
  <2>1. CallFrame(realm) \in Frame /\ realm \in RealmOrNull
    BY FrameTypes DEF RealmOrNull
  <2> QED BY <1>13, <2>1, PushPop DEF EnterRealm, Push, ControlInv, stateVars
<1>14. CASE LeaveRealm
  BY <1>14, PushPop DEF LeaveRealm, Pop, ControlInv, stateVars
<1>15. CASE UNCHANGED vars
  BY <1>15 DEF vars, ControlInv, stateVars, realmVars
<1> QED BY <1>1, <1>2, <1>3, <1>4, <1>5, <1>6, <1>7, <1>8, <1>9, <1>10, <1>11,
          <1>12, <1>13, <1>14, <1>15 DEF Next

-----------------------------------------------------------------------------
LEMMA WindowInit == Init => WindowInv
<1> SUFFICES ASSUME Init PROVE WindowInv
  OBVIOUS
<1>1. Len(failureLog) = 0 /\ failureLog \in Seq(Failure)
  BY EmptySeq DEF Init
<1> QED BY <1>1, FailureAssumption DEF Init, WindowInv, Window

LEMMA WindowStep ==
  ASSUME ControlInv, WindowInv, [Next]_vars
  PROVE  WindowInv'
<1>1. ASSUME NEW failure \in Failure, RecordDurableFailure(failure)
      PROVE  WindowInv'
  BY <1>1, RecordKeepsWindow
<1>2. CASE JobFails \/ ReportThrows
  <2>1. Last(stack).job \in Job \cup {NoJob}
    BY <1>2, TopFrame DEF JobFails, ReportThrows, LeaveJob
  <2>2. Last(stack).job.id \in Nat
    BY <2>1 DEF Job, NoJob
  <2> QED BY <1>1, <1>2, <2>2 DEF JobFails, ReportThrows, Failure
<1>3. CASE RecordHostHookFailure
  BY <1>1, <1>3 DEF RecordHostHookFailure, Failure
<1>4. CASE TakeFailures
  <2>1. /\ failureLog' = <<>> /\ failures' = <<>> /\ failureOverflowCount' = 0
        /\ Len(failureLog') = 0 /\ failureLog' \in Seq(Failure)
    BY <1>4, EmptySeq DEF TakeFailures
  <2> QED BY <2>1, FailureAssumption DEF WindowInv, Window
<1>5. CASE UNCHANGED failureVars
  BY <1>5 DEF WindowInv, Window, failureVars
<1>6. \/ JobFails \/ ReportThrows \/ RecordHostHookFailure \/ TakeFailures
      \/ UNCHANGED failureVars
  BY DEF Next, vars, failureVars, Enqueue, HookReturn, HookThrow, RunJobs,
         Checkpoint, BeginDrain, StartJob, EndDrain, JobReturns, ReportReturns,
         EnterRealm, LeaveRealm
<1> QED BY <1>2, <1>3, <1>4, <1>5, <1>6

\* The three invariants together say that every variable has its type.
LEMMA InvariantsType == QueueInv /\ ControlInv /\ WindowInv => TypeOK
<1> SUFFICES ASSUME QueueInv, ControlInv, WindowInv PROVE TypeOK
  OBVIOUS
<1>1. failures \in Seq(DurableFailure) /\ failureOverflowCount \in Nat
  BY WindowTypes, LenProperties, FailureAssumption DEF WindowInv
<1> QED BY <1>1 DEF TypeOK, QueueInv, Slot, ControlInv, RealmOrNull, WindowInv

LEMMA Invariants == Spec => [](QueueInv /\ ControlInv /\ WindowInv)
<1>1. Init => QueueInv /\ ControlInv /\ WindowInv
  BY QueueInit, ControlInit, WindowInit
<1>2. QueueInv /\ ControlInv /\ WindowInv /\ [Next]_vars
        => (QueueInv /\ ControlInv /\ WindowInv)'
  BY QueueStep, ControlStep, WindowStep
<1> QED BY <1>1, <1>2, PTL DEF Spec

\* Every variable keeps its type; in particular the head of the queue never
\* passes its end, whatever compaction and the end of a drain do.
THEOREM Typing == Spec => []TypeOK
BY Invariants, InvariantsType, PTL

\* The list that takeJobFailures() hands out is exactly the window of what was
\* recorded, for every pair of limits and any number of failures.
THEOREM FailuresAreWindow == Spec => []DurableFailuresAreWindow
<1>1. WindowInv => DurableFailuresAreWindow
  BY DEF WindowInv, DurableFailuresAreWindow
<1> QED BY <1>1, Invariants, PTL

-----------------------------------------------------------------------------
(* One drain at a time *)

\* A hook is only entered while no drain is under way, so no drain lies below.
HooksBelowDrains ==
  \A i, j \in 1..Len(stack) :
    stack[i].kind = "hook" /\ stack[j].kind = "drain" => i < j
DrainInv == OneDrainAtATime /\ HooksBelowDrains

LEMMA StackPush ==
  ASSUME ControlInv, NEW frame \in Frame, stack' = Append(stack, frame)
  PROVE  /\ Len(stack) \in Nat /\ Len(stack') = Len(stack) + 1
         /\ \A i \in 1..Len(stack) : stack'[i] = stack[i]
         /\ stack'[Len(stack) + 1] = frame
<1>1. stack \in Seq(Frame)
  BY DEF ControlInv
<1> QED BY <1>1, AppendProperties, LenProperties

LEMMA StackPop ==
  ASSUME ControlInv, NEW kind, Running(kind), stack' = Front(stack)
  PROVE  /\ Len(stack) \in Nat \ {0} /\ Len(stack') = Len(stack) - 1
         /\ \A i \in 1..(Len(stack) - 1) : stack'[i] = stack[i]
         /\ stack[Len(stack)].kind = kind
<1>1. stack \in Seq(Frame) /\ stack # <<>> /\ Last(stack).kind = kind
  BY DEF ControlInv, Running
<1> QED BY <1>1, FrontLast DEF Last

\* Neither pushing nor popping anything but a drain or a hook disturbs it.
LEMMA QuietPush ==
  ASSUME ControlInv, DrainInv, NEW frame \in Frame, frame.kind \notin {"drain", "hook"},
         stack' = Append(stack, frame),
         UNCHANGED <<checkpointState, scheduledGeneration>>
  PROVE  DrainInv'
<1>1. /\ Len(stack) \in Nat /\ Len(stack') = Len(stack) + 1
      /\ \A i \in 1..Len(stack) : stack'[i] = stack[i]
      /\ stack'[Len(stack) + 1] = frame
  BY StackPush
<1>2. Drains' = Drains
  BY <1>1 DEF Drains
<1>3. HooksBelowDrains'
  BY <1>1 DEF HooksBelowDrains, DrainInv
<1> QED BY <1>2, <1>3 DEF DrainInv, OneDrainAtATime

LEMMA QuietPop ==
  ASSUME ControlInv, DrainInv, NEW kind, Running(kind), kind # "drain",
         stack' = Front(stack),
         UNCHANGED <<checkpointState, scheduledGeneration>>
  PROVE  DrainInv'
<1>1. /\ Len(stack) \in Nat \ {0} /\ Len(stack') = Len(stack) - 1
      /\ \A i \in 1..(Len(stack) - 1) : stack'[i] = stack[i]
      /\ stack[Len(stack)].kind = kind
  BY StackPop
<1>2. Drains' = Drains
  BY <1>1 DEF Drains
<1>3. HooksBelowDrains'
  BY <1>1 DEF HooksBelowDrains, DrainInv
<1> QED BY <1>2, <1>3 DEF DrainInv, OneDrainAtATime

LEMMA BeginDrainOnce ==
  ASSUME ControlInv, DrainInv, BeginDrain, checkpointState # "draining"
  PROVE  DrainInv'
<1>1. /\ Len(stack) \in Nat /\ Len(stack') = Len(stack) + 1
      /\ \A i \in 1..Len(stack) : stack'[i] = stack[i]
      /\ stack'[Len(stack) + 1] = DrainFrame
  BY FrameTypes, StackPush DEF BeginDrain, Push
<1>2. Drains = {} /\ checkpointState' = "draining" /\ scheduledGeneration' = 0
  BY DEF DrainInv, OneDrainAtATime, BeginDrain
<1>3. Drains' = {Len(stack) + 1}
  <2>1. \A i \in 1..Len(stack) : stack[i].kind # "drain"
    BY <1>2 DEF Drains
  <2>2. DrainFrame.kind = "drain"
    BY DEF DrainFrame
  <2>3. 1..Len(stack') = 1..Len(stack) \cup {Len(stack) + 1}
    BY <1>1
  <2> QED BY <1>1, <2>1, <2>2, <2>3 DEF Drains
<1>4. OneDrainAtATime'
  BY <1>2, <1>3 DEF OneDrainAtATime
<1>5. HooksBelowDrains'
  <2> SUFFICES ASSUME NEW i \in 1..Len(stack'), NEW j \in 1..Len(stack'),
                      stack'[i].kind = "hook", stack'[j].kind = "drain"
               PROVE  i < j
    BY DEF HooksBelowDrains
  <2>1. j = Len(stack) + 1
    BY <1>3 DEF Drains
  <2>2. i # Len(stack) + 1
    BY <1>1 DEF DrainFrame
  <2> QED BY <1>1, <2>1, <2>2
<1> QED BY <1>4, <1>5 DEF DrainInv

LEMMA DrainInit == Init => DrainInv
<1> SUFFICES ASSUME Init PROVE DrainInv
  OBVIOUS
<1>1. stack = <<>> /\ Len(stack) = 0 /\ checkpointState = "idle" /\ scheduledGeneration = 0
  BY EmptySeq DEF Init
<1>2. Drains = {}
  BY <1>1 DEF Drains
<1> QED BY <1>1, <1>2 DEF DrainInv, OneDrainAtATime, HooksBelowDrains

LEMMA DrainStep ==
  ASSUME QueueInv, ControlInv, DrainInv, [Next]_vars
  PROVE  DrainInv'
<1>1. ASSUME NEW realm \in Realms \cup {NullRealm}, Enqueue(realm)
      PROVE  DrainInv'
  <2>1. CASE ScheduleCheckpoint /\ checkpointState = "idle"
    <3> DEFINE frame == HookFrame(nextGeneration + 1)
    <3>1. frame \in Frame /\ nextGeneration + 1 > 0 /\ frame.kind = "hook"
      BY FrameTypes DEF ControlInv, HookFrame
    <3>2. stack' = Append(stack, frame)
      BY <2>1 DEF ScheduleCheckpoint, Push
    <3> HIDE DEF frame
    <3>3. /\ Len(stack) \in Nat /\ Len(stack') = Len(stack) + 1
          /\ \A i \in 1..Len(stack) : stack'[i] = stack[i]
          /\ stack'[Len(stack) + 1] = frame
      BY <3>1, <3>2, StackPush
    <3>4. Drains = {}
      BY <2>1 DEF DrainInv, OneDrainAtATime
    <3>5. \A j \in 1..Len(stack') : stack'[j].kind # "drain"
      <4>1. \A j \in 1..Len(stack) : stack[j].kind # "drain"
        BY <3>4 DEF Drains
      <4>2. 1..Len(stack') = 1..Len(stack) \cup {Len(stack) + 1}
        BY <3>3
      <4> QED BY <3>1, <3>3, <4>1, <4>2
    <3>6. checkpointState' = "scheduled" /\ scheduledGeneration' # 0
      BY <2>1, <3>1 DEF ScheduleCheckpoint
    <3>7. Drains' = {} /\ HooksBelowDrains'
      BY <3>5 DEF Drains, HooksBelowDrains
    <3> QED BY <3>6, <3>7 DEF DrainInv, OneDrainAtATime
  <2>2. CASE UNCHANGED <<stateVars, stack>>
    BY <2>2 DEF stateVars, DrainInv, OneDrainAtATime, Drains, HooksBelowDrains
  <2> QED BY <1>1, <2>1, <2>2 DEF Enqueue
<1>2. CASE HookReturn
  BY <1>2, QuietPop DEF HookReturn, Pop, stateVars
<1>3. CASE HookThrow
  <2>1. /\ Len(stack) \in Nat \ {0} /\ Len(stack') = Len(stack) - 1
        /\ \A i \in 1..(Len(stack) - 1) : stack'[i] = stack[i]
        /\ stack[Len(stack)].kind = "hook"
    BY <1>3, StackPop DEF HookThrow, Pop
  <2>2. \A j \in 1..Len(stack) : stack[j].kind # "drain"
    BY <2>1 DEF DrainInv, HooksBelowDrains
  <2>3. \A j \in 1..Len(stack') : stack'[j].kind # "drain"
    BY <2>1, <2>2
  <2>4. checkpointState' = "idle" /\ scheduledGeneration' = 0
    BY <1>3 DEF HookThrow
  <2>5. Drains' = {} /\ HooksBelowDrains'
    BY <2>3 DEF Drains, HooksBelowDrains
  <2> QED BY <2>4, <2>5 DEF DrainInv, OneDrainAtATime
<1>4. CASE RunJobs
  BY <1>4, BeginDrainOnce DEF RunJobs
<1>5. ASSUME NEW token \in callbacks, Checkpoint(token)
      PROVE  DrainInv'
  BY <1>5, BeginDrainOnce DEF Checkpoint
<1>6. CASE StartJob
  <2>1. jobs[jobHead + 1] \in Job
    <3>1. jobHead + 1 \in (jobHead + 1)..Len(jobs)
      BY <1>6, LenProperties DEF StartJob, QueueInv
    <3> QED BY <3>1 DEF QueueInv
  <2>2. /\ JobFrame(jobs[jobHead + 1], jobRealm) \in Frame
        /\ JobFrame(jobs[jobHead + 1], jobRealm).kind = "job"
    BY <2>1, FrameTypes DEF ControlInv, RealmOrNull, JobFrame
  <2> QED BY <1>6, <2>2, QuietPush DEF StartJob, Push, stateVars
<1>7. CASE EndDrain
  <2>1. /\ Len(stack) \in Nat \ {0} /\ Len(stack') = Len(stack) - 1
        /\ \A i \in 1..(Len(stack) - 1) : stack'[i] = stack[i]
        /\ stack[Len(stack)].kind = "drain"
    BY <1>7, StackPop DEF EndDrain, Pop
  <2>2. Len(stack) \in Drains
    BY <2>1 DEF Drains
  <2>3. \A i \in 1..(Len(stack) - 1) : stack[i].kind # "drain"
    BY <2>1, <2>2 DEF DrainInv, OneDrainAtATime, Drains
  <2>4. Drains' = {} /\ HooksBelowDrains'
    BY <2>1, <2>3 DEF Drains, HooksBelowDrains
  <2>5. checkpointState' = "idle" /\ scheduledGeneration' = 0
    BY <1>7 DEF EndDrain
  <2> QED BY <2>4, <2>5 DEF DrainInv, OneDrainAtATime
<1>8. CASE JobReturns
  BY <1>8, QuietPop DEF JobReturns, LeaveJob, Pop, stateVars
<1>9. CASE JobFails
  <2>1. CASE stack' = Front(stack)
    BY <1>9, <2>1, QuietPop DEF JobFails, LeaveJob, stateVars
  <2>2. CASE stack' = Append(Front(stack), ReportFrame(Last(stack).job))
    <3> DEFINE frame == ReportFrame(Last(stack).job)
    <3>1. Running("job") /\ stack \in Seq(Frame)
      BY <1>9 DEF JobFails, LeaveJob, ControlInv
    <3>2. frame \in Frame /\ frame.kind = "report"
      BY <3>1, TopFrame, FrameTypes DEF ReportFrame
    <3> HIDE DEF frame
    <3>3. stack # <<>> /\ Last(stack).kind = "job"
      BY <3>1 DEF Running
    <3>4. /\ Len(stack) \in Nat \ {0} /\ stack[Len(stack)].kind = "job"
          /\ Len(Front(stack)) = Len(stack) - 1
          /\ \A i \in 1..(Len(stack) - 1) : Front(stack)[i] = stack[i]
      BY <3>1, <3>3, FrontLast DEF Last
    <3>5. Front(stack) \in Seq(Frame) /\ stack' = Append(Front(stack), frame)
      BY <2>2, <3>1, FrontLast DEF frame
    <3>6. /\ Len(stack') = Len(Front(stack)) + 1
          /\ \A i \in 1..Len(Front(stack)) : stack'[i] = Front(stack)[i]
          /\ stack'[Len(Front(stack)) + 1] = frame
      BY <3>2, <3>5, AppendProperties
    <3>7. /\ Len(stack') = Len(stack)
          /\ \A i \in 1..(Len(stack) - 1) : stack'[i] = stack[i]
          /\ stack'[Len(stack)].kind = "report"
      BY <3>2, <3>4, <3>6
    <3>8. Drains' = Drains
      BY <3>4, <3>7 DEF Drains
    <3>9. HooksBelowDrains'
      BY <3>4, <3>7 DEF HooksBelowDrains, DrainInv
    <3> QED BY <1>9, <3>8, <3>9 DEF JobFails, stateVars, DrainInv, OneDrainAtATime
  <2> QED BY <1>9, <2>1, <2>2 DEF JobFails, Pop
<1>10. CASE ReportReturns
  BY <1>10, QuietPop DEF ReportReturns, Pop, stateVars
<1>11. CASE ReportThrows
  BY <1>11, QuietPop DEF ReportThrows, Pop, stateVars
<1>12. CASE TakeFailures \/ RecordHostHookFailure
  BY <1>12 DEF TakeFailures, RecordHostHookFailure, stateVars, DrainInv,
               OneDrainAtATime, Drains, HooksBelowDrains
<1>13. ASSUME NEW realm \in Realms, EnterRealm(realm)
       PROVE  DrainInv'
  <2>1. CallFrame(realm) \in Frame /\ CallFrame(realm).kind = "call"
    BY FrameTypes DEF CallFrame
  <2> QED BY <1>13, <2>1, QuietPush DEF EnterRealm, Push, stateVars
<1>14. CASE LeaveRealm
  BY <1>14, QuietPop DEF LeaveRealm, Pop, stateVars
<1>15. CASE UNCHANGED vars
  BY <1>15 DEF vars, stateVars, DrainInv, OneDrainAtATime, Drains, HooksBelowDrains
<1> QED BY <1>1, <1>2, <1>3, <1>4, <1>5, <1>6, <1>7, <1>8, <1>9, <1>10, <1>11,
          <1>12, <1>13, <1>14, <1>15 DEF Next

\* However callbacks are repeated, delayed or run early, and whatever foreign
\* code calls back into the queue, no second drain starts inside a first, and
\* the checkpoint state tells whether there is one.
THEOREM DrainsNeverNest == Spec => []OneDrainAtATime
<1>1. Spec => []DrainInv
  <2>1. QueueInv /\ ControlInv /\ WindowInv /\ DrainInv /\ [Next]_vars => DrainInv'
    BY DrainStep
  <2> QED BY <2>1, DrainInit, Invariants, PTL DEF Spec
<1>2. DrainInv => OneDrainAtATime
  BY DEF DrainInv
<1> QED BY <1>1, <1>2, PTL

-----------------------------------------------------------------------------
(* Jobs never wait without a checkpoint *)

CoverInv ==
  /\ checkpointState = "scheduled" => scheduledGeneration \in callbacks
  /\ PendingJobsAreCovered

LEMMA CoverStep ==
  ASSUME QueueInv, ControlInv, CoverInv, [Next]_vars
  PROVE  CoverInv'
<1> DEFINE quiet == UNCHANGED <<jobHost, checkpointState, scheduledGeneration,
                                callbacks, schedulerFailed>>
<1>1. ASSUME NEW realm \in Realms \cup {NullRealm}, Enqueue(realm)
      PROVE  CoverInv'
  <2>1. CASE ScheduleCheckpoint
    BY <2>1 DEF ScheduleCheckpoint, CoverInv, PendingJobsAreCovered
  <2>2. CASE /\ UNCHANGED <<stateVars, stack>>
             /\ ~(HasScheduler /\ checkpointState = "idle")
    <3>1. quiet
      BY <1>1, <2>2 DEF Enqueue, stateVars
    <3>2. checkpointState \in {"scheduled", "draining"} \/ ~HasScheduler
      BY <2>2 DEF ControlInv
    <3> QED BY <3>1, <3>2 DEF CoverInv, PendingJobsAreCovered, HasScheduler
  <2> QED BY <1>1, <2>1, <2>2 DEF Enqueue
<1>2. ASSUME quiet, Pending' # <<>> => Pending # <<>>
      PROVE  CoverInv'
  BY <1>2 DEF CoverInv, PendingJobsAreCovered, HasScheduler
<1>3. CASE StartJob
  <2>1. Pending # <<>>
    BY <1>3, TakeFirstSlot DEF StartJob
  <2> QED BY <1>2, <1>3, <2>1 DEF StartJob, stateVars
<1>4. CASE EndDrain
  <2>1. checkpointState' = "idle"
    BY <1>4 DEF EndDrain
  <2>2. Pending' = <<>>
    <3>1. jobs' = <<>> /\ jobHead' = 0
      BY <1>4 DEF EndDrain
    <3> QED BY <3>1, EmptySeq, SubSeqEmpty DEF Pending
  <2> QED BY <2>1, <2>2 DEF CoverInv, PendingJobsAreCovered
<1>5. CASE HookThrow
  BY <1>5 DEF HookThrow, CoverInv, PendingJobsAreCovered
<1>6. CASE BeginDrain
  BY <1>6 DEF BeginDrain, CoverInv, PendingJobsAreCovered
<1>7. CASE quiet /\ UNCHANGED queueVars
  <2>1. Pending' = Pending
    BY <1>7 DEF queueVars, Pending
  <2> QED BY <1>2, <1>7, <2>1
<1>8. \/ \E realm \in Realms \cup {NullRealm} : Enqueue(realm)
      \/ StartJob \/ EndDrain \/ HookThrow \/ BeginDrain
      \/ quiet /\ UNCHANGED queueVars
  BY DEF Next, vars, queueVars, stateVars, HookReturn, RunJobs, Checkpoint,
         JobReturns, JobFails, ReportReturns, ReportThrows, TakeFailures,
         RecordHostHookFailure, EnterRealm, LeaveRealm
<1> QED BY <1>1, <1>3, <1>4, <1>5, <1>6, <1>7, <1>8

\* A job accepted by an Agent with a scheduler is never left without a running
\* drain or a live checkpoint closure, unless scheduleMicrotask threw.
THEOREM JobsAreCovered == Spec => []PendingJobsAreCovered
<1>1. Init => CoverInv
  <2> SUFFICES ASSUME Init PROVE CoverInv
    OBVIOUS
  <2>1. Pending = <<>>
    BY EmptySeq, SubSeqEmpty DEF Init, Pending
  <2> QED BY <2>1 DEF Init, CoverInv, PendingJobsAreCovered
<1>2. QueueInv /\ ControlInv /\ WindowInv /\ CoverInv /\ [Next]_vars => CoverInv'
  BY CoverStep
<1>3. CoverInv => PendingJobsAreCovered
  BY DEF CoverInv
<1> QED BY <1>1, <1>2, <1>3, Invariants, PTL DEF Spec

-----------------------------------------------------------------------------
(* Realms *)

\* The activations that entered a Realm (or, with null, its barrier), and it.
Carries(frame) == frame.kind \in {"call", "job"}
EnteredRealm(frame) == IF frame.kind = "job" THEN frame.job.realm ELSE frame.realm

\* `height` counts, up to each activation, the entries of
\* Agent._executionRealmFrames that they account for.
Accounts(height, frames, realms) ==
  /\ height \in [0..Len(frames) -> Nat]
  /\ height[0] = 0
  /\ height[Len(frames)] = Len(realms)
  /\ \A i, j \in 0..Len(frames) : i <= j => height[i] <= height[j]
  /\ \A i \in 1..Len(frames) :
       IF Carries(frames[i])
         THEN height[i] = height[i - 1] + 1 /\ realms[height[i]] = EnteredRealm(frames[i])
         ELSE height[i] = height[i - 1]
Matched(frames, realms) == \E height : Accounts(height, frames, realms)

\* Nothing but a job and a reporter runs directly on a drain, and nothing else
\* changes the job Realm while they run.
JobRealmInv ==
  /\ \A i \in 1..Len(stack) : stack[i].kind \in {"job", "report"}
                                => i > 1 /\ stack[i - 1].kind = "drain"
  /\ \A i \in 1..Len(stack) : stack[i].kind = "job"
                                => stack[i].realm = NullRealm /\ jobRealm = stack[i].job.realm
  /\ (\A i \in 1..Len(stack) : stack[i].kind # "job") => jobRealm = NullRealm

RealmInv == Matched(stack, executionRealmFrames) /\ JobRealmInv

LEMMA PushKeepsMatch ==
  ASSUME NEW frames \in Seq(Frame), NEW realms \in Seq(RealmOrNull), Matched(frames, realms),
         NEW frame \in Frame, NEW realms2 \in Seq(RealmOrNull),
         IF Carries(frame) THEN realms2 = Append(realms, EnteredRealm(frame)) ELSE realms2 = realms,
         EnteredRealm(frame) \in RealmOrNull
  PROVE  Matched(Append(frames, frame), realms2)
<1> DEFINE n == Len(frames)
<1>1. PICK h : Accounts(h, frames, realms)
  BY DEF Matched
<1>2. n \in Nat /\ Len(realms) \in Nat
  BY LenProperties
<1>3. PICK f2 : f2 = Append(frames, frame)
  OBVIOUS
<1>4. /\ Len(f2) = n + 1
      /\ \A i \in 1..n : f2[i] = frames[i]
      /\ f2[n + 1] = frame
  BY <1>3, AppendProperties
<1>5. /\ Len(realms2) = Len(realms) + (IF Carries(frame) THEN 1 ELSE 0)
      /\ \A i \in 1..Len(realms) : realms2[i] = realms[i]
      /\ Carries(frame) => realms2[Len(realms) + 1] = EnteredRealm(frame)
  BY <1>2, AppendProperties
<1>6. PICK k : k = [i \in 0..(n + 1) |-> IF i <= n THEN h[i] ELSE Len(realms2)]
  OBVIOUS
<1>7. /\ h \in [0..n -> Nat] /\ h[0] = 0 /\ h[n] = Len(realms)
      /\ \A i, j \in 0..n : i <= j => h[i] <= h[j]
      /\ \A i \in 1..n :
           IF Carries(frames[i])
             THEN h[i] = h[i - 1] + 1 /\ realms[h[i]] = EnteredRealm(frames[i])
             ELSE h[i] = h[i - 1]
  BY <1>1 DEF Accounts
<1>8. Len(realms2) \in Nat /\ Len(realms) <= Len(realms2)
  BY <1>2, <1>5
<1>9. k \in [0..(n + 1) -> Nat] /\ k[0] = 0 /\ k[n + 1] = Len(realms2)
      /\ \A i \in 0..n : k[i] = h[i]
  BY <1>2, <1>6, <1>7, <1>8
<1>10. \A i, j \in 0..(n + 1) : i <= j => k[i] <= k[j]
  <2> SUFFICES ASSUME NEW i \in 0..(n + 1), NEW j \in 0..(n + 1), i <= j
               PROVE  k[i] <= k[j]
    OBVIOUS
  <2>1. CASE j <= n
    <3>1. i \in 0..n /\ j \in 0..n
      BY <1>2, <2>1
    <3>2. h[i] <= h[j] /\ k[i] = h[i] /\ k[j] = h[j]
      BY <1>7, <1>9, <3>1
    <3> QED BY <3>2
  <2>2. CASE j = n + 1 /\ i <= n
    <3>1. h[i] <= h[n]
      BY <1>2, <1>7, <2>2
    <3>2. h[i] \in Nat
      BY <1>2, <1>7, <2>2
    <3> QED BY <1>2, <1>7, <1>8, <1>9, <2>2, <3>1, <3>2
  <2>3. CASE j = n + 1 /\ i = n + 1
    BY <1>8, <1>9, <2>3
  <2> QED BY <1>2, <2>1, <2>2, <2>3
<1>11. ASSUME NEW i \in 1..(n + 1)
       PROVE  IF Carries(f2[i])
                THEN k[i] = k[i - 1] + 1 /\ realms2[k[i]] = EnteredRealm(f2[i])
                ELSE k[i] = k[i - 1]
  <2>1. CASE i <= n
    <3>1. i \in 1..n /\ i - 1 \in 0..n /\ f2[i] = frames[i]
          /\ k[i] = h[i] /\ k[i - 1] = h[i - 1]
      BY <1>2, <1>4, <1>9, <2>1
    <3>2. CASE Carries(frames[i])
      <4>1. h[i] = h[i - 1] + 1 /\ realms[h[i]] = EnteredRealm(frames[i])
        BY <1>7, <3>1, <3>2
      <4>2. h[i] \in 1..Len(realms)
        <5>1. i \in 0..n /\ n \in 0..n /\ i <= n
          BY <1>2, <3>1
        <5>2. h[i - 1] \in Nat /\ h[i] <= h[n] /\ h[n] = Len(realms)
          BY <1>7, <3>1, <5>1
        <5> QED BY <1>2, <4>1, <5>2
      <4> QED BY <1>5, <3>1, <3>2, <4>1, <4>2
    <3>3. CASE ~Carries(frames[i])
      BY <1>7, <3>1, <3>3
    <3> QED BY <3>2, <3>3
  <2>2. CASE i = n + 1
    <3>1. f2[i] = frame /\ k[i] = Len(realms2) /\ k[i - 1] = Len(realms)
      BY <1>2, <1>4, <1>7, <1>9, <2>2
    <3> QED BY <1>2, <1>5, <3>1
  <2> QED BY <1>2, <2>1, <2>2
<1>12. Accounts(k, f2, realms2)
  BY <1>4, <1>9, <1>10, <1>11 DEF Accounts
<1> QED BY <1>3, <1>12 DEF Matched

LEMMA PopKeepsMatch ==
  ASSUME NEW frames \in Seq(Frame), frames # <<>>, NEW realms \in Seq(RealmOrNull),
         Matched(frames, realms), NEW realms2 \in Seq(RealmOrNull),
         realms2 = IF Carries(Last(frames)) THEN Front(realms) ELSE realms
  PROVE  Matched(Front(frames), realms2)
<1> DEFINE n == Len(frames)
<1>1. PICK h : Accounts(h, frames, realms)
  BY DEF Matched
<1>2. n \in Nat \ {0} /\ Len(realms) \in Nat
  BY LenProperties, FrontLast
<1>3. PICK f2 : f2 = Front(frames)
  OBVIOUS
<1>4. Len(f2) = n - 1 /\ \A i \in 1..(n - 1) : f2[i] = frames[i]
  BY <1>3, FrontLast
<1>5. Last(frames) = frames[n]
  BY DEF Last
<1>6. /\ h \in [0..n -> Nat] /\ h[0] = 0 /\ h[n] = Len(realms)
      /\ \A i, j \in 0..n : i <= j => h[i] <= h[j]
      /\ \A i \in 1..n :
           IF Carries(frames[i])
             THEN h[i] = h[i - 1] + 1 /\ realms[h[i]] = EnteredRealm(frames[i])
             ELSE h[i] = h[i - 1]
  BY <1>1 DEF Accounts
<1>7. /\ h[n - 1] = Len(realms2) /\ Len(realms2) <= Len(realms)
      /\ \A i \in 1..Len(realms2) : realms2[i] = realms[i]
  <2>1. n \in 1..n /\ h[n - 1] \in Nat
    BY <1>2, <1>6
  <2>2. CASE Carries(frames[n])
    <3>1. h[n] = h[n - 1] + 1
      BY <1>6, <2>1, <2>2
    <3>2. Len(realms) > 0
      BY <1>2, <1>6, <2>1, <3>1
    <3>3. realms # <<>>
      BY <3>2, EmptySeq
    <3>4. /\ Len(Front(realms)) = Len(realms) - 1
          /\ \A i \in 1..(Len(realms) - 1) : Front(realms)[i] = realms[i]
      BY <3>3, FrontLast
    <3>5. realms2 = Front(realms)
      BY <1>5, <2>2
    <3> QED BY <1>2, <1>6, <2>1, <3>1, <3>4, <3>5
  <2>3. CASE ~Carries(frames[n])
    BY <1>2, <1>5, <1>6, <2>1, <2>3
  <2> QED BY <2>2, <2>3
<1>8. PICK k : k = [i \in 0..(n - 1) |-> h[i]]
  OBVIOUS
<1>9. /\ k \in [0..(n - 1) -> Nat] /\ k[0] = 0 /\ k[n - 1] = Len(realms2)
      /\ \A i \in 0..(n - 1) : k[i] = h[i]
      /\ \A i, j \in 0..(n - 1) : i <= j => k[i] <= k[j]
  BY <1>2, <1>6, <1>7, <1>8
<1>10. ASSUME NEW i \in 1..(n - 1)
       PROVE  IF Carries(f2[i])
                THEN k[i] = k[i - 1] + 1 /\ realms2[k[i]] = EnteredRealm(f2[i])
                ELSE k[i] = k[i - 1]
  <2>1. /\ i \in 1..n /\ i - 1 \in 0..(n - 1) /\ f2[i] = frames[i]
        /\ k[i] = h[i] /\ k[i - 1] = h[i - 1]
    BY <1>2, <1>4, <1>9
  <2>2. CASE Carries(frames[i])
    <3>1. h[i] = h[i - 1] + 1 /\ realms[h[i]] = EnteredRealm(frames[i])
      BY <1>6, <2>1, <2>2
    <3>2. h[i] \in 1..Len(realms2)
      <4>1. i - 1 \in 0..n /\ i \in 0..n /\ n - 1 \in 0..n /\ i <= n - 1
        BY <1>2, <2>1
      <4>2. h[i - 1] \in Nat /\ h[i] <= h[n - 1] /\ h[n - 1] = Len(realms2)
            /\ h[n - 1] \in Nat
        BY <1>6, <1>7, <4>1
      <4> QED BY <3>1, <4>2
    <3> QED BY <1>7, <2>1, <2>2, <3>1, <3>2
  <2>3. CASE ~Carries(frames[i])
    BY <1>6, <2>1, <2>3
  <2> QED BY <2>2, <2>3
<1>11. Accounts(k, f2, realms2)
  BY <1>4, <1>9, <1>10 DEF Accounts
<1> QED BY <1>3, <1>11 DEF Matched

\* The Realm of the innermost activation is the active execution Realm.
LEMMA MatchedTop ==
  ASSUME NEW frames \in Seq(Frame), NEW realms \in Seq(RealmOrNull), Matched(frames, realms)
  PROVE  /\ frames = <<>> => realms = <<>>
         /\ frames # <<>> /\ Carries(Last(frames))
              => realms # <<>> /\ Last(realms) = EnteredRealm(Last(frames))
<1>1. PICK h : Accounts(h, frames, realms)
  BY DEF Matched
<1>2. /\ Len(frames) \in Nat /\ Len(realms) \in Nat
      /\ (frames = <<>> <=> Len(frames) = 0) /\ (realms = <<>> <=> Len(realms) = 0)
  BY LenProperties, EmptySeq
<1>3. frames = <<>> => realms = <<>>
  BY <1>1, <1>2 DEF Accounts
<1>4. ASSUME frames # <<>>, Carries(Last(frames))
      PROVE  realms # <<>> /\ Last(realms) = EnteredRealm(Last(frames))
  <2>1. Len(frames) \in 1..Len(frames) /\ Len(frames) - 1 \in 0..Len(frames)
        /\ Last(frames) = frames[Len(frames)]
    BY <1>2, <1>4 DEF Last
  <2>2. /\ h[Len(frames)] = h[Len(frames) - 1] + 1
        /\ realms[h[Len(frames)]] = EnteredRealm(frames[Len(frames)])
        /\ h[Len(frames)] = Len(realms)
        /\ h[Len(frames) - 1] \in Nat
    BY <1>1, <1>4, <2>1 DEF Accounts
  <2>3. Len(realms) > 0 /\ realms[Len(realms)] = EnteredRealm(Last(frames))
    BY <1>2, <2>1, <2>2
  <2> QED BY <1>2, <2>3 DEF Last
<1> QED BY <1>3, <1>4

\* With one drain at a time there is one job at a time, right above it.
LEMMA WhereJobsAre ==
  ASSUME ControlInv, DrainInv, JobRealmInv
  PROVE  /\ checkpointState # "draining" => \A i \in 1..Len(stack) : stack[i].kind # "job"
         /\ Running("drain") \/ Running("report")
              => (\A i \in 1..Len(stack) : stack[i].kind # "job") /\ jobRealm = NullRealm
         /\ Running("job")
              => /\ Len(stack) > 1 /\ stack[Len(stack) - 1].kind = "drain"
                 /\ \A i \in 1..(Len(stack) - 1) : stack[i].kind # "job"
                 /\ Last(stack).realm = NullRealm /\ jobRealm = Last(stack).job.realm
<1>1. Len(stack) \in Nat /\ (stack # <<>> => Len(stack) \in 1..Len(stack))
  BY LenProperties, EmptySeq DEF ControlInv
<1>2. \A i, j \in 1..Len(stack) : stack[i].kind = "drain" /\ stack[j].kind = "drain" => i = j
  BY DEF DrainInv, OneDrainAtATime, Drains
<1>3. \A i \in 1..Len(stack) : stack[i].kind \in {"job", "report"}
        => i > 1 /\ i - 1 \in 1..Len(stack) /\ stack[i - 1].kind = "drain"
  BY <1>1 DEF JobRealmInv
<1>4. checkpointState # "draining" => \A i \in 1..Len(stack) : stack[i].kind # "job"
  <2>1. checkpointState # "draining" => \A i \in 1..Len(stack) : stack[i].kind # "drain"
    BY DEF DrainInv, OneDrainAtATime, Drains
  <2> QED BY <1>3, <2>1
<1>5. ASSUME Running("drain") \/ Running("report")
      PROVE  (\A i \in 1..Len(stack) : stack[i].kind # "job") /\ jobRealm = NullRealm
  <2>1. Len(stack) \in 1..Len(stack) /\ stack[Len(stack)].kind \in {"drain", "report"}
    BY <1>1, <1>5 DEF Running, Last
  <2>2. ASSUME NEW i \in 1..Len(stack), stack[i].kind = "job"
        PROVE  FALSE
    <3>1. i > 1 /\ i - 1 \in 1..Len(stack) /\ stack[i - 1].kind = "drain"
      BY <1>3, <2>2
    <3>2. CASE stack[Len(stack)].kind = "drain"
      BY <1>1, <1>2, <2>1, <3>1, <3>2
    <3>3. CASE stack[Len(stack)].kind = "report"
      <4>1. Len(stack) - 1 \in 1..Len(stack) /\ stack[Len(stack) - 1].kind = "drain"
        BY <1>3, <2>1, <3>3
      <4>2. i - 1 = Len(stack) - 1
        BY <1>2, <3>1, <4>1
      <4>3. i = Len(stack)
        BY <1>1, <4>2
      <4> QED BY <2>2, <3>3, <4>3
    <3> QED BY <2>1, <3>2, <3>3
  <2> QED BY <2>2 DEF JobRealmInv
<1>6. ASSUME Running("job")
      PROVE  /\ Len(stack) > 1 /\ stack[Len(stack) - 1].kind = "drain"
             /\ \A i \in 1..(Len(stack) - 1) : stack[i].kind # "job"
             /\ Last(stack).realm = NullRealm /\ jobRealm = Last(stack).job.realm
  <2>1. Len(stack) \in 1..Len(stack) /\ stack[Len(stack)].kind = "job"
        /\ Last(stack) = stack[Len(stack)]
    BY <1>1, <1>6 DEF Running, Last
  <2>2. /\ Len(stack) > 1 /\ Len(stack) - 1 \in 1..Len(stack)
        /\ stack[Len(stack) - 1].kind = "drain"
    BY <1>3, <2>1
  <2>3. ASSUME NEW i \in 1..(Len(stack) - 1), stack[i].kind = "job"
        PROVE  FALSE
    <3>1. i \in 1..Len(stack)
      BY <1>1
    <3>2. i - 1 \in 1..Len(stack) /\ stack[i - 1].kind = "drain"
      BY <1>3, <2>3, <3>1
    <3>3. i - 1 = Len(stack) - 1
      BY <1>2, <2>2, <3>2
    <3> QED BY <1>1, <3>3
  <2>4. Last(stack).realm = NullRealm /\ jobRealm = Last(stack).job.realm
    BY <2>1 DEF JobRealmInv
  <2> QED BY <2>2, <2>3, <2>4
<1> QED BY <1>4, <1>5, <1>6

LEMMA JobRealmPush ==
  ASSUME ControlInv, JobRealmInv, NEW frame \in Frame, frame.kind \notin {"job", "report"},
         stack' = Append(stack, frame), jobRealm' = jobRealm
  PROVE  JobRealmInv'
<1>1. /\ Len(stack) \in Nat /\ Len(stack') = Len(stack) + 1
      /\ \A i \in 1..Len(stack) : stack'[i] = stack[i]
      /\ stack'[Len(stack) + 1] = frame
  BY StackPush
<1>2. \A i \in 1..Len(stack') : i \in 1..Len(stack) \/ stack'[i].kind \notin {"job", "report"}
  BY <1>1
<1>3. \A i \in 1..Len(stack) : i - 1 \in 1..Len(stack) => stack'[i - 1] = stack[i - 1]
  BY <1>1
<1>4. \A i \in 1..Len(stack') : stack'[i].kind \in {"job", "report"}
        => i > 1 /\ stack'[i - 1].kind = "drain"
  BY <1>1, <1>2, <1>3 DEF JobRealmInv
<1>5. \A i \in 1..Len(stack') : stack'[i].kind = "job"
        => stack'[i].realm = NullRealm /\ jobRealm' = stack'[i].job.realm
  BY <1>1, <1>2 DEF JobRealmInv
<1>6. (\A i \in 1..Len(stack') : stack'[i].kind # "job") => jobRealm' = NullRealm
  <2>1. \A i \in 1..Len(stack) : i \in 1..Len(stack') /\ stack'[i].kind = stack[i].kind
    BY <1>1
  <2> QED BY <2>1 DEF JobRealmInv
<1> QED BY <1>4, <1>5, <1>6 DEF JobRealmInv

\* Popping anything puts things back, if it is not the drain's job that ends or
\* the job Realm is cleared.
LEMMA JobRealmPop ==
  ASSUME ControlInv, DrainInv, JobRealmInv, NEW kind, Running(kind),
         stack' = Front(stack),
         IF kind \in {"job", "drain"} THEN jobRealm' = NullRealm ELSE jobRealm' = jobRealm
  PROVE  JobRealmInv'
<1>1. /\ Len(stack) \in Nat \ {0} /\ Len(stack') = Len(stack) - 1
      /\ \A i \in 1..(Len(stack) - 1) : stack'[i] = stack[i]
      /\ stack[Len(stack)].kind = kind
  BY StackPop
<1>2. \A i \in 1..Len(stack') : /\ i \in 1..Len(stack) /\ stack'[i] = stack[i]
                                /\ i > 1 => stack'[i - 1] = stack[i - 1]
  BY <1>1
<1>3. \A i \in 1..Len(stack') : stack'[i].kind \in {"job", "report"}
        => i > 1 /\ stack'[i - 1].kind = "drain"
  BY <1>2 DEF JobRealmInv
<1>4. CASE kind \in {"job", "drain"}
  <2>1. \A i \in 1..Len(stack') : stack'[i].kind # "job"
    <3>1. \A i \in 1..(Len(stack) - 1) : stack[i].kind # "job"
      <4>1. CASE kind = "job"
        BY <4>1, WhereJobsAre
      <4>2. CASE kind = "drain"
        <5>1. \A i \in 1..Len(stack) : stack[i].kind # "job"
          BY <4>2, WhereJobsAre
        <5> QED BY <1>1, <5>1
      <4> QED BY <1>4, <4>1, <4>2
    <3> QED BY <1>1, <3>1
  <2> QED BY <1>3, <1>4, <2>1 DEF JobRealmInv
<1>5. CASE kind \notin {"job", "drain"}
  <2>1. jobRealm' = jobRealm
    BY <1>5
  <2>2. (\A i \in 1..Len(stack') : stack'[i].kind # "job")
          => (\A i \in 1..Len(stack) : stack[i].kind # "job")
    <3>1. \A i \in 1..Len(stack) : i \in 1..Len(stack') \/ i = Len(stack)
      BY <1>1
    <3> QED BY <1>1, <1>2, <1>5, <3>1
  <2>3. \A i \in 1..Len(stack') : stack'[i].kind = "job"
          => stack'[i].realm = NullRealm /\ jobRealm' = stack'[i].job.realm
    BY <1>2, <2>1 DEF JobRealmInv
  <2>4. (\A i \in 1..Len(stack') : stack'[i].kind # "job") => jobRealm' = NullRealm
    BY <2>1, <2>2 DEF JobRealmInv
  <2> QED BY <1>3, <2>3, <2>4 DEF JobRealmInv
<1> QED BY <1>4, <1>5

LEMMA RealmPush ==
  ASSUME ControlInv, RealmInv, NEW frame \in Frame, frame.kind \notin {"job", "report"},
         stack' = Append(stack, frame), jobRealm' = jobRealm,
         executionRealmFrames' = IF frame.kind = "call" THEN Append(executionRealmFrames, frame.realm)
                                                        ELSE executionRealmFrames
  PROVE  RealmInv'
<1>1. JobRealmInv'
  BY JobRealmPush DEF RealmInv
<1>2. EnteredRealm(frame) = frame.realm /\ frame.realm \in RealmOrNull
      /\ (Carries(frame) <=> frame.kind = "call")
  BY DEF EnteredRealm, Carries, Frame, RealmOrNull
<1>3. stack \in Seq(Frame) /\ executionRealmFrames \in Seq(RealmOrNull)
      /\ executionRealmFrames' \in Seq(RealmOrNull)
  BY <1>2, AppendProperties DEF ControlInv
<1>4. Matched(Append(stack, frame), executionRealmFrames')
  BY <1>2, <1>3, PushKeepsMatch DEF RealmInv
<1> QED BY <1>1, <1>4 DEF RealmInv

LEMMA RealmPop ==
  ASSUME ControlInv, DrainInv, RealmInv, NEW kind, Running(kind),
         stack' = Front(stack),
         IF kind \in {"job", "drain"} THEN jobRealm' = NullRealm ELSE jobRealm' = jobRealm,
         executionRealmFrames' = IF kind \in {"call", "job"} THEN Front(executionRealmFrames)
                                                            ELSE executionRealmFrames
  PROVE  RealmInv'
<1>1. JobRealmInv'
  BY JobRealmPop DEF RealmInv
<1>2. stack # <<>> /\ (Carries(Last(stack)) <=> kind \in {"call", "job"})
  BY DEF Running, Carries
<1>3. stack \in Seq(Frame) /\ executionRealmFrames \in Seq(RealmOrNull)
      /\ executionRealmFrames' \in Seq(RealmOrNull)
  BY PushPop DEF ControlInv
<1>4. Matched(Front(stack), executionRealmFrames')
  BY <1>2, <1>3, PopKeepsMatch DEF RealmInv
<1> QED BY <1>1, <1>4 DEF RealmInv

LEMMA RealmInit == Init => RealmInv
<1> SUFFICES ASSUME Init PROVE RealmInv
  OBVIOUS
<1>1. Len(stack) = 0 /\ Len(executionRealmFrames) = 0
  BY EmptySeq DEF Init
<1>2. Accounts([i \in 0..0 |-> 0], stack, executionRealmFrames)
  BY <1>1 DEF Accounts
<1> QED BY <1>1, <1>2 DEF Init, RealmInv, Matched, JobRealmInv

LEMMA RealmStep ==
  ASSUME QueueInv, ControlInv, DrainInv, RealmInv, [Next]_vars
  PROVE  RealmInv'
<1> DEFINE quiet == UNCHANGED <<stack, executionRealmFrames, jobRealm>>
<1>1. ASSUME quiet PROVE RealmInv'
  BY <1>1 DEF RealmInv, JobRealmInv
<1>2. ASSUME NEW realm \in Realms \cup {NullRealm}, Enqueue(realm)
      PROVE  RealmInv'
  <2>1. CASE ScheduleCheckpoint
    <3>1. HookFrame(nextGeneration + 1) \in Frame
      BY FrameTypes DEF ControlInv
    <3> QED BY <1>2, <2>1, <3>1, RealmPush
            DEF Enqueue, ScheduleCheckpoint, Push, HookFrame, realmVars
  <2>2. CASE UNCHANGED <<stateVars, stack>>
    BY <1>1, <1>2, <2>2 DEF Enqueue, realmVars
  <2> QED BY <1>2, <2>1, <2>2 DEF Enqueue
<1>3. CASE HookReturn \/ HookThrow
  BY <1>3, RealmPop DEF HookReturn, HookThrow, Pop, realmVars
<1>4. CASE BeginDrain
  BY <1>4, FrameTypes, RealmPush DEF BeginDrain, Push, DrainFrame, realmVars
<1>5. CASE StartJob
  <2>1. PICK job : job = jobs[jobHead + 1]
    OBVIOUS
  <2>2. job \in Job /\ job.realm \in RealmOrNull
    <3>1. jobHead + 1 \in (jobHead + 1)..Len(jobs)
      BY <1>5, LenProperties DEF StartJob, QueueInv
    <3> QED BY <2>1, <3>1 DEF QueueInv, Job, RealmOrNull
  <2>3. Running("drain") /\ jobRealm = NullRealm
        /\ \A i \in 1..Len(stack) : stack[i].kind # "job"
    BY <1>5, WhereJobsAre DEF StartJob, RealmInv
  <2>4. PICK frame : frame = JobFrame(job, jobRealm)
    OBVIOUS
  <2>5. frame \in Frame /\ frame.kind = "job" /\ frame.realm = NullRealm /\ frame.job = job
    BY <2>2, <2>3, <2>4, FrameTypes DEF JobFrame
  <2>6. /\ stack' = Append(stack, frame) /\ jobRealm' = job.realm
        /\ executionRealmFrames' = Append(executionRealmFrames, job.realm)
    BY <1>5, <2>1, <2>4 DEF StartJob, Push
  <2>7. /\ Len(stack) \in Nat /\ Len(stack') = Len(stack) + 1
        /\ \A i \in 1..Len(stack) : stack'[i] = stack[i]
        /\ stack'[Len(stack) + 1] = frame
    BY <2>5, <2>6, StackPush
  <2>8. Len(stack) > 0 /\ stack[Len(stack)].kind = "drain"
    BY <2>3, <2>7, EmptySeq DEF Running, Last, ControlInv
  <2>9. \A i \in 1..Len(stack') : stack'[i].kind \in {"job", "report"}
          => i > 1 /\ stack'[i - 1].kind = "drain"
    <3> SUFFICES ASSUME NEW i \in 1..Len(stack'), stack'[i].kind \in {"job", "report"}
                 PROVE  i > 1 /\ stack'[i - 1].kind = "drain"
      OBVIOUS
    <3>1. CASE i \in 1..Len(stack)
      <4>1. i > 1 /\ stack[i - 1].kind = "drain"
        BY <2>7, <3>1 DEF RealmInv, JobRealmInv
      <4>2. i - 1 \in 1..Len(stack)
        BY <2>7, <3>1, <4>1
      <4> QED BY <2>7, <4>1, <4>2
    <3>2. CASE i = Len(stack) + 1
      BY <2>7, <2>8, <3>2
    <3> QED BY <2>7, <3>1, <3>2
  <2>10. \A i \in 1..Len(stack') : stack'[i].kind = "job" => stack'[i] = frame
    BY <2>3, <2>7
  <2>11. JobRealmInv'
    <3>1. Len(stack) + 1 \in 1..Len(stack') /\ stack'[Len(stack) + 1].kind = "job"
      BY <2>5, <2>7
    <3> QED BY <2>5, <2>6, <2>9, <2>10, <3>1 DEF JobRealmInv
  <2>12. Matched(Append(stack, frame), executionRealmFrames')
    <3>1. Carries(frame) /\ EnteredRealm(frame) = job.realm
      BY <2>5 DEF Carries, EnteredRealm
    <3>2. stack \in Seq(Frame) /\ executionRealmFrames \in Seq(RealmOrNull)
          /\ executionRealmFrames' \in Seq(RealmOrNull)
      BY <2>2, <2>6, PushPop DEF ControlInv
    <3> QED BY <2>2, <2>5, <2>6, <3>1, <3>2, PushKeepsMatch DEF RealmInv
  <2> QED BY <2>6, <2>11, <2>12 DEF RealmInv
<1>6. CASE EndDrain
  BY <1>6, RealmPop DEF EndDrain, Pop
<1>7. CASE JobReturns
  <2>1. jobRealm' = NullRealm
    BY <1>7, WhereJobsAre DEF JobReturns, LeaveJob, RealmInv
  <2> QED BY <1>7, <2>1, RealmPop DEF JobReturns, LeaveJob, Pop
<1>8. CASE JobFails
  <2>1. /\ Running("job") /\ jobRealm' = NullRealm
        /\ executionRealmFrames' = Front(executionRealmFrames)
        /\ Len(stack) > 1 /\ stack[Len(stack) - 1].kind = "drain"
        /\ \A i \in 1..(Len(stack) - 1) : stack[i].kind # "job"
    BY <1>8, WhereJobsAre DEF JobFails, LeaveJob, RealmInv
  <2>2. CASE stack' = Front(stack)
    BY <2>1, <2>2, RealmPop
  <2>3. CASE stack' = Append(Front(stack), ReportFrame(Last(stack).job))
    <3>1. PICK frame : frame = ReportFrame(Last(stack).job)
      OBVIOUS
    <3>2. frame \in Frame /\ frame.kind = "report"
      BY <2>1, <3>1, TopFrame, FrameTypes DEF ReportFrame
    <3>3. /\ Front(stack) \in Seq(Frame) /\ Len(stack) \in Nat
          /\ Len(Front(stack)) = Len(stack) - 1
          /\ \A i \in 1..(Len(stack) - 1) : Front(stack)[i] = stack[i]
      BY <2>1, FrontLast, LenProperties DEF Running, ControlInv
    <3>4. /\ Len(stack') = Len(Front(stack)) + 1
          /\ \A i \in 1..Len(Front(stack)) : stack'[i] = Front(stack)[i]
          /\ stack'[Len(Front(stack)) + 1] = frame
      BY <2>3, <3>1, <3>2, <3>3, AppendProperties
    <3>5. /\ Len(stack') = Len(stack) /\ stack'[Len(stack)].kind = "report"
          /\ \A i \in 1..(Len(stack) - 1) : stack'[i] = stack[i]
      BY <3>2, <3>3, <3>4
    <3>6. \A i \in 1..Len(stack') : stack'[i].kind # "job"
      <4>1. \A i \in 1..Len(stack') : i \in 1..(Len(stack) - 1) \/ i = Len(stack)
        BY <3>3, <3>5
      <4> QED BY <2>1, <3>5, <4>1
    <3>7. \A i \in 1..Len(stack') : stack'[i].kind \in {"job", "report"}
            => i > 1 /\ stack'[i - 1].kind = "drain"
      <4> SUFFICES ASSUME NEW i \in 1..Len(stack'), stack'[i].kind \in {"job", "report"}
                   PROVE  i > 1 /\ stack'[i - 1].kind = "drain"
        OBVIOUS
      <4>1. CASE i \in 1..(Len(stack) - 1)
        <5>1. i > 1 /\ stack[i - 1].kind = "drain"
          BY <3>3, <3>5, <4>1 DEF RealmInv, JobRealmInv
        <5> QED BY <3>3, <3>5, <4>1, <5>1
      <4>2. CASE i = Len(stack)
        <5>1. Len(stack) - 1 \in 1..(Len(stack) - 1)
          BY <2>1, <3>3
        <5> QED BY <2>1, <3>3, <3>5, <4>2, <5>1
      <4> QED BY <3>3, <3>5, <4>1, <4>2
    <3>8. JobRealmInv'
      BY <2>1, <3>6, <3>7 DEF JobRealmInv
    <3>9. Matched(Front(stack), executionRealmFrames')
      <4>1. stack # <<>> /\ Carries(Last(stack))
        BY <2>1 DEF Running, Carries
      <4>2. stack \in Seq(Frame) /\ executionRealmFrames \in Seq(RealmOrNull)
            /\ executionRealmFrames' \in Seq(RealmOrNull)
        BY <2>1, PushPop DEF ControlInv
      <4> QED BY <2>1, <4>1, <4>2, PopKeepsMatch DEF RealmInv
    <3>10. Matched(Append(Front(stack), frame), executionRealmFrames')
      <4>1. ~Carries(frame) /\ EnteredRealm(frame) \in RealmOrNull
        BY <3>2 DEF Carries, EnteredRealm, Frame, RealmOrNull
      <4>2. executionRealmFrames' \in Seq(RealmOrNull)
        BY <2>1, PushPop
      <4> QED BY <3>2, <3>3, <3>9, <4>1, <4>2, PushKeepsMatch
    <3> QED BY <2>3, <3>1, <3>8, <3>10 DEF RealmInv
  <2> QED BY <1>8, <2>2, <2>3 DEF JobFails, Pop
<1>9. CASE ReportReturns \/ ReportThrows
  BY <1>9, RealmPop DEF ReportReturns, ReportThrows, Pop, realmVars
<1>10. CASE TakeFailures \/ RecordHostHookFailure \/ UNCHANGED vars
  BY <1>1, <1>10 DEF TakeFailures, RecordHostHookFailure, realmVars, vars
<1>11. ASSUME NEW realm \in Realms, EnterRealm(realm)
       PROVE  RealmInv'
  BY <1>11, FrameTypes, RealmPush DEF EnterRealm, Push, CallFrame
<1>12. CASE LeaveRealm
  BY <1>12, RealmPop DEF LeaveRealm, Pop
<1> QED BY <1>2, <1>3, <1>4, <1>5, <1>6, <1>7, <1>8, <1>9, <1>10, <1>11, <1>12
        DEF Next, RunJobs, Checkpoint

\* A job runs in the Realm it was enqueued with and in no other, whatever calls
\* it makes and whoever asked for the drain, and every Realm is left again.
THEOREM JobsRunInTheirRealm == Spec => []JobRunsInItsRealm
<1>1. ControlInv /\ DrainInv /\ RealmInv => JobRunsInItsRealm
  <2> SUFFICES ASSUME ControlInv, DrainInv, RealmInv PROVE JobRunsInItsRealm
    OBVIOUS
  <2>1. /\ stack = <<>> => executionRealmFrames = <<>>
        /\ stack # <<>> /\ Carries(Last(stack))
             => /\ executionRealmFrames # <<>>
                /\ Last(executionRealmFrames) = EnteredRealm(Last(stack))
    BY MatchedTop DEF ControlInv, RealmInv
  <2>2. stack = <<>> => jobRealm = NullRealm
    BY EmptySeq DEF RealmInv, JobRealmInv
  <2>3. Running("report") => jobRealm = NullRealm
    BY WhereJobsAre DEF RealmInv
  <2>4. Running("job") => jobRealm = Last(stack).job.realm
    BY WhereJobsAre DEF RealmInv
  <2>5. Running("job") => activeExecutionRealm = Last(stack).job.realm
    BY <2>1 DEF Running, Carries, EnteredRealm, activeExecutionRealm
  <2>6. Running("call") => activeExecutionRealm = Last(stack).realm
    BY <2>1 DEF Running, Carries, EnteredRealm, activeExecutionRealm
  <2> QED BY <2>1, <2>2, <2>3, <2>4, <2>5, <2>6 DEF JobRunsInItsRealm
<1>2. QueueInv /\ ControlInv /\ WindowInv /\ DrainInv /\ RealmInv /\ [Next]_vars
        => (DrainInv /\ RealmInv)'
  BY DrainStep, RealmStep
<1>3. Init => DrainInv /\ RealmInv
  BY DrainInit, RealmInit
<1> QED BY <1>1, <1>2, <1>3, Invariants, PTL DEF Spec
=============================================================================
