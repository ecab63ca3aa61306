---------------------------- MODULE ReactionProofs ----------------------------
(***************************************************************************)
(* What TLAPS proves of reactions in Promises: a reaction is run once, and *)
(* reactions of one promise are run in the order of their registration     *)
(* where no scheduler drains the queue while they are being enqueued.      *)
(*                                                                         *)
(* The argument for `once`: the places where the reactions of a pair wait  *)
(* or run are counted, in the queue, in the activations, in the promises   *)
(* and in what is left of their buffers.  A step takes a reaction from one *)
(* place to another, makes one for a pair the program does not hold, or    *)
(* ends one together with what its pair was for.                           *)
(*                                                                         *)
(* The argument for the order: a pair is numbered when its reaction is     *)
(* registered, so each place holds reactions in the order of their pairs,  *)
(* behind those of the same promise in the queue; and only the innermost   *)
(* activation has any to enqueue, whose promise has none elsewhere.        *)
(***************************************************************************)
EXTENDS AdoptionProofs

-----------------------------------------------------------------------------
(* Counting the uses of a pair *)

JobsFor(c)   == {job \in Job : IsReactionJob(job, c)}
UsersOf(c)   == {reaction \in Reaction : Uses(reaction, c)}
RunnersOf(c) == {frame \in Frame : RunsFor(frame, c)}

\* In an activation, and in all of them.
TodoUses(frame, c)  == IF frame.kind = "trigger" THEN Hits(frame.todo, UsersOf(c)) ELSE 0
FrameLoad(frame, c) == (IF frame \in RunnersOf(c) THEN 1 ELSE 0) + TodoUses(frame, c)
Todos(frames, c)    == [i \in 1..Len(frames) |-> TodoUses(frames[i], c)]
Load(frames, c)     == Hits(frames, RunnersOf(c)) + SumOn(Todos(frames, c), 1..Len(frames))

\* How much of p's reactionJobs is enqueued, and what is not.
FlushedIn(frames, p) ==
  LET at == {i \in 1..Len(frames) : frames[i].kind = "flush" /\ frames[i].promise = p}
  IN  IF at = {} THEN 0 ELSE frames[CHOOSE i \in at : TRUE].next - 1
RestOf(frames, record, p) ==
  SubSeq(record.reactionJobs, FlushedIn(frames, p) + 1, Len(record.reactionJobs))

\* With a promise, and with all of them.
RecordLoad(reactions, rest, c) == Hits(reactions, UsersOf(c)) + Hits(rest, JobsFor(c))
Loads(frames, objects, c) ==
  [p \in 1..Len(objects) |-> RecordLoad(objects[p].reactions, RestOf(frames, objects[p], p), c)]
PromiseLoad(frames, objects, c) == SumOn(Loads(frames, objects, c), 1..Len(objects))

InUse(jobs, frames, objects, c) ==
  Hits(jobs, JobsFor(c)) + (Load(frames, c) + PromiseLoad(frames, objects, c))

LEMMA TodoNumbers ==
  ASSUME NEW frame \in Frame, NEW c
  PROVE  TodoUses(frame, c) \in Nat /\ FrameLoad(frame, c) \in Nat
<1>1. TodoUses(frame, c) \in Nat
  <2>1. CASE frame.kind = "trigger"
    <3>1. frame.todo \in Seq(Reaction)
      BY <2>1 DEF Frame
    <3>2. Hits(frame.todo, UsersOf(c)) \in Nat
      BY <3>1, HitsType
    <3> QED BY <3>2 DEF TodoUses
  <2>2. CASE frame.kind # "trigger"
    BY <2>2 DEF TodoUses
  <2> QED BY <2>1, <2>2
<1>2. (IF frame \in RunnersOf(c) THEN 1 ELSE 0) \in Nat
  OBVIOUS
<1> QED BY <1>1, <1>2 DEF FrameLoad

LEMMA LoadNumber ==
  ASSUME NEW frames \in Seq(Frame), NEW c
  PROVE  /\ Load(frames, c) \in Nat
         /\ SumOn(Todos(frames, c), 1..Len(frames)) \in Nat
         /\ Hits(frames, RunnersOf(c)) \in Nat
         /\ \A i \in 1..Len(frames) : Todos(frames, c)[i] \in Nat
<1>1. Len(frames) \in Nat /\ \A i \in 1..Len(frames) : frames[i] \in Frame
  BY LenProperties, ElementOfSeq
<1>2. \A i \in 1..Len(frames) : Todos(frames, c)[i] \in Nat
  BY <1>1, TodoNumbers DEF Todos
<1>3. IsFiniteSet(1..Len(frames))
  BY <1>1, FS_Interval
<1>4. SumOn(Todos(frames, c), 1..Len(frames)) \in Nat
  BY <1>2, <1>3, SumNat
<1>5. Hits(frames, RunnersOf(c)) \in Nat
  BY HitsType
<1> QED BY <1>2, <1>4, <1>5 DEF Load

\* One activation more.
LEMMA LoadPush ==
  ASSUME NEW frames \in Seq(Frame), NEW frame \in Frame, NEW c
  PROVE  /\ Load(Append(frames, frame), c) = Load(frames, c) + FrameLoad(frame, c)
         /\ Load(frames, c) \in Nat /\ FrameLoad(frame, c) \in Nat
<1>1. PICK more : more = Append(frames, frame)
  BY Zenon
<1>2. /\ more \in Seq(Frame) /\ Len(frames) \in Nat /\ Len(more) = Len(frames) + 1
      /\ more[Len(frames) + 1] = frame /\ \A i \in 1..Len(frames) : more[i] = frames[i]
  BY <1>1, AppendProperties, LenProperties
<1>3. Hits(more, RunnersOf(c)) = Hits(frames, RunnersOf(c)) + (IF frame \in RunnersOf(c) THEN 1 ELSE 0)
  BY <1>1, HitsAppend
<1>4. \A i \in 1..Len(frames) : Todos(frames, c)[i] \in Int /\ Todos(more, c)[i] = Todos(frames, c)[i]
  <2> TAKE i \in 1..Len(frames)
  <2>1. Todos(frames, c)[i] \in Int
    BY LoadNumber
  <2>2. i \in 1..Len(more)
    BY <1>2
  <2>3. Todos(more, c)[i] = TodoUses(more[i], c) /\ Todos(frames, c)[i] = TodoUses(frames[i], c)
    BY <2>2 DEF Todos
  <2> QED BY <1>2, <2>1, <2>3
<1>5. Todos(more, c)[Len(frames) + 1] = TodoUses(frame, c)
  BY <1>2 DEF Todos
<1>6. TodoUses(frame, c) \in Nat /\ FrameLoad(frame, c) \in Nat
  BY TodoNumbers
<1>7. SumOn(Todos(more, c), 1..(Len(frames) + 1)) = SumOn(Todos(frames, c), 1..Len(frames)) + TodoUses(frame, c)
  <2>1. Todos(more, c)[Len(frames) + 1] \in Int
    BY <1>5, <1>6
  <2> QED BY <1>2, <1>4, <1>5, <2>1, SumMore
<1>8. Load(frames, c) \in Nat /\ SumOn(Todos(frames, c), 1..Len(frames)) \in Nat
      /\ Hits(frames, RunnersOf(c)) \in Nat
  BY LoadNumber
<1>9. Load(more, c) = Load(frames, c) + FrameLoad(frame, c)
  <2>1. Load(more, c) = Hits(more, RunnersOf(c)) + SumOn(Todos(more, c), 1..(Len(frames) + 1))
    BY <1>2 DEF Load
  <2>2. Load(frames, c) = Hits(frames, RunnersOf(c)) + SumOn(Todos(frames, c), 1..Len(frames))
    BY DEF Load
  <2>3. FrameLoad(frame, c) = (IF frame \in RunnersOf(c) THEN 1 ELSE 0) + TodoUses(frame, c)
    BY DEF FrameLoad
  <2> QED BY <1>3, <1>6, <1>7, <1>8, <2>1, <2>2, <2>3
<1> QED BY <1>1, <1>6, <1>8, <1>9

LEMMA LoadPop ==
  ASSUME NEW frames \in Seq(Frame), frames # <<>>, NEW c
  PROVE  /\ Load(frames, c) = Load(Front(frames), c) + FrameLoad(Last(frames), c)
         /\ Load(Front(frames), c) \in Nat /\ FrameLoad(Last(frames), c) \in Nat
<1>1. Front(frames) \in Seq(Frame) /\ Last(frames) \in Frame
  BY FrontLast
<1>2. frames = Append(Front(frames), Last(frames))
  BY AppendFrontLast
<1>3. /\ Load(Append(Front(frames), Last(frames)), c) = Load(Front(frames), c) + FrameLoad(Last(frames), c)
      /\ Load(Front(frames), c) \in Nat /\ FrameLoad(Last(frames), c) \in Nat
  BY <1>1, LoadPush
<1> QED BY <1>2, <1>3, Zenon

LEMMA LoadNone == \A c : Load(<<>>, c) = 0
<1> TAKE c
<1>1. Hits(<<>>, RunnersOf(c)) = 0
  BY HitsNone
<1>2. 1..Len(<<>>) = {}
  OBVIOUS
<1>3. SumOn(Todos(<<>>, c), {}) = 0
  BY FS_EmptySet, SumOut
<1> QED BY <1>1, <1>2, <1>3 DEF Load

-----------------------------------------------------------------------------
(* What is flushed *)

IsFlush(frame, p) == frame.kind = "flush" /\ frame.promise = p
Unflushed(frames, p) == \A i \in 1..Len(frames) : ~IsFlush(frames[i], p)

LEMMA FlushedNone ==
  ASSUME NEW frames, NEW p, Unflushed(frames, p)
  PROVE  FlushedIn(frames, p) = 0
<1>1. {i \in 1..Len(frames) : frames[i].kind = "flush" /\ frames[i].promise = p} = {}
  BY DEF Unflushed, IsFlush
<1> QED BY <1>1 DEF FlushedIn

LEMMA FlushedPush ==
  ASSUME NEW F, NEW frames \in Seq(F), NEW frame \in F, NEW p, ~IsFlush(frame, p)
  PROVE  FlushedIn(Append(frames, frame), p) = FlushedIn(frames, p)
<1>1. PICK more : more = Append(frames, frame)
  BY Zenon
<1>2. /\ more \in Seq(F) /\ Len(frames) \in Nat /\ Len(more) = Len(frames) + 1
      /\ more[Len(frames) + 1] = frame /\ \A i \in 1..Len(frames) : more[i] = frames[i]
  BY <1>1, AppendProperties, LenProperties
<1>3. PICK at : at = {i \in 1..Len(frames) : frames[i].kind = "flush" /\ frames[i].promise = p}
  BY Zenon
<1>4. PICK now : now = {i \in 1..Len(more) : more[i].kind = "flush" /\ more[i].promise = p}
  BY Zenon
<1>5. FlushedIn(frames, p) = IF at = {} THEN 0 ELSE frames[CHOOSE i \in at : TRUE].next - 1
  BY <1>3 DEF FlushedIn
<1>6. FlushedIn(more, p) = IF now = {} THEN 0 ELSE more[CHOOSE i \in now : TRUE].next - 1
  BY <1>4 DEF FlushedIn
<1>7. at # {} => (CHOOSE i \in at : TRUE) \in 1..Len(frames)
  BY <1>3
<1>8. now = at
  BY <1>2, <1>3, <1>4 DEF IsFlush
<1> QED BY <1>1, <1>2, <1>5, <1>6, <1>7, <1>8

LEMMA FlushedTop ==
  ASSUME NEW F, NEW frames \in Seq(F), NEW frame \in F, NEW p, IsFlush(frame, p),
         Unflushed(frames, p)
  PROVE  FlushedIn(Append(frames, frame), p) = frame.next - 1
<1>1. PICK more : more = Append(frames, frame)
  BY Zenon
<1>2. /\ more \in Seq(F) /\ Len(frames) \in Nat /\ Len(more) = Len(frames) + 1
      /\ more[Len(frames) + 1] = frame /\ \A i \in 1..Len(frames) : more[i] = frames[i]
  BY <1>1, AppendProperties, LenProperties
<1>3. {i \in 1..Len(more) : more[i].kind = "flush" /\ more[i].promise = p} = {Len(frames) + 1}
  BY <1>2 DEF IsFlush, Unflushed
<1>4. (CHOOSE i \in {Len(frames) + 1} : TRUE) = Len(frames) + 1
  OBVIOUS
<1>5. FlushedIn(more, p) = more[Len(frames) + 1].next - 1
  BY <1>3, <1>4 DEF FlushedIn
<1> QED BY <1>1, <1>2, <1>5

LEMMA FlushedPop ==
  ASSUME NEW F, NEW frames \in Seq(F), frames # <<>>, NEW p, ~IsFlush(Last(frames), p)
  PROVE  FlushedIn(Front(frames), p) = FlushedIn(frames, p)
<1>1. Front(frames) \in Seq(F) /\ Last(frames) \in F
  BY FrontLast
<1>2. frames = Append(Front(frames), Last(frames))
  BY AppendFrontLast
<1>3. FlushedIn(Append(Front(frames), Last(frames)), p) = FlushedIn(Front(frames), p)
  BY <1>1, FlushedPush
<1> QED BY <1>2, <1>3, Zenon

-----------------------------------------------------------------------------
(* The uses with the promises *)

LEMMA RecordLoads ==
  ASSUME NEW R, NEW J, NEW reactions \in Seq(R), NEW rest \in Seq(J), NEW c
  PROVE  RecordLoad(reactions, rest, c) \in Nat
BY HitsType DEF RecordLoad

\* One promise changes, and one may be new that has nothing yet.
LoadsDiffer(frames, objects, later, changed, c, n, p) ==
  /\ p \in 1..n /\ Len(objects) = n /\ Len(changed) \in {n, n + 1}
  /\ \A q \in 1..n : Loads(frames, objects, c)[q] \in Nat
  /\ \A q \in 1..n \ {p} : Loads(later, changed, c)[q] = Loads(frames, objects, c)[q]
  /\ Loads(later, changed, c)[p] \in Nat
  /\ Len(changed) = n + 1 => Loads(later, changed, c)[n + 1] = 0

LEMMA LoadsChange ==
  ASSUME NEW n \in Nat, NEW frames, NEW objects, NEW later, NEW changed, NEW c, NEW p,
         LoadsDiffer(frames, objects, later, changed, c, n, p)
  PROVE  /\ PromiseLoad(frames, objects, c) \in Nat
         /\ PromiseLoad(later, changed, c)
              = PromiseLoad(frames, objects, c) - Loads(frames, objects, c)[p] + Loads(later, changed, c)[p]
<1> USE DEF LoadsDiffer
<1>1. PICK f : f = Loads(frames, objects, c)
  OBVIOUS
<1>2. PICK h : h = Loads(later, changed, c)
  OBVIOUS
<1>3. PICK S : S = 1..n
  OBVIOUS
<1>4. IsFiniteSet(S) /\ p \in S
  BY <1>3, FS_Interval
<1>5. PromiseLoad(frames, objects, c) = SumOn(f, S)
  BY <1>1, <1>3 DEF PromiseLoad
<1>6. /\ \A q \in S : f[q] \in Nat
      /\ \A q \in S : f[q] \in Int
      /\ h[p] \in Int
      /\ \A q \in S \ {p} : h[q] = f[q]
  BY <1>1, <1>2, <1>3
<1>7. SumOn(f, S) \in Nat
  BY <1>4, <1>6, SumNat, Zenon
<1>8. SumOn(h, S) = SumOn(f, S) - f[p] + h[p]
  <2>1. Differs(f, h, S, p)
    BY <1>4, <1>6 DEF Differs
  <2> QED BY <2>1, SumChange
<1>9. PromiseLoad(later, changed, c) = SumOn(h, S)
  <2>1. CASE Len(changed) = n
    BY <1>2, <1>3, <2>1 DEF PromiseLoad
  <2>2. CASE Len(changed) = n + 1
    <3>1. h[n + 1] = 0 /\ h[n + 1] \in Int
      BY <1>2, <2>2
    <3>2. \A i \in 1..n : h[i] \in Int
      BY <1>3, <1>6
    <3>3. SumOn(h, 1..(n + 1)) = SumOn(h, 1..n) + h[n + 1]
      BY <3>1, <3>2, SumMore, ZenonT(40)
    <3>4. SumOn(h, 1..n) \in Int
      BY <1>3, <1>4, <1>6, <1>7, <1>8
    <3>5. PromiseLoad(later, changed, c) = SumOn(h, 1..(n + 1))
      BY <1>2, <2>2 DEF PromiseLoad
    <3> QED BY <1>3, <3>1, <3>3, <3>4, <3>5
  <2> QED BY <2>1, <2>2
<1> QED BY <1>1, <1>2, <1>5, <1>7, <1>8, <1>9

-----------------------------------------------------------------------------
(* What holds of activations, promises and pairs besides the uses *)

\* The one loop that flushes the buffer of a promise is somewhere in it.
Flushes(frames, objects) ==
  \A i \in 1..Len(frames) : frames[i].kind = "flush" =>
    /\ objects[frames[i].promise].enqueueInProgress
    /\ frames[i].next \in 1..(Len(objects[frames[i].promise].reactionJobs) + 1)
    /\ \A j \in 1..Len(frames) : IsFlush(frames[j], frames[i].promise) => j = i

\* What a promise that is settled or not being flushed cannot hold.
Tidy(record) ==
  /\ record.enqueueInProgress => record.state = "rejected"
  /\ ~record.enqueueInProgress => record.reactionJobs = <<>>
  /\ record.state # "pending" => record.reactions = <<>>

\* What is about to settle a promise is not that of a lost one.
Saved(frame, objects, couples) ==
  /\ frame.kind = "getThen" => ~objects[frame.promise].lost
  /\ frame.kind = "job" /\ frame.job.kind = "thenable" => ~objects[frame.job.promise].lost
  /\ frame.kind = "thenable" => couples[frame.pair].exposed

Sane(frames, objects, couples, jobs) ==
  /\ Flushes(frames, objects)
  /\ \A p \in 1..Len(objects) : Tidy(objects[p])
  /\ \A i \in 1..Len(frames) : Saved(frames[i], objects, couples)
  /\ \A i \in 1..Len(jobs) : jobs[i].kind = "thenable" => ~objects[jobs[i].promise].lost
  /\ \A c \in 1..Len(couples) :
       couples[c].exposed /\ ~couples[c].alreadyResolved => ~objects[couples[c].promise].lost

LEMMA FlushesPush ==
  ASSUME NEW F, NEW frames \in Seq(F), NEW frame \in F, NEW objects, Flushes(frames, objects),
         frame.kind = "flush" =>
           /\ Unflushed(frames, frame.promise) /\ objects[frame.promise].enqueueInProgress
           /\ frame.next \in 1..(Len(objects[frame.promise].reactionJobs) + 1)
  PROVE  Flushes(Append(frames, frame), objects)
<1>1. PICK more : more = Append(frames, frame)
  BY Zenon
<1>2. /\ more \in Seq(F) /\ Len(frames) \in Nat /\ Len(more) = Len(frames) + 1
      /\ more[Len(frames) + 1] = frame /\ \A i \in 1..Len(frames) : more[i] = frames[i]
  BY <1>1, AppendProperties, LenProperties
<1>3. SUFFICES ASSUME NEW i \in 1..Len(more), more[i].kind = "flush"
               PROVE  /\ objects[more[i].promise].enqueueInProgress
                      /\ more[i].next \in 1..(Len(objects[more[i].promise].reactionJobs) + 1)
                      /\ \A j \in 1..Len(more) : IsFlush(more[j], more[i].promise) => j = i
  BY <1>1, Zenon DEF Flushes
<1>4. CASE i = Len(frames) + 1
  <2>1. more[i] = frame
    BY <1>2, <1>4
  <2>2. \A j \in 1..Len(more) : j = i \/ j \in 1..Len(frames)
    BY <1>2, <1>4
  <2>3. \A j \in 1..Len(frames) : ~IsFlush(more[j], frame.promise)
    BY <1>2, <1>3, <2>1 DEF Unflushed
  <2> QED BY <1>3, <2>1, <2>2, <2>3
<1>5. CASE i \in 1..Len(frames)
  <2>1. more[i] = frames[i]
    BY <1>2, <1>5
  <2>2. /\ objects[frames[i].promise].enqueueInProgress
        /\ frames[i].next \in 1..(Len(objects[frames[i].promise].reactionJobs) + 1)
        /\ \A j \in 1..Len(frames) : IsFlush(frames[j], frames[i].promise) => j = i
    BY <1>3, <1>5, <2>1 DEF Flushes
  <2>3. ASSUME NEW j \in 1..Len(more), IsFlush(more[j], more[i].promise)
        PROVE  j = i
    <3>1. CASE j \in 1..Len(frames)
      BY <1>2, <2>1, <2>2, <2>3, <3>1
    <3>2. CASE j = Len(frames) + 1
      <4>1. frame.kind = "flush" /\ frame.promise = frames[i].promise
        BY <1>2, <2>1, <2>3, <3>2 DEF IsFlush
      <4>2. ~IsFlush(frames[i], frame.promise)
        BY <1>5, <4>1 DEF Unflushed
      <4> QED BY <1>3, <2>1, <4>1, <4>2 DEF IsFlush
    <3> QED BY <1>2, <3>1, <3>2
  <2> QED BY <2>1, <2>2, <2>3
<1> QED BY <1>2, <1>4, <1>5

LEMMA FlushesPop ==
  ASSUME NEW F, NEW frames \in Seq(F), frames # <<>>, NEW objects, Flushes(frames, objects)
  PROVE  /\ Flushes(Front(frames), objects)
         /\ Last(frames).kind = "flush" =>
              /\ Unflushed(Front(frames), Last(frames).promise)
              /\ objects[Last(frames).promise].enqueueInProgress
              /\ Last(frames).next \in 1..(Len(objects[Last(frames).promise].reactionJobs) + 1)
<1>1. PICK less : less = Front(frames)
  OBVIOUS
<1>2. /\ Len(frames) \in Nat \ {0} /\ Len(less) = Len(frames) - 1
      /\ \A i \in 1..(Len(frames) - 1) : less[i] = frames[i]
  BY <1>1, FrontLast
<1>3. Last(frames) = frames[Len(frames)] /\ Len(frames) \in 1..Len(frames)
  BY <1>2 DEF Last
<1>4. Flushes(less, objects)
  BY <1>2 DEF Flushes
<1>5. ASSUME Last(frames).kind = "flush"
      PROVE  /\ Unflushed(less, Last(frames).promise)
             /\ objects[Last(frames).promise].enqueueInProgress
             /\ Last(frames).next \in 1..(Len(objects[Last(frames).promise].reactionJobs) + 1)
  <2>1. /\ objects[Last(frames).promise].enqueueInProgress
        /\ Last(frames).next \in 1..(Len(objects[Last(frames).promise].reactionJobs) + 1)
        /\ \A j \in 1..Len(frames) : IsFlush(frames[j], Last(frames).promise) => j = Len(frames)
    BY <1>3, <1>5 DEF Flushes
  <2>2. \A j \in 1..Len(less) : j \in 1..Len(frames) /\ j # Len(frames) /\ less[j] = frames[j]
    BY <1>2
  <2> QED BY <2>1, <2>2 DEF Unflushed
<1> QED BY <1>1, <1>4, <1>5

LEMMA FlushedRange ==
  ASSUME NEW frames, NEW objects, Flushes(frames, objects), NEW p,
         Len(objects[p].reactionJobs) \in Nat
  PROVE  /\ FlushedIn(frames, p) \in 0..Len(objects[p].reactionJobs)
         /\ ~objects[p].enqueueInProgress => Unflushed(frames, p)
<1>1. CASE Unflushed(frames, p)
  BY <1>1, FlushedNone
<1>2. CASE ~Unflushed(frames, p)
  <2>1. PICK at : at = {i \in 1..Len(frames) : frames[i].kind = "flush" /\ frames[i].promise = p}
    BY Zenon
  <2>2. at # {}
    BY <1>2, <2>1 DEF Unflushed, IsFlush
  <2>3. PICK i : i = CHOOSE k \in at : TRUE
    OBVIOUS
  <2>4. i \in at
    BY <2>2, <2>3
  <2>5. FlushedIn(frames, p) = frames[i].next - 1
    BY <2>1, <2>2, <2>3 DEF FlushedIn
  <2>6. /\ objects[p].enqueueInProgress /\ frames[i].next \in 1..(Len(objects[p].reactionJobs) + 1)
    BY <2>1, <2>4 DEF Flushes
  <2> QED BY <2>5, <2>6
<1> QED BY <1>1, <1>2

\* One activation more, or less.
LEMMA SanePush ==
  ASSUME NEW F, NEW frames \in Seq(F), NEW frame \in F, NEW objects, NEW couples, NEW jobs,
         Sane(frames, objects, couples, jobs), Saved(frame, objects, couples),
         frame.kind = "flush" =>
           /\ Unflushed(frames, frame.promise) /\ objects[frame.promise].enqueueInProgress
           /\ frame.next \in 1..(Len(objects[frame.promise].reactionJobs) + 1)
  PROVE  Sane(Append(frames, frame), objects, couples, jobs)
<1>1. PICK more : more = Append(frames, frame)
  BY Zenon
<1>2. /\ Len(frames) \in Nat /\ Len(more) = Len(frames) + 1
      /\ more[Len(frames) + 1] = frame /\ \A i \in 1..Len(frames) : more[i] = frames[i]
  BY <1>1, AppendProperties, LenProperties
<1>3. Flushes(more, objects)
  <2>1. Flushes(frames, objects)
    BY DEF Sane
  <2> QED BY <1>1, <2>1, FlushesPush
<1>4. ASSUME NEW i \in 1..Len(more) PROVE Saved(more[i], objects, couples)
  <2>1. i \in 1..Len(frames) \/ i = Len(frames) + 1
    BY <1>2
  <2>2. i \in 1..Len(frames) => Saved(frames[i], objects, couples)
    BY DEF Sane
  <2> QED BY <1>2, <2>1, <2>2
<1> QED BY <1>1, <1>3, <1>4 DEF Sane

LEMMA SanePop ==
  ASSUME NEW F, NEW frames \in Seq(F), frames # <<>>, NEW objects, NEW couples, NEW jobs,
         Sane(frames, objects, couples, jobs)
  PROVE  Sane(Front(frames), objects, couples, jobs) /\ Saved(Last(frames), objects, couples)
<1>1. PICK less : less = Front(frames)
  OBVIOUS
<1>2. /\ Len(frames) \in Nat \ {0} /\ Len(less) = Len(frames) - 1
      /\ \A i \in 1..(Len(frames) - 1) : less[i] = frames[i]
  BY <1>1, FrontLast
<1>3. Last(frames) = frames[Len(frames)] /\ Len(frames) \in 1..Len(frames)
  BY <1>2 DEF Last
<1>4. Flushes(less, objects)
  <2>1. Flushes(frames, objects)
    BY DEF Sane
  <2> QED BY <1>1, <2>1, FlushesPop
<1>5. \A i \in 1..Len(less) : Saved(less[i], objects, couples)
  BY <1>2 DEF Sane
<1>6. Saved(Last(frames), objects, couples)
  BY <1>3 DEF Sane
<1> QED BY <1>1, <1>4, <1>5, <1>6 DEF Sane

\* A change of a promise that the activations `frames` can live with.
Harmless(record, changed, frames, p) ==
  /\ changed.lost = record.lost /\ Tidy(changed)
  /\ \/ Unflushed(frames, p)
     \/ /\ changed.enqueueInProgress = record.enqueueInProgress
        /\ Len(record.reactionJobs) <= Len(changed.reactionJobs)

LEMMA SaneKept ==
  ASSUME NEW n \in Nat, NEW m \in Nat, n = Len(promises), m = Len(pairs),
         promises \in Seq(PromiseObjects(n, m)), pairs \in Seq(Pairs(n)),
         NEW base \in Seq(CallFrames(n, m)), Sane(base, promises, pairs, queue),
         \A p \in 1..n : Harmless(promises[p], promises'[p], base, p),
         \A p \in 1..Len(promises') : p \in 1..n \/ Tidy(promises'[p]),
         \A p \in 1..n : Len(promises'[p].reactionJobs) \in Nat,
         PairsKeep,
         \A c \in 1..Len(pairs') :
           c \in 1..m \/ ~pairs'[c].exposed \/ ~promises'[pairs'[c].promise].lost,
         \A i \in 1..Len(queue') : queue'[i].kind = "thenable" => ~promises'[queue'[i].promise].lost
  PROVE  Sane(base, promises', pairs', queue')
<1>1. \A i \in 1..Len(base) : base[i] \in CallFrames(n, m)
  BY ElementOfSeq
<1>2. Flushes(base, promises')
  <2>1. SUFFICES ASSUME NEW i \in 1..Len(base), base[i].kind = "flush"
                 PROVE  /\ promises'[base[i].promise].enqueueInProgress
                        /\ base[i].next \in 1..(Len(promises'[base[i].promise].reactionJobs) + 1)
                        /\ \A j \in 1..Len(base) : IsFlush(base[j], base[i].promise) => j = i
    BY DEF Flushes
  <2>2. PICK p : p = base[i].promise
    OBVIOUS
  <2>3. p \in 1..n
    BY <1>1, <2>1, <2>2, FrameFields
  <2>4. /\ promises[p].enqueueInProgress
        /\ base[i].next \in 1..(Len(promises[p].reactionJobs) + 1)
        /\ \A j \in 1..Len(base) : IsFlush(base[j], base[i].promise) => j = i
    BY <2>1, <2>2 DEF Sane, Flushes
  <2>5. ~Unflushed(base, p)
    BY <2>1, <2>2 DEF Unflushed, IsFlush
  <2>6. /\ promises'[p].enqueueInProgress = promises[p].enqueueInProgress
        /\ Len(promises[p].reactionJobs) <= Len(promises'[p].reactionJobs)
    BY <2>3, <2>5 DEF Harmless
  <2>7. Len(promises'[p].reactionJobs) \in Nat
    BY <2>3
  <2>8. Len(promises[p].reactionJobs) \in Nat
    <3>1. promises[p] \in PromiseObjects(n, m)
      BY <2>3, ElementOfSeq
    <3>2. promises[p].reactionJobs \in Seq(ReactionJobs(n, m))
      BY <3>1 DEF PromiseObjects
    <3> QED BY <3>2, LenProperties
  <2>9. base[i].next \in 1..(Len(promises'[p].reactionJobs) + 1)
    <3>1. PICK a \in Nat : a = Len(promises[p].reactionJobs)
      BY <2>8
    <3>2. PICK b \in Nat : b = Len(promises'[p].reactionJobs)
      BY <2>7
    <3>3. PICK x \in 1..(a + 1) : x = base[i].next
      BY <2>4, <3>1
    <3>4. a <= b
      BY <2>6, <3>1, <3>2
    <3>5. x \in 1..(b + 1)
      BY <3>4
    <3> QED BY <3>2, <3>3, <3>5
  <2> QED BY <2>2, <2>4, <2>6, <2>9
<1>3. ASSUME NEW p \in 1..Len(promises') PROVE Tidy(promises'[p])
  BY <1>3 DEF Harmless
<1>4. ASSUME NEW i \in 1..Len(base) PROVE Saved(base[i], promises', pairs')
  <2>1. Saved(base[i], promises, pairs)
    BY DEF Sane
  <2>2. base[i].kind # "job"
    BY <1>1, FrameFields, Zenon
  <2>3. base[i].kind = "getThen" => base[i].promise \in 1..n
    BY <1>1, FrameFields
  <2>4. base[i].kind = "thenable" => base[i].pair \in 1..m
    BY <1>1, FrameFields
  <2>5. \A p \in 1..n : promises'[p].lost = promises[p].lost
    BY DEF Harmless
  <2>6. \A c \in 1..m : pairs'[c].exposed = pairs[c].exposed
    BY DEF PairsKeep
  <2> QED BY <2>1, <2>2, <2>3, <2>4, <2>5, <2>6 DEF Saved
<1>5. ASSUME NEW c \in 1..Len(pairs'), pairs'[c].exposed, ~pairs'[c].alreadyResolved
      PROVE  ~promises'[pairs'[c].promise].lost
  <2>1. CASE c \in 1..m
    <3>1. /\ pairs'[c].promise = pairs[c].promise /\ pairs[c].exposed /\ ~pairs[c].alreadyResolved
      BY <1>5, <2>1 DEF PairsKeep
    <3>2. ~promises[pairs[c].promise].lost
      BY <2>1, <3>1, Zenon DEF Sane
    <3>3. pairs[c] \in Pairs(n)
      BY <2>1, ElementOfSeq
    <3>4. pairs[c].promise \in 1..n
      BY <3>3 DEF Pairs
    <3> QED BY <3>1, <3>2, <3>4 DEF Harmless
  <2> QED BY <1>5, <2>1
<1> QED BY <1>2, <1>3, <1>4, <1>5 DEF Sane

-----------------------------------------------------------------------------
(* How the uses with the promises change *)

SameUses(record, changed) ==
  changed.reactions = record.reactions /\ changed.reactionJobs = record.reactionJobs
Blank(record) == record.reactions = <<>> /\ record.reactionJobs = <<>>

\* Nothing changes but for the promises Q, and one may be new.
Rests(frames, objects, later, changed, Q) ==
  /\ Len(changed) \in {Len(objects), Len(objects) + 1}
  /\ \A q \in 1..Len(objects) : q \notin Q =>
       SameUses(objects[q], changed[q]) /\ FlushedIn(later, q) = FlushedIn(frames, q)
  /\ \A q \in 1..Len(changed) : q \in 1..Len(objects) \/ Blank(changed[q])

UsesOf(frames, record, p, c) == RecordLoad(record.reactions, RestOf(frames, record, p), c)

LEMMA SliceTypes ==
  ASSUME NEW S, NEW s \in Seq(S), NEW k \in 0..Len(s)
  PROVE  /\ SubSeq(s, k + 1, Len(s)) \in Seq(S) /\ Len(SubSeq(s, k + 1, Len(s))) = Len(s) - k
         /\ \A i \in 1..(Len(s) - k) : SubSeq(s, k + 1, Len(s))[i] = s[k + i]
<1>1. Len(s) \in Nat /\ \A i \in 1..Len(s) : s[i] \in S
  BY LenProperties, ElementOfSeq
<1>2. k \in Nat /\ k <= Len(s) /\ k + 1 \in Int /\ Len(s) \in Int
  BY <1>1
<1>3. \A i \in (k + 1)..Len(s) : s[i] \in S
  BY <1>1, <1>2
<1>4. /\ SubSeq(s, k + 1, Len(s)) \in Seq(S)
      /\ Len(SubSeq(s, k + 1, Len(s))) = IF k + 1 <= Len(s) THEN Len(s) - (k + 1) + 1 ELSE 0
      /\ \A i \in 1..(Len(s) - (k + 1) + 1) : SubSeq(s, k + 1, Len(s))[i] = s[k + 1 + i - 1]
  BY <1>2, <1>3, SubSeqProperties
<1>5. Len(s) - (k + 1) + 1 = Len(s) - k /\ \A i \in 1..(Len(s) - k) : k + 1 + i - 1 = k + i
  BY <1>1, <1>2
<1>6. (IF k + 1 <= Len(s) THEN Len(s) - (k + 1) + 1 ELSE 0) = Len(s) - k
  BY <1>1, <1>2
<1> QED BY <1>4, <1>5, <1>6, Zenon

LEMMA UsesAreNumbers ==
  ASSUME NEW n \in Nat, NEW m \in Nat, NEW objects \in Seq(PromiseObjects(n, m)),
         NEW frames, Flushes(frames, objects), NEW p \in 1..Len(objects), NEW c
  PROVE  /\ objects[p].reactions \in Seq(Reactions(n, m))
         /\ objects[p].reactionJobs \in Seq(ReactionJobs(n, m))
         /\ FlushedIn(frames, p) \in 0..Len(objects[p].reactionJobs)
         /\ RestOf(frames, objects[p], p) \in Seq(ReactionJobs(n, m))
         /\ Len(objects[p].reactionJobs) \in Nat
         /\ UsesOf(frames, objects[p], p, c) \in Nat
         /\ Loads(frames, objects, c)[p] = UsesOf(frames, objects[p], p, c)
<1>1. objects[p] \in PromiseObjects(n, m)
  BY ElementOfSeq
<1>2. /\ objects[p].reactions \in Seq(Reactions(n, m))
      /\ objects[p].reactionJobs \in Seq(ReactionJobs(n, m))
  BY <1>1, Zenon DEF PromiseObjects
<1>3. Len(objects[p].reactionJobs) \in Nat
  BY <1>2, LenProperties
<1>4. FlushedIn(frames, p) \in 0..Len(objects[p].reactionJobs)
  BY <1>3, FlushedRange
<1>5. RestOf(frames, objects[p], p) \in Seq(ReactionJobs(n, m))
  BY <1>2, <1>4, SliceTypes, Zenon DEF RestOf
<1>6. UsesOf(frames, objects[p], p, c) \in Nat
  BY <1>2, <1>5, RecordLoads DEF UsesOf
<1>7. Loads(frames, objects, c)[p] = UsesOf(frames, objects[p], p, c)
  BY DEF Loads, UsesOf
<1> QED BY <1>2, <1>3, <1>4, <1>5, <1>6, <1>7

LEMMA BlankUses ==
  ASSUME NEW frames, NEW objects, NEW q \in 1..Len(objects), NEW c, Blank(objects[q])
  PROVE  Loads(frames, objects, c)[q] = 0
<1>1. RestOf(frames, objects[q], q) = SubSeq(<<>>, FlushedIn(frames, q) + 1, 0)
  BY Zenon DEF RestOf, Blank
<1>2. SubSeq(<<>>, FlushedIn(frames, q) + 1, 0) = <<>>
  BY DEF FlushedIn
<1>3. Hits(<<>>, JobsFor(c)) = 0 /\ Hits(<<>>, UsersOf(c)) = 0
  BY HitsNone
<1>4. Loads(frames, objects, c)[q] = RecordLoad(<<>>, <<>>, c)
  BY <1>1, <1>2, Zenon DEF Loads, Blank
<1> QED BY <1>3, <1>4 DEF RecordLoad

LEMMA SameLoads ==
  ASSUME NEW frames, NEW objects, NEW later, NEW changed, NEW Q,
         Rests(frames, objects, later, changed, Q), Len(objects) \in Nat,
         NEW q \in 1..Len(objects), q \notin Q, NEW c
  PROVE  Loads(later, changed, c)[q] = Loads(frames, objects, c)[q]
<1>1. q \in 1..Len(changed)
  BY DEF Rests
<1>2. SameUses(objects[q], changed[q]) /\ FlushedIn(later, q) = FlushedIn(frames, q)
  BY DEF Rests
<1>3. RestOf(later, changed[q], q) = RestOf(frames, objects[q], q)
  BY <1>2 DEF RestOf, SameUses
<1> QED BY <1>1, <1>2, <1>3 DEF Loads, SameUses

\* One promise has other reactions.
Moved(n, m, frames, objects, later, changed, p, c) ==
  /\ n \in Nat /\ m \in Nat /\ objects \in Seq(PromiseObjects(n, m)) /\ Flushes(frames, objects)
  /\ p \in 1..Len(objects) /\ Rests(frames, objects, later, changed, {p})
  /\ UsesOf(later, changed[p], p, c) \in Nat

LEMMA UsesMove ==
  ASSUME NEW n, NEW m, NEW objects, NEW frames, NEW later, NEW changed, NEW p, NEW c,
         Moved(n, m, frames, objects, later, changed, p, c)
  PROVE  /\ PromiseLoad(frames, objects, c) \in Nat
         /\ PromiseLoad(later, changed, c)
              = PromiseLoad(frames, objects, c) - UsesOf(frames, objects[p], p, c)
                  + UsesOf(later, changed[p], p, c)
<1> USE DEF Moved
<1>1. PICK k \in Nat : k = Len(objects)
  BY LenProperties
<1>2. \A q \in 1..k : Loads(frames, objects, c)[q] \in Nat
  BY <1>1, UsesAreNumbers
<1>3. \A q \in 1..k \ {p} : Loads(later, changed, c)[q] = Loads(frames, objects, c)[q]
  BY <1>1, SameLoads
<1>4. p \in 1..k /\ p \in 1..Len(changed) /\ Len(changed) \in {k, k + 1}
  BY <1>1 DEF Rests
<1>5. /\ Loads(later, changed, c)[p] = UsesOf(later, changed[p], p, c)
      /\ Loads(frames, objects, c)[p] = UsesOf(frames, objects[p], p, c)
  BY <1>4 DEF Loads, UsesOf
<1>6. Len(changed) = k + 1 => Loads(later, changed, c)[k + 1] = 0
  <2> HAVE Len(changed) = k + 1
  <2>1. k + 1 \in 1..Len(changed) /\ k + 1 \notin 1..Len(objects)
    BY <1>1
  <2>2. Blank(changed[k + 1])
    BY <2>1 DEF Rests
  <2> QED BY <2>1, <2>2, BlankUses
<1>7. Loads(later, changed, c)[p] \in Nat
  BY <1>5
<1>8. /\ PromiseLoad(frames, objects, c) \in Nat
      /\ PromiseLoad(later, changed, c)
           = PromiseLoad(frames, objects, c) - Loads(frames, objects, c)[p] + Loads(later, changed, c)[p]
  <2>1. LoadsDiffer(frames, objects, later, changed, c, k, p)
    BY <1>1, <1>2, <1>3, <1>4, <1>6, <1>7 DEF LoadsDiffer
  <2> QED BY <2>1, LoadsChange
<1> QED BY <1>5, <1>8

LEMMA UsesStay ==
  ASSUME NEW n \in Nat, NEW m \in Nat, NEW objects \in Seq(PromiseObjects(n, m)),
         NEW frames, Flushes(frames, objects), NEW later, NEW changed,
         Rests(frames, objects, later, changed, {}), NEW c
  PROVE  /\ PromiseLoad(frames, objects, c) \in Nat
         /\ PromiseLoad(later, changed, c) = PromiseLoad(frames, objects, c)
<1>1. PICK k \in Nat : k = Len(objects)
  BY LenProperties
<1>2. PICK f : f = Loads(frames, objects, c)
  OBVIOUS
<1>3. PICK h : h = Loads(later, changed, c)
  OBVIOUS
<1>4. \A q \in 1..k : f[q] \in Nat
  BY <1>1, <1>2, UsesAreNumbers
<1>5. \A q \in 1..k : h[q] = f[q]
  BY <1>1, <1>2, <1>3, SameLoads
<1>6. IsFiniteSet(1..k)
  BY FS_Interval
<1>7. SumOn(f, 1..k) \in Nat
  BY <1>4, <1>6, SumNat
<1>8. \A q \in 1..k : f[q] \in Int /\ h[q] = f[q]
  BY <1>4, <1>5
<1>9. CASE Len(changed) = k
  <2>1. SumOn(h, 1..k) = SumOn(f, 1..k)
    BY <1>6, <1>8, SumAlike
  <2> QED BY <1>1, <1>2, <1>3, <1>7, <1>9, <2>1 DEF PromiseLoad
<1>10. CASE Len(changed) = k + 1
  <2>1. k + 1 \in 1..Len(changed) /\ k + 1 \notin 1..Len(objects)
    BY <1>1, <1>10
  <2>2. Blank(changed[k + 1])
    BY <2>1 DEF Rests
  <2>3. h[k + 1] = 0 /\ h[k + 1] \in Int
    BY <1>3, <2>1, <2>2, BlankUses
  <2>4. SumOn(h, 1..(k + 1)) = SumOn(f, 1..k) + h[k + 1]
    BY <1>8, <2>3, SumMore, Zenon
  <2> QED BY <1>1, <1>2, <1>3, <1>7, <1>10, <2>3, <2>4 DEF PromiseLoad
<1>11. Len(changed) \in {k, k + 1}
  BY <1>1 DEF Rests
<1> QED BY <1>9, <1>10, <1>11

-----------------------------------------------------------------------------
(* How the uses move in a step *)

Idle == {"drain", "hook", "tracker", "thenable", "getThen", "flush"}

LEMMA FrameLoads ==
  ASSUME NEW frame \in Frame, NEW c
  PROVE  /\ frame.kind \in Idle => FrameLoad(frame, c) = 0
         /\ frame.kind \in {"handler", "native"} =>
              FrameLoad(frame, c) = IF frame.pair = c THEN 1 ELSE 0
         /\ frame.kind = "trigger" => FrameLoad(frame, c) = Hits(frame.todo, UsersOf(c))
         /\ frame.kind = "job" => FrameLoad(frame, c) = IF frame.job \in JobsFor(c) THEN 1 ELSE 0
<1>1. ASSUME frame.kind \in Idle PROVE FrameLoad(frame, c) = 0
  BY <1>1 DEF FrameLoad, TodoUses, RunnersOf, RunsFor, Idle
<1>2. ASSUME frame.kind \in {"handler", "native"}
      PROVE  FrameLoad(frame, c) = IF frame.pair = c THEN 1 ELSE 0
  BY <1>2 DEF FrameLoad, TodoUses, RunnersOf, RunsFor
<1>3. ASSUME frame.kind = "trigger" PROVE FrameLoad(frame, c) = Hits(frame.todo, UsersOf(c))
  <2>1. frame \notin RunnersOf(c)
    BY <1>3 DEF RunnersOf, RunsFor
  <2>2. frame.todo \in Seq(Reaction)
    BY <1>3 DEF Frame
  <2>3. Hits(frame.todo, UsersOf(c)) \in Nat
    BY <2>2, HitsType
  <2> QED BY <1>3, <2>1, <2>3 DEF FrameLoad, TodoUses
<1>4. ASSUME frame.kind = "job" PROVE FrameLoad(frame, c) = IF frame.job \in JobsFor(c) THEN 1 ELSE 0
  <2>1. frame.job \in Job
    BY <1>4 DEF Frame
  <2> QED BY <1>4, <2>1 DEF FrameLoad, TodoUses, RunnersOf, RunsFor, JobsFor
<1> QED BY <1>1, <1>2, <1>3, <1>4

LEMMA IdlePush ==
  ASSUME NEW frames \in Seq(Frame), NEW frame \in Frame, frame.kind \in Idle, NEW c
  PROVE  /\ Load(Append(frames, frame), c) = Load(frames, c) /\ Load(frames, c) \in Nat
<1>1. FrameLoad(frame, c) = 0
  BY FrameLoads
<1> QED BY <1>1, LoadPush

LEMMA IdlePop ==
  ASSUME NEW frames \in Seq(Frame), frames # <<>>, Last(frames).kind \in Idle, NEW c
  PROVE  /\ Load(Front(frames), c) = Load(frames, c) /\ Load(frames, c) \in Nat
<1>1. Last(frames) \in Frame
  BY FrontLast
<1>2. FrameLoad(Last(frames), c) = 0
  BY <1>1, FrameLoads
<1> QED BY <1>2, LoadPop

LEMMA EnqueueUses ==
  ASSUME NEW J, queue \in Seq(J), NEW job \in Job, NEW base \in Seq(Frame), Enqueue(job, base), NEW c
  PROVE  /\ Hits(queue, JobsFor(c)) \in Nat
         /\ Hits(queue', JobsFor(c))
              = Hits(queue, JobsFor(c)) + (IF job \in JobsFor(c) THEN 1 ELSE 0)
         /\ Load(stack', c) = Load(base, c) /\ Load(base, c) \in Nat
         /\ \A p : FlushedIn(stack', p) = FlushedIn(base, p)
<1>1. queue' = Append(queue, job) /\ stack' \in {base, Append(base, HookFrame)}
  BY DEF Enqueue
<1>2. HookFrame \in Frame /\ HookFrame.kind \in Idle
  BY DEF HookFrame, Frame, Idle
<1>3. Hits(queue, JobsFor(c)) \in Nat
  BY HitsType
<1>4. Hits(queue', JobsFor(c)) = Hits(queue, JobsFor(c)) + (IF job \in JobsFor(c) THEN 1 ELSE 0)
  BY <1>1, HitsAppendAny
<1>5. Load(Append(base, HookFrame), c) = Load(base, c) /\ Load(base, c) \in Nat
  BY <1>2, IdlePush
<1>6. ASSUME NEW p PROVE FlushedIn(stack', p) = FlushedIn(base, p)
  <2>1. ~IsFlush(HookFrame, p)
    BY DEF HookFrame, IsFlush
  <2>2. FlushedIn(Append(base, HookFrame), p) = FlushedIn(base, p)
    BY <1>2, <2>1, FlushedPush
  <2> QED BY <1>1, <2>2, Zenon
<1> QED BY <1>1, <1>3, <1>4, <1>5, <1>6, Zenon

LEMMA ReactionTypes ==
  ASSUME NEW n \in 0..MaxPromises, NEW m \in 0..MaxPairs
  PROVE  /\ Reactions(n, m) \subseteq Reaction /\ ReactionJobs(n, m) \subseteq Job
         /\ CallFrames(n, m) \subseteq Frame /\ Jobs(n, m) \subseteq Job
         /\ \A c : \A reaction \in Reactions(n, m) :
              reaction \in UsersOf(c) <=> c = reaction.derived \/ c = reaction.handler
         /\ \A c : \A job \in Job :
              job \in JobsFor(c) <=> /\ job.kind = "reaction"
                                     /\ c = job.reaction.derived \/ c = job.reaction.handler
<1>1. /\ ReactionJobs(n, m) \subseteq Jobs(n, m) /\ Jobs(n, m) \subseteq Job
      /\ CallFrames(n, m) \subseteq Frame
  BY TypesAreTypes DEF Jobs
<1>2. 1..n \subseteq 1..MaxPromises /\ 1..m \subseteq 1..MaxPairs
  BY ConstantsAreApart
<1>3. Reactions(n, m) \subseteq Reaction
  BY <1>2 DEF Reactions, Reaction, Handler
<1>4. \A c : \A reaction \in Reactions(n, m) :
        reaction \in UsersOf(c) <=> c = reaction.derived \/ c = reaction.handler
  BY <1>3 DEF UsersOf, Uses
<1>5. \A c : \A job \in Job :
        job \in JobsFor(c) <=> /\ job.kind = "reaction"
                               /\ c = job.reaction.derived \/ c = job.reaction.handler
  BY DEF JobsFor, IsReactionJob, Uses
<1> QED BY <1>1, <1>3, <1>4, <1>5

\* settlePromise() moves the reactions to its loop.
LEMMA SettleUses ==
  ASSUME NEW n \in 0..MaxPromises, NEW m \in 0..MaxPairs, n = Len(promises),
         promises \in Seq(PromiseObjects(n, m)), NEW p \in 1..n, NEW state \in Settled,
         NEW result \in Values(n), NEW base \in Seq(CallFrames(n, m)), Flushes(base, promises),
         Settle(p, state, result, base), NEW jobs, NEW c
  PROVE  InUse(jobs, stack', promises', c) = InUse(jobs, base, promises, c)
<1>1. base \in Seq(Frame) /\ CallFrames(n, m) \subseteq Frame
  BY ReactionTypes, SeqMonotonic
<1>2. n \in Nat /\ m \in Nat /\ p \in 1..Len(promises)
  BY ConstantsAreApart
<1>3. /\ Len(promises') = n
      /\ promises[p].state # "pending" => promises' = promises /\ stack' = base
      /\ promises[p].state = "pending" =>
           /\ stack' = Append(base, FreshTrigger(p, promises[p].reactions))
           /\ \A q \in 1..n : promises'[q] =
                IF q = p THEN SettledAs(promises[p], state, result) ELSE promises[q]
  <2>1. /\ Len(promises') = Len(promises)
        /\ promises[p].state # "pending" => promises' = promises /\ stack' = base
        /\ promises[p].state = "pending" =>
             /\ stack' = Append(base, FreshTrigger(p, promises[p].reactions))
             /\ \A q \in 1..Len(promises) : promises'[q] =
                  IF q = p THEN SettledAs(promises[p], state, result) ELSE promises[q]
    BY ONLY n \in Nat, m \in Nat, promises \in Seq(PromiseObjects(n, m)), n = Len(promises), p \in 1..n,
       state \in Settled, result \in Values(n), base \in Seq(CallFrames(n, m)),
       Settle(p, state, result, base), <1>2, SettleChanges
  <2> QED BY <2>1
<1>4. CASE promises[p].state # "pending"
  BY <1>3, <1>4
<1>5. CASE promises[p].state = "pending"
  <2>1. PICK frame : frame = FreshTrigger(p, promises[p].reactions)
    OBVIOUS
  <2>2. promises[p].reactions \in Seq(Reactions(n, m)) /\ promises[p] \in PromiseObjects(n, m)
    BY <1>2, UsesAreNumbers, ElementOfSeq, Zenon
  <2>3. frame \in CallFrames(n, m) /\ frame.kind = "trigger" /\ frame.todo = promises[p].reactions
    <3>1. frame \in CallFrames(n, m)
      BY <1>2, <2>1, <2>2, FreshFrames
    <3> QED BY <2>1, <3>1 DEF FreshTrigger, TriggerFrame
  <2>4. Load(stack', c) = Load(base, c) + Hits(promises[p].reactions, UsersOf(c))
        /\ Load(base, c) \in Nat
    <3>1. frame \in Frame /\ stack' = Append(base, frame)
      BY <1>1, <1>3, <1>5, <2>1, <2>3
    <3>2. Load(Append(base, frame), c) = Load(base, c) + FrameLoad(frame, c) /\ Load(base, c) \in Nat
      BY <1>1, <3>1, LoadPush
    <3>3. FrameLoad(frame, c) = Hits(promises[p].reactions, UsersOf(c))
      BY <2>3, <3>1, FrameLoads
    <3> QED BY <3>1, <3>2, <3>3
  <2>5. \A q : FlushedIn(stack', q) = FlushedIn(base, q)
    <3> TAKE q
    <3>1. ~IsFlush(frame, q)
      BY <2>3 DEF IsFlush
    <3>2. FlushedIn(Append(base, frame), q) = FlushedIn(base, q)
      BY <2>3, <3>1, FlushedPush
    <3> QED BY <1>3, <1>5, <2>1, <3>2, Zenon
  <2>6. promises'[p].reactions = <<>> /\ promises'[p].reactionJobs = promises[p].reactionJobs
    <3>1. promises'[p] = SettledAs(promises[p], state, result)
      BY <1>3, <1>5
    <3> QED BY <2>2, <3>1 DEF SettledAs, PromiseObjects
  <2>7. RestOf(stack', promises'[p], p) = RestOf(base, promises[p], p)
    BY <2>5, <2>6, Zenon DEF RestOf
  <2>8. /\ Hits(<<>>, UsersOf(c)) = 0 /\ Hits(promises[p].reactions, UsersOf(c)) \in Nat
        /\ Hits(RestOf(base, promises[p], p), JobsFor(c)) \in Nat
    <3>1. RestOf(base, promises[p], p) \in Seq(ReactionJobs(n, m))
      BY <1>2, UsesAreNumbers, Zenon
    <3>2. Hits(RestOf(base, promises[p], p), JobsFor(c)) \in Nat
      BY <3>1, HitsType
    <3>3. Hits(promises[p].reactions, UsersOf(c)) \in Nat
      BY <2>2, HitsType
    <3> QED BY <3>2, <3>3, HitsNone
  <2>9. /\ UsesOf(stack', promises'[p], p, c) = Hits(RestOf(base, promises[p], p), JobsFor(c))
        /\ UsesOf(base, promises[p], p, c)
             = Hits(promises[p].reactions, UsersOf(c)) + Hits(RestOf(base, promises[p], p), JobsFor(c))
    BY <2>6, <2>7, <2>8 DEF UsesOf, RecordLoad
  <2>10. Rests(base, promises, stack', promises', {p})
    BY <1>3, <1>5, <2>5 DEF Rests, SameUses
  <2>11. /\ PromiseLoad(base, promises, c) \in Nat
         /\ PromiseLoad(stack', promises', c)
              = PromiseLoad(base, promises, c) - UsesOf(base, promises[p], p, c)
                  + UsesOf(stack', promises'[p], p, c)
    <3>1. UsesOf(stack', promises'[p], p, c) \in Nat
      BY <2>8, <2>9
    <3>2. Moved(n, m, base, promises, stack', promises', p, c)
      BY <1>2, <2>10, <3>1 DEF Moved
    <3> QED BY <3>2, UsesMove
  <2>12. Load(stack', c) + PromiseLoad(stack', promises', c) = Load(base, c) + PromiseLoad(base, promises, c)
    BY <2>4, <2>8, <2>9, <2>11
  <2> QED BY <2>12 DEF InUse
<1> QED BY <1>4, <1>5

-----------------------------------------------------------------------------
(* Calls of resolving functions *)

\* How many uses of pair c there must be.
Due(c, objects, couples) ==
  IF \/ couples[c].exposed \/ couples[c].alreadyResolved
     \/ objects[couples[c].promise].lost THEN 0 ELSE 1
Balanced(jobs, frames, objects, couples) ==
  \A c \in 1..Len(couples) : InUse(jobs, frames, objects, c) = Due(c, objects, couples)

ReactionInv ==
  Sane(stack, promises, pairs, queue) /\ Balanced(queue, stack, promises, pairs)

\* Pair d is about to be called: its use is taken.
Calling(base, d) ==
  /\ Sane(base, promises, pairs, queue)
  /\ \A c \in 1..Len(pairs) :
       InUse(queue, base, promises, c) = IF c = d THEN 0 ELSE Due(c, promises, pairs)
  /\ ~pairs[d].alreadyResolved => ~promises[pairs[d].promise].lost

LEMMA DueKept ==
  ASSUME NEW n \in Nat, pairs \in Seq(Pairs(n)), n = Len(promises), PairsKeep,
         \A p \in 1..n : promises'[p].lost = promises[p].lost, NEW c \in 1..Len(pairs),
         pairs'[c].alreadyResolved = pairs[c].alreadyResolved
  PROVE  Due(c, promises', pairs') = Due(c, promises, pairs)
<1>1. pairs[c] \in Pairs(n)
  BY ElementOfSeq
<1>2. pairs[c].promise \in 1..n
  BY <1>1 DEF Pairs
<1>3. pairs'[c].promise = pairs[c].promise /\ pairs'[c].exposed = pairs[c].exposed
  BY DEF PairsKeep
<1> QED BY <1>2, <1>3 DEF Due

LEMMA TidySettled ==
  ASSUME NEW n \in Nat, NEW m \in Nat, NEW record \in PromiseObjects(n, m), Tidy(record),
         record.state = "pending", NEW state \in Settled, NEW result
  PROVE  LET changed == SettledAs(record, state, result) IN
         /\ Tidy(changed) /\ changed.lost = record.lost
         /\ changed.enqueueInProgress = record.enqueueInProgress
         /\ changed.reactionJobs = record.reactionJobs
BY DEF SettledAs, PromiseObjects, Tidy

LEMMA JobsLength ==
  ASSUME NEW n \in Nat, NEW m \in Nat, NEW objects \in Seq(PromiseObjects(n, m))
  PROVE  \A p \in 1..Len(objects) :
           objects[p] \in PromiseObjects(n, m) /\ Len(objects[p].reactionJobs) \in Nat
<1> TAKE p \in 1..Len(objects)
<1>1. objects[p] \in PromiseObjects(n, m)
  BY ElementOfSeq
<1>2. objects[p].reactionJobs \in Seq(ReactionJobs(n, m))
  BY <1>1 DEF PromiseObjects
<1> QED BY <1>1, <1>2, LenProperties

\* The typing of the state, with pairs c to be called on activations `base`.
Typed(n, m, base) ==
  /\ n \in 0..MaxPromises /\ m \in 0..MaxPairs /\ n = Len(promises) /\ m = Len(pairs)
  /\ n \in Nat /\ m \in Nat
  /\ promises \in Seq(PromiseObjects(n, m)) /\ pairs \in Seq(Pairs(n))
  /\ queue \in Seq(Jobs(n, m)) /\ base \in Seq(CallFrames(n, m))

\* Activations stay sane when only one promise changes, harmlessly.
LEMMA SaneChange ==
  ASSUME NEW n, NEW m, NEW base, Typed(n, m, base), Sane(base, promises, pairs, queue),
         NEW p \in 1..n, promises' \in Seq(PromiseObjects(n, m)), Len(promises') = n,
         \A q \in 1..n : q # p => promises'[q] = promises[q],
         Harmless(promises[p], promises'[p], base, p), PairsKeep, Len(pairs') = m,
         \A i \in 1..Len(queue') : queue'[i].kind = "thenable" => ~promises'[queue'[i].promise].lost
  PROVE  Sane(base, promises', pairs', queue')
<1> USE DEF Typed
<1>1. \A q \in 1..n : Len(promises'[q].reactionJobs) \in Nat
  BY JobsLength, Zenon
<1>2. ASSUME NEW q \in 1..n PROVE Harmless(promises[q], promises'[q], base, q)
  <2>1. CASE q = p
    BY <2>1
  <2>2. CASE q # p
    <3>1. Tidy(promises[q])
      BY DEF Sane
    <3>2. Len(promises[q].reactionJobs) \in Nat
      BY JobsLength
    <3>3. promises'[q] = promises[q]
      BY <2>2
    <3> QED BY <3>1, <3>2, <3>3 DEF Harmless
  <2> QED BY <2>1, <2>2
<1>3. \A q \in 1..Len(promises') : q \in 1..n \/ Tidy(promises'[q])
  OBVIOUS
<1>4. \A c \in 1..Len(pairs') :
        c \in 1..m \/ ~pairs'[c].exposed \/ ~promises'[pairs'[c].promise].lost
  OBVIOUS
<1> QED BY <1>1, <1>2, <1>3, <1>4, SaneKept, Zenon

LEMMA NoneLost ==
  ASSUME NEW n, NEW m, NEW base, Typed(n, m, base), Sane(base, promises, pairs, queue),
         \A p \in 1..n : promises'[p].lost = promises[p].lost, queue' = queue
  PROVE  \A i \in 1..Len(queue') : queue'[i].kind = "thenable" => ~promises'[queue'[i].promise].lost
<1> TAKE i \in 1..Len(queue')
<1> HAVE queue'[i].kind = "thenable"
<1>1. queue[i] \in Jobs(n, m)
  BY ElementOfSeq DEF Typed
<1>2. queue[i].promise \in 1..n
  BY <1>1 DEF Jobs, ThenableJobs, ReactionJobs
<1> QED BY <1>2 DEF Sane

LEMMA SettleSane ==
  ASSUME NEW n, NEW m, NEW base, Typed(n, m, base), Sane(base, promises, pairs, queue),
         NEW p \in 1..n, NEW state \in Settled, NEW result \in Values(n),
         Settle(p, state, result, base), PairsKeep, Len(pairs') = m
  PROVE  /\ Sane(stack', promises', pairs', queue') /\ queue' = queue
         /\ \A q \in 1..n : promises'[q].lost = promises[q].lost
<1>1. /\ promises' \in Seq(PromiseObjects(n, m)) /\ Len(promises') = n /\ queue' = queue
      /\ promises[p].state # "pending" => promises' = promises /\ stack' = base
      /\ promises[p].state = "pending" =>
           /\ stack' = Append(base, FreshTrigger(p, promises[p].reactions))
           /\ \A q \in 1..n : promises'[q] =
                IF q = p THEN SettledAs(promises[p], state, result) ELSE promises[q]
  BY SettleChanges DEF Typed
<1>2. promises[p] \in PromiseObjects(n, m) /\ Len(promises[p].reactionJobs) \in Nat
  BY JobsLength DEF Typed
<1>3. Tidy(promises[p])
  BY DEF Sane, Typed
<1>4. promises[p].state = "pending" =>
        LET changed == SettledAs(promises[p], state, result) IN
        /\ Tidy(changed) /\ changed.lost = promises[p].lost
        /\ changed.enqueueInProgress = promises[p].enqueueInProgress
        /\ changed.reactionJobs = promises[p].reactionJobs
  BY <1>2, <1>3, TidySettled DEF Typed
<1>5. Harmless(promises[p], promises'[p], base, p)
  <2>1. CASE promises[p].state = "pending"
    <3>1. promises'[p] = SettledAs(promises[p], state, result)
      BY <1>1, <2>1
    <3> QED BY <1>2, <1>4, <2>1, <3>1 DEF Harmless
  <2>2. CASE promises[p].state # "pending"
    BY <1>1, <1>2, <1>3, <2>2 DEF Harmless
  <2> QED BY <2>1, <2>2
<1>6. \A q \in 1..n : q # p => promises'[q] = promises[q]
  BY <1>1
<1>7. \A q \in 1..n : promises'[q].lost = promises[q].lost
  BY <1>5, <1>6 DEF Harmless
<1>8. Sane(base, promises', pairs', queue')
  <2>1. \A i \in 1..Len(queue') : queue'[i].kind = "thenable" => ~promises'[queue'[i].promise].lost
    BY <1>1, <1>7, NoneLost
  <2> QED BY <1>1, <1>5, <1>6, <2>1, SaneChange
<1>9. Sane(Append(base, FreshTrigger(p, promises[p].reactions)), promises', pairs', queue')
  <2>1. PICK frame : frame = FreshTrigger(p, promises[p].reactions)
    OBVIOUS
  <2>2. frame.kind = "trigger"
    BY <2>1 DEF FreshTrigger, TriggerFrame
  <2>3. promises[p].reactions \in Seq(Reactions(n, m))
    BY <1>2 DEF PromiseObjects
  <2>4. frame \in CallFrames(n, m)
    BY <2>1, <2>3, FreshFrames DEF Typed
  <2>5. Saved(frame, promises', pairs')
    BY <2>2 DEF Saved
  <2>6. base \in Seq(CallFrames(n, m))
    BY DEF Typed
  <2> QED BY <1>8, <2>1, <2>2, <2>4, <2>5, <2>6, SanePush
<1> QED BY <1>1, <1>7, <1>8, <1>9, Zenon

LEMMA CallUses ==
  ASSUME NEW n, NEW m, NEW base, Typed(n, m, base), NEW d \in 1..m, Calling(base, d),
         NEW value \in Values(n), Resolving(d, value, base)
  PROVE  ReactionInv'
<1> USE DEF Typed
<1>1. Sane(base, promises, pairs, queue)
  BY DEF Calling
<1>2. \A c \in 1..m : InUse(queue, base, promises, c) = IF c = d THEN 0 ELSE Due(c, promises, pairs)
  BY DEF Calling
<1>3. CASE /\ pairs[d].alreadyResolved
           /\ stack' = base /\ UNCHANGED <<promises, pairs, queue, checkpointState>>
  <2>1. Due(d, promises, pairs) = 0
    BY <1>3 DEF Due
  <2>2. \A c \in 1..m : InUse(queue, base, promises, c) = Due(c, promises, pairs)
    BY <1>2, <2>1
  <2>3. Sane(stack', promises', pairs', queue')
    BY <1>1, <1>3
  <2>4. Balanced(queue', stack', promises', pairs')
    BY <1>3, <2>2 DEF Balanced
  <2> QED BY <2>3, <2>4 DEF ReactionInv
<1>4. ASSUME ~pairs[d].alreadyResolved, pairs' = [pairs EXCEPT ![d].alreadyResolved = TRUE],
             queue' = queue, \A p \in 1..n : promises'[p].lost = promises[p].lost,
             \A c \in 1..m : InUse(queue, stack', promises', c) = InUse(queue, base, promises, c)
      PROVE  Balanced(queue', stack', promises', pairs')
  <2>1. PairsKeep /\ Len(pairs') = m
    BY <1>4, UseKeeps, Zenon
  <2>2. /\ pairs'[d].alreadyResolved
        /\ \A c \in 1..m : c # d => pairs'[c].alreadyResolved = pairs[c].alreadyResolved
    <3>1. \A c \in 1..m :
            pairs'[c] = IF c = d THEN [pairs[d] EXCEPT !.alreadyResolved = TRUE] ELSE pairs[c]
      BY <1>4, UsePair
    <3>2. pairs[d] \in Pairs(n)
      BY ElementOfSeq
    <3>3. [pairs[d] EXCEPT !.alreadyResolved = TRUE].alreadyResolved
      BY <3>2 DEF Pairs
    <3> QED BY <3>1, <3>3, Zenon
  <2>3. Due(d, promises', pairs') = 0
    BY <2>2 DEF Due
  <2>4. \A c \in 1..m : c # d => Due(c, promises', pairs') = Due(c, promises, pairs)
    BY <1>4, <2>1, <2>2, DueKept, Zenon
  <2>5. \A c \in 1..m : InUse(queue', stack', promises', c) = Due(c, promises', pairs')
    BY <1>2, <1>4, <2>3, <2>4, Zenon
  <2> QED BY <2>1, <2>5 DEF Balanced
<1>5. CASE /\ ~pairs[d].alreadyResolved
           /\ pairs' = [pairs EXCEPT ![d].alreadyResolved = TRUE]
           /\ \E state \in Settled, result \in Values(n) :
                Settle(pairs[d].promise, state, result, base)
  <2>1. PICK state \in Settled, result \in Values(n) : Settle(pairs[d].promise, state, result, base)
    BY <1>5
  <2>2. PairsKeep /\ Len(pairs') = m
    BY <1>5, UseKeeps, Zenon
  <2>3. pairs[d] \in Pairs(n)
    BY ElementOfSeq
  <2>4. pairs[d].promise \in 1..n
    BY <2>3 DEF Pairs
  <2>5. /\ Sane(stack', promises', pairs', queue') /\ queue' = queue
        /\ \A q \in 1..n : promises'[q].lost = promises[q].lost
    BY <1>1, <2>1, <2>2, <2>4, SettleSane, Zenon
  <2>6. Flushes(base, promises)
    BY <1>1 DEF Sane
  <2>7. \A c \in 1..m : InUse(queue, stack', promises', c) = InUse(queue, base, promises, c)
    BY <2>1, <2>4, <2>6, SettleUses
  <2>8. Balanced(queue', stack', promises', pairs')
    BY <1>4, <1>5, <2>5, <2>7
  <2> QED BY <2>5, <2>8 DEF ReactionInv
<1>6. CASE /\ ~pairs[d].alreadyResolved
           /\ pairs' = [pairs EXCEPT ![d].alreadyResolved = TRUE]
           /\ value \in 0..n /\ value # pairs[d].promise
           /\ stack' = Append(base, GetThenFrame(pairs[d].promise, value))
           /\ UNCHANGED <<promises, queue, checkpointState>>
  <2>1. PICK frame : frame = GetThenFrame(pairs[d].promise, value)
    OBVIOUS
  <2>2. PairsKeep /\ Len(pairs') = m
    BY <1>6, UseKeeps, Zenon
  <2>3. pairs[d] \in Pairs(n)
    BY ElementOfSeq
  <2>4. pairs[d].promise \in 1..n
    BY <2>3 DEF Pairs
  <2>5. frame \in CallFrames(n, m) /\ frame.kind = "getThen" /\ frame.promise = pairs[d].promise
    <3>1. frame \in CallFrames(n, m)
      BY <1>6, <2>1, <2>4, FramesAreFrames
    <3> QED BY <2>1, <3>1 DEF GetThenFrame
  <2>6. base \in Seq(Frame) /\ frame \in Frame
    BY <2>5, ReactionTypes, SeqMonotonic
  <2>7. frame.kind \in Idle /\ \A q : ~IsFlush(frame, q)
    BY <2>5 DEF Idle, IsFlush
  <2>8. ASSUME NEW c \in 1..m PROVE InUse(queue, stack', promises', c) = InUse(queue, base, promises, c)
    <3>1. Load(stack', c) = Load(base, c)
      BY <1>6, <2>1, <2>6, <2>7, IdlePush
    <3>2. \A q : FlushedIn(stack', q) = FlushedIn(base, q)
      BY <1>6, <2>1, <2>6, <2>7, FlushedPush
    <3>3. Rests(base, promises, stack', promises', {})
      BY <1>6, <3>2 DEF Rests, SameUses
    <3>4. Flushes(base, promises)
      BY <1>1 DEF Sane
    <3>5. PromiseLoad(stack', promises', c) = PromiseLoad(base, promises, c)
      BY <3>3, <3>4, UsesStay
    <3> QED BY <3>1, <3>5 DEF InUse
  <2>9. Balanced(queue', stack', promises', pairs')
    BY <1>4, <1>6, <2>8
  <2>10. Sane(base, promises', pairs', queue')
    <3>1. \A i \in 1..Len(queue') : queue'[i].kind = "thenable" => ~promises'[queue'[i].promise].lost
      BY <1>1, <1>6, Zenon DEF Sane
    <3>2. Harmless(promises[pairs[d].promise], promises'[pairs[d].promise], base, pairs[d].promise)
      <4>1. Tidy(promises[pairs[d].promise])
        BY <1>1, <2>4 DEF Sane
      <4>2. Len(promises[pairs[d].promise].reactionJobs) \in Nat
        BY <2>4, JobsLength, Zenon
      <4> QED BY <1>6, <4>1, <4>2 DEF Harmless
    <3>3. promises' \in Seq(PromiseObjects(n, m)) /\ Len(promises') = n /\ promises' = promises
      BY <1>6
    <3> QED BY <1>1, <2>2, <2>4, <3>1, <3>2, <3>3, SaneChange, Zenon
  <2>11. Saved(frame, promises', pairs')
    BY <1>6, <2>5 DEF Saved, Calling
  <2>12. Sane(stack', promises', pairs', queue')
    BY <1>6, <2>1, <2>5, <2>10, <2>11, SanePush
  <2> QED BY <2>9, <2>12 DEF ReactionInv
<1> QED BY <1>3, <1>5, <1>6, CallCases, Zenon

Countable(n, m, jobs, frames, objects) ==
  /\ n \in Nat /\ m \in Nat /\ objects \in Seq(PromiseObjects(n, m)) /\ Flushes(frames, objects)
  /\ frames \in Seq(Frame) /\ \E J : jobs \in Seq(J)

LEMMA InUseNumber ==
  ASSUME NEW n, NEW m, NEW jobs, NEW frames, NEW objects, Countable(n, m, jobs, frames, objects), NEW c
  PROVE  /\ InUse(jobs, frames, objects, c) \in Nat /\ Hits(jobs, JobsFor(c)) \in Nat
         /\ Load(frames, c) \in Nat /\ PromiseLoad(frames, objects, c) \in Nat
<1> USE DEF Countable
<1>1. Hits(jobs, JobsFor(c)) \in Nat
  BY HitsType
<1>2. Load(frames, c) \in Nat
  BY LoadNumber
<1>3. PromiseLoad(frames, objects, c) \in Nat
  <2>1. Rests(frames, objects, frames, objects, {})
    <3>1. Len(objects) \in Nat
      BY LenProperties
    <3> QED BY <3>1 DEF Rests, SameUses
  <2> QED BY <2>1, UsesStay
<1> QED BY <1>1, <1>2, <1>3 DEF InUse

LEMMA InUsePush ==
  ASSUME NEW n, NEW m, NEW jobs, NEW frames, NEW objects, Countable(n, m, jobs, frames, objects),
         NEW frame \in Frame, frame.kind # "flush", NEW c
  PROVE  InUse(jobs, Append(frames, frame), objects, c) = InUse(jobs, frames, objects, c) + FrameLoad(frame, c)
<1>1. frames \in Seq(Frame) /\ n \in Nat /\ m \in Nat /\ objects \in Seq(PromiseObjects(n, m))
      /\ Flushes(frames, objects)
  BY DEF Countable
<1>2. /\ Load(Append(frames, frame), c) = Load(frames, c) + FrameLoad(frame, c)
      /\ FrameLoad(frame, c) \in Nat
  BY <1>1, LoadPush
<1>3. \A q : FlushedIn(Append(frames, frame), q) = FlushedIn(frames, q)
  <2> TAKE q
  <2>1. ~IsFlush(frame, q)
    BY DEF IsFlush
  <2> QED BY <1>1, <2>1, FlushedPush
<1>4. Rests(frames, objects, Append(frames, frame), objects, {})
  <2>1. Len(objects) \in Nat
    BY <1>1, LenProperties
  <2> QED BY <1>3, <2>1 DEF Rests, SameUses
<1>5. PromiseLoad(Append(frames, frame), objects, c) = PromiseLoad(frames, objects, c)
  BY <1>1, <1>4, UsesStay
<1>6. /\ Hits(jobs, JobsFor(c)) \in Nat /\ Load(frames, c) \in Nat
      /\ PromiseLoad(frames, objects, c) \in Nat
  BY InUseNumber
<1> QED BY <1>2, <1>5, <1>6 DEF InUse

LEMMA InUsePop ==
  ASSUME NEW n, NEW m, NEW jobs, NEW frames, NEW objects, Countable(n, m, jobs, frames, objects),
         frames # <<>>, Last(frames).kind # "flush", NEW c
  PROVE  /\ InUse(jobs, frames, objects, c) = InUse(jobs, Front(frames), objects, c) + FrameLoad(Last(frames), c)
         /\ InUse(jobs, Front(frames), objects, c) \in Nat
         /\ Countable(n, m, jobs, Front(frames), objects)
<1>1. /\ frames \in Seq(Frame) /\ Front(frames) \in Seq(Frame) /\ Last(frames) \in Frame
      /\ frames = Append(Front(frames), Last(frames)) /\ Flushes(frames, objects)
  BY FrontLast, AppendFrontLast DEF Countable
<1>2. Flushes(Front(frames), objects)
  BY <1>1, FlushesPop
<1>3. Countable(n, m, jobs, Front(frames), objects)
  BY <1>1, <1>2 DEF Countable
<1>4. InUse(jobs, Append(Front(frames), Last(frames)), objects, c)
        = InUse(jobs, Front(frames), objects, c) + FrameLoad(Last(frames), c)
  BY <1>1, <1>3, InUsePush
<1>5. InUse(jobs, Front(frames), objects, c) \in Nat
  BY <1>3, InUseNumber
<1> QED BY <1>1, <1>3, <1>4, <1>5, Zenon

LEMMA TypedBase ==
  ASSUME TypeInv, NEW base, Ready(base)
  PROVE  Typed(Len(promises), Len(pairs), base)
<1>1. /\ Len(promises) \in Nat /\ Len(pairs) \in Nat
      /\ Len(promises) \in 0..MaxPromises /\ Len(pairs) \in 0..MaxPairs
  BY TopFrame
<1> QED BY <1>1 DEF Ready, Typed

LEMMA StackCounts ==
  ASSUME TypeInv, ReactionInv
  PROVE  /\ Countable(Len(promises), Len(pairs), queue, stack, promises)
         /\ Len(promises) \in Nat /\ Len(pairs) \in Nat /\ stack \in Seq(Frame)
         /\ \A c \in 1..Len(pairs) : InUse(queue, stack, promises, c) = Due(c, promises, pairs)
<1>1. /\ Len(promises) \in Nat /\ Len(pairs) \in Nat
  BY TopFrame
<1>2. stack \in Seq(Frame)
  BY StackTypes DEF TypeOK
<1>3. promises \in Seq(PromiseObjects(Len(promises), Len(pairs))) /\ queue \in Seq(Jobs(Len(promises), Len(pairs)))
  BY DEF TypeInv, Ready
<1>4. Flushes(stack, promises)
  BY DEF ReactionInv, Sane
<1> QED BY <1>1, <1>2, <1>3, <1>4 DEF Countable, ReactionInv, Balanced

\* The innermost activation, which will use pair d, is left.
LEMMA LeavesToCall ==
  ASSUME TypeInv, ReactionInv, stack # <<>>, Last(stack).kind # "flush",
         NEW d \in 1..Len(pairs), NEW base, Sane(base, promises, pairs, queue),
         \A c \in 1..Len(pairs) : InUse(queue, base, promises, c) =
           InUse(queue, stack, promises, c) - (IF c = d THEN 1 ELSE 0),
         InUse(queue, base, promises, d) \in Nat
  PROVE  Calling(base, d)
<1>1. \A c \in 1..Len(pairs) : InUse(queue, stack, promises, c) = Due(c, promises, pairs)
  BY StackCounts
<1>2. \A c \in 1..Len(pairs) : Due(c, promises, pairs) \in {0, 1}
  BY DEF Due
<1>3. Due(d, promises, pairs) = 1
  <2>1. InUse(queue, base, promises, d) = Due(d, promises, pairs) - 1
    BY <1>1
  <2> QED BY <1>2, <2>1
<1>4. \A c \in 1..Len(pairs) : InUse(queue, base, promises, c) = IF c = d THEN 0 ELSE Due(c, promises, pairs)
  BY <1>1, <1>2, <1>3
<1>5. ~promises[pairs[d].promise].lost
  BY <1>3 DEF Due
<1> QED BY <1>4, <1>5 DEF Calling

LEMMA CallsOnce ==
  ASSUME TypeInv, NEW base, CallBase(base), NEW c \in 1..Len(pairs), Calling(base, c),
         NEW value \in Values(Len(promises)), Resolving(c, value, base)
  PROVE  ReactionInv'
<1>1. Typed(Len(promises), Len(pairs), base)
  BY BaseTypes, TypedBase
<1> QED BY <1>1, CallUses

LEMMA ProgramCallUses ==
  ASSUME TypeInv, ReactionInv, NEW c \in 1..MaxPairs,
         \/ ProgramRejects(c)
         \/ \E value \in {Primitive, NewObject} \cup 1..MaxPromises : ProgramResolves(c, value)
  PROVE  ReactionInv'
<1>1. c \in 1..Len(pairs) /\ pairs[c].exposed /\ CallBase(stack)
  BY DEF ProgramRejects, ProgramResolves, Exposed, ForeignCode, CallBase
<1>2. GuestError \in Values(Len(promises))
  BY DEF Values
<1>3. Calling(stack, c)
  <2>1. Due(c, promises, pairs) = 0
    BY <1>1 DEF Due
  <2>2. Sane(stack, promises, pairs, queue) /\ Balanced(queue, stack, promises, pairs)
    BY DEF ReactionInv
  <2>3. ~pairs[c].alreadyResolved => ~promises[pairs[c].promise].lost
    BY <1>1, <2>2 DEF Sane
  <2>4. \A d \in 1..Len(pairs) : InUse(queue, stack, promises, d) = Due(d, promises, pairs)
    BY <2>2 DEF Balanced
  <2> QED BY <2>1, <2>2, <2>3, <2>4 DEF Calling
<1>4. CASE ProgramRejects(c)
  <2>1. Resolving(c, GuestError, stack)
    BY <1>4 DEF ProgramRejects, Resolving
  <2> QED BY <1>1, <1>2, <1>3, <2>1, CallsOnce
<1>5. ASSUME NEW value \in {Primitive, NewObject} \cup 1..MaxPromises, ProgramResolves(c, value)
      PROVE  ReactionInv'
  <2>1. value \in {Primitive, NewObject} \cup 1..Len(promises) /\ Len(promises) \in Nat
    BY <1>5, TopFrame DEF ProgramResolves, Reachable
  <2>2. value \in Values(Len(promises))
    BY <2>1 DEF Values, NewObject
  <2>3. Resolving(c, value, stack)
    BY <1>5 DEF ProgramResolves, Resolving
  <2> QED BY <1>1, <1>3, <2>2, <2>3, CallsOnce
<1> QED BY <1>4, <1>5

LEMMA ReturnUses ==
  ASSUME TypeInv, ReactionInv,
         \/ NativeReturns \/ HandlerThrows \/ ThenFails
         \/ \E value \in {Primitive, NewObject} \cup 1..MaxPromises : HandlerReturns(value)
  PROVE  ReactionInv'
<1>1. PICK c : c = Last(stack).pair
  OBVIOUS
<1>2. PICK base : base = Front(stack)
  OBVIOUS
<1>3. running \in {"native", "handler", "thenable"}
  BY DEF NativeReturns, HandlerThrows, ThenFails, HandlerReturns, Engine, Running
<1>4. /\ stack # <<>> /\ Last(stack).kind = running /\ stack \in Seq(Frame)
      /\ Last(stack) \in CallFrames(Len(promises), Len(pairs)) /\ Last(stack) \in Frame
      /\ Len(promises) \in Nat /\ Len(pairs) \in Nat
  BY <1>3, TopFrame, StackTypes, FrontLast DEF TypeOK
<1>5. c \in 1..Len(pairs) /\ CallBase(base)
  BY <1>1, <1>2, <1>3, <1>4, FrameFields DEF CallBase
<1>6. Sane(base, promises, pairs, queue) /\ Saved(Last(stack), promises, pairs)
  BY <1>2, <1>4, SanePop DEF ReactionInv
<1>7. \A d : /\ InUse(queue, stack, promises, d) = InUse(queue, base, promises, d) + FrameLoad(Last(stack), d)
             /\ InUse(queue, base, promises, d) \in Nat
  <2> TAKE d
  <2>1. PICK n, m : Countable(n, m, queue, stack, promises)
    BY StackCounts
  <2>2. Last(stack).kind # "flush"
    BY <1>3, <1>4
  <2>3. /\ InUse(queue, stack, promises, d) = InUse(queue, Front(stack), promises, d) + FrameLoad(Last(stack), d)
        /\ InUse(queue, Front(stack), promises, d) \in Nat
        /\ Countable(n, m, queue, Front(stack), promises)
    BY <1>4, <2>1, <2>2, InUsePop, Zenon
  <2> QED BY <1>2, <2>3
<1>8. Calling(base, c)
  <2>1. CASE running = "thenable"
    <3>1. pairs[c].exposed
      BY <1>1, <1>4, <1>6, <2>1 DEF Saved
    <3>2. \A d : FrameLoad(Last(stack), d) = 0
      BY <1>4, <2>1, FrameLoads DEF Idle
    <3>3. \A d \in 1..Len(pairs) : InUse(queue, base, promises, d) = Due(d, promises, pairs)
      BY <1>7, <3>2, StackCounts
    <3>4. Due(c, promises, pairs) = 0
      BY <3>1 DEF Due
    <3>5. ~pairs[c].alreadyResolved => ~promises[pairs[c].promise].lost
      BY <1>5, <1>6, <3>1 DEF Sane
    <3> QED BY <1>6, <3>3, <3>4, <3>5 DEF Calling
  <2>2. CASE running \in {"native", "handler"}
    <3>1. \A d : FrameLoad(Last(stack), d) = IF d = c THEN 1 ELSE 0
      BY <1>1, <1>4, <2>2, FrameLoads
    <3>2. ASSUME NEW d
          PROVE  InUse(queue, base, promises, d) = InUse(queue, stack, promises, d) - (IF d = c THEN 1 ELSE 0)
      BY <1>7, <3>1
    <3>3. Last(stack).kind # "flush"
      BY <1>4, <2>2
    <3> QED BY <1>4, <1>5, <1>6, <1>7, <3>2, <3>3, LeavesToCall
  <2> QED BY <1>3, <2>1, <2>2
<1>9. ASSUME NEW value \in Values(Len(promises)), Resolving(c, value, base)
      PROVE  ReactionInv'
  BY <1>5, <1>8, <1>9, CallsOnce
<1>10. Primitive \in Values(Len(promises)) /\ GuestError \in Values(Len(promises))
  BY DEF Values
<1>11. CASE NativeReturns
  BY <1>1, <1>2, <1>9, <1>10, <1>11 DEF NativeReturns, Resolving
<1>12. CASE HandlerThrows \/ ThenFails
  BY <1>1, <1>2, <1>9, <1>10, <1>12 DEF HandlerThrows, ThenFails, Resolving
<1>13. ASSUME NEW value \in {Primitive, NewObject} \cup 1..MaxPromises, HandlerReturns(value)
       PROVE  ReactionInv'
  <2>1. value \in {Primitive, NewObject} \cup 1..Len(promises)
    BY <1>13 DEF HandlerReturns, Reachable
  <2>2. value \in Values(Len(promises))
    BY <1>4, <2>1 DEF Values, NewObject
  <2> QED BY <1>1, <1>2, <1>9, <1>13, <2>2 DEF HandlerReturns, Resolving
<1> QED BY <1>11, <1>12, <1>13

LEMMA ReactionUses ==
  ASSUME TypeInv, ReactionInv, RunReaction
  PROVE  ReactionInv'
<1>1. PICK n : n = Len(promises)
  BY Zenon
<1>2. PICK m : m = Len(pairs)
  BY Zenon
<1>3. PICK job : job = Last(stack).job
  OBVIOUS
<1>4. PICK base : base = Front(stack)
  OBVIOUS
<1>5. running = "job" /\ job.kind = "reaction"
  BY <1>3 DEF RunReaction, Engine, Running
<1>6. /\ stack # <<>> /\ Last(stack) \in JobFrames(n, m) /\ Last(stack).kind = "job"
      /\ n \in Nat /\ m \in Nat /\ n \in 0..MaxPromises /\ m \in 0..MaxPairs /\ stack \in Seq(Frame)
      /\ Last(stack) \in Frame /\ base \in Seq(Frame)
  BY <1>1, <1>2, <1>4, <1>5, TopFrame, StackTypes, FrontLast DEF TypeOK
<1>7. job \in ReactionJobs(n, m)
  <2>1. job \in Jobs(n, m)
    BY <1>3, <1>6 DEF JobFrames
  <2> QED BY <1>5, <2>1 DEF Jobs, ThenableJobs
<1>8. PICK d : d = job.reaction.derived
  OBVIOUS
<1>9. PICK handler : handler = job.reaction.handler
  OBVIOUS
<1>10. /\ d \in 1..m /\ handler \in {NoHandler, Program} \cup 1..m /\ handler < d
       /\ job.argument \in Values(n) /\ job.type \in Settled
  BY <1>7, <1>8, <1>9 DEF ReactionJobs, Reactions
<1>11. \A c : FrameLoad(Last(stack), c) = IF c = d \/ c = handler THEN 1 ELSE 0
  <2> TAKE c
  <2>1. FrameLoad(Last(stack), c) = IF job \in JobsFor(c) THEN 1 ELSE 0
    BY <1>3, <1>6, FrameLoads
  <2>2. job \in JobsFor(c) <=> c = d \/ c = handler
    <3>1. job \in Job
      BY <1>6, <1>7, ReactionTypes
    <3> QED BY <1>5, <1>6, <1>8, <1>9, <3>1, ReactionTypes
  <2> QED BY <2>1, <2>2
<1>12. /\ \A c : /\ InUse(queue, stack, promises, c) = InUse(queue, base, promises, c) + FrameLoad(Last(stack), c)
                 /\ InUse(queue, base, promises, c) \in Nat
       /\ Countable(n, m, queue, base, promises)
  <2>1. Last(stack).kind # "flush" /\ Countable(n, m, queue, stack, promises)
    BY <1>1, <1>2, <1>6, StackCounts
  <2> QED BY <1>4, <1>6, <2>1, InUsePop
<1>13. Sane(base, promises, pairs, queue)
  BY <1>4, <1>6, SanePop DEF ReactionInv
<1>14. CallBase(base) /\ CallBase(Append(base, NativeFrame(d)))
  BY <1>2, <1>3, <1>4, <1>5, <1>10 DEF CallBase
<1>15. ASSUME NEW frame \in {HandlerFrame(d), NativeFrame(d)}
       PROVE  /\ \A c : InUse(queue, Append(base, frame), promises, c)
                          = InUse(queue, base, promises, c) + (IF c = d THEN 1 ELSE 0)
              /\ Sane(Append(base, frame), promises, pairs, queue)
  <2>1. frame.kind \in {"handler", "native"} /\ frame.pair = d
    BY <1>15 DEF HandlerFrame, NativeFrame
  <2>2. frame \in Frame
    <3>1. frame \in CallFrames(n, m)
      BY <1>6, <1>10, <1>15, FramesAreFrames
    <3> QED BY <1>6, <3>1, ReactionTypes
  <2>3. Saved(frame, promises, pairs)
    BY <2>1 DEF Saved
  <2>4. Sane(Append(base, frame), promises, pairs, queue)
    BY <1>6, <1>13, <2>1, <2>2, <2>3, SanePush
  <2>5. ASSUME NEW c
        PROVE  InUse(queue, Append(base, frame), promises, c)
                 = InUse(queue, base, promises, c) + (IF c = d THEN 1 ELSE 0)
    <3>1. FrameLoad(frame, c) = IF c = d THEN 1 ELSE 0
      BY <2>1, <2>2, FrameLoads
    <3>2. InUse(queue, Append(base, frame), promises, c) = InUse(queue, base, promises, c) + FrameLoad(frame, c)
      BY <1>12, <2>1, <2>2, InUsePush
    <3> QED BY <3>1, <3>2
  <2> QED BY <2>4, <2>5
<1>16. ASSUME NEW c \in 1..m, NEW over, CallBase(over), Calling(over, c),
              CallPair(c, job.type, job.argument, over)
       PROVE  ReactionInv'
  <2>1. Resolving(c, job.argument, over)
    BY <1>16 DEF CallPair, Resolving
  <2> QED BY <1>1, <1>2, <1>10, <1>16, <2>1, CallsOnce
<1>17. CASE handler = NoHandler /\ CallPair(d, job.type, job.argument, base)
  <2>1. \A c \in 1..m : InUse(queue, base, promises, c) =
                          InUse(queue, stack, promises, c) - (IF c = d THEN 1 ELSE 0)
    <3> TAKE c \in 1..m
    <3>1. c # handler
      BY <1>17 DEF NoHandler
    <3> QED BY <1>11, <1>12, <3>1
  <2>2. Calling(base, d)
    <3>1. Last(stack).kind # "flush"
      BY <1>6
    <3> QED BY <1>2, <1>6, <1>10, <1>12, <1>13, <2>1, <3>1, LeavesToCall
  <2> QED BY <1>10, <1>14, <1>16, <1>17, <2>2
<1>18. CASE /\ handler = Program /\ stack' = Append(base, HandlerFrame(d))
            /\ UNCHANGED <<promises, pairs, queue>>
  <2>1. /\ \A c : InUse(queue, stack', promises, c) = InUse(queue, base, promises, c) + (IF c = d THEN 1 ELSE 0)
        /\ Sane(stack', promises, pairs, queue)
    BY <1>15, <1>18
  <2>2. ASSUME NEW c \in 1..m PROVE InUse(queue, stack', promises, c) = Due(c, promises, pairs)
    <3>1. c # handler
      BY <1>18 DEF Program
    <3>2. InUse(queue, stack, promises, c) = Due(c, promises, pairs)
      BY <1>2, StackCounts
    <3> QED BY <1>11, <1>12, <2>1, <3>1, <3>2
  <2>3. Balanced(queue', stack', promises', pairs')
    BY <1>2, <1>18, <2>2 DEF Balanced
  <2> QED BY <1>18, <2>1, <2>3 DEF ReactionInv
<1>19. CASE /\ handler \in 1..MaxPairs
            /\ CallPair(handler, job.type, job.argument, Append(base, NativeFrame(d)))
  <2>1. handler \in 1..m
    BY <1>10, <1>19 DEF NoHandler, Program
  <2>2. PICK over : over = Append(base, NativeFrame(d))
    BY Zenon
  <2>3. /\ \A c : InUse(queue, over, promises, c) = InUse(queue, base, promises, c) + (IF c = d THEN 1 ELSE 0)
        /\ Sane(over, promises, pairs, queue)
    BY <1>15, <2>2
  <2>4. \A c \in 1..m : InUse(queue, over, promises, c) =
                          InUse(queue, stack, promises, c) - (IF c = handler THEN 1 ELSE 0)
    <3> TAKE c \in 1..m
    <3>1. d # handler
      BY <1>10, <2>1
    <3> QED BY <1>11, <1>12, <2>3, <3>1
  <2>5. InUse(queue, over, promises, handler) \in Nat
    BY <1>12, <2>3
  <2>6. Calling(over, handler)
    <3>1. Last(stack).kind # "flush"
      BY <1>6
    <3> QED BY <1>2, <1>6, <2>1, <2>3, <2>4, <2>5, <3>1, LeavesToCall
  <2> QED BY <1>14, <1>16, <1>19, <2>1, <2>2, <2>6
<1>20. \/ handler = NoHandler /\ CallPair(d, job.type, job.argument, base)
       \/ /\ handler = Program /\ stack' = Append(base, HandlerFrame(d))
          /\ UNCHANGED <<promises, pairs, queue>>
       \/ /\ handler \in 1..MaxPairs
          /\ CallPair(handler, job.type, job.argument, Append(base, NativeFrame(d)))
  BY <1>3, <1>4, <1>8, <1>9 DEF RunReaction
<1> QED BY <1>17, <1>18, <1>19, <1>20

-----------------------------------------------------------------------------
(* Registrations *)

LEMMA ThenTidy ==
  ASSUME NEW n \in Nat, NEW m \in Nat, NEW record \in PromiseObjects(n, m), Tidy(record)
  PROVE  /\ \A reaction : record.state = "pending" =>
              /\ Tidy(Registered(record, reaction))
              /\ Registered(record, reaction).enqueueInProgress = record.enqueueInProgress
         /\ \A job : record.enqueueInProgress =>
              /\ Tidy(HoldingBack(record, job))
              /\ HoldingBack(record, job).enqueueInProgress = record.enqueueInProgress
         /\ \A job, p : record.state = "rejected" =>
              /\ Tidy(MarkedNow(p, Flushing(record, job)))
              /\ MarkedNow(p, Flushing(record, job)).enqueueInProgress
<1>1. ASSUME NEW reaction, record.state = "pending"
      PROVE  /\ Tidy(Registered(record, reaction))
             /\ Registered(record, reaction).enqueueInProgress = record.enqueueInProgress
  BY <1>1 DEF Registered, PromiseObjects, Tidy
<1>2. ASSUME NEW job, record.enqueueInProgress
      PROVE  /\ Tidy(HoldingBack(record, job))
             /\ HoldingBack(record, job).enqueueInProgress = record.enqueueInProgress
  BY <1>2, Zenon DEF HoldingBack, PromiseObjects, Tidy
<1>3. ASSUME NEW job, NEW p, record.state = "rejected"
      PROVE  /\ Tidy(MarkedNow(p, Flushing(record, job)))
             /\ MarkedNow(p, Flushing(record, job)).enqueueInProgress
  BY <1>3 DEF MarkedNow, Marked, Reported, Flushing, PromiseObjects, Tidy
<1> QED BY <1>1, <1>2, <1>3

LEMMA ChildIsBlank ==
  \A p, handler, reachable :
    /\ Blank(Child(p, handler, reachable)) /\ Tidy(Child(p, handler, reachable))
    /\ ~Child(p, handler, reachable).lost
BY DEF Child, PendingPromise, Blank, Tidy

\* What PerformThen starts from.
Registering(n, m, base, p, handler, before, reachable) ==
  /\ Typed(n, m, base) /\ Sane(base, promises, pairs, queue) /\ p \in 1..n
  /\ before \in Seq(Pairs(n)) /\ m <= Len(before)
  /\ \A c \in 1..m : before[c] = pairs[c]
  /\ \A c \in 1..Len(before) : c \in 1..m \/ ~before[c].exposed
  /\ handler \in {NoHandler, Program} \cup 1..Len(before)
  /\ n + 1 <= MaxPromises /\ Len(before) + 1 <= MaxPairs
  /\ ThenDone(p, handler, before, reachable, base)

LEMMA RestAppend ==
  ASSUME NEW S, NEW s \in Seq(S), NEW k \in 0..Len(s), NEW x
  PROVE  SubSeq(Append(s, x), k + 1, Len(Append(s, x))) = Append(SubSeq(s, k + 1, Len(s)), x)
<1>1. PICK T : T = S \cup {x}
  BY Zenon
<1>2. s \in Seq(T) /\ x \in T
  <2>1. S \subseteq T
    BY <1>1
  <2> QED BY <1>1, <2>1, SeqMonotonic
<1>3. PICK t : t = Append(s, x)
  BY Zenon
<1>4. /\ t \in Seq(T) /\ Len(t) = Len(s) + 1 /\ t[Len(s) + 1] = x /\ \A i \in 1..Len(s) : t[i] = s[i]
      /\ Len(s) \in Nat
  BY <1>2, <1>3, AppendProperties, LenProperties
<1>5. k \in 0..Len(t)
  BY <1>4
<1>6. PICK u : u = SubSeq(t, k + 1, Len(t))
  BY Zenon
<1>7. PICK r : r = SubSeq(s, k + 1, Len(s))
  BY Zenon
<1>8. u \in Seq(T) /\ Len(u) = Len(t) - k /\ \A i \in 1..(Len(t) - k) : u[i] = t[k + i]
  BY <1>4, <1>5, <1>6, SliceTypes
<1>9. r \in Seq(T) /\ Len(r) = Len(s) - k /\ \A i \in 1..(Len(s) - k) : r[i] = s[k + i]
  BY <1>2, <1>7, SliceTypes
<1>10. PICK v : v = Append(r, x)
  BY Zenon
<1>11. /\ v \in Seq(T) /\ Len(v) = Len(r) + 1 /\ v[Len(r) + 1] = x /\ \A i \in 1..Len(r) : v[i] = r[i]
  BY <1>2, <1>9, <1>10, AppendProperties
<1>12. Len(u) = Len(v)
  BY <1>4, <1>8, <1>9, <1>11
<1>13. ASSUME NEW i \in 1..Len(u) PROVE u[i] = v[i]
  <2>1. CASE i \in 1..Len(r)
    <3>1. i \in 1..(Len(t) - k) /\ i \in 1..(Len(s) - k) /\ k + i \in 1..Len(s)
      BY <1>4, <1>9, <2>1
    <3> QED BY <1>4, <1>8, <1>9, <1>11, <2>1, <3>1
  <2>2. CASE i = Len(r) + 1
    <3>1. i \in 1..(Len(t) - k) /\ k + i = Len(s) + 1
      BY <1>4, <1>8, <1>9, <2>2
    <3> QED BY <1>4, <1>8, <1>11, <2>2, <3>1
  <2>3. i \in 1..Len(r) \/ i = Len(r) + 1
    BY <1>4, <1>8, <1>9
  <2> QED BY <2>1, <2>2, <2>3
<1>14. u = v
  BY <1>8, <1>11, <1>12, <1>13, SeqEqual
<1> QED BY <1>3, <1>6, <1>7, <1>10, <1>14, Zenon

LEMMA RegisteredPairs ==
  ASSUME NEW n, NEW m, NEW base, NEW p, NEW handler, NEW before, NEW reachable,
         Registering(n, m, base, p, handler, before, reachable)
  PROVE  /\ n \in Nat /\ m \in Nat /\ Len(before) \in Nat /\ Len(pairs') = Len(before) + 1
         /\ PairsKeep /\ Len(promises') = n + 1 /\ promises'[n + 1] = Child(p, handler, reachable)
         /\ \A c \in 1..Len(before) : pairs'[c] = before[c]
         /\ pairs'[Len(before) + 1] = HiddenPair(n + 1)
         /\ \A c \in 1..Len(pairs') :
              c \in 1..m \/ ~pairs'[c].exposed \/ ~promises'[pairs'[c].promise].lost
         /\ \A q \in 1..n : q # p => promises'[q] = promises[q]
         /\ promises[p] \in PromiseObjects(n, m) /\ Tidy(promises[p]) /\ p \in 1..n
         /\ promises'[p].lost = promises[p].lost
<1> USE DEF Registering, Typed
<1>1. /\ n \in Nat /\ m \in Nat /\ Len(before) \in Nat /\ pairs' = Append(before, HiddenPair(n + 1))
      /\ Len(promises') = n + 1 /\ promises'[n + 1] = Child(p, handler, reachable)
      /\ \A q \in 1..n : q # p => promises'[q] = promises[q]
  BY LenProperties DEF ThenDone
<1>2. /\ Len(pairs') = Len(before) + 1 /\ pairs'[Len(before) + 1] = HiddenPair(n + 1)
      /\ \A c \in 1..Len(before) : pairs'[c] = before[c]
  BY <1>1, AppendAny
<1>3. PairsKeep
  <2>1. \A c \in 1..m : pairs'[c] = pairs[c]
    BY <1>1, <1>2
  <2> QED BY <2>1 DEF PairsKeep
<1>4. ~pairs'[Len(before) + 1].exposed
  BY <1>2 DEF HiddenPair, NewPair
<1>5. \A c \in 1..Len(pairs') :
        c \in 1..m \/ ~pairs'[c].exposed \/ ~promises'[pairs'[c].promise].lost
  BY <1>1, <1>2, <1>4
<1>6. promises[p] \in PromiseObjects(n, m) /\ Tidy(promises[p]) /\ p \in 1..n
  <2>1. promises[p] \in PromiseObjects(n, m)
    BY ElementOfSeq
  <2> QED BY <2>1 DEF Sane
<1>7. promises'[p].lost = promises[p].lost
  BY <1>1, <1>6, Alike DEF ThenDone
<1> QED BY <1>1, <1>2, <1>3, <1>5, <1>6, <1>7, Zenon

LEMMA ThenHarmless ==
  ASSUME NEW n, NEW m, NEW base, NEW p, NEW handler, NEW before, NEW reachable,
         Registering(n, m, base, p, handler, before, reachable)
  PROVE  /\ Harmless(promises[p], promises'[p], base, p)
         /\ Len(promises'[p].reactionJobs) \in Nat
         /\ promises[p].state = "rejected" /\ ~Buffers(p) => Unflushed(base, p)
<1>1. /\ n \in Nat /\ m \in Nat /\ promises[p] \in PromiseObjects(n, m) /\ Tidy(promises[p]) /\ p \in 1..n
      /\ promises'[p].lost = promises[p].lost
  BY RegisteredPairs
<1>2. promises[p].reactionJobs \in Seq(ReactionJobs(n, m)) /\ Len(promises[p].reactionJobs) \in Nat
  BY <1>1, LenProperties DEF PromiseObjects
<1>3. PICK reaction : reaction = NewReaction(p, Len(before), handler)
  OBVIOUS
<1>4. PICK job : job = JobNow(p, reaction)
  OBVIOUS
<1>5. ~promises[p].enqueueInProgress => Unflushed(base, p)
  <2>1. Flushes(base, promises)
    BY DEF Registering, Sane
  <2> QED BY <1>2, <2>1, FlushedRange
<1>6. CASE promises[p].state = "pending" /\ promises'[p] = Registered(promises[p], reaction)
  <2>1. promises'[p].reactionJobs = promises[p].reactionJobs
    BY <1>1, <1>6, ThenRecords
  <2>2. Tidy(promises'[p]) /\ promises'[p].enqueueInProgress = promises[p].enqueueInProgress
    BY <1>1, <1>6, ThenTidy
  <2> QED BY <1>1, <1>2, <1>6, <2>1, <2>2 DEF Harmless
<1>7. CASE promises[p].state = "fulfilled" /\ promises'[p] = promises[p]
  BY <1>1, <1>2, <1>7 DEF Harmless
<1>8. CASE /\ promises[p].state = "rejected" /\ Buffers(p)
           /\ promises'[p] = HoldingBack(promises[p], job)
  <2>1. promises'[p].reactionJobs = Append(promises[p].reactionJobs, job)
    BY <1>1, <1>8, Zenon DEF HoldingBack, PromiseObjects
  <2>2. Len(promises'[p].reactionJobs) = Len(promises[p].reactionJobs) + 1
    BY <1>2, <2>1, AppendAny
  <2>3. Tidy(promises'[p]) /\ promises'[p].enqueueInProgress = promises[p].enqueueInProgress
    <3>1. promises[p].enqueueInProgress
      BY <1>8 DEF Buffers
    <3>2. /\ Tidy(HoldingBack(promises[p], job))
          /\ HoldingBack(promises[p], job).enqueueInProgress = promises[p].enqueueInProgress
      BY <1>1, <3>1, ThenTidy, Zenon
    <3> QED BY <1>8, <3>2
  <2> QED BY <1>1, <1>2, <1>8, <2>2, <2>3 DEF Harmless, Buffers
<1>9. CASE /\ promises[p].state = "rejected" /\ ~Buffers(p)
           /\ promises'[p] = MarkedNow(p, Flushing(promises[p], job))
  <2>1. promises'[p].reactionJobs = <<job>>
    BY <1>1, <1>9 DEF MarkedNow, Marked, Reported, Flushing, PromiseObjects
  <2>2. Tidy(promises'[p])
    BY <1>1, <1>9, ThenTidy
  <2>3. Len(promises'[p].reactionJobs) = 1
    BY <2>1
  <2> QED BY <1>1, <1>5, <1>9, <2>2, <2>3 DEF Harmless, Buffers
<1>10. \/ promises[p].state = "pending" /\ promises'[p] = Registered(promises[p], reaction)
       \/ promises[p].state = "fulfilled" /\ promises'[p] = promises[p]
       \/ promises[p].state = "rejected" /\ Buffers(p) /\ promises'[p] = HoldingBack(promises[p], job)
       \/ /\ promises[p].state = "rejected" /\ ~Buffers(p)
          /\ promises'[p] = MarkedNow(p, Flushing(promises[p], job))
  BY <1>3, <1>4 DEF Registering, ThenDone
<1> QED BY <1>5, <1>6, <1>7, <1>8, <1>9, <1>10 DEF Buffers

LEMMA ThenSane ==
  ASSUME NEW n, NEW m, NEW base, NEW p, NEW handler, NEW before, NEW reachable,
         Registering(n, m, base, p, handler, before, reachable)
  PROVE  Sane(stack', promises', pairs', queue') /\ Sane(base, promises', pairs', queue')
<1>1. /\ n \in Nat /\ m \in Nat /\ PairsKeep /\ Len(promises') = n + 1
      /\ promises'[n + 1] = Child(p, handler, reachable)
      /\ \A c \in 1..Len(pairs') :
           c \in 1..m \/ ~pairs'[c].exposed \/ ~promises'[pairs'[c].promise].lost
      /\ \A q \in 1..n : q # p => promises'[q] = promises[q]
      /\ promises[p] \in PromiseObjects(n, m) /\ p \in 1..n
      /\ promises'[p].lost = promises[p].lost
  BY RegisteredPairs
<1>2. Typed(n, m, base) /\ Sane(base, promises, pairs, queue)
  BY DEF Registering
<1>3. \A q \in 1..n : Len(promises[q].reactionJobs) \in Nat
  BY <1>2, JobsLength DEF Typed
<1>4. ASSUME NEW q \in 1..n
      PROVE  Harmless(promises[q], promises'[q], base, q) /\ Len(promises'[q].reactionJobs) \in Nat
  <2>1. CASE q = p
    BY <2>1, ThenHarmless
  <2>2. CASE q # p
    <3>1. promises'[q] = promises[q] /\ Tidy(promises[q])
      BY <1>1, <1>2, <2>2 DEF Sane, Typed
    <3> QED BY <1>3, <3>1 DEF Harmless
  <2> QED BY <2>1, <2>2
<1>5. \A q \in 1..Len(promises') : q \in 1..n \/ Tidy(promises'[q])
  <2>1. Tidy(promises'[n + 1])
    BY <1>1, ChildIsBlank
  <2> QED BY <1>1, <2>1
<1>6. PICK reaction : reaction = NewReaction(p, Len(before), handler)
  OBVIOUS
<1>7. PICK job : job = JobNow(p, reaction)
  OBVIOUS
<1>8. queue' = queue \/ queue' = Append(queue, job)
  BY <1>6, <1>7 DEF Registering, ThenDone, Enqueue
<1>9. \A q \in 1..n : promises'[q].lost = promises[q].lost
  BY <1>4 DEF Harmless
<1>10. ASSUME NEW i \in 1..Len(queue), queue[i].kind = "thenable"
       PROVE  ~promises'[queue[i].promise].lost
  <2>1. queue[i] \in Jobs(n, m)
    BY <1>2, ElementOfSeq DEF Typed
  <2>2. queue[i].promise \in 1..n
    BY <1>10, <2>1 DEF Jobs, ThenableJobs, ReactionJobs
  <2> QED BY <1>2, <1>9, <1>10, <2>2, Zenon DEF Sane
<1>11. \A i \in 1..Len(queue') : queue'[i].kind = "thenable" => ~promises'[queue'[i].promise].lost
  <2>1. CASE queue' = queue
    BY <1>10, <2>1
  <2>2. CASE queue' = Append(queue, job)
    <3>1. job.kind = "reaction"
      BY <1>7 DEF JobNow, ReactionJob
    <3>2. /\ Len(queue) \in Nat /\ Len(queue') = Len(queue) + 1 /\ queue'[Len(queue) + 1] = job
          /\ \A i \in 1..Len(queue) : queue'[i] = queue[i]
      BY <1>2, <2>2, AppendAny, LenProperties DEF Typed
    <3>3. \A i \in 1..Len(queue') : i \in 1..Len(queue) \/ i = Len(queue) + 1
      BY <3>2
    <3> QED BY <1>10, <3>1, <3>2, <3>3
  <2> QED BY <1>8, <2>1, <2>2
<1>12. Sane(base, promises', pairs', queue')
  BY <1>1, <1>2, <1>4, <1>5, <1>11, SaneKept, Zenon DEF Typed
<1>13. base \in Seq(CallFrames(n, m)) /\ {HookFrame, TrackerFrame} \subseteq CallFrames(n, m)
       /\ FreshFlush(p) \in CallFrames(n, m)
  <2>1. base \in Seq(CallFrames(n, m)) /\ n \in Nat /\ m \in Nat /\ p \in 1..n
    BY <1>1, <1>2 DEF Typed
  <2>2. {DrainFrame, HookFrame, TrackerFrame} \subseteq CallFrames(n, m)
    BY ONLY <2>1, FramesAreFrames
  <2>3. FreshFlush(p) \in CallFrames(n, m)
    BY ONLY <2>1, FreshFrames
  <2> QED BY <2>1, <2>2, <2>3
<1>14. Sane(Append(base, HookFrame), promises', pairs', queue')
  <2>1. HookFrame.kind = "hook"
    BY DEF HookFrame
  <2>2. Saved(HookFrame, promises', pairs')
    BY <2>1 DEF Saved
  <2> QED BY <1>12, <1>13, <2>1, <2>2, SanePush
<1>15. CASE /\ promises[p].state = "rejected" /\ ~Buffers(p)
            /\ promises'[p] = MarkedNow(p, Flushing(promises[p], job))
            /\ stack' = IF Tells(p) THEN Append(Append(base, FreshFlush(p)), TrackerFrame)
                                    ELSE Append(base, FreshFlush(p))
  <2>1. PICK flush : flush = FreshFlush(p)
    OBVIOUS
  <2>2. flush.kind = "flush" /\ flush.promise = p /\ flush.next = 1
    BY <2>1 DEF FreshFlush, FlushFrame
  <2>3. Unflushed(base, p) /\ Len(promises'[p].reactionJobs) \in Nat
    BY <1>15, ThenHarmless
  <2>4. promises'[p].enqueueInProgress
    <3>1. Tidy(promises[p])
      BY <1>1, <1>2 DEF Sane, Typed
    <3> QED BY <1>1, <1>15, <3>1, ThenTidy
  <2>5. Saved(flush, promises', pairs')
    BY <2>2 DEF Saved
  <2>6. Sane(Append(base, flush), promises', pairs', queue')
    <3>1. /\ Unflushed(base, flush.promise) /\ promises'[flush.promise].enqueueInProgress
          /\ flush.next \in 1..(Len(promises'[flush.promise].reactionJobs) + 1)
      BY <2>2, <2>3, <2>4
    <3> QED BY <1>12, <1>13, <2>1, <2>5, <3>1, SanePush
  <2>7. Sane(Append(Append(base, flush), TrackerFrame), promises', pairs', queue')
    <3>1. TrackerFrame.kind = "tracker"
      BY DEF TrackerFrame
    <3>2. Saved(TrackerFrame, promises', pairs')
      BY <3>1 DEF Saved
    <3>3. Append(base, flush) \in Seq(CallFrames(n, m))
      BY <1>13, <2>1, AppendProperties
    <3> QED BY <1>13, <2>6, <3>1, <3>2, <3>3, SanePush, Zenon
  <2> QED BY <1>12, <1>15, <2>1, <2>6, <2>7
<1>16. \/ stack' \in {base, Append(base, HookFrame)}
       \/ /\ promises[p].state = "rejected" /\ ~Buffers(p)
          /\ promises'[p] = MarkedNow(p, Flushing(promises[p], job))
          /\ stack' = IF Tells(p) THEN Append(Append(base, FreshFlush(p)), TrackerFrame)
                                  ELSE Append(base, FreshFlush(p))
  BY <1>6, <1>7, Zenon DEF Registering, ThenDone, Enqueue
<1> QED BY <1>12, <1>14, <1>15, <1>16, Zenon

LEMMA NewUse ==
  ASSUME NEW n, NEW m, NEW base, NEW p, NEW handler, NEW before, NEW reachable,
         Registering(n, m, base, p, handler, before, reachable), NEW reaction, NEW job,
         reaction = NewReaction(p, Len(before), handler), job = JobNow(p, reaction), NEW c
  PROVE  /\ reaction \in Reaction
         /\ reaction \in UsersOf(c) <=> c = Len(before) + 1 \/ c = handler
         /\ promises[p].state # "pending" =>
              /\ job \in Job
              /\ job \in JobsFor(c) <=> c = Len(before) + 1 \/ c = handler
<1>1. PICK d : d = Len(before) + 1
  OBVIOUS
<1>2. /\ n \in Nat /\ Len(before) \in Nat /\ p \in 1..n /\ promises[p] \in PromiseObjects(n, m)
  BY RegisteredPairs
<1>3. /\ n + 1 <= MaxPromises /\ d <= MaxPairs /\ MaxPromises \in Nat /\ MaxPairs \in Nat
      /\ handler \in {NoHandler, Program} \cup 1..Len(before)
  BY <1>1, ConstantsAreApart DEF Registering
<1>4. d \in 1..MaxPairs /\ p \in 1..MaxPromises /\ handler \in Handler
  BY <1>1, <1>2, <1>3 DEF Handler
<1>5. reaction = [source |-> p, derived |-> d, handler |-> handler]
  BY <1>1 DEF NewReaction
<1>6. reaction \in Reaction /\ (reaction \in UsersOf(c) <=> c = d \/ c = handler)
  BY <1>4, <1>5 DEF Reaction, UsersOf, Uses
<1>7. ASSUME promises[p].state # "pending"
      PROVE  job \in Job /\ (job \in JobsFor(c) <=> c = d \/ c = handler)
  <2>1. promises[p].state \in Settled /\ promises[p].result \in Value
    <3>1. promises[p].state \in Settled /\ promises[p].result \in Values(n)
      BY <1>2, <1>7 DEF PromiseObjects
    <3>2. Values(n) \subseteq Value
      BY <1>2, <1>3 DEF Values, Value, NewObject
    <3> QED BY <3>1, <3>2
  <2>2. job = [kind |-> "reaction", reaction |-> reaction, type |-> promises[p].state,
               argument |-> promises[p].result]
    BY DEF JobNow, ReactionJob
  <2>3. job \in Job
    BY <1>6, <2>1, <2>2 DEF Job
  <2>4. IsReactionJob(job, c) <=> c = d \/ c = handler
    BY <1>5, <2>2 DEF IsReactionJob, Uses
  <2> QED BY <2>3, <2>4 DEF JobsFor
<1> QED BY <1>1, <1>6, <1>7

\* One promise has x uses more.
Adds(n, m, frames, p, c, x) ==
  /\ x \in Nat /\ Countable(n, m, queue, frames, promises) /\ p \in 1..Len(promises)
  /\ Rests(frames, promises, stack', promises', {p}) /\ queue' = queue
  /\ Load(stack', c) = Load(frames, c)
  /\ UsesOf(stack', promises'[p], p, c) = UsesOf(frames, promises[p], p, c) + x

LEMMA UsesAdd ==
  ASSUME NEW n, NEW m, NEW frames, NEW p, NEW c, NEW x, Adds(n, m, frames, p, c, x)
  PROVE  InUse(queue', stack', promises', c) = InUse(queue, frames, promises, c) + x
<1> USE DEF Adds
<1>1. /\ n \in Nat /\ m \in Nat /\ promises \in Seq(PromiseObjects(n, m)) /\ Flushes(frames, promises)
  BY DEF Countable
<1>2. UsesOf(frames, promises[p], p, c) \in Nat
  BY <1>1, UsesAreNumbers, Zenon
<1>3. Moved(n, m, frames, promises, stack', promises', p, c)
  BY <1>1, <1>2 DEF Moved
<1>4. /\ PromiseLoad(frames, promises, c) \in Nat
      /\ PromiseLoad(stack', promises', c)
              = PromiseLoad(frames, promises, c) - UsesOf(frames, promises[p], p, c)
                  + UsesOf(stack', promises'[p], p, c)
  BY <1>3, UsesMove
<1>5. /\ Hits(queue, JobsFor(c)) \in Nat /\ Load(frames, c) \in Nat
  BY InUseNumber
<1>6. PromiseLoad(stack', promises', c) = PromiseLoad(frames, promises, c) + x
  BY <1>2, <1>4
<1> QED BY <1>4, <1>5, <1>6 DEF InUse

LEMMA ThenRests ==
  ASSUME NEW n, NEW m, NEW base, NEW p, NEW handler, NEW before, NEW reachable,
         Registering(n, m, base, p, handler, before, reachable), NEW later,
         \A q : q # p => FlushedIn(later, q) = FlushedIn(base, q)
  PROVE  /\ Rests(base, promises, later, promises', {p})
         /\ (promises'[p] = promises[p] /\ FlushedIn(later, p) = FlushedIn(base, p))
              => Rests(base, promises, later, promises', {})
<1>1. /\ n \in Nat /\ Len(promises') = n + 1 /\ promises'[n + 1] = Child(p, handler, reachable)
      /\ \A q \in 1..n : q # p => promises'[q] = promises[q]
  BY RegisteredPairs
<1>2. n = Len(promises)
  BY DEF Registering, Typed
<1>3. Blank(promises'[n + 1])
  BY <1>1, ChildIsBlank
<1>4. \A q \in 1..Len(promises') : q \in 1..n \/ Blank(promises'[q])
  BY <1>1, <1>3
<1> QED BY <1>1, <1>2, <1>4 DEF Rests, SameUses

LEMMA ThenUses ==
  ASSUME NEW n, NEW m, NEW base, NEW p, NEW handler, NEW before, NEW reachable,
         Registering(n, m, base, p, handler, before, reachable), NEW c
  PROVE  /\ InUse(queue', stack', promises', c)
              = InUse(queue, base, promises, c)
                  + (IF c = Len(before) + 1 \/ c = handler THEN 1 ELSE 0)
         /\ InUse(queue, base, promises, c) \in Nat
<1>1. /\ n \in Nat /\ m \in Nat /\ promises[p] \in PromiseObjects(n, m) /\ Tidy(promises[p]) /\ p \in 1..n
  BY RegisteredPairs
<1>2. /\ Typed(n, m, base) /\ Sane(base, promises, pairs, queue) /\ n = Len(promises)
      /\ Flushes(base, promises) /\ promises \in Seq(PromiseObjects(n, m))
  BY DEF Registering, Typed, Sane
<1>3. base \in Seq(CallFrames(n, m)) /\ base \in Seq(Frame)
  BY <1>2, ReactionTypes, SeqMonotonic DEF Typed
<1>4. Countable(n, m, queue, base, promises)
  BY <1>1, <1>2, <1>3 DEF Countable, Typed
<1>5. /\ InUse(queue, base, promises, c) \in Nat /\ Hits(queue, JobsFor(c)) \in Nat
      /\ Load(base, c) \in Nat /\ PromiseLoad(base, promises, c) \in Nat
  BY <1>4, InUseNumber
<1>6. PICK x : x = IF c = Len(before) + 1 \/ c = handler THEN 1 ELSE 0
  OBVIOUS
<1> SUFFICES InUse(queue', stack', promises', c) = InUse(queue, base, promises, c) + x
  BY <1>5, <1>6
<1>7. PICK reaction : reaction = NewReaction(p, Len(before), handler)
  OBVIOUS
<1>8. PICK job : job = JobNow(p, reaction)
  OBVIOUS
<1>9. /\ reaction \in Reaction
      /\ (IF reaction \in UsersOf(c) THEN 1 ELSE 0) = x
      /\ promises[p].state # "pending" =>
           /\ job \in Job
           /\ (IF job \in JobsFor(c) THEN 1 ELSE 0) = x
  BY <1>6, <1>7, <1>8, NewUse
<1>10. /\ promises[p].reactions \in Seq(Reactions(n, m))
       /\ promises[p].reactionJobs \in Seq(ReactionJobs(n, m))
       /\ FlushedIn(base, p) \in 0..Len(promises[p].reactionJobs)
       /\ RestOf(base, promises[p], p) \in Seq(ReactionJobs(n, m))
  BY <1>1, <1>2, UsesAreNumbers, Zenon
<1>11. /\ Hits(promises[p].reactions, UsersOf(c)) \in Nat
       /\ Hits(RestOf(base, promises[p], p), JobsFor(c)) \in Nat /\ x \in Nat
  BY <1>6, <1>10, HitsType
<1>12. ASSUME queue' = queue, Load(stack', c) = Load(base, c),
              \A q : q # p => FlushedIn(stack', q) = FlushedIn(base, q),
              UsesOf(stack', promises'[p], p, c) = UsesOf(base, promises[p], p, c) + x
       PROVE  InUse(queue', stack', promises', c) = InUse(queue, base, promises, c) + x
  <2>1. Rests(base, promises, stack', promises', {p})
    BY <1>12, ThenRests
  <2>2. x \in Nat /\ p \in 1..Len(promises)
    BY <1>1, <1>2, <1>11
  <2>3. Adds(n, m, base, p, c, x)
    BY <1>4, <1>12, <2>1, <2>2 DEF Adds
  <2> QED BY <2>3, UsesAdd
<1>13. CASE /\ promises[p].state = "pending" /\ promises'[p] = Registered(promises[p], reaction)
            /\ stack' = base /\ queue' = queue
  <2>1. /\ promises'[p].reactions = Append(promises[p].reactions, reaction)
        /\ promises'[p].reactionJobs = promises[p].reactionJobs
    BY <1>1, <1>13, Zenon DEF Registered, PromiseObjects
  <2>2. Hits(promises'[p].reactions, UsersOf(c)) = Hits(promises[p].reactions, UsersOf(c)) + x
    BY <1>9, <1>10, <2>1, HitsAppendAny
  <2>3. RestOf(stack', promises'[p], p) = RestOf(base, promises[p], p)
    BY <1>13, <2>1 DEF RestOf
  <2>4. UsesOf(stack', promises'[p], p, c) = UsesOf(base, promises[p], p, c) + x
    BY <1>11, <2>2, <2>3 DEF UsesOf, RecordLoad
  <2> QED BY <1>12, <1>13, <2>4
<1>14. CASE promises[p].state = "fulfilled" /\ promises'[p] = promises[p] /\ Enqueue(job, base)
  <2>1. /\ Hits(queue', JobsFor(c)) = Hits(queue, JobsFor(c)) + (IF job \in JobsFor(c) THEN 1 ELSE 0)
        /\ Load(stack', c) = Load(base, c)
        /\ \A q : FlushedIn(stack', q) = FlushedIn(base, q)
    <3>1. PICK J : queue \in Seq(J)
      BY <1>4 DEF Countable
    <3>2. job \in Job
      BY <1>9, <1>14
    <3> QED BY <1>3, <1>14, <3>1, <3>2, EnqueueUses
  <2>2. Rests(base, promises, stack', promises', {})
    <3>1. /\ \A q : q # p => FlushedIn(stack', q) = FlushedIn(base, q)
          /\ promises'[p] = promises[p] /\ FlushedIn(stack', p) = FlushedIn(base, p)
      BY <1>14, <2>1
    <3>2. /\ Rests(base, promises, stack', promises', {p})
          /\ (promises'[p] = promises[p] /\ FlushedIn(stack', p) = FlushedIn(base, p))
              => Rests(base, promises, stack', promises', {})
      BY <3>1, ThenRests
    <3> QED BY <3>1, <3>2
  <2>3. PromiseLoad(stack', promises', c) = PromiseLoad(base, promises, c)
    BY <1>1, <1>2, <2>2, UsesStay
  <2>4. Hits(queue', JobsFor(c)) = Hits(queue, JobsFor(c)) + x
    BY <1>9, <1>14, <2>1
  <2>5. InUse(queue', stack', promises', c) = InUse(queue, base, promises, c) + x
    BY <1>5, <1>11, <2>1, <2>3, <2>4 DEF InUse
  <2> QED BY <2>5
<1>15. CASE /\ promises[p].state = "rejected" /\ promises'[p] = HoldingBack(promises[p], job)
            /\ stack' = base /\ queue' = queue
  <2>1. /\ promises'[p].reactions = promises[p].reactions
        /\ promises'[p].reactionJobs = Append(promises[p].reactionJobs, job)
    BY <1>1, <1>15, Zenon DEF HoldingBack, PromiseObjects
  <2>2. RestOf(stack', promises'[p], p) = Append(RestOf(base, promises[p], p), job)
    <3>1. PICK k : k = FlushedIn(base, p)
      OBVIOUS
    <3>2. RestOf(stack', promises'[p], p) = SubSeq(promises'[p].reactionJobs, k + 1, Len(promises'[p].reactionJobs))
      BY <1>15, <3>1 DEF RestOf
    <3>3. RestOf(base, promises[p], p) = SubSeq(promises[p].reactionJobs, k + 1, Len(promises[p].reactionJobs))
      BY <3>1 DEF RestOf
    <3>4. k \in 0..Len(promises[p].reactionJobs)
      BY <1>10, <3>1
    <3> QED BY <1>10, <2>1, <3>2, <3>3, <3>4, RestAppend, Zenon
  <2>3. Hits(RestOf(stack', promises'[p], p), JobsFor(c)) = Hits(RestOf(base, promises[p], p), JobsFor(c)) + x
    BY <1>9, <1>10, <1>15, <2>2, HitsAppendAny
  <2>4. UsesOf(stack', promises'[p], p, c) = UsesOf(base, promises[p], p, c) + x
    BY <1>11, <2>1, <2>3 DEF UsesOf, RecordLoad
  <2> QED BY <1>12, <1>15, <2>4
<1>16. CASE /\ promises[p].state = "rejected" /\ ~Buffers(p)
            /\ promises'[p] = MarkedNow(p, Flushing(promises[p], job))
            /\ stack' = IF Tells(p) THEN Append(Append(base, FreshFlush(p)), TrackerFrame)
                                    ELSE Append(base, FreshFlush(p))
            /\ queue' = queue
  <2>1. PICK flush : flush = FreshFlush(p)
    OBVIOUS
  <2>2. /\ flush.kind = "flush" /\ flush.promise = p /\ flush.next = 1
        /\ TrackerFrame.kind = "tracker"
    BY <2>1 DEF FreshFlush, FlushFrame, TrackerFrame
  <2>3. flush \in CallFrames(n, m) /\ flush \in Frame /\ TrackerFrame \in Frame
    <3>1. flush \in CallFrames(n, m) /\ TrackerFrame \in CallFrames(n, m)
      BY <1>1, <2>1, FreshFrames, FramesAreFrames
    <3> QED BY <1>2, <3>1, ReactionTypes DEF Typed
  <2>4. PICK once : once = Append(base, flush)
    BY Zenon
  <2>5. once \in Seq(Frame) /\ stack' \in {once, Append(once, TrackerFrame)}
    BY <1>3, <1>16, <2>1, <2>3, <2>4, AppendProperties
  <2>6. Load(once, c) = Load(base, c)
    <3>1. flush.kind \in Idle
      BY <2>2 DEF Idle
    <3> QED BY <1>3, <2>3, <2>4, <3>1, IdlePush
  <2>7. Load(Append(once, TrackerFrame), c) = Load(once, c)
    <3>1. TrackerFrame.kind \in Idle
      BY <2>2 DEF Idle
    <3> QED BY <2>3, <2>5, <3>1, IdlePush
  <2>8. Load(stack', c) = Load(base, c)
    BY <2>5, <2>6, <2>7, Zenon
  <2>9. \A q : FlushedIn(stack', q) = FlushedIn(once, q)
    <3> TAKE q
    <3>1. ~IsFlush(TrackerFrame, q)
      BY <2>2 DEF IsFlush
    <3>2. FlushedIn(Append(once, TrackerFrame), q) = FlushedIn(once, q)
      BY <2>3, <2>5, <3>1, FlushedPush
    <3> QED BY <2>5, <3>2, Zenon
  <2>10. \A q : q # p => FlushedIn(stack', q) = FlushedIn(base, q)
    <3> TAKE q
    <3> HAVE q # p
    <3>1. ~IsFlush(flush, q)
      BY <2>2 DEF IsFlush
    <3>2. FlushedIn(once, q) = FlushedIn(base, q)
      BY <1>3, <2>3, <2>4, <3>1, FlushedPush
    <3> QED BY <2>9, <3>2
  <2>11. FlushedIn(stack', p) = 0
    <3>1. IsFlush(flush, p) /\ Unflushed(base, p)
      BY <1>16, <2>2, ThenHarmless DEF IsFlush
    <3>2. FlushedIn(once, p) = flush.next - 1
      BY <1>3, <2>3, <2>4, <3>1, FlushedTop
    <3> QED BY <2>2, <2>9, <3>2
  <2>12. /\ promises'[p].reactions = promises[p].reactions /\ promises'[p].reactionJobs = <<job>>
    BY <1>1, <1>16 DEF MarkedNow, Marked, Reported, Flushing, PromiseObjects
  <2>13. promises[p].reactionJobs = <<>>
    BY <1>1, <1>16 DEF Tidy, Buffers
  <2>14. RestOf(base, promises[p], p) = <<>>
    <3>1. FlushedIn(base, p) = 0
      BY <1>10, <2>13
    <3> QED BY <2>13, <3>1 DEF RestOf
  <2>15. PICK none : none = <<>> /\ none \in Seq(Job)
    <3>1. <<>> \in Seq(Job)
      BY EmptySeq
    <3> QED BY <3>1, Zenon
  <2>16. RestOf(stack', promises'[p], p) = Append(none, job)
    <3>1. PICK jobs : jobs = Append(none, job)
      BY Zenon
    <3>2. /\ jobs \in Seq(Job) /\ Len(jobs) = 1 /\ jobs = <<job>>
      BY <1>9, <1>16, <2>15, <3>1
    <3>3. /\ SubSeq(jobs, 0 + 1, Len(jobs)) \in Seq(Job) /\ Len(SubSeq(jobs, 0 + 1, Len(jobs))) = Len(jobs) - 0
          /\ \A i \in 1..(Len(jobs) - 0) : SubSeq(jobs, 0 + 1, Len(jobs))[i] = jobs[0 + i]
      BY <3>2, SliceTypes
    <3>4. PICK slice : slice = SubSeq(jobs, 0 + 1, Len(jobs))
      BY Zenon
    <3>5. slice \in Seq(Job) /\ Len(slice) = 1 /\ slice[1] = jobs[1]
      BY <3>2, <3>3, <3>4
    <3>6. slice = jobs
      BY <3>2, <3>5, SeqEqual
    <3> QED BY <2>11, <2>12, <3>1, <3>2, <3>4, <3>6, Zenon DEF RestOf
  <2>17. Hits(RestOf(stack', promises'[p], p), JobsFor(c)) = Hits(RestOf(base, promises[p], p), JobsFor(c)) + x
    <3>1. Hits(Append(none, job), JobsFor(c)) = Hits(none, JobsFor(c)) + (IF job \in JobsFor(c) THEN 1 ELSE 0)
      <4>1. none \in Seq(Job)
        BY <2>15
      <4> QED BY <4>1, HitsAppendAny
    <3> QED BY <1>9, <1>16, <2>14, <2>15, <2>16, <3>1
  <2>18. UsesOf(stack', promises'[p], p, c) = UsesOf(base, promises[p], p, c) + x
    BY <1>11, <2>12, <2>17 DEF UsesOf, RecordLoad
  <2> QED BY <1>12, <1>16, <2>8, <2>10, <2>18
<1>17. \/ /\ promises[p].state = "pending" /\ promises'[p] = Registered(promises[p], reaction)
          /\ stack' = base /\ queue' = queue
       \/ promises[p].state = "fulfilled" /\ promises'[p] = promises[p] /\ Enqueue(job, base)
       \/ /\ promises[p].state = "rejected" /\ promises'[p] = HoldingBack(promises[p], job)
          /\ stack' = base /\ queue' = queue
       \/ /\ promises[p].state = "rejected" /\ ~Buffers(p)
          /\ promises'[p] = MarkedNow(p, Flushing(promises[p], job))
          /\ stack' = IF Tells(p) THEN Append(Append(base, FreshFlush(p)), TrackerFrame)
                                  ELSE Append(base, FreshFlush(p))
          /\ queue' = queue
  BY <1>7, <1>8 DEF Registering, ThenDone
<1> QED BY <1>5, <1>6, <1>13, <1>14, <1>15, <1>16, <1>17, Zenon

\* A pair that does not exist is not used.
LEMMA NoUsesYet ==
  ASSUME NEW n, NEW m, NEW base, Typed(n, m, base), Flushes(base, promises), NEW c \in Nat, m < c
  PROVE  InUse(queue, base, promises, c) = 0
<1> USE DEF Typed
<1>1. /\ Reactions(n, m) \subseteq Reaction /\ CallFrames(n, m) \subseteq Frame /\ Jobs(n, m) \subseteq Job
  BY ReactionTypes
<1>2. ASSUME NEW reaction \in Reactions(n, m) PROVE ~Uses(reaction, c)
  <2>1. /\ reaction.derived \in 1..m /\ reaction.handler \in {NoHandler, Program} \cup 1..m
    BY DEF Reactions
  <2> QED BY <2>1 DEF Uses, NoHandler, Program
<1>3. ASSUME NEW job \in Jobs(n, m) PROVE ~IsReactionJob(job, c)
  <2>1. job.kind = "reaction" => job.reaction \in Reactions(n, m)
    BY DEF Jobs, ReactionJobs, ThenableJobs
  <2> QED BY <1>2, <2>1 DEF IsReactionJob
<1>4. \A reactions \in Seq(Reactions(n, m)) : Hits(reactions, UsersOf(c)) = 0
  <2> TAKE reactions \in Seq(Reactions(n, m))
  <2>1. \A i \in 1..Len(reactions) : reactions[i] \notin UsersOf(c)
    BY <1>2, ElementOfSeq DEF UsersOf
  <2> QED BY <2>1, HitsType
<1>5. \A jobs \in Seq(Jobs(n, m)) : Hits(jobs, JobsFor(c)) = 0
  <2> TAKE jobs \in Seq(Jobs(n, m))
  <2>1. \A i \in 1..Len(jobs) : jobs[i] \notin JobsFor(c)
    BY <1>3, ElementOfSeq DEF JobsFor
  <2> QED BY <2>1, HitsType
<1>6. Load(base, c) = 0
  <2>1. ASSUME NEW i \in 1..Len(base)
        PROVE  base[i] \notin RunnersOf(c) /\ TodoUses(base[i], c) = 0
    <3>1. base[i] \in CallFrames(n, m)
      BY ElementOfSeq
    <3>2. /\ base[i].kind \in {"handler", "native", "thenable"} => base[i].pair \in 1..m
          /\ base[i].kind # "job"
          /\ base[i].kind = "trigger" => base[i].todo \in Seq(Reactions(n, m))
      BY <3>1, FrameFields, Zenon
    <3>3. ~RunsFor(base[i], c)
      BY <3>2 DEF RunsFor
    <3>4. TodoUses(base[i], c) = 0
      BY <1>4, <3>2 DEF TodoUses
    <3> QED BY <3>3, <3>4 DEF RunnersOf
  <2>2. Hits(base, RunnersOf(c)) = 0
    BY <2>1, HitsType
  <2>3. PICK k \in Nat : k = Len(base)
    BY LenProperties
  <2>4. PICK f : f = Todos(base, c)
    OBVIOUS
  <2>5. \A i \in 1..k : f[i] = 0
    BY <2>1, <2>3, <2>4 DEF Todos
  <2>6. SumOn(f, 1..k) = 0
    <3>1. IsFiniteSet(1..k)
      BY FS_Interval
    <3>2. \A i \in 1..k : f[i] \in Nat
      BY <2>5
    <3> QED BY <2>5, <3>1, <3>2, SumNat, Zenon
  <2> QED BY <2>2, <2>3, <2>4, <2>6 DEF Load
<1>7. PromiseLoad(base, promises, c) = 0
  <2>1. PICK f : f = Loads(base, promises, c)
    OBVIOUS
  <2>2. ASSUME NEW p \in 1..n PROVE f[p] = 0
    <3>1. /\ promises[p].reactions \in Seq(Reactions(n, m))
          /\ RestOf(base, promises[p], p) \in Seq(ReactionJobs(n, m))
          /\ Loads(base, promises, c)[p] = UsesOf(base, promises[p], p, c)
      <4>1. /\ p \in 1..Len(promises) /\ n \in Nat /\ m \in Nat
            /\ promises \in Seq(PromiseObjects(n, m))
        BY <2>2
      <4> HIDE DEF Typed
      <4> QED BY <4>1, UsesAreNumbers
    <3>2. RestOf(base, promises[p], p) \in Seq(Jobs(n, m))
      <4>1. ReactionJobs(n, m) \subseteq Jobs(n, m)
        BY DEF Jobs
      <4> QED BY <3>1, <4>1, SeqMonotonic
    <3>3. Hits(promises[p].reactions, UsersOf(c)) = 0 /\ Hits(RestOf(base, promises[p], p), JobsFor(c)) = 0
      BY <1>4, <1>5, <3>1, <3>2
    <3> QED BY <2>1, <3>1, <3>3 DEF UsesOf, RecordLoad
  <2>3. SumOn(f, 1..n) = 0
    <3>1. IsFiniteSet(1..n)
      BY FS_Interval
    <3>2. \A p \in 1..n : f[p] \in Nat
      BY <2>2
    <3> QED BY <2>2, <3>1, <3>2, SumNat, Zenon
  <2> QED BY <2>1, <2>3 DEF PromiseLoad
<1> QED BY <1>5, <1>6, <1>7 DEF InUse

\* The handler's pair is not used yet, and every other as often as it must be.
Counted(base, handler, before) ==
  \A c \in 1..Len(before) :
    InUse(queue, base, promises, c) + (IF c = handler THEN 1 ELSE 0) = Due(c, promises, before)

LEMMA Registers ==
  ASSUME NEW n, NEW m, NEW base, NEW p, NEW handler, NEW before, NEW reachable,
         Registering(n, m, base, p, handler, before, reachable), Counted(base, handler, before)
  PROVE  ReactionInv'
<1>1. /\ n \in Nat /\ m \in Nat /\ Len(before) \in Nat /\ Len(pairs') = Len(before) + 1
      /\ \A c \in 1..Len(before) : pairs'[c] = before[c]
      /\ pairs'[Len(before) + 1] = HiddenPair(n + 1)
      /\ promises'[n + 1] = Child(p, handler, reachable)
      /\ \A q \in 1..n : q # p => promises'[q] = promises[q]
      /\ promises'[p].lost = promises[p].lost
  BY RegisteredPairs
<1>2. /\ Typed(n, m, base) /\ Flushes(base, promises) /\ before \in Seq(Pairs(n)) /\ m <= Len(before)
      /\ handler \in {NoHandler, Program} \cup 1..Len(before)
  BY DEF Registering, Sane
<1>3. PICK d : d = Len(before) + 1
  OBVIOUS
<1>4. InUse(queue, base, promises, d) = 0
  <2>1. d \in Nat /\ m < d
    BY <1>1, <1>2, <1>3
  <2> QED BY <1>2, <2>1, NoUsesYet
<1>5. d # handler /\ d \in Nat /\ \A c \in 1..Len(pairs') : c \in 1..Len(before) \/ c = d
  BY <1>1, <1>2, <1>3 DEF NoHandler, Program
<1>6. ASSUME NEW c \in 1..Len(before)
      PROVE  InUse(queue', stack', promises', c) = Due(c, promises', pairs')
  <2>1. InUse(queue', stack', promises', c) = InUse(queue, base, promises, c) + (IF c = Len(before) + 1 \/ c = handler THEN 1 ELSE 0)
        /\ InUse(queue, base, promises, c) \in Nat
    BY ThenUses
  <2>2. c # Len(before) + 1
    BY <1>1
  <2>3. InUse(queue', stack', promises', c) = Due(c, promises, before)
    BY <2>1, <2>2 DEF Counted
  <2>4. before[c].promise \in 1..n
    <3>1. before[c] \in Pairs(n)
      BY <1>2, ElementOfSeq
    <3> QED BY <3>1 DEF Pairs
  <2>5. promises'[before[c].promise].lost = promises[before[c].promise].lost
    BY <1>1, <2>4, Zenon
  <2> QED BY <1>1, <2>3, <2>5 DEF Due
<1>7. InUse(queue', stack', promises', d) = Due(d, promises', pairs')
  <2>1. InUse(queue', stack', promises', d) = InUse(queue, base, promises, d) + (IF d = Len(before) + 1 \/ d = handler THEN 1 ELSE 0)
        /\ InUse(queue, base, promises, d) \in Nat
    BY ThenUses
  <2>2. InUse(queue', stack', promises', d) = 1
    BY <1>3, <1>4, <2>1
  <2>3. ~pairs'[d].exposed /\ ~pairs'[d].alreadyResolved /\ pairs'[d].promise = n + 1
    BY <1>1, <1>3 DEF HiddenPair, NewPair
  <2>4. ~promises'[n + 1].lost
    BY <1>1, ChildIsBlank
  <2> QED BY <2>2, <2>3, <2>4 DEF Due
<1>8. Balanced(queue', stack', promises', pairs')
  BY <1>5, <1>6, <1>7 DEF Balanced
<1>9. Sane(stack', promises', pairs', queue')
  BY ThenSane
<1> QED BY <1>8, <1>9 DEF ReactionInv

\* What then() does when the program calls it,
LEMMA ThenRegisters ==
  ASSUME TypeInv, ReactionInv, ThenStep
  PROVE  \E n, m, p, handler : /\ Registering(n, m, stack, p, handler, pairs, TRUE)
                               /\ handler \notin 1..Len(pairs)
<1>1. PICK n : n = Len(promises)
  BY Zenon
<1>2. PICK m : m = Len(pairs)
  BY Zenon
<1>3. PICK p \in 1..n, handler \in {NoHandler, Program} : PerformThen(p, handler, pairs, TRUE, stack)
  BY <1>1, Zenon DEF ThenStep
<1>4. running # "job" /\ Room(1, 1) /\ UNCHANGED <<jobHost, thrown>>
  BY DEF ThenStep, Foreign
<1>5. /\ Ready(stack) /\ Fits(0) /\ n \in Nat /\ m \in Nat
  BY <1>1, <1>2, <1>4, TopFrame
<1>6. ThenDone(p, handler, pairs, TRUE, stack)
  <2>1. pairs \in Seq(Pairs(Len(promises))) /\ Len(pairs) <= Len(pairs)
    BY <1>2, <1>5 DEF Ready
  <2> QED BY <1>1, <1>3, <1>4, <1>5, <2>1, ThenEffect, Zenon
<1>7. n + 1 <= MaxPromises /\ m + 1 <= MaxPairs
  <2>1. Owed = Hits(queue, Thenables) /\ Hits(queue, Thenables) \in Nat
    BY OwedIsCounted, TopFrame
  <2>2. /\ Len(promises) + Owed + 1 <= MaxPromises /\ Len(pairs) + 2 * Owed + 1 <= MaxPairs
    BY <1>4 DEF Room
  <2> QED BY <1>1, <1>2, <1>5, <2>1, <2>2, ConstantsAreApart
<1>8. Typed(n, m, stack)
  BY <1>1, <1>2, <1>5, TypedBase
<1>9. Registering(n, m, stack, p, handler, pairs, TRUE)
  <2>1. Sane(stack, promises, pairs, queue)
    BY DEF ReactionInv
  <2>2. pairs \in Seq(Pairs(n)) /\ m <= Len(pairs) /\ Len(pairs) = m
    BY <1>2, <1>5, <1>8 DEF Typed
  <2>3. handler \in {NoHandler, Program} \cup 1..Len(pairs)
    BY <1>3
  <2> QED BY <1>3, <1>6, <1>7, <1>8, <2>1, <2>2, <2>3, Zenon DEF Registering
<1>10. handler \notin 1..Len(pairs)
  BY <1>2, <1>3, <1>5 DEF NoHandler, Program
<1> QED BY <1>9, <1>10, Zenon

LEMMA RegisteringUses ==
  ASSUME TypeInv, ReactionInv, ThenStep
  PROVE  ReactionInv'
<1>1. PICK n, m, p, handler : /\ Registering(n, m, stack, p, handler, pairs, TRUE)
                              /\ handler \notin 1..Len(pairs)
  BY ThenRegisters, Zenon
<1>2. ASSUME NEW c \in 1..Len(pairs)
      PROVE  InUse(queue, stack, promises, c) + (IF c = handler THEN 1 ELSE 0) = Due(c, promises, pairs)
  <2>1. c # handler
    BY <1>1
  <2>2. InUse(queue, stack, promises, c) = Due(c, promises, pairs)
    BY StackCounts
  <2>3. Due(c, promises, pairs) \in Nat
    BY DEF Due
  <2> QED BY <2>1, <2>2, <2>3
<1>3. Counted(stack, handler, pairs)
  BY <1>2 DEF Counted
<1> QED BY <1>1, <1>3, Registers, Zenon

\* and when a thenable job calls the intrinsic one.
LEMMA ThenableRegisters ==
  ASSUME TypeInv, ReactionInv, RunThenable, Last(stack).job.intrinsic
  PROVE  \E n, m, p, handler, before : Registering(n, m, Front(stack), p, handler, before, FALSE)
<1>1. PICK n : n = Len(promises)
  BY Zenon
<1>2. PICK m : m = Len(pairs)
  BY Zenon
<1>3. PICK job : job = Last(stack).job
  OBVIOUS
<1>4. PICK base : base = Front(stack)
  OBVIOUS
<1>5. PICK q : q = job.promise
  OBVIOUS
<1>6. PICK k : k = m + 1
  OBVIOUS
<1>7. /\ stack # <<>> /\ q \in 1..n /\ Ready(base) /\ (job.intrinsic => job.thenable \in 1..n)
      /\ n \in Nat /\ m \in Nat /\ stack \in Seq(Frame) /\ UNCHANGED <<jobHost, thrown>>
      /\ Last(stack).kind = "job" /\ job.kind = "thenable" /\ Fits(1)
  BY <1>1, <1>2, <1>3, <1>4, <1>5, ThenableOnTop, TopFrame, StackTypes DEF TypeOK, RunThenable
<1>8. /\ Typed(n, m, base) /\ promises \in Seq(PromiseObjects(n, m)) /\ pairs \in Seq(Pairs(n))
      /\ queue \in Seq(Jobs(n, m)) /\ base \in Seq(CallFrames(n, m)) /\ base \in Seq(Frame)
  <2>1. Typed(n, m, base)
    BY <1>1, <1>2, <1>7, TypedBase
  <2> QED BY <1>4, <2>1, StackTypes DEF Typed
<1>9. Sane(base, promises, pairs, queue)
  BY <1>4, <1>7, SanePop DEF ReactionInv
<1>10. /\ n + 1 <= MaxPromises /\ k + 1 <= MaxPairs
       /\ \A c \in 1..k : c \in 1..m \/ c = k
  <2>1. Hits(queue, Thenables) \in Nat
    BY TopFrame
  <2>2. /\ Len(promises) + Hits(queue, Thenables) + 1 <= MaxPromises
        /\ Len(pairs) + 2 * (Hits(queue, Thenables) + 1) <= MaxPairs
    BY <1>7 DEF Fits
  <2> QED BY <1>1, <1>2, <1>6, <1>7, <2>1, <2>2, ConstantsAreApart
<1>11. job.intrinsic
  BY <1>3
<1>12. PICK pair : pair = HiddenPair(q)
  OBVIOUS
<1>13. PICK before : before = Append(pairs, pair)
  BY Zenon
<1>14. /\ pair \in Pairs(n) /\ pair.promise = q /\ ~pair.exposed /\ ~pair.alreadyResolved
  BY <1>7, <1>12 DEF HiddenPair, NewPair, Pairs
<1>15. before \in Seq(Pairs(n)) /\ Len(before) = k /\ before[k] = pair
  BY <1>2, <1>6, <1>8, <1>13, <1>14, AppendProperties
<1>16. \A c \in 1..m : before[c] = pairs[c]
  BY <1>2, <1>8, <1>13, AppendAny
<1>17. PICK p : p = job.thenable
  OBVIOUS
<1>18. PerformThen(p, k, before, FALSE, base)
  BY <1>2, <1>3, <1>4, <1>5, <1>6, <1>11, <1>12, <1>13, <1>17, Zenon DEF RunThenable, HiddenPair
<1>19. /\ p \in 1..n /\ m <= Len(before) /\ FALSE \in BOOLEAN
      /\ k \in {NoHandler, Program} \cup 1..Len(before)
  BY <1>6, <1>7, <1>11, <1>15, <1>17
<1>20. ThenDone(p, k, before, FALSE, base)
  BY <1>1, <1>2, <1>7, <1>15, <1>18, <1>19, ThenEffect, Zenon
<1>21. \A c \in 1..Len(before) : c \in 1..m \/ ~before[c].exposed
  BY <1>10, <1>14, <1>15
<1>22. Registering(n, m, base, p, k, before, FALSE)
  BY <1>8, <1>9, <1>10, <1>15, <1>16, <1>19, <1>20, <1>21, Zenon DEF Registering
<1> QED BY <1>4, <1>22, Zenon

LEMMA ThenableUses ==
  ASSUME TypeInv, ReactionInv, RunThenable
  PROVE  ReactionInv'
<1>1. PICK n : n = Len(promises)
  BY Zenon
<1>2. PICK m : m = Len(pairs)
  BY Zenon
<1>3. PICK job : job = Last(stack).job
  OBVIOUS
<1>4. PICK base : base = Front(stack)
  OBVIOUS
<1>5. PICK q : q = job.promise
  OBVIOUS
<1>6. PICK k : k = m + 1
  OBVIOUS
<1>7. /\ stack # <<>> /\ q \in 1..n /\ Ready(base) /\ (job.intrinsic => job.thenable \in 1..n)
      /\ n \in Nat /\ m \in Nat /\ stack \in Seq(Frame) /\ UNCHANGED <<jobHost, thrown>>
      /\ Last(stack).kind = "job" /\ job.kind = "thenable" /\ Fits(1)
  BY <1>1, <1>2, <1>3, <1>4, <1>5, ThenableOnTop, TopFrame, StackTypes, Zenon DEF TypeOK, RunThenable
<1>8. /\ Typed(n, m, base) /\ promises \in Seq(PromiseObjects(n, m)) /\ pairs \in Seq(Pairs(n))
      /\ queue \in Seq(Jobs(n, m)) /\ base \in Seq(CallFrames(n, m)) /\ base \in Seq(Frame)
  <2>1. Typed(n, m, base)
    BY <1>1, <1>2, <1>7, TypedBase
  <2> QED BY <1>4, <2>1, StackTypes DEF Typed
<1>9. Sane(base, promises, pairs, queue) /\ ~promises[q].lost
  <2>1. Sane(base, promises, pairs, queue) /\ Saved(Last(stack), promises, pairs)
    BY <1>4, <1>7, SanePop DEF ReactionInv
  <2> QED BY <1>3, <1>5, <1>7, <2>1 DEF Saved
<1>10. Countable(n, m, queue, base, promises)
  BY <1>7, <1>8, <1>9 DEF Countable, Sane
<1>11. \A c \in 1..m : InUse(queue, base, promises, c) = Due(c, promises, pairs)
  <2> TAKE c \in 1..m
  <2>1. FrameLoad(Last(stack), c) = 0
    <3>1. Last(stack) \in Frame /\ job \notin JobsFor(c)
      BY <1>7, FrontLast DEF JobsFor, IsReactionJob
    <3> QED BY <1>3, <1>7, <3>1, FrameLoads
  <2>2. Countable(n, m, queue, stack, promises) /\ Last(stack).kind # "flush"
    BY <1>1, <1>2, <1>7, StackCounts
  <2>3. /\ InUse(queue, stack, promises, c) = InUse(queue, Front(stack), promises, c) + FrameLoad(Last(stack), c)
        /\ InUse(queue, Front(stack), promises, c) \in Nat
        /\ Countable(n, m, queue, Front(stack), promises)
    BY <1>7, <2>2, InUsePop, Zenon
  <2>4. InUse(queue, stack, promises, c) = Due(c, promises, pairs)
    BY <1>2, StackCounts
  <2> QED BY <1>4, <2>1, <2>3, <2>4
<1>12. InUse(queue, base, promises, k) = 0
  <2>1. k \in Nat /\ m < k
    BY <1>6, <1>7
  <2> QED BY <1>8, <1>9, <2>1, NoUsesYet DEF Sane
<1>13. /\ n + 1 <= MaxPromises /\ k + 1 <= MaxPairs
       /\ \A c \in 1..k : c \in 1..m \/ c = k
  <2>1. Hits(queue, Thenables) \in Nat
    BY TopFrame
  <2>2. /\ Len(promises) + Hits(queue, Thenables) + 1 <= MaxPromises
        /\ Len(pairs) + 2 * (Hits(queue, Thenables) + 1) <= MaxPairs
    BY <1>7 DEF Fits
  <2> QED BY <1>1, <1>2, <1>6, <1>7, <2>1, <2>2, ConstantsAreApart
<1>14. CASE job.intrinsic
  <2>1. PICK pair : pair = HiddenPair(q)
    OBVIOUS
  <2>2. PICK before : before = Append(pairs, pair)
    BY Zenon
  <2>3. /\ pair \in Pairs(n) /\ pair.promise = q /\ ~pair.exposed /\ ~pair.alreadyResolved
    BY <1>7, <2>1 DEF HiddenPair, NewPair, Pairs
  <2>4. before \in Seq(Pairs(n)) /\ Len(before) = k /\ before[k] = pair
    BY <1>2, <1>6, <1>8, <2>2, <2>3, AppendProperties
  <2>5. \A c \in 1..m : before[c] = pairs[c]
    BY <1>2, <1>8, <2>2, AppendAny
  <2>6. PICK p : p = job.thenable
    OBVIOUS
  <2>7. PerformThen(p, k, before, FALSE, base)
    BY <1>2, <1>3, <1>4, <1>5, <1>6, <1>14, <2>1, <2>2, <2>6, Zenon DEF RunThenable, HiddenPair
  <2>8. /\ p \in 1..n /\ m <= Len(before) /\ FALSE \in BOOLEAN
        /\ k \in {NoHandler, Program} \cup 1..Len(before)
    BY <1>6, <1>7, <1>14, <2>4, <2>6
  <2>9. ThenDone(p, k, before, FALSE, base)
    BY <1>1, <1>2, <1>7, <2>4, <2>7, <2>8, ThenEffect, Zenon
  <2>10. \A c \in 1..Len(before) : c \in 1..m \/ ~before[c].exposed
    BY <1>13, <2>3, <2>4
  <2>11. Registering(n, m, base, p, k, before, FALSE)
    BY <1>8, <1>9, <1>13, <2>4, <2>5, <2>8, <2>9, <2>10, Zenon DEF Registering
  <2>12. ASSUME NEW c \in 1..Len(before)
         PROVE  InUse(queue, base, promises, c) + (IF c = k THEN 1 ELSE 0) = Due(c, promises, before)
    <3>1. CASE c \in 1..m
      <4>1. Due(c, promises, before) = Due(c, promises, pairs) /\ Due(c, promises, pairs) \in Nat /\ c # k
        BY <1>6, <1>7, <2>5, <3>1 DEF Due
      <4> QED BY <1>11, <3>1, <4>1
    <3>2. CASE c = k
      <4>1. Due(c, promises, before) = 1
        BY <1>9, <2>3, <2>4, <3>2 DEF Due
      <4> QED BY <1>12, <3>2, <4>1
    <3> QED BY <1>13, <2>4, <3>1, <3>2
  <2>13. Counted(base, k, before)
    BY <2>12 DEF Counted
  <2> QED BY <2>11, <2>13, Registers, Zenon
<1>15. CASE ~job.intrinsic
  <2>1. PICK pair : pair = NewPair(q, TRUE)
    BY Zenon
  <2>2. PICK frame : frame = ThenableFrame(k)
    OBVIOUS
  <2>3. pair.promise = q /\ pair.exposed /\ frame.kind = "thenable" /\ frame.pair = k
    BY <2>1, <2>2 DEF NewPair, ThenableFrame
  <2>4. frame \in Frame
    <3>1. k \in 1..MaxPairs
      BY <1>6, <1>7, <1>13, ConstantsAreApart
    <3> QED BY <2>2, <3>1 DEF ThenableFrame, Frame
  <2>5. /\ pairs' = Append(pairs, pair) /\ stack' = Append(base, frame)
        /\ UNCHANGED <<promises, queue>>
    BY <1>2, <1>3, <1>4, <1>5, <1>6, <1>15, <2>1, <2>2, Zenon DEF RunThenable
  <2>6. Len(pairs') = k /\ pairs'[k] = pair /\ \A c \in 1..m : pairs'[c] = pairs[c]
    BY <1>2, <1>6, <1>8, <2>5, AppendAny
  <2>7. PairsKeep
    BY <1>2, <2>6 DEF PairsKeep
  <2>8. Sane(base, promises', pairs', queue')
    <3>1. \A p \in 1..n : Len(promises'[p].reactionJobs) \in Nat
      BY <1>7, <1>8, <2>5, JobsLength DEF Typed
    <3>2. \A p \in 1..n : Harmless(promises[p], promises'[p], base, p)
      <4> TAKE p \in 1..n
      <4>1. Tidy(promises[p])
        BY <1>1, <1>9 DEF Sane
      <4>2. Len(promises[p].reactionJobs) \in Nat
        BY <2>5, <3>1
      <4> QED BY <2>5, <4>1, <4>2 DEF Harmless
    <3>3. \A p \in 1..Len(promises') : p \in 1..n \/ Tidy(promises'[p])
      BY <1>1, <2>5
    <3>4. \A c \in 1..Len(pairs') : c \in 1..m \/ ~pairs'[c].exposed \/ ~promises'[pairs'[c].promise].lost
      BY <1>9, <1>13, <2>3, <2>5, <2>6
    <3>5. \A i \in 1..Len(queue') : queue'[i].kind = "thenable" => ~promises'[queue'[i].promise].lost
      BY <1>9, <2>5 DEF Sane
    <3> QED BY <1>1, <1>2, <1>7, <1>8, <1>9, <2>7, <3>1, <3>2, <3>3, <3>4, <3>5, SaneKept, Zenon
  <2>9. Sane(stack', promises', pairs', queue')
    <3>1. Saved(frame, promises', pairs')
      BY <2>3, <2>6 DEF Saved
    <3> QED BY <1>8, <2>3, <2>4, <2>5, <2>8, <3>1, SanePush
  <2>10. \A c : InUse(queue, stack', promises, c) = InUse(queue, base, promises, c)
    <3> TAKE c
    <3>1. FrameLoad(frame, c) = 0
      BY <2>3, <2>4, FrameLoads DEF Idle
    <3>2. frame.kind # "flush"
      BY <2>3
    <3>3. InUse(queue, Append(base, frame), promises, c) = InUse(queue, base, promises, c) + FrameLoad(frame, c)
      BY <1>10, <2>4, <3>2, InUsePush
    <3>4. InUse(queue, base, promises, c) \in Nat
      BY <1>10, InUseNumber
    <3> QED BY <2>5, <3>1, <3>3, <3>4
  <2>11. ASSUME NEW c \in 1..Len(pairs')
         PROVE  InUse(queue', stack', promises', c) = Due(c, promises', pairs')
    <3>1. CASE c \in 1..m
      BY <1>11, <2>5, <2>6, <2>10, <3>1 DEF Due
    <3>2. CASE c = k
      BY <1>12, <2>3, <2>5, <2>6, <2>10, <3>2 DEF Due
    <3> QED BY <1>13, <2>6, <3>1, <3>2
  <2> QED BY <2>9, <2>11 DEF ReactionInv, Balanced
<1> QED BY <1>14, <1>15

LEMMA NewUses ==
  ASSUME TypeInv, ReactionInv, NewPromise
  PROVE  ReactionInv'
<1>1. PICK n : n = Len(promises)
  BY Zenon
<1>2. PICK m : m = Len(pairs)
  BY Zenon
<1>3. running # "job"
  BY DEF NewPromise, ForeignCode, Foreign
<1>4. Typed(n, m, stack) /\ n \in Nat /\ m \in Nat
  BY <1>1, <1>2, <1>3, TopFrame, TypedBase
<1>5. PICK child : child = PendingPromise(TRUE, 0)
  BY Zenon
<1>6. PICK pair : pair = NewPair(n + 1, TRUE)
  BY Zenon
<1>7. /\ promises' = Append(promises, child) /\ pairs' = Append(pairs, pair)
      /\ UNCHANGED <<queue, stack>>
  BY <1>1, <1>5, <1>6 DEF NewPromise
<1>8. Blank(child) /\ Tidy(child) /\ ~child.lost /\ pair.exposed /\ pair.promise = n + 1
  BY <1>5, <1>6 DEF PendingPromise, Blank, Tidy, NewPair
<1>9. /\ Len(promises') = n + 1 /\ promises'[n + 1] = child
      /\ \A p \in 1..n : promises'[p] = promises[p]
      /\ Len(pairs') = m + 1 /\ pairs'[m + 1] = pair
      /\ \A c \in 1..m : pairs'[c] = pairs[c]
  BY <1>1, <1>2, <1>4, <1>7, AppendAny DEF Typed
<1>10. Sane(stack, promises, pairs, queue) /\ Flushes(stack, promises)
  BY DEF ReactionInv, Sane
<1>11. \A c \in 1..(m + 1) : c \in 1..m \/ c = m + 1
  BY <1>4
<1>12. Sane(stack', promises', pairs', queue')
  <2>1. \A p \in 1..n : Len(promises'[p].reactionJobs) \in Nat /\ Harmless(promises[p], promises'[p], stack, p)
    <3> TAKE p \in 1..n
    <3>1. Tidy(promises[p])
      BY <1>1, <1>10 DEF Sane
    <3>2. Len(promises[p].reactionJobs) \in Nat
      BY <1>4, JobsLength DEF Typed
    <3> QED BY <1>9, <3>1, <3>2 DEF Harmless
  <2>2. \A p \in 1..Len(promises') : p \in 1..n \/ Tidy(promises'[p])
    BY <1>4, <1>8, <1>9
  <2>3. PairsKeep
    BY <1>2, <1>9 DEF PairsKeep
  <2>4. \A c \in 1..Len(pairs') : c \in 1..m \/ ~pairs'[c].exposed \/ ~promises'[pairs'[c].promise].lost
    BY <1>8, <1>9, <1>11
  <2>5. \A p \in 1..n : promises'[p].lost = promises[p].lost
    BY <1>9
  <2>6. \A i \in 1..Len(queue') : queue'[i].kind = "thenable" => ~promises'[queue'[i].promise].lost
    BY <1>4, <1>7, <1>10, <2>5, NoneLost, Zenon
  <2>7. Sane(stack, promises', pairs', queue')
    BY <1>4, <1>10, <2>1, <2>2, <2>3, <2>4, <2>6, SaneKept, Zenon DEF Typed
  <2> QED BY <1>7, <2>7
<1>13. \A c : InUse(queue', stack', promises', c) = InUse(queue, stack, promises, c)
  <2> TAKE c
  <2>1. Rests(stack, promises, stack', promises', {})
    <3>1. \A p \in 1..Len(promises') : p \in 1..n \/ Blank(promises'[p])
      BY <1>4, <1>8, <1>9
    <3> QED BY <1>1, <1>7, <1>9, <3>1 DEF Rests, SameUses
  <2>2. PromiseLoad(stack', promises', c) = PromiseLoad(stack, promises, c)
    BY <1>4, <1>10, <2>1, UsesStay DEF Typed
  <2> QED BY <1>7, <2>2 DEF InUse
<1>14. ASSUME NEW c \in 1..Len(pairs')
       PROVE  InUse(queue', stack', promises', c) = Due(c, promises', pairs')
  <2>1. CASE c \in 1..m
    <3>1. InUse(queue, stack, promises, c) = Due(c, promises, pairs)
      BY <1>2, <2>1, StackCounts
    <3>2. pairs[c].promise \in 1..n
      <4>1. pairs[c] \in Pairs(n)
        BY <1>4, <2>1, ElementOfSeq DEF Typed
      <4> QED BY <4>1 DEF Pairs
    <3>3. Due(c, promises', pairs') = Due(c, promises, pairs)
      BY <1>9, <2>1, <3>2 DEF Due
    <3> QED BY <1>13, <3>1, <3>3
  <2>2. CASE c = m + 1
    <3>1. m + 1 \in Nat /\ m < m + 1
      BY <1>4
    <3>2. InUse(queue, stack, promises, m + 1) = 0
      BY <1>4, <1>10, <3>1, NoUsesYet
    <3>3. Due(c, promises', pairs') = 0
      BY <1>8, <1>9, <2>2 DEF Due
    <3> QED BY <1>13, <2>2, <3>2, <3>3
  <2> QED BY <1>9, <1>11, <2>1, <2>2
<1> QED BY <1>12, <1>14 DEF ReactionInv, Balanced

LEMMA SameBalance ==
  ASSUME TypeInv, ReactionInv, UNCHANGED <<promises, pairs>>,
         Sane(stack', promises, pairs, queue'),
         \A c \in 1..Len(pairs) : InUse(queue', stack', promises, c) = InUse(queue, stack, promises, c)
  PROVE  ReactionInv'
<1>1. \A c \in 1..Len(pairs) : InUse(queue', stack', promises, c) = Due(c, promises, pairs)
  BY StackCounts
<1> QED BY <1>1 DEF ReactionInv, Balanced

LEMMA QuietUses ==
  ASSUME TypeInv, ReactionInv, QuietStep, running = "trigger" => Last(stack).todo = <<>>
  PROVE  ReactionInv'
<1>1. PICK n, m : Countable(n, m, queue, stack, promises)
  BY StackCounts
<1>2. Sane(stack, promises, pairs, queue) /\ stack \in Seq(Frame)
  BY <1>1 DEF ReactionInv, Countable
<1>3. UNCHANGED <<promises, pairs, queue>>
  BY DEF QuietStep
<1>4. CASE stack' = stack
  <2>1. Sane(stack', promises, pairs, queue')
    BY <1>2, <1>3, <1>4
  <2>2. \A c : InUse(queue', stack', promises, c) = InUse(queue, stack, promises, c)
    BY <1>3, <1>4
  <2> QED BY <1>3, <2>1, <2>2, SameBalance
<1>5. CASE stack # <<>> /\ stack' = Front(stack)
           /\ running \in {"drain", "hook", "tracker", "thenable", "trigger"}
  <2>1. /\ running = Last(stack).kind /\ Last(stack) \in Frame
    BY <1>2, <1>5, TopFrame, FrontLast
  <2>2. \A c : FrameLoad(Last(stack), c) = 0
    <3> TAKE c
    <3>1. CASE running = "trigger"
      BY <2>1, <3>1, FrameLoads, HitsNone, Zenon
    <3>2. CASE running # "trigger"
      BY <1>5, <2>1, <3>2, FrameLoads DEF Idle
    <3> QED BY <3>1, <3>2
  <2>3. \A c : InUse(queue', stack', promises, c) = InUse(queue, stack, promises, c)
    <3> TAKE c
    <3>1. Last(stack).kind # "flush"
      BY <1>5, <2>1
    <3>2. /\ InUse(queue, stack, promises, c) = InUse(queue, Front(stack), promises, c) + FrameLoad(Last(stack), c)
          /\ InUse(queue, Front(stack), promises, c) \in Nat
          /\ Countable(n, m, queue, Front(stack), promises)
      BY <1>1, <1>5, <3>1, InUsePop, Zenon
    <3> QED BY <1>3, <1>5, <2>2, <3>2
  <2>4. Sane(stack', promises, pairs, queue')
    <3>1. Sane(Front(stack), promises, pairs, queue)
      BY <1>2, <1>5, SanePop
    <3> QED BY <1>3, <1>5, <3>1
  <2> QED BY <1>3, <2>3, <2>4, SameBalance
<1>6. CASE stack' = Append(stack, DrainFrame)
  <2>1. PICK frame : frame = DrainFrame
    OBVIOUS
  <2>2. frame \in Frame /\ frame.kind = "drain"
    BY <2>1 DEF DrainFrame, Frame
  <2>3. \A c : InUse(queue', stack', promises, c) = InUse(queue, stack, promises, c)
    <3> TAKE c
    <3>1. frame.kind # "flush"
      BY <2>2
    <3>2. InUse(queue, Append(stack, frame), promises, c) = InUse(queue, stack, promises, c) + FrameLoad(frame, c)
      BY <1>1, <2>2, <3>1, InUsePush
    <3>3. FrameLoad(frame, c) = 0
      BY <2>2, FrameLoads DEF Idle
    <3>4. InUse(queue, stack, promises, c) \in Nat
      BY <1>1, InUseNumber
    <3> QED BY <1>3, <1>6, <2>1, <3>2, <3>3, <3>4
  <2>4. Sane(stack', promises, pairs, queue')
    <3>1. Saved(frame, promises, pairs)
      BY <2>2 DEF Saved
    <3>2. Sane(Append(stack, frame), promises, pairs, queue)
      BY <1>2, <2>2, <3>1, SanePush
    <3> QED BY <1>3, <1>6, <2>1, <3>2
  <2> QED BY <1>3, <2>3, <2>4, SameBalance
<1>7. \/ stack' = stack
      \/ /\ stack # <<>> /\ stack' = Front(stack)
         /\ running \in {"drain", "hook", "tracker", "thenable", "trigger"}
      \/ stack' = Append(stack, DrainFrame)
  BY TopFrame DEF QuietStep
<1> QED BY <1>4, <1>5, <1>6, <1>7

\* A job that is taken from the queue is used by its activation.
LEMMA StartUses ==
  ASSUME TypeInv, ReactionInv, StartJob
  PROVE  ReactionInv'
<1>1. PICK n, m : Countable(n, m, queue, stack, promises)
  BY StackCounts
<1>2. PICK job : job = Head(queue)
  OBVIOUS
<1>3. PICK frame : frame = JobFrame(job)
  OBVIOUS
<1>4. Sane(stack, promises, pairs, queue) /\ stack \in Seq(Frame)
  BY <1>1 DEF ReactionInv, Countable
<1>5. /\ UNCHANGED <<promises, pairs>> /\ queue # <<>> /\ queue' = Tail(queue)
      /\ stack' = Append(stack, frame)
  BY <1>2, <1>3 DEF StartJob
<1>6. queue \in Seq(Job)
  BY StackTypes DEF TypeOK
<1>7. /\ job \in Job /\ Tail(queue) \in Seq(Job) /\ job = queue[1] /\ 1 \in 1..Len(queue)
      /\ Len(Tail(queue)) = Len(queue) - 1
      /\ \A i \in 1..Len(Tail(queue)) : Tail(queue)[i] = queue[i + 1] /\ i + 1 \in 1..Len(queue)
  <2>1. Len(queue) \in Nat /\ Len(queue) # 0
    BY <1>5, <1>6, LenProperties, EmptySeq
  <2>2. /\ Head(queue) = queue[1] /\ Tail(queue) \in Seq(Job)
        /\ Len(Tail(queue)) = Len(queue) - 1
        /\ \A i \in 1..Len(Tail(queue)) : Tail(queue)[i] = queue[i + 1]
    BY <1>5, <1>6, HeadTailProperties
  <2>3. 1 \in 1..Len(queue) /\ \A i \in 1..Len(Tail(queue)) : i + 1 \in 1..Len(queue)
    BY <2>1, <2>2
  <2> QED BY <1>2, <1>6, <2>2, <2>3, ElementOfSeq
<1>8. frame.kind = "job" /\ frame.job = job /\ frame \in Frame
  <2>1. frame.kind = "job" /\ frame.job = job
    BY <1>3 DEF JobFrame
  <2>2. frame \in [kind: {"job"}, job: Job]
    BY <1>3, <1>7 DEF JobFrame
  <2> QED BY <2>1, <2>2 DEF Frame
<1>9. Sane(stack', promises, pairs, queue')
  <2>1. \A i \in 1..Len(Tail(queue)) :
          Tail(queue)[i].kind = "thenable" => ~promises[Tail(queue)[i].promise].lost
    BY <1>4, <1>7 DEF Sane
  <2>2. Sane(stack, promises, pairs, Tail(queue))
    BY <1>4, <2>1 DEF Sane
  <2>3. Saved(frame, promises, pairs)
    BY <1>4, <1>7, <1>8 DEF Saved, Sane
  <2>4. Sane(Append(stack, frame), promises, pairs, Tail(queue))
    BY <1>4, <1>8, <2>2, <2>3, SanePush
  <2> QED BY <1>5, <2>4
<1>10. ASSUME NEW c PROVE InUse(queue', stack', promises, c) = InUse(queue, stack, promises, c)
  <2>1. InUse(queue, Append(stack, frame), promises, c) = InUse(queue, stack, promises, c) + FrameLoad(frame, c)
    <3>1. frame.kind # "flush"
      BY <1>8
    <3> QED BY <1>1, <1>8, <3>1, InUsePush
  <2>2. FrameLoad(frame, c) = IF job \in JobsFor(c) THEN 1 ELSE 0
    BY <1>8, FrameLoads
  <2>3. Hits(queue, JobsFor(c)) = Hits(Tail(queue), JobsFor(c)) + (IF job \in JobsFor(c) THEN 1 ELSE 0)
    BY <1>2, <1>5, <1>6, HitsTail
  <2>4. PICK rest : rest = Load(stack', c) + PromiseLoad(stack', promises, c)
    OBVIOUS
  <2>5. /\ InUse(queue, Append(stack, frame), promises, c) = Hits(queue, JobsFor(c)) + rest
        /\ InUse(queue', stack', promises, c) = Hits(Tail(queue), JobsFor(c)) + rest
    BY <1>5, <2>4 DEF InUse
  <2>6. Hits(Tail(queue), JobsFor(c)) \in Nat /\ InUse(queue, stack, promises, c) \in Nat
    BY <1>1, <1>7, HitsType, InUseNumber, Zenon
  <2>7. rest \in Int
    <3>1. Countable(n, m, queue, stack', promises)
      <4>1. Flushes(stack', promises) /\ stack' \in Seq(Frame)
        BY <1>4, <1>5, <1>8, <1>9, AppendProperties DEF Sane
      <4> QED BY <1>1, <4>1 DEF Countable
    <3>2. Load(stack', c) \in Nat /\ PromiseLoad(stack', promises, c) \in Nat
      BY <3>1, InUseNumber
    <3> QED BY <2>4, <3>2
  <2> QED BY <2>1, <2>2, <2>3, <2>5, <2>6, <2>7
<1> QED BY <1>5, <1>9, <1>10, SameBalance

\* A hook or the tracker is called, or nothing.
LEMMA SanePlain ==
  ASSUME NEW base \in Seq(Frame), NEW frame \in {HookFrame, TrackerFrame},
         NEW later \in {base, Append(base, frame)}, NEW objects, NEW couples, NEW jobs,
         Sane(base, objects, couples, jobs)
  PROVE  /\ Sane(later, objects, couples, jobs) /\ later \in Seq(Frame)
         /\ \A p : FlushedIn(later, p) = FlushedIn(base, p)
         /\ \A c : Load(later, c) = Load(base, c) /\ Load(base, c) \in Nat
<1>1. frame.kind \in {"hook", "tracker"} /\ frame \in Frame
  BY DEF HookFrame, TrackerFrame, Frame
<1>2. Saved(frame, objects, couples) /\ \A p : ~IsFlush(frame, p)
  BY <1>1 DEF Saved, IsFlush
<1>3. Sane(later, objects, couples, jobs)
  BY <1>1, <1>2, SanePush, Zenon
<1>4. later \in Seq(Frame)
  BY <1>1, AppendProperties
<1>5. \A p : FlushedIn(later, p) = FlushedIn(base, p)
  <2> TAKE p
  <2>1. ~IsFlush(frame, p)
    BY <1>2
  <2>2. FlushedIn(Append(base, frame), p) = FlushedIn(base, p)
    BY <1>1, <2>1, FlushedPush
  <2> QED BY <2>2, Zenon
<1>6. \A c : Load(later, c) = Load(base, c) /\ Load(base, c) \in Nat
  BY <1>1, IdlePush, Zenon DEF Idle
<1> QED BY <1>3, <1>4, <1>5, <1>6

LEMMA FollowedTidy ==
  ASSUME NEW n \in Nat, NEW m \in Nat, NEW record \in PromiseObjects(n, m), NEW value,
         NEW changed, changed = Following(record, value)
  PROVE  /\ changed.lost = record.lost /\ (Tidy(record) => Tidy(changed)) /\ SameUses(record, changed)
         /\ changed.enqueueInProgress = record.enqueueInProgress
BY DEF Following, PromiseObjects, Tidy, SameUses

LEMMA GetThenUses ==
  ASSUME TypeInv, ReactionInv, GetThenStep
  PROVE  ReactionInv'
<1>1. PICK n : n = Len(promises)
  BY Zenon
<1>2. PICK m : m = Len(pairs)
  BY Zenon
<1>3. PICK frame : frame = Last(stack)
  OBVIOUS
<1>4. PICK base : base = Front(stack)
  OBVIOUS
<1>5. Engine("getThen") /\ pairs' = pairs
  BY DEF GetThenStep, ThenThrows, ThenNotCallable, ThenCallable
<1>6. /\ stack # <<>> /\ frame.kind = "getThen" /\ frame \in CallFrames(n, m)
      /\ Ready(base) /\ n \in Nat /\ m \in Nat /\ stack \in Seq(Frame) /\ base \in Seq(Frame)
      /\ frame \in Frame
  BY <1>1, <1>2, <1>3, <1>4, <1>5, TopFrame, StackTypes, FrontLast DEF Engine, Running, TypeOK
<1>7. PICK q : q = frame.promise
  OBVIOUS
<1>8. PICK value : value = frame.resolution
  OBVIOUS
<1>9. /\ q \in 1..n /\ value \in 0..n /\ value \in Values(n) /\ GuestError \in Values(n)
      /\ "fulfilled" \in Settled /\ "rejected" \in Settled /\ "fulfilled" # "rejected"
  BY <1>6, <1>7, <1>8, FrameFields, Zenon DEF Values, Settled
<1>10. Typed(n, m, base)
  BY <1>1, <1>2, <1>6, TypedBase
<1>11. Sane(base, promises, pairs, queue) /\ ~promises[q].lost
  <2>1. Sane(base, promises, pairs, queue) /\ Saved(frame, promises, pairs)
    BY <1>3, <1>4, <1>6, SanePop DEF ReactionInv
  <2> QED BY <1>6, <1>7, <2>1 DEF Saved
<1>12. PairsKeep /\ Len(pairs') = m
  BY <1>2, <1>5 DEF PairsKeep
<1>13. \A c \in 1..m : InUse(queue, base, promises, c) = Due(c, promises, pairs)
  <2> TAKE c \in 1..m
  <2>1. Countable(n, m, queue, stack, promises) /\ Last(stack).kind # "flush"
    BY <1>1, <1>2, <1>3, <1>6, StackCounts
  <2>2. /\ InUse(queue, stack, promises, c) = InUse(queue, Front(stack), promises, c) + FrameLoad(Last(stack), c)
        /\ InUse(queue, Front(stack), promises, c) \in Nat
        /\ Countable(n, m, queue, Front(stack), promises)
    BY <1>6, <2>1, InUsePop, Zenon
  <2>3. FrameLoad(Last(stack), c) = 0
    BY <1>3, <1>6, FrameLoads DEF Idle
  <2>4. InUse(queue, stack, promises, c) = Due(c, promises, pairs)
    BY <1>2, StackCounts
  <2> QED BY <1>4, <2>2, <2>3, <2>4
<1>14. ASSUME \A p \in 1..n : promises'[p].lost = promises[p].lost,
              \A c \in 1..m : InUse(queue', stack', promises', c) = InUse(queue, base, promises, c)
       PROVE  Balanced(queue', stack', promises', pairs')
  <2>1. \A c \in 1..m : Due(c, promises', pairs') = Due(c, promises, pairs)
    BY <1>1, <1>2, <1>5, <1>10, <1>12, <1>14, DueKept, Zenon DEF Typed
  <2> QED BY <1>12, <1>13, <1>14, <2>1 DEF Balanced
<1>15. ASSUME NEW state \in Settled, NEW result \in Values(n), Settle(q, state, result, base)
       PROVE  ReactionInv'
  <2>1. /\ Sane(stack', promises', pairs', queue') /\ queue' = queue
        /\ \A p \in 1..n : promises'[p].lost = promises[p].lost
    BY <1>9, <1>10, <1>11, <1>12, <1>15, SettleSane
  <2>2. Flushes(base, promises)
    BY <1>11 DEF Sane
  <2>3. \A c \in 1..m : InUse(queue, stack', promises', c) = InUse(queue, base, promises, c)
    BY <1>9, <1>10, <1>15, <2>2, SettleUses DEF Typed
  <2>4. Balanced(queue', stack', promises', pairs')
    BY <1>14, <2>1, <2>3
  <2> QED BY <2>1, <2>4 DEF ReactionInv
<1>16. ASSUME NEW intrinsic \in BOOLEAN, ThenCallable(intrinsic) PROVE ReactionInv'
  <2>1. PICK job : job = ThenableJob(q, value, intrinsic)
    OBVIOUS
  <2>2. job.kind = "thenable" /\ job.promise = q /\ job \in Job
    <3>1. q \in 1..MaxPromises /\ value \in Value
      <4>1. n \in 0..MaxPromises /\ m \in 0..MaxPairs
        BY <1>10 DEF Typed
      <4> QED BY <1>9, <4>1, TypesAreTypes, ConstantsAreApart
    <3> QED BY <2>1, <3>1 DEF ThenableJob, Job
  <2>3. Enqueue(job, base)
    BY <1>3, <1>4, <1>7, <1>8, <1>16, <2>1 DEF ThenCallable
  <2>4. PICK r : r = Following(promises[q], value)
    OBVIOUS
  <2>5. promises[q] \in PromiseObjects(n, m) /\ q \in 1..Len(promises) /\ promises \in Seq(PromiseObjects(n, m))
    BY <1>1, <1>9, <1>10, ElementOfSeq DEF Typed
  <2>6. /\ r \in PromiseObjects(n, m) /\ r.lost = promises[q].lost /\ SameUses(promises[q], r)
        /\ r.enqueueInProgress = promises[q].enqueueInProgress /\ (Tidy(promises[q]) => Tidy(r))
    <3>1. n \in Nat /\ m \in Nat /\ value \in 0..n /\ promises[q] \in PromiseObjects(n, m)
      BY <1>6, <1>9, <2>5
    <3>2. r \in PromiseObjects(n, m)
      BY ONLY <2>4, <3>1, RecordTypes, Zenon
    <3> QED BY <2>4, <3>1, <3>2, FollowedTidy
  <2>7. PICK changed : changed = [promises EXCEPT ![q] = r]
    BY Zenon
  <2>8. /\ changed \in Seq(PromiseObjects(n, m)) /\ Len(changed) = n
        /\ \A p \in 1..n : changed[p] = IF p = q THEN r ELSE promises[p]
    BY <1>1, <2>5, <2>6, <2>7, ExceptSeq
  <2>9. promises' = promises \/ promises' = changed
    BY <1>3, <1>7, <1>8, <1>16, <2>4, <2>5, <2>7, LenProperties DEF ThenCallable, Following
  <2>10. /\ promises' \in Seq(PromiseObjects(n, m)) /\ Len(promises') = n
         /\ \A p \in 1..n : p # q => promises'[p] = promises[p]
         /\ promises'[q] \in {promises[q], r}
    BY <1>1, <1>9, <2>5, <2>8, <2>9
  <2>11. Harmless(promises[q], promises'[q], base, q)
    <3>1. Tidy(promises[q])
      BY <1>1, <1>9, <1>11 DEF Sane
    <3>2. Len(promises[q].reactionJobs) \in Nat
      BY <1>9, <1>10, JobsLength DEF Typed
    <3> QED BY <2>6, <2>10, <3>1, <3>2 DEF Harmless, SameUses
  <2>12. \A p \in 1..n : promises'[p].lost = promises[p].lost
    BY <2>10, <2>11 DEF Harmless
  <2>13. /\ queue' = Append(queue, job) /\ stack' \in {base, Append(base, HookFrame)}
         /\ queue \in Seq(Jobs(n, m))
    BY <1>10, <2>3 DEF Enqueue, Typed
  <2>14. \A i \in 1..Len(queue') : queue'[i].kind = "thenable" => ~promises'[queue'[i].promise].lost
    <3>1. /\ Len(queue') = Len(queue) + 1 /\ queue'[Len(queue) + 1] = job
          /\ \A i \in 1..Len(queue) : queue'[i] = queue[i]
      BY <2>13, AppendAny
    <3>2. \A i \in 1..Len(queue') : i \in 1..Len(queue) \/ i = Len(queue) + 1
      BY <2>13, <3>1, LenProperties
    <3>3. ASSUME NEW i \in 1..Len(queue), queue[i].kind = "thenable"
          PROVE  ~promises'[queue[i].promise].lost
      <4>1. queue[i] \in Jobs(n, m)
        BY <2>13, ElementOfSeq
      <4>2. queue[i].promise \in 1..n
        BY <3>3, <4>1 DEF Jobs, ThenableJobs, ReactionJobs
      <4> QED BY <1>11, <2>12, <3>3, <4>2, Zenon DEF Sane
    <3> QED BY <1>9, <1>11, <2>2, <2>12, <3>1, <3>2, <3>3
  <2>15. Sane(base, promises', pairs', queue')
    BY <1>9, <1>10, <1>11, <1>12, <2>10, <2>11, <2>14, SaneChange
  <2>16. /\ Sane(stack', promises', pairs', queue')
         /\ \A p : FlushedIn(stack', p) = FlushedIn(base, p)
         /\ \A c : Load(stack', c) = Load(base, c)
    BY <1>6, <2>13, <2>15, SanePlain, Zenon
  <2>17. \A c \in 1..m : InUse(queue', stack', promises', c) = InUse(queue, base, promises, c)
    <3> TAKE c \in 1..m
    <3>1. Hits(queue', JobsFor(c)) = Hits(queue, JobsFor(c))
      <4>1. job \notin JobsFor(c)
        BY <2>2 DEF JobsFor, IsReactionJob
      <4>2. Hits(queue', JobsFor(c)) = Hits(queue, JobsFor(c)) + (IF job \in JobsFor(c) THEN 1 ELSE 0)
        BY <2>13, HitsAppendAny
      <4>3. Hits(queue, JobsFor(c)) \in Nat
        BY <2>13, HitsType
      <4> QED BY <4>1, <4>2, <4>3
    <3>2. Rests(base, promises, stack', promises', {})
      <4>1. Len(promises') = Len(promises) /\ Len(promises) \in Nat
        BY <1>1, <1>6, <2>10
      <4>2. \A p \in 1..n : SameUses(promises[p], promises'[p])
        BY <2>6, <2>10 DEF SameUses
      <4> QED BY <1>1, <2>16, <4>1, <4>2 DEF Rests
    <3>3. PromiseLoad(stack', promises', c) = PromiseLoad(base, promises, c)
      <4>1. Flushes(base, promises)
        BY <1>11 DEF Sane
      <4> QED BY <1>6, <2>5, <3>2, <4>1, UsesStay
    <3> QED BY <2>16, <3>1, <3>3 DEF InUse
  <2>18. Balanced(queue', stack', promises', pairs')
    BY <1>14, <2>12, <2>17
  <2> QED BY <2>16, <2>18 DEF ReactionInv
<1> QED BY <1>3, <1>4, <1>7, <1>8, <1>9, <1>15, <1>16 DEF GetThenStep, ThenThrows, ThenNotCallable

LEMMA EnqueueInUse ==
  ASSUME NEW n, NEW m, NEW over, Countable(n, m, queue, over, promises), NEW job \in Job,
         Enqueue(job, over), NEW c
  PROVE  InUse(queue', stack', promises, c)
           = InUse(queue, over, promises, c) + (IF job \in JobsFor(c) THEN 1 ELSE 0)
<1>1. /\ n \in Nat /\ m \in Nat /\ promises \in Seq(PromiseObjects(n, m)) /\ Flushes(over, promises)
      /\ over \in Seq(Frame)
  BY DEF Countable
<1>2. PICK J : queue \in Seq(J)
  BY DEF Countable
<1>3. /\ Hits(queue, JobsFor(c)) \in Nat
      /\ Hits(queue', JobsFor(c)) = Hits(queue, JobsFor(c)) + (IF job \in JobsFor(c) THEN 1 ELSE 0)
      /\ Load(stack', c) = Load(over, c) /\ Load(over, c) \in Nat
      /\ \A p : FlushedIn(stack', p) = FlushedIn(over, p)
  BY <1>1, <1>2, EnqueueUses, Zenon
<1>4. Rests(over, promises, stack', promises, {})
  <2>1. Len(promises) \in Nat
    BY <1>1, LenProperties
  <2> QED BY <1>3, <2>1 DEF Rests, SameUses
<1>5. PromiseLoad(stack', promises, c) = PromiseLoad(over, promises, c)
  BY <1>1, <1>4, UsesStay
<1>6. PromiseLoad(over, promises, c) \in Nat
  BY InUseNumber
<1> QED BY <1>3, <1>5, <1>6 DEF InUse

LEMMA EnqueueSane ==
  ASSUME NEW J, queue \in Seq(J), NEW over \in Seq(Frame), Sane(over, promises, pairs, queue),
         NEW job, job.kind = "reaction", Enqueue(job, over)
  PROVE  Sane(stack', promises, pairs, queue')
<1>1. queue' = Append(queue, job) /\ stack' \in {over, Append(over, HookFrame)}
  BY DEF Enqueue
<1>2. /\ Len(queue') = Len(queue) + 1 /\ queue'[Len(queue) + 1] = job
      /\ \A i \in 1..Len(queue) : queue'[i] = queue[i]
  BY <1>1, AppendAny
<1>3. \A i \in 1..Len(queue') : i \in 1..Len(queue) \/ i = Len(queue) + 1
  BY <1>2, LenProperties
<1>4. \A i \in 1..Len(queue') : queue'[i].kind = "thenable" => ~promises[queue'[i].promise].lost
  BY <1>2, <1>3, Zenon DEF Sane
<1>5. Sane(over, promises, pairs, queue')
  BY <1>4 DEF Sane
<1> QED BY <1>1, <1>5, SanePlain, Zenon

\* The loop that flushes on top of the activations.
OnTop(base, frame, over, q) ==
  /\ frame.kind = "flush" /\ q = frame.promise /\ Unflushed(base, q) /\ over = Append(base, frame)
Atop(base, over, q) ==
  /\ \A p : p # q => FlushedIn(over, p) = FlushedIn(base, p)
  /\ \A c : Load(over, c) = Load(base, c) /\ Load(base, c) \in Nat

LEMMA FlushOnTop ==
  ASSUME NEW base \in Seq(Frame), NEW frame \in Frame, NEW q, NEW over, OnTop(base, frame, over, q)
  PROVE  FlushedIn(over, q) = frame.next - 1 /\ FlushedIn(base, q) = 0 /\ Atop(base, over, q)
<1> USE DEF OnTop
<1>1. IsFlush(frame, q) /\ frame.kind \in Idle
  BY DEF IsFlush, Idle
<1>2. FlushedIn(over, q) = frame.next - 1 /\ FlushedIn(base, q) = 0
  BY <1>1, FlushedTop, FlushedNone
<1>3. \A p : p # q => FlushedIn(over, p) = FlushedIn(base, p)
  <2> TAKE p
  <2> HAVE p # q
  <2>1. ~IsFlush(frame, p)
    BY DEF IsFlush
  <2> QED BY <2>1, FlushedPush
<1>4. \A c : Load(over, c) = Load(base, c) /\ Load(base, c) \in Nat
  BY <1>1, IdlePush
<1> QED BY <1>2, <1>3, <1>4 DEF Atop

LEMMA RestTail ==
  ASSUME NEW S, NEW s \in Seq(S), NEW k \in 1..Len(s)
  PROVE  /\ SubSeq(s, k, Len(s)) # <<>> /\ SubSeq(s, k, Len(s)) \in Seq(S)
         /\ Head(SubSeq(s, k, Len(s))) = s[k]
         /\ Tail(SubSeq(s, k, Len(s))) = SubSeq(s, k + 1, Len(s))
<1>1. PICK t : t = SubSeq(s, k, Len(s))
  BY Zenon
<1>2. PICK u : u = SubSeq(s, k + 1, Len(s))
  BY Zenon
<1>3. Len(s) \in Nat /\ k - 1 \in 0..Len(s) /\ k \in 0..Len(s) /\ k - 1 + 1 = k
  BY LenProperties
<1>4. /\ t \in Seq(S) /\ Len(t) = Len(s) - (k - 1)
      /\ \A i \in 1..(Len(s) - (k - 1)) : t[i] = s[k - 1 + i]
  <2>1. PICK j : j = k - 1
    OBVIOUS
  <2>2. t = SubSeq(s, j + 1, Len(s)) /\ j \in 0..Len(s)
    BY <1>1, <1>3, <2>1
  <2>3. /\ t \in Seq(S) /\ Len(t) = Len(s) - j
        /\ \A i \in 1..(Len(s) - j) : t[i] = s[j + i]
    BY <2>2, SliceTypes
  <2> QED BY <2>1, <2>3
<1>5. /\ u \in Seq(S) /\ Len(u) = Len(s) - k /\ \A i \in 1..(Len(s) - k) : u[i] = s[k + i]
  BY <1>2, <1>3, SliceTypes
<1>6. Len(t) > 0 /\ t # <<>>
  <2>1. Len(t) > 0
    BY <1>3, <1>4
  <2> QED BY <1>4, <2>1, EmptySeq
<1>7. /\ Head(t) = t[1] /\ Tail(t) \in Seq(S) /\ Len(Tail(t)) = Len(t) - 1
      /\ \A i \in 1..Len(Tail(t)) : Tail(t)[i] = t[i + 1]
  BY <1>4, <1>6, HeadTailProperties
<1>8. Head(t) = s[k]
  <2>1. 1 \in 1..(Len(s) - (k - 1)) /\ k - 1 + 1 = k
    BY <1>3
  <2> QED BY <1>4, <1>7, <2>1
<1>9. Len(Tail(t)) = Len(u)
  <2>1. Len(s) \in Int /\ k \in Int
    BY <1>3
  <2>2. Len(t) = Len(s) - (k - 1) /\ Len(Tail(t)) = Len(t) - 1 /\ Len(u) = Len(s) - k
    BY <1>4, <1>5, <1>7
  <2> QED BY <2>1, <2>2
<1>10. \A i \in 1..Len(Tail(t)) : Tail(t)[i] = u[i]
  <2> TAKE i \in 1..Len(Tail(t))
  <2>1. i \in 1..(Len(s) - k) /\ i + 1 \in 1..(Len(s) - (k - 1)) /\ k - 1 + (i + 1) = k + i
    BY <1>3, <1>5, <1>9
  <2>2. Tail(t)[i] = t[i + 1] /\ t[i + 1] = s[k - 1 + (i + 1)] /\ u[i] = s[k + i]
    BY <1>4, <1>5, <1>7, <2>1
  <2> QED BY <2>1, <2>2
<1>11. Tail(t) = u
  BY <1>5, <1>7, <1>9, <1>10, SeqEqual, Zenon
<1> QED BY <1>1, <1>2, <1>4, <1>6, <1>8, <1>11

LEMMA ReplaceLast ==
  ASSUME NEW S, NEW s \in Seq(S), s # <<>>, NEW x \in S, NEW k, k = Len(s),
         NEW t, t = [s EXCEPT ![k] = x]
  PROVE  t = Append(Front(s), x)
<1>1. /\ Front(s) \in Seq(S) /\ Len(s) \in Nat \ {0} /\ Len(Front(s)) = Len(s) - 1
      /\ \A i \in 1..(Len(s) - 1) : Front(s)[i] = s[i]
  BY FrontLast, Zenon
<1>2. k = Len(s)
  OBVIOUS
<1>3. t = [s EXCEPT ![k] = x]
  OBVIOUS
<1>4. PICK u : u = Append(Front(s), x)
  BY Zenon
<1>5. t \in Seq(S) /\ Len(t) = k /\ \A i \in 1..k : t[i] = IF i = k THEN x ELSE s[i]
  BY <1>1, <1>2, <1>3, ExceptSeq
<1>6. u \in Seq(S) /\ Len(u) = k /\ u[k] = x /\ \A i \in 1..(k - 1) : u[i] = s[i]
  BY <1>1, <1>2, <1>4, AppendProperties
<1>7. \A i \in 1..k : t[i] = u[i]
  BY <1>1, <1>2, <1>5, <1>6
<1>8. t = u
  BY <1>5, <1>6, <1>7, SeqEqual
<1> QED BY <1>4, <1>8, Zenon

\* What holds when a loop over reactions is on top.
Looping(n, m, frame, base, q) ==
  /\ n = Len(promises) /\ m = Len(pairs) /\ n \in Nat /\ m \in Nat
  /\ n \in 0..MaxPromises /\ m \in 0..MaxPairs
  /\ frame = Last(stack) /\ base = Front(stack) /\ stack = Append(base, frame) /\ stack # <<>>
  /\ q = frame.promise /\ q \in 1..n
  /\ frame \in CallFrames(n, m) /\ frame \in Frame /\ frame.kind = running
  /\ stack \in Seq(Frame) /\ base \in Seq(Frame) /\ base \in Seq(CallFrames(n, m))
  /\ promises \in Seq(PromiseObjects(n, m)) /\ queue \in Seq(Jobs(n, m))
  /\ promises[q] \in PromiseObjects(n, m)
  /\ Countable(n, m, queue, stack, promises) /\ Countable(n, m, queue, base, promises)
  /\ Typed(n, m, base) /\ Sane(base, promises, pairs, queue) /\ Flushes(stack, promises)
  /\ frame.kind = "trigger" =>
       /\ frame.todo \in Seq(Reactions(n, m))
       /\ \A c : InUse(queue, stack, promises, c)
                   = InUse(queue, base, promises, c) + Hits(frame.todo, UsersOf(c))
  /\ frame.kind = "flush" =>
       /\ Unflushed(base, q) /\ promises[q].enqueueInProgress
       /\ frame.next \in 1..(Len(promises[q].reactionJobs) + 1)

LEMMA LoopsLoop ==
  ASSUME TypeInv, ReactionInv, running \in {"trigger", "flush"}
  PROVE  \E n, m, frame, base, q : Looping(n, m, frame, base, q)
<1>1. PICK n : n = Len(promises)
  BY Zenon
<1>2. PICK m : m = Len(pairs)
  BY Zenon
<1>3. PICK frame : frame = Last(stack)
  OBVIOUS
<1>4. PICK base : base = Front(stack)
  OBVIOUS
<1>5. /\ stack # <<>> /\ frame.kind \in {"trigger", "flush"} /\ frame \in CallFrames(n, m)
      /\ frame.kind = running /\ Ready(stack) /\ Ready(base) /\ n \in Nat /\ m \in Nat
      /\ n \in 0..MaxPromises /\ m \in 0..MaxPairs
      /\ stack \in Seq(Frame)
  BY <1>1, <1>2, <1>3, <1>4, TopFrame, StackTypes DEF TypeOK
<1>6. PICK q : q = frame.promise
  OBVIOUS
<1>7. q \in 1..n
  BY <1>5, <1>6, FrameFields
<1>8. /\ promises \in Seq(PromiseObjects(n, m)) /\ base \in Seq(CallFrames(n, m)) /\ queue \in Seq(Jobs(n, m))
  BY <1>1, <1>2, <1>5 DEF Ready
<1>9. promises[q] \in PromiseObjects(n, m)
  BY <1>1, <1>7, <1>8, ElementOfSeq
<1>10. base \in Seq(Frame) /\ frame \in Frame /\ stack = Append(base, frame)
  BY <1>3, <1>4, <1>5, FrontLast, AppendFrontLast
<1>11. Typed(n, m, base)
  BY <1>1, <1>2, <1>5, TypedBase
<1>12. Sane(base, promises, pairs, queue) /\ Sane(stack, promises, pairs, queue)
  BY <1>4, <1>5, SanePop DEF ReactionInv
<1>13. Flushes(base, promises) /\ Flushes(stack, promises)
  BY <1>12 DEF Sane
<1>14. Countable(n, m, queue, stack, promises) /\ Countable(n, m, queue, base, promises)
  BY <1>5, <1>8, <1>10, <1>13 DEF Countable
<1>15. frame.kind = "trigger" =>
         /\ frame.todo \in Seq(Reactions(n, m))
         /\ \A c : InUse(queue, stack, promises, c)
                     = InUse(queue, base, promises, c) + Hits(frame.todo, UsersOf(c))
  <2> HAVE frame.kind = "trigger"
  <2>1. frame.todo \in Seq(Reactions(n, m))
    BY <1>5, FrameFields
  <2>2. ASSUME NEW c PROVE InUse(queue, stack, promises, c)
                             = InUse(queue, base, promises, c) + Hits(frame.todo, UsersOf(c))
    <3>1. FrameLoad(frame, c) = Hits(frame.todo, UsersOf(c))
      BY <1>10, FrameLoads
    <3>2. frame.kind # "flush"
      OBVIOUS
    <3>3. InUse(queue, Append(base, frame), promises, c) = InUse(queue, base, promises, c) + FrameLoad(frame, c)
      BY <1>10, <1>14, <3>2, InUsePush
    <3> QED BY <1>10, <3>1, <3>3
  <2> QED BY <2>1, <2>2
<1>16. frame.kind = "flush" =>
         /\ Unflushed(base, q) /\ promises[q].enqueueInProgress
         /\ frame.next \in 1..(Len(promises[q].reactionJobs) + 1)
  BY <1>3, <1>4, <1>5, <1>6, <1>13, FlushesPop
<1>17. Looping(n, m, frame, base, q)
  BY <1>1, <1>2, <1>3, <1>4, <1>5, <1>6, <1>7, <1>8, <1>9, <1>10, <1>11, <1>12, <1>13, <1>14, <1>15, <1>16, Zenon
     DEF Looping
<1> QED BY <1>17

LEMMA TriggerNextUses ==
  ASSUME TypeInv, Begun(stack, promises), ReactionInv, TriggerNext
  PROVE  ReactionInv'
<1>1. running = "trigger"
  BY DEF TriggerNext, Engine, Running
<1>2. PICK n, m, frame, base, q : Looping(n, m, frame, base, q)
  BY <1>1, LoopsLoop
<1>3. PICK reaction : reaction = Head(frame.todo)
  OBVIOUS
<1>4. PICK job : job = ReactionJob(reaction, promises[q].state, promises[q].result)
  OBVIOUS
<1>5. PICK next : next = AfterTurn(frame)
  OBVIOUS
<1>6. PICK over : over = Append(base, next)
  BY Zenon
<1>7. /\ ~thrown /\ frame.todo # <<>> /\ frame.kind = "trigger"
      /\ Enqueue(job, over) /\ UNCHANGED <<promises, pairs>>
  BY <1>1, <1>2, <1>3, <1>4, <1>5, <1>6, Zenon DEF TriggerNext, AfterTurn, Looping, Engine
<1>8. /\ n \in 0..MaxPromises /\ m \in 0..MaxPairs /\ n \in Nat /\ m \in Nat
      /\ frame \in CallFrames(n, m) /\ frame.todo \in Seq(Reactions(n, m)) /\ q = frame.promise
      /\ base \in Seq(Frame) /\ Countable(n, m, queue, base, promises) /\ Typed(n, m, base)
      /\ promises[q] \in PromiseObjects(n, m) /\ Sane(base, promises, pairs, queue) /\ q \in 1..n
  BY <1>2, <1>7 DEF Looping
<1>9. /\ next.kind = "trigger" /\ next.todo = Tail(frame.todo) /\ next \in CallFrames(n, m) /\ next \in Frame
  <2>1. next.kind = "trigger" /\ next.todo = Tail(frame.todo)
    BY <1>5 DEF AfterTurn, TriggerFrame
  <2>2. next \in CallFrames(n, m)
    BY <1>5, <1>7, <1>8, LoopFrames
  <2> QED BY <1>8, <2>1, <2>2, TypesAreTypes
<1>10. /\ job.kind = "reaction" /\ job.reaction = reaction /\ reaction \in Reactions(n, m)
       /\ Tail(frame.todo) \in Seq(Reactions(n, m))
  <2>1. job.kind = "reaction" /\ job.reaction = reaction
    BY <1>4 DEF ReactionJob
  <2> QED BY <1>3, <1>7, <1>8, <2>1, HeadTailProperties
<1>11. Sane(over, promises, pairs, queue) /\ over \in Seq(Frame)
  <2>1. Saved(next, promises, pairs) /\ next.kind # "flush"
    BY <1>9 DEF Saved
  <2> QED BY <1>6, <1>8, <1>9, <2>1, SanePush, AppendProperties
<1>12. Sane(stack', promises, pairs, queue')
  BY <1>7, <1>8, <1>10, <1>11, EnqueueSane DEF Typed
<1>13. Countable(n, m, queue, over, promises)
  BY <1>8, <1>11 DEF Countable, Sane
<1>14. job \in Job
  <2>1. promises[q].state # "pending"
    <3>1. stack[Len(stack)] = frame /\ Len(stack) \in 1..Len(stack)
      BY <1>2, LastEntry DEF Looping
    <3> QED BY <1>7, <1>8, <3>1 DEF Begun
  <2>2. promises[q].state \in Settled /\ promises[q].result \in Values(n)
    BY <1>8, <2>1 DEF PromiseObjects
  <2>3. job \in ReactionJobs(n, m)
    BY <1>4, <1>10, <2>2 DEF ReactionJob, ReactionJobs
  <2> QED BY <1>8, <2>3, ReactionTypes
<1>15. ASSUME NEW c PROVE InUse(queue', stack', promises, c) = InUse(queue, stack, promises, c)
  <2>1. InUse(queue', stack', promises, c) = InUse(queue, over, promises, c) + (IF job \in JobsFor(c) THEN 1 ELSE 0)
    BY <1>7, <1>13, <1>14, EnqueueInUse
  <2>2. InUse(queue, over, promises, c) = InUse(queue, base, promises, c) + Hits(Tail(frame.todo), UsersOf(c))
    <3>1. next.kind # "flush"
      BY <1>9
    <3>2. InUse(queue, Append(base, next), promises, c) = InUse(queue, base, promises, c) + FrameLoad(next, c)
      BY <1>8, <1>9, <3>1, InUsePush
    <3>3. FrameLoad(next, c) = Hits(next.todo, UsersOf(c))
      BY <1>9, FrameLoads
    <3> QED BY <1>6, <1>9, <3>2, <3>3
  <2>3. InUse(queue, stack, promises, c) = InUse(queue, base, promises, c) + Hits(frame.todo, UsersOf(c))
    BY <1>2, <1>7 DEF Looping
  <2>4. Hits(frame.todo, UsersOf(c)) = Hits(Tail(frame.todo), UsersOf(c)) + (IF reaction \in UsersOf(c) THEN 1 ELSE 0)
    BY <1>3, <1>7, <1>8, HitsTail
  <2>5. reaction \in UsersOf(c) <=> job \in JobsFor(c)
    BY <1>8, <1>10, <1>14, ReactionTypes
  <2>6. InUse(queue, base, promises, c) \in Nat /\ Hits(Tail(frame.todo), UsersOf(c)) \in Nat
    BY <1>8, <1>10, InUseNumber, HitsType, Zenon
  <2> QED BY <2>1, <2>2, <2>3, <2>4, <2>5, <2>6
<1> QED BY <1>7, <1>12, <1>15, SameBalance

\* A promise changes without effect on its uses while a loop of it ends.
LEMMA LoopEndsUses ==
  ASSUME TypeInv, ReactionInv, NEW n, NEW m, NEW frame, NEW base, NEW q, Looping(n, m, frame, base, q),
         NEW r \in PromiseObjects(n, m), promises' \in {promises, [promises EXCEPT ![q] = r]},
         UNCHANGED <<pairs, queue>>, stack' \in {base, Append(base, TrackerFrame)},
         Harmless(promises[q], r, base, q),
         NEW Same, Same = \A c : InUse(queue, stack', promises', c) = InUse(queue, stack, promises, c), Same
  PROVE  ReactionInv'
<1>1. /\ n = Len(promises) /\ m = Len(pairs) /\ n \in Nat /\ q \in 1..n /\ promises \in Seq(PromiseObjects(n, m))
      /\ Typed(n, m, base) /\ Sane(base, promises, pairs, queue) /\ base \in Seq(Frame)
  BY DEF Looping
<1>2. PICK changed : changed = [promises EXCEPT ![q] = r]
  BY Zenon
<1>3. /\ changed \in Seq(PromiseObjects(n, m)) /\ Len(changed) = n
      /\ \A p \in 1..n : changed[p] = IF p = q THEN r ELSE promises[p]
  BY <1>1, <1>2, ExceptSeq
<1>4. /\ promises' \in Seq(PromiseObjects(n, m)) /\ Len(promises') = n
      /\ \A p \in 1..n : p # q => promises'[p] = promises[p]
      /\ promises'[q] \in {promises[q], r}
  BY <1>1, <1>2, <1>3, Zenon
<1>5. Harmless(promises[q], promises'[q], base, q)
  <2>1. Tidy(promises[q]) /\ Len(promises[q].reactionJobs) \in Nat
    BY <1>1, JobsLength DEF Sane, Typed
  <2> QED BY <1>4, <2>1 DEF Harmless
<1>6. \A p \in 1..n : promises'[p].lost = promises[p].lost
  BY <1>4, <1>5 DEF Harmless
<1>7. PairsKeep /\ Len(pairs') = m
  BY <1>1 DEF PairsKeep
<1>8. Sane(base, promises', pairs', queue')
  <2>1. \A i \in 1..Len(queue') : queue'[i].kind = "thenable" => ~promises'[queue'[i].promise].lost
    BY <1>1, <1>6, NoneLost, Zenon
  <2> QED BY <1>1, <1>4, <1>5, <1>7, <2>1, SaneChange
<1>9. Sane(stack', promises', pairs', queue')
  BY <1>1, <1>8, SanePlain, Zenon
<1>10. ASSUME NEW c \in 1..Len(pairs')
       PROVE  InUse(queue', stack', promises', c) = Due(c, promises', pairs')
  <2>1. c \in 1..Len(pairs)
    BY <1>1, <1>7
  <2>2. InUse(queue, stack, promises, c) = Due(c, promises, pairs)
    BY <2>1, StackCounts
  <2>3. pairs \in Seq(Pairs(n)) /\ pairs'[c].alreadyResolved = pairs[c].alreadyResolved
    BY <1>1 DEF Typed
  <2>4. Due(c, promises', pairs') = Due(c, promises, pairs)
    BY <1>1, <1>6, <1>7, <2>1, <2>3, DueKept
  <2> QED BY <2>2, <2>4, Zenon
<1> QED BY <1>9, <1>10 DEF ReactionInv, Balanced

\* A turn of the loop that flushes the buffer of promise q.
FlushTurn(n, m, q, job, over, before) ==
  /\ n \in Nat /\ m \in Nat /\ q \in 1..n /\ n = Len(promises)
  /\ promises \in Seq(PromiseObjects(n, m)) /\ Countable(n, m, queue, stack, promises)
  /\ promises[q].enqueueInProgress /\ Tidy(promises[q]) /\ promises[q] \in PromiseObjects(n, m)
  /\ before = RestOf(stack, promises[q], q) /\ before \in Seq(ReactionJobs(n, m)) /\ before # <<>>
  /\ job = Head(before) /\ RestOf(over, promises[q], q) = Tail(before)
  /\ job \in Job /\ Enqueue(job, over) /\ UNCHANGED <<promises, pairs>>
  /\ Countable(n, m, queue, over, promises) /\ Sane(stack', promises, pairs, queue')
  /\ \A p : p # q => FlushedIn(over, p) = FlushedIn(stack, p)
  /\ \A c : Load(over, c) = Load(stack, c)
  /\ \E next : next.kind = "flush" /\ next \in Frame /\ over = Append(Front(stack), next)

LEMMA FlushTurns ==
  ASSUME TypeInv, ReactionInv, FlushNext
  PROVE  \E n, m, q, job, over, before : FlushTurn(n, m, q, job, over, before)
<1>1. running = "flush"
  BY DEF FlushNext, Engine, Running
<1>2. PICK n, m, frame, base, q : Looping(n, m, frame, base, q)
  BY <1>1, LoopsLoop
<1>3. PICK jobs : jobs = promises[q].reactionJobs
  OBVIOUS
<1>4. PICK job : job = jobs[frame.next]
  OBVIOUS
<1>5. PICK next : next = AfterFlush(frame)
  OBVIOUS
<1>6. PICK over : over = Append(base, next)
  BY Zenon
<1>7. /\ frame.next <= Len(jobs) /\ frame.kind = "flush"
      /\ Enqueue(job, over) /\ UNCHANGED <<promises, pairs>>
  BY <1>1, <1>2, <1>3, <1>4, <1>5, <1>6, Zenon DEF FlushNext, AfterFlush, Looping
<1>8. /\ n \in 0..MaxPromises /\ m \in 0..MaxPairs /\ n \in Nat /\ m \in Nat
      /\ frame \in CallFrames(n, m) /\ q = frame.promise /\ q \in 1..n /\ n = Len(promises)
      /\ base \in Seq(Frame) /\ Countable(n, m, queue, base, promises) /\ Typed(n, m, base)
      /\ Countable(n, m, queue, stack, promises) /\ stack = Append(base, frame) /\ frame \in Frame
      /\ promises[q] \in PromiseObjects(n, m) /\ Sane(base, promises, pairs, queue)
      /\ Flushes(stack, promises) /\ promises \in Seq(PromiseObjects(n, m)) /\ stack \in Seq(Frame)
  BY <1>2 DEF Looping
<1>9. /\ Unflushed(base, q) /\ promises[q].enqueueInProgress /\ frame.next \in 1..(Len(jobs) + 1)
  BY <1>2, <1>3, <1>7 DEF Looping
<1>10. jobs \in Seq(ReactionJobs(n, m)) /\ Len(jobs) \in Nat
  BY <1>3, <1>8, LenProperties DEF PromiseObjects
<1>11. PICK k : k = frame.next
  OBVIOUS
<1>12. k \in 1..Len(jobs) /\ k \in Nat
  BY <1>7, <1>9, <1>10, <1>11
<1>13. /\ next.kind = "flush" /\ next.promise = q /\ next.next = k + 1
       /\ next \in CallFrames(n, m) /\ next \in Frame
  <2>1. next.kind = "flush" /\ next.promise = q /\ next.next = k + 1
    BY <1>5, <1>8, <1>11 DEF AfterFlush, FlushFrame
  <2>2. next \in CallFrames(n, m)
    BY <1>5, <1>7, <1>8, LoopFrames
  <2> QED BY <1>8, <2>1, <2>2, TypesAreTypes
<1>14. job \in ReactionJobs(n, m) /\ job.kind = "reaction" /\ job \in Job
  <2>1. job \in ReactionJobs(n, m)
    BY <1>4, <1>10, <1>11, <1>12, ElementOfSeq
  <2> QED BY <1>8, <2>1, ReactionTypes DEF ReactionJobs
<1>15. Sane(over, promises, pairs, queue) /\ over \in Seq(Frame)
  <2>1. Saved(next, promises, pairs)
    BY <1>13 DEF Saved
  <2>2. next.next \in 1..(Len(promises[q].reactionJobs) + 1)
    BY <1>3, <1>10, <1>12, <1>13
  <2> QED BY <1>6, <1>8, <1>9, <1>13, <2>1, <2>2, SanePush, AppendProperties, Zenon
<1>16. Sane(stack', promises, pairs, queue')
  BY <1>7, <1>8, <1>14, <1>15, EnqueueSane DEF Typed
<1>17. Countable(n, m, queue, over, promises)
  BY <1>8, <1>15 DEF Countable, Sane
<1>18. /\ FlushedIn(stack, q) = k - 1 /\ FlushedIn(over, q) = k
       /\ \A p : p # q => FlushedIn(over, p) = FlushedIn(stack, p)
       /\ \A c : Load(over, c) = Load(stack, c)
  <2>1. FlushedIn(stack, q) = frame.next - 1 /\ Atop(base, stack, q)
    <3>1. OnTop(base, frame, stack, q)
      BY <1>7, <1>8, <1>9 DEF OnTop
    <3> QED BY <1>8, <3>1, FlushOnTop
  <2>2. FlushedIn(over, q) = next.next - 1 /\ Atop(base, over, q)
    <3>1. OnTop(base, next, over, q)
      BY <1>6, <1>9, <1>13 DEF OnTop
    <3> QED BY <1>8, <1>13, <3>1, FlushOnTop
  <2>3. next.next - 1 = k
    BY <1>12, <1>13
  <2> QED BY <1>11, <2>1, <2>2, <2>3 DEF Atop
<1>19. PICK before : before = SubSeq(jobs, k, Len(jobs))
  BY Zenon
<1>20. PICK after : after = SubSeq(jobs, k + 1, Len(jobs))
  BY Zenon
<1>21. before \in Seq(ReactionJobs(n, m)) /\ before # <<>> /\ Head(before) = job /\ Tail(before) = after
  BY <1>4, <1>10, <1>11, <1>12, <1>19, <1>20, RestTail, Zenon
<1>22. RestOf(stack, promises[q], q) = before /\ RestOf(over, promises[q], q) = after
  <2>1. k - 1 + 1 = k
    BY <1>12
  <2> QED BY <1>3, <1>18, <1>19, <1>20, <2>1, Zenon DEF RestOf
<1>23. Tidy(promises[q]) /\ base = Front(stack)
  BY <1>2, <1>8 DEF Sane, Looping
<1>24. FlushTurn(n, m, q, job, over, before)
  BY <1>6, <1>7, <1>8, <1>9, <1>13, <1>14, <1>16, <1>17, <1>18, <1>21, <1>22, <1>23, Zenon DEF FlushTurn
<1> QED BY <1>24

LEMMA FlushNextUses ==
  ASSUME TypeInv, ReactionInv, FlushNext
  PROVE  ReactionInv'
<1>1. PICK n, m, q, job, over, before : FlushTurn(n, m, q, job, over, before)
  BY FlushTurns
<1>2. PICK after : after = Tail(before)
  BY Zenon
<1>3. /\ n \in Nat /\ m \in Nat /\ q \in 1..n /\ n = Len(promises)
      /\ Countable(n, m, queue, stack, promises) /\ Countable(n, m, queue, over, promises)
      /\ promises \in Seq(PromiseObjects(n, m)) /\ promises[q] \in PromiseObjects(n, m)
      /\ before = RestOf(stack, promises[q], q) /\ before \in Seq(ReactionJobs(n, m)) /\ before # <<>>
      /\ job = Head(before) /\ RestOf(over, promises[q], q) = after /\ job \in Job
      /\ \A p : p # q => FlushedIn(over, p) = FlushedIn(stack, p)
      /\ \A c : Load(over, c) = Load(stack, c)
  BY <1>1, <1>2 DEF FlushTurn
<1>4. Enqueue(job, over) /\ UNCHANGED <<promises, pairs>> /\ Sane(stack', promises, pairs, queue')
  BY <1>1 DEF FlushTurn
<1>5. ASSUME NEW c PROVE InUse(queue', stack', promises, c) = InUse(queue, stack, promises, c)
  <2>1. InUse(queue', stack', promises, c) = InUse(queue, over, promises, c) + (IF job \in JobsFor(c) THEN 1 ELSE 0)
    BY <1>3, <1>4, EnqueueInUse
  <2>2. PICK g : g = Hits(promises[q].reactions, UsersOf(c))
    OBVIOUS
  <2>3. PICK h : h = Hits(after, JobsFor(c))
    OBVIOUS
  <2>4. /\ UsesOf(stack, promises[q], q, c) = g + Hits(before, JobsFor(c))
        /\ UsesOf(over, promises[q], q, c) = g + h
    BY <1>3, <2>2, <2>3 DEF UsesOf, RecordLoad
  <2>5. Hits(before, JobsFor(c)) = h + (IF job \in JobsFor(c) THEN 1 ELSE 0)
    BY <1>2, <1>3, <2>3, HitsTail
  <2>6. h \in Nat /\ g \in Nat
    <3>1. after \in Seq(ReactionJobs(n, m))
      BY <1>2, <1>3, HeadTailProperties
    <3>2. promises[q].reactions \in Seq(Reactions(n, m))
      BY <1>3 DEF PromiseObjects
    <3> QED BY <2>2, <2>3, <3>1, <3>2, HitsType
  <2>7. Moved(n, m, stack, promises, over, promises, q, c)
    <3>1. Rests(stack, promises, over, promises, {q})
      BY <1>3 DEF Rests, SameUses
    <3>2. UsesOf(over, promises[q], q, c) \in Nat
      BY <2>4, <2>6
    <3> QED BY <1>3, <3>1, <3>2 DEF Moved, Countable
  <2>8. /\ PromiseLoad(stack, promises, c) \in Nat
        /\ PromiseLoad(over, promises, c)
              = PromiseLoad(stack, promises, c) - UsesOf(stack, promises[q], q, c)
                  + UsesOf(over, promises[q], q, c)
    BY <2>7, UsesMove
  <2>9. PICK a \in Nat : a = Hits(queue, JobsFor(c))
    BY <1>3, InUseNumber
  <2>10. PICK b \in Nat : b = Load(stack, c)
    BY <1>3, InUseNumber
  <2>11. PICK d \in Nat : d = PromiseLoad(stack, promises, c)
    BY <2>8
  <2>12. InUse(queue, stack, promises, c) = a + (b + d)
    BY <2>9, <2>10, <2>11 DEF InUse
  <2>13. PromiseLoad(over, promises, c) = d - (IF job \in JobsFor(c) THEN 1 ELSE 0)
    BY <2>4, <2>5, <2>6, <2>8, <2>11
  <2>14. InUse(queue, over, promises, c) = a + (b + (d - (IF job \in JobsFor(c) THEN 1 ELSE 0)))
    BY <1>3, <2>9, <2>10, <2>13 DEF InUse
  <2> QED BY <2>1, <2>12, <2>14
<1> QED BY <1>4, <1>5, SameBalance

LEMMA FlushEndsUses ==
  ASSUME TypeInv, ReactionInv, FlushEnds
  PROVE  ReactionInv'
<1>1. running = "flush"
  BY DEF FlushEnds, Engine, Running
<1>2. PICK n, m, frame, base, q : Looping(n, m, frame, base, q)
  BY <1>1, LoopsLoop
<1>3. PICK record : record = promises[q]
  OBVIOUS
<1>4. PICK r : r = FlushedOut(record)
  OBVIOUS
<1>5. /\ n \in Nat /\ m \in Nat /\ frame.kind = "flush" /\ q = frame.promise /\ q \in 1..n /\ n = Len(promises)
      /\ base \in Seq(Frame) /\ Countable(n, m, queue, stack, promises) /\ stack = Append(base, frame)
      /\ frame \in Frame /\ record \in PromiseObjects(n, m) /\ Sane(base, promises, pairs, queue)
      /\ Flushes(stack, promises) /\ promises \in Seq(PromiseObjects(n, m)) /\ Typed(n, m, base)
      /\ frame = Last(stack) /\ base = Front(stack)
  BY <1>1, <1>2, <1>3 DEF Looping
<1>6. Unflushed(base, q) /\ frame.next \in 1..(Len(record.reactionJobs) + 1)
  BY <1>2, <1>3, <1>5 DEF Looping
<1>7. /\ frame.next > Len(record.reactionJobs) /\ promises' = [promises EXCEPT ![q] = r]
      /\ stack' = base /\ UNCHANGED <<pairs, queue>>
  BY <1>3, <1>4, <1>5, LenProperties, Zenon DEF FlushEnds, FlushedOut
<1>8. /\ r \in PromiseObjects(n, m) /\ r.lost = record.lost /\ r.reactions = record.reactions
      /\ r.reactionJobs = <<>> /\ ~r.enqueueInProgress /\ r.state = record.state
  <2>1. r \in PromiseObjects(n, m) /\ r.lost = record.lost /\ r.state = record.state
    BY <1>4, <1>5, RecordTypes
  <2> QED BY <1>4, <1>5, <2>1 DEF FlushedOut, PromiseObjects
<1>9. Harmless(promises[q], r, base, q)
  <2>1. Tidy(record)
    BY <1>3, <1>5 DEF Sane
  <2> QED BY <1>3, <1>6, <1>8, <2>1 DEF Harmless, Tidy
<1>10. promises'[q] = r /\ Len(promises') = n /\ \A p \in 1..n : p # q => promises'[p] = promises[p]
  <2>1. PICK changed : changed = [promises EXCEPT ![q] = r]
    BY Zenon
  <2>2. Len(changed) = n /\ \A p \in 1..n : changed[p] = IF p = q THEN r ELSE promises[p]
    <3>1. q \in 1..Len(promises) /\ promises \in Seq(PromiseObjects(n, m)) /\ r \in PromiseObjects(n, m)
      BY <1>5, <1>8
    <3>2. PICK s : s = promises
      OBVIOUS
    <3>3. q \in 1..Len(s) /\ s \in Seq(PromiseObjects(n, m)) /\ changed = [s EXCEPT ![q] = r]
      BY ONLY <2>1, <3>1, <3>2
    <3>4. Len(changed) = Len(s) /\ \A p \in 1..Len(s) : changed[p] = IF p = q THEN r ELSE s[p]
      BY ONLY <3>1, <3>3, ExceptSeq
    <3> QED BY ONLY <1>5, <3>2, <3>4
  <2> QED BY <1>5, <1>7, <2>1, <2>2
<1>11. FlushedIn(stack, q) = frame.next - 1 /\ FlushedIn(base, q) = 0 /\ Atop(base, stack, q)
  <2>1. OnTop(base, frame, stack, q)
    BY <1>5, <1>6 DEF OnTop
  <2> QED BY <1>5, <2>1, FlushOnTop
<1>12. RestOf(stack, record, q) = <<>> /\ RestOf(base, r, q) = <<>>
  <2>1. Len(record.reactionJobs) \in Nat
    BY <1>3, <1>5, JobsLength, Zenon
  <2>2. PICK k \in Nat : k = Len(record.reactionJobs)
    BY <2>1
  <2>3. frame.next - 1 + 1 = k + 1
    BY <1>6, <1>7, <2>2
  <2>4. RestOf(stack, record, q) = SubSeq(record.reactionJobs, k + 1, k)
    BY <1>11, <2>2, <2>3, Zenon DEF RestOf
  <2>5. RestOf(base, r, q) = SubSeq(<<>>, 1, 0)
    BY <1>8, <1>11 DEF RestOf
  <2> QED BY <2>2, <2>4, <2>5
<1>13. ASSUME NEW c PROVE InUse(queue, stack', promises', c) = InUse(queue, stack, promises, c)
  <2>1. PICK g : g = Hits(record.reactions, UsersOf(c))
    OBVIOUS
  <2>2. g \in Nat
    <3>1. record.reactions \in Seq(Reactions(n, m))
      BY <1>5 DEF PromiseObjects
    <3> QED BY <2>1, <3>1, HitsType
  <2>3. UsesOf(stack, promises[q], q, c) = g /\ UsesOf(base, promises'[q], q, c) = g
    BY <1>3, <1>8, <1>10, <1>12, <2>1, <2>2, HitsNone DEF UsesOf, RecordLoad
  <2>4. Moved(n, m, stack, promises, base, promises', q, c)
    <3>1. Rests(stack, promises, base, promises', {q})
      BY <1>5, <1>10, <1>11 DEF Rests, SameUses, Atop
    <3>2. UsesOf(base, promises'[q], q, c) \in Nat
      BY <2>2, <2>3
    <3> QED BY <1>5, <3>1, <3>2 DEF Moved
  <2>5. /\ PromiseLoad(stack, promises, c) \in Nat
        /\ PromiseLoad(base, promises', c)
             = PromiseLoad(stack, promises, c) - UsesOf(stack, promises[q], q, c)
                 + UsesOf(base, promises'[q], q, c)
    BY <2>4, UsesMove
  <2>6. PromiseLoad(base, promises', c) = PromiseLoad(stack, promises, c)
    BY <2>2, <2>3, <2>5
  <2> QED BY <1>7, <1>11, <2>6 DEF InUse, Atop
<1>14. PICK Same : Same = \A c : InUse(queue, stack', promises', c) = InUse(queue, stack, promises, c)
  BY Zenon
<1> QED BY <1>2, <1>7, <1>8, <1>9, <1>13, <1>14, LoopEndsUses, Zenon

LEMMA TriggerReturnsUses ==
  ASSUME TypeInv, ReactionInv, TriggerReturns
  PROVE  ReactionInv'
<1>1. running = "trigger"
  BY DEF TriggerReturns, Engine, Running
<1>2. PICK n, m, frame, base, q : Looping(n, m, frame, base, q)
  BY <1>1, LoopsLoop
<1>3. PICK record : record = promises[q]
  OBVIOUS
<1>4. PICK r : r = Reported(record, "reject")
  OBVIOUS
<1>5. /\ n \in Nat /\ m \in Nat /\ frame.kind = "trigger" /\ q = frame.promise /\ q \in 1..n /\ n = Len(promises)
      /\ base \in Seq(Frame) /\ Countable(n, m, queue, base, promises)
      /\ record \in PromiseObjects(n, m) /\ Sane(base, promises, pairs, queue)
      /\ promises \in Seq(PromiseObjects(n, m)) /\ Typed(n, m, base) /\ promises[q] \in PromiseObjects(n, m)
      /\ frame = Last(stack) /\ base = Front(stack)
  BY <1>1, <1>2, <1>3 DEF Looping
<1>6. /\ r \in PromiseObjects(n, m) /\ r.lost = record.lost /\ r.reactions = record.reactions
      /\ r.reactionJobs = record.reactionJobs /\ r.enqueueInProgress = record.enqueueInProgress
      /\ r.state = record.state
  <2>1. "reject" \in {"reject", "handle"}
    OBVIOUS
  <2>2. r \in PromiseObjects(n, m) /\ r.lost = record.lost /\ r.state = record.state
    BY <1>4, <1>5, <2>1, RecordTypes
  <2> QED BY <1>4, <1>5, <2>2 DEF Reported, PromiseObjects
<1>7. /\ frame.todo = <<>> /\ promises' \in {promises, [promises EXCEPT ![q] = r]}
      /\ stack' \in {base, Append(base, TrackerFrame)} /\ UNCHANGED <<pairs, queue>>
  BY <1>3, <1>4, <1>5, LenProperties DEF TriggerReturns, Track, Reported
<1>8. Harmless(promises[q], r, base, q)
  <2>1. Tidy(record)
    BY <1>3, <1>5 DEF Sane
  <2>2. Len(promises[q].reactionJobs) \in Nat
    BY <1>5, JobsLength
  <2> QED BY <1>3, <1>6, <2>1, <2>2 DEF Harmless, Tidy
<1>9. /\ Len(promises') = n /\ \A p \in 1..n : SameUses(promises[p], promises'[p])
  <2>1. PICK changed : changed = [promises EXCEPT ![q] = r]
    BY Zenon
  <2>2. Len(changed) = n /\ \A p \in 1..n : changed[p] = IF p = q THEN r ELSE promises[p]
    BY <1>5, <1>6, <2>1, ExceptSeq
  <2> QED BY <1>3, <1>5, <1>6, <1>7, <2>1, <2>2 DEF SameUses
<1>10. /\ \A p : FlushedIn(stack', p) = FlushedIn(base, p)
       /\ \A c : Load(stack', c) = Load(base, c)
  BY <1>5, <1>7, SanePlain, Zenon
<1>11. ASSUME NEW c PROVE InUse(queue, stack', promises', c) = InUse(queue, stack, promises, c)
  <2>1. Rests(base, promises, stack', promises', {})
    BY <1>5, <1>9, <1>10 DEF Rests
  <2>2. PromiseLoad(stack', promises', c) = PromiseLoad(base, promises, c)
    <3>1. Flushes(base, promises)
      BY <1>5 DEF Sane
    <3> QED BY <1>5, <2>1, <3>1, UsesStay
  <2>3. InUse(queue, stack', promises', c) = InUse(queue, base, promises, c)
    BY <1>10, <2>2 DEF InUse
  <2>4. InUse(queue, stack, promises, c) = InUse(queue, base, promises, c) + Hits(frame.todo, UsersOf(c))
    BY <1>2, <1>5 DEF Looping
  <2>5. Hits(frame.todo, UsersOf(c)) = 0 /\ InUse(queue, base, promises, c) \in Nat
    BY <1>5, <1>7, HitsNone, InUseNumber
  <2> QED BY <2>3, <2>4, <2>5
<1>12. PICK Same : Same = \A c : InUse(queue, stack', promises', c) = InUse(queue, stack, promises, c)
  BY Zenon
<1> QED BY <1>2, <1>6, <1>7, <1>8, <1>11, <1>12, LoopEndsUses, Zenon

\* The innermost loop keeps the error.
LoopErred(n, m, frame, base, next) ==
  /\ next.kind = frame.kind /\ next.promise = frame.promise /\ next \in CallFrames(n, m) /\ next \in Frame
  /\ frame.kind = "trigger" => next.todo = frame.todo
  /\ frame.kind = "flush" => next.next = frame.next
  /\ stack' = Append(base, next) /\ UNCHANGED <<promises, pairs, queue>>

LEMMA LoopErrs ==
  ASSUME TypeInv, ReactionInv, LoopKeepsError
  PROVE  \E n, m, frame, base, q, next :
           Looping(n, m, frame, base, q) /\ LoopErred(n, m, frame, base, next)
<1>1. running \in {"trigger", "flush"}
  BY DEF LoopKeepsError, Running
<1>2. PICK n, m, frame, base, q : Looping(n, m, frame, base, q)
  BY <1>1, LoopsLoop
<1>3. PICK next : next = Erring(frame)
  OBVIOUS
<1>4. /\ n \in 0..MaxPromises /\ m \in 0..MaxPairs /\ n \in Nat /\ m \in Nat
      /\ frame.kind \in {"trigger", "flush"} /\ q = frame.promise /\ q \in 1..n /\ n = Len(promises)
      /\ base \in Seq(Frame) /\ Countable(n, m, queue, stack, promises) /\ stack = Append(base, frame)
      /\ Countable(n, m, queue, base, promises)
      /\ frame \in Frame /\ frame \in CallFrames(n, m) /\ Sane(base, promises, pairs, queue)
      /\ Flushes(stack, promises) /\ promises \in Seq(PromiseObjects(n, m)) /\ Typed(n, m, base)
      /\ frame = Last(stack) /\ base = Front(stack) /\ stack # <<>> /\ stack \in Seq(Frame)
  BY <1>1, <1>2, Zenon DEF Looping
<1>5. /\ next.kind = frame.kind /\ next.promise = frame.promise /\ next \in CallFrames(n, m) /\ next \in Frame
      /\ frame.kind = "trigger" => next.todo = frame.todo
      /\ frame.kind = "flush" => next.next = frame.next
  <2>1. frame.kind = "trigger" => next.todo = frame.todo
    BY <1>3, <1>4, FrameFields DEF Erring, TriggerFrame
  <2>2. frame.kind = "flush" => next.next = frame.next
    BY <1>3, <1>4, FrameFields DEF Erring, FlushFrame
  <2>3. next.kind = frame.kind /\ next.promise = frame.promise /\ next \in CallFrames(n, m)
    BY <1>3, <1>4, LoopFrames
  <2> QED BY <1>4, <2>1, <2>2, <2>3, TypesAreTypes, Zenon
<1>6. stack' = Append(base, next) /\ UNCHANGED <<promises, pairs, queue>>
  <2>1. stack' = [stack EXCEPT ![Len(stack)] = next] /\ UNCHANGED <<promises, pairs, queue>>
    BY <1>3, <1>4, Zenon DEF LoopKeepsError, Erring, Last
  <2>2. PICK k : k = Len(stack)
    BY Zenon
  <2>3. PICK later : later = [stack EXCEPT ![k] = next]
    BY Zenon
  <2>4. later = Append(Front(stack), next)
    <3>1. PICK s : s = stack
      OBVIOUS
    <3>2. s \in Seq(Frame) /\ s # <<>> /\ next \in Frame /\ k = Len(s) /\ later = [s EXCEPT ![k] = next]
      BY <1>4, <1>5, <2>2, <2>3, <3>1, Zenon
    <3>3. later = Append(Front(s), next)
      BY ONLY <3>2, ReplaceLast, Zenon
    <3> QED BY <3>1, <3>3
  <2> QED BY <1>4, <2>1, <2>2, <2>3, <2>4, Zenon
<1>7. LoopErred(n, m, frame, base, next)
  BY <1>5, <1>6 DEF LoopErred
<1> QED BY <1>2, <1>7

LEMMA LoopErrorUses ==
  ASSUME TypeInv, ReactionInv, LoopKeepsError
  PROVE  ReactionInv'
<1>1. running \in {"trigger", "flush"}
  BY DEF LoopKeepsError, Running
<1>2. PICK n, m, frame, base, q, next : Looping(n, m, frame, base, q) /\ LoopErred(n, m, frame, base, next)
  BY LoopErrs
<1>3. /\ n \in 0..MaxPromises /\ m \in 0..MaxPairs /\ n \in Nat /\ m \in Nat
      /\ frame.kind \in {"trigger", "flush"} /\ q = frame.promise /\ q \in 1..n /\ n = Len(promises)
      /\ base \in Seq(Frame) /\ Countable(n, m, queue, stack, promises) /\ stack = Append(base, frame)
      /\ Countable(n, m, queue, base, promises)
      /\ frame \in Frame /\ frame \in CallFrames(n, m) /\ Sane(base, promises, pairs, queue)
      /\ Flushes(stack, promises) /\ promises \in Seq(PromiseObjects(n, m)) /\ Typed(n, m, base)
      /\ stack \in Seq(Frame)
  BY <1>1, <1>2 DEF Looping
<1>4. /\ next.kind = frame.kind /\ next.promise = frame.promise /\ next \in CallFrames(n, m) /\ next \in Frame
      /\ frame.kind = "trigger" => next.todo = frame.todo
      /\ frame.kind = "flush" => next.next = frame.next
  BY <1>2 DEF LoopErred
<1>5. stack' = Append(base, next) /\ UNCHANGED <<promises, pairs, queue>>
  BY <1>2 DEF LoopErred
<1>6. Saved(next, promises, pairs)
  BY <1>3, <1>4 DEF Saved
<1>7. CASE frame.kind = "trigger"
  <2>1. next.kind # "flush" /\ frame.kind # "flush"
    BY <1>4, <1>7
  <2>2. Sane(stack', promises, pairs, queue')
    BY <1>3, <1>4, <1>5, <1>6, <2>1, SanePush
  <2>3. ASSUME NEW c PROVE InUse(queue', stack', promises, c) = InUse(queue, stack, promises, c)
    <3>1. FrameLoad(next, c) = FrameLoad(frame, c)
      BY <1>3, <1>4, <1>7, FrameLoads
    <3>2. InUse(queue, Append(base, next), promises, c) = InUse(queue, base, promises, c) + FrameLoad(next, c)
      BY <1>3, <1>4, <2>1, InUsePush
    <3>3. InUse(queue, Append(base, frame), promises, c) = InUse(queue, base, promises, c) + FrameLoad(frame, c)
      BY <1>3, <2>1, InUsePush
    <3> QED BY <1>3, <1>5, <3>1, <3>2, <3>3
  <2> QED BY <1>5, <2>2, <2>3, SameBalance
<1>8. CASE frame.kind = "flush"
  <2>1. /\ Unflushed(base, q) /\ promises[q].enqueueInProgress
        /\ frame.next \in 1..(Len(promises[q].reactionJobs) + 1)
    BY <1>2, <1>8 DEF Looping
  <2>2. Sane(stack', promises, pairs, queue')
    BY <1>3, <1>4, <1>5, <1>6, <1>8, <2>1, SanePush, Zenon
  <2>3. FlushedIn(stack, q) = frame.next - 1 /\ Atop(base, stack, q)
    <3>1. OnTop(base, frame, stack, q)
      BY <1>3, <1>8, <2>1 DEF OnTop
    <3> QED BY <1>3, <3>1, FlushOnTop
  <2>4. FlushedIn(stack', q) = frame.next - 1 /\ Atop(base, stack', q)
    <3>1. OnTop(base, next, stack', q)
      BY <1>3, <1>4, <1>5, <1>8, <2>1 DEF OnTop
    <3> QED BY <1>3, <1>4, <1>8, <3>1, FlushOnTop
  <2>5. ASSUME NEW c PROVE InUse(queue', stack', promises, c) = InUse(queue, stack, promises, c)
    <3>1. Rests(stack, promises, stack', promises, {})
      BY <1>3, <2>3, <2>4 DEF Rests, SameUses, Atop
    <3>2. PromiseLoad(stack', promises, c) = PromiseLoad(stack, promises, c)
      BY <1>3, <3>1, UsesStay
    <3>3. Load(stack', c) = Load(stack, c)
      BY <2>3, <2>4 DEF Atop
    <3> QED BY <1>5, <3>2, <3>3 DEF InUse
  <2> QED BY <1>5, <2>2, <2>5, SameBalance
<1> QED BY <1>3, <1>7, <1>8

LEMMA LoopUses ==
  ASSUME TypeInv, Begun(stack, promises), ReactionInv, LoopStep
  PROVE  ReactionInv'
BY TriggerNextUses, TriggerReturnsUses, FlushNextUses, FlushEndsUses, LoopErrorUses DEF LoopStep

\* Two entries that are in a set are two hits.
LEMMA HitsOne ==
  ASSUME NEW S, NEW s \in Seq(S), NEW T, Hits(s, T) \in {0, 1},
         NEW i \in 1..Len(s), NEW j \in 1..Len(s), s[i] \in T, s[j] \in T
  PROVE  i = j /\ Hits(s, T) = 1
<1>1. IsFiniteSet(PlacesOf(s, T)) /\ i \in PlacesOf(s, T) /\ j \in PlacesOf(s, T)
  BY HitsType DEF PlacesOf
<1>2. Hits(s, T) # 0
  BY HitsType
<1>3. Cardinality(PlacesOf(s, T)) = 1
  BY <1>2 DEF Hits
<1>4. PICK x : PlacesOf(s, T) = {x}
  BY <1>1, <1>3, FS_Singleton, Zenon
<1> QED BY <1>1, <1>3, <1>4 DEF Hits

\* Nothing that could still settle promise q is in `base`, in the queue or with
\* the program.
Given(q) == \A c \in 1..Len(pairs) :
              pairs[c].promise = q => pairs[c].alreadyResolved \/ ~pairs[c].exposed
Deserted(base, q) ==
  /\ \A i \in 1..Len(base) : base[i] \notin RoutesOf(q)
  /\ \A i \in 1..Len(queue) : queue[i] \notin ThenablesOf(q)
  /\ Given(q)

\* Promise q is lost, and nothing else changes.
Losing(n, m, base, q, r) ==
  /\ q \in 1..n /\ r = Orphaned(promises[q]) /\ Len(promises') = n
  /\ promises'[q] = r /\ \A p \in 1..n : p # q => promises'[p] = promises[p]
  /\ promises[q] \in PromiseObjects(n, m)
  /\ stack' = base /\ UNCHANGED <<pairs, queue>>

LEMMA LostRecord ==
  ASSUME NEW n, NEW m, NEW record \in PromiseObjects(n, m)
  PROVE  LET r == Orphaned(record) IN
         /\ r.lost /\ r.state = record.state /\ SameUses(record, r)
         /\ r.enqueueInProgress = record.enqueueInProgress /\ (Tidy(record) => Tidy(r))
BY DEF Orphaned, PromiseObjects, SameUses, Tidy

LEMMA LostSane ==
  ASSUME NEW n, NEW m, NEW base, NEW q, NEW r, Typed(n, m, base), Losing(n, m, base, q, r),
         Sane(base, promises, pairs, queue), Deserted(base, q)
  PROVE  Sane(base, promises', pairs', queue')
<1>1. /\ n \in Nat /\ m \in Nat /\ n = Len(promises) /\ m = Len(pairs)
      /\ promises \in Seq(PromiseObjects(n, m)) /\ pairs \in Seq(Pairs(n))
      /\ base \in Seq(CallFrames(n, m)) /\ queue \in Seq(Jobs(n, m))
      /\ n \in 0..MaxPromises /\ m \in 0..MaxPairs
  BY DEF Typed
<1>2. /\ q \in 1..n /\ r = Orphaned(promises[q]) /\ Len(promises') = n
      /\ promises'[q] = r /\ \A p \in 1..n : p # q => promises'[p] = promises[p]
      /\ promises[q] \in PromiseObjects(n, m)
      /\ stack' = base /\ UNCHANGED <<pairs, queue>>
  BY DEF Losing
<1>3. /\ r.lost /\ r.state = promises[q].state /\ SameUses(promises[q], r)
      /\ r.enqueueInProgress = promises[q].enqueueInProgress /\ Tidy(r)
  <2>1. Tidy(promises[q])
    BY <1>1, <1>2 DEF Sane
  <2> QED BY <1>2, <2>1, LostRecord
<1>4. \A p \in 1..n :
        /\ promises'[p].reactionJobs = promises[p].reactionJobs
        /\ promises'[p].enqueueInProgress = promises[p].enqueueInProgress
        /\ Tidy(promises[p]) => Tidy(promises'[p])
  BY <1>2, <1>3 DEF SameUses
<1>5. \A i \in 1..Len(base) : base[i] \in CallFrames(n, m) /\ base[i] \in Frame
  BY <1>1, ElementOfSeq, ReactionTypes
<1>6. Flushes(base, promises')
  <2>1. SUFFICES ASSUME NEW i \in 1..Len(base), base[i].kind = "flush"
                 PROVE  /\ promises'[base[i].promise].enqueueInProgress
                        /\ base[i].next \in 1..(Len(promises'[base[i].promise].reactionJobs) + 1)
                        /\ \A j \in 1..Len(base) : IsFlush(base[j], base[i].promise) => j = i
    BY DEF Flushes
  <2>2. base[i].promise \in 1..n
    BY <1>1, <1>5, <2>1, FrameFields
  <2>3. /\ promises[base[i].promise].enqueueInProgress
        /\ base[i].next \in 1..(Len(promises[base[i].promise].reactionJobs) + 1)
        /\ \A j \in 1..Len(base) : IsFlush(base[j], base[i].promise) => j = i
    BY <2>1 DEF Sane, Flushes
  <2> QED BY <1>4, <2>2, <2>3, Zenon
<1>7. \A p \in 1..Len(promises') : Tidy(promises'[p])
  BY <1>1, <1>2, <1>4 DEF Sane
<1>8. ASSUME NEW i \in 1..Len(base) PROVE Saved(base[i], promises', pairs')
  <2>1. Saved(base[i], promises, pairs)
    BY DEF Sane
  <2>2. base[i].kind # "job"
    BY <1>1, <1>5, FrameFields, Zenon
  <2>3. base[i].kind = "getThen" => base[i].promise \in 1..n /\ base[i].promise # q
    <3>1. base[i] \notin RoutesOf(q)
      BY DEF Deserted
    <3> QED BY <1>1, <1>5, <3>1, FrameFields DEF RoutesOf, IsRoute
  <2> QED BY <1>2, <2>1, <2>2, <2>3 DEF Saved
<1>9. ASSUME NEW i \in 1..Len(queue), queue[i].kind = "thenable" PROVE ~promises'[queue[i].promise].lost
  <2>1. queue[i] \in Jobs(n, m) /\ queue[i] \in Job
    BY <1>1, ElementOfSeq, ReactionTypes
  <2>2. queue[i] \notin ThenablesOf(q)
    BY DEF Deserted
  <2>3. queue[i].promise \in 1..n /\ queue[i].promise # q
    BY <1>9, <2>1, <2>2 DEF ThenablesOf, IsThenableJob, Jobs, ReactionJobs, ThenableJobs
  <2>4. ~promises[queue[i].promise].lost
    BY <1>9 DEF Sane
  <2> QED BY <1>2, <2>3, <2>4
<1>10. ASSUME NEW c \in 1..Len(pairs), pairs[c].exposed, ~pairs[c].alreadyResolved
       PROVE  ~promises'[pairs[c].promise].lost
  <2>1. pairs[c] \in Pairs(n)
    BY <1>1, ElementOfSeq
  <2>2. pairs[c].promise \in 1..n /\ pairs[c].promise # q
    BY <1>10, <2>1 DEF Pairs, Deserted, Given
  <2>3. ~promises[pairs[c].promise].lost
    BY <1>10 DEF Sane
  <2> QED BY <1>2, <2>2, <2>3
<1> QED BY <1>2, <1>6, <1>7, <1>8, <1>9, <1>10 DEF Sane

\* A promise with an open pair, or a getThen activation on top, has no other route.
LEMMA OnePair ==
  ASSUME TypeInv, RoutesAreSingle, stack # <<>>, NEW d \in 1..Len(pairs), ~pairs[d].alreadyResolved,
         ~pairs[d].exposed, NEW q, q = pairs[d].promise
  PROVE  /\ Deserted(Front(stack), q)
         /\ \A c \in 1..Len(pairs) : pairs[c].promise = q /\ ~pairs[c].alreadyResolved => c = d
<1>1. PICK n : n = Len(promises)
  BY Zenon
<1>2. /\ stack \in Seq(Frame) /\ pairs \in Seq(Pair) /\ queue \in Seq(Job) /\ n \in Nat
      /\ Front(stack) \in Seq(Frame) /\ \A c \in 1..Len(pairs) : pairs[c].promise \in 1..n
  <2>1. Ready(Front(stack)) /\ n \in Nat
    BY <1>1, TopFrame
  <2>2. pairs \in Seq(Pairs(n))
    BY <1>1, <2>1 DEF Ready
  <2>3. \A c \in 1..Len(pairs) : pairs[c].promise \in 1..n
    <3> TAKE c \in 1..Len(pairs)
    <3>1. pairs[c] \in Pairs(n)
      BY <2>2, ElementOfSeq
    <3> QED BY <3>1 DEF Pairs
  <2> QED BY <2>1, <2>3, StackTypes DEF TypeOK
<1>3. q \in 1..n /\ \A c \in 1..Len(pairs) : pairs[c] \in Pair
  BY <1>2, ElementOfSeq
<1>4. pairs[d] \in OpenTo(q)
  BY <1>3 DEF OpenTo
<1>5. PICK open : open = Hits(pairs, OpenTo(q))
  OBVIOUS
<1>6. PICK waiting : waiting = Hits(queue, ThenablesOf(q))
  OBVIOUS
<1>7. PICK taken : taken = Hits(stack, RoutesOf(q))
  OBVIOUS
<1>8. open \in Nat /\ waiting \in Nat /\ taken \in Nat /\ open # 0
  BY <1>2, <1>4, <1>5, <1>6, <1>7, HitsType
<1>9. Ways(q) = open + waiting + taken
  BY <1>5, <1>6, <1>7, WaysAdd
<1>10. RouteIsSingle(q)
  BY <1>1, <1>3 DEF RoutesAreSingle
<1>11. open = 1 /\ waiting = 0 /\ taken = 0
  BY <1>8, <1>9, <1>10 DEF RouteIsSingle
<1>12. \A i \in 1..Len(queue) : queue[i] \notin ThenablesOf(q)
  BY <1>2, <1>6, <1>11, HitsType, Zenon
<1>13. \A i \in 1..Len(Front(stack)) : Front(stack)[i] \notin RoutesOf(q)
  <2>1. \A i \in 1..Len(stack) : stack[i] \notin RoutesOf(q)
    BY <1>2, <1>7, <1>11, HitsType, Zenon
  <2>2. /\ Len(stack) \in Nat \ {0} /\ Len(Front(stack)) = Len(stack) - 1
        /\ \A i \in 1..(Len(stack) - 1) : Front(stack)[i] = stack[i]
    BY <1>2, FrontLast, Zenon
  <2> QED BY <2>1, <2>2
<1>14. \A c \in 1..Len(pairs) : pairs[c].promise = q /\ ~pairs[c].alreadyResolved => c = d
  <2> TAKE c \in 1..Len(pairs)
  <2>1. ASSUME pairs[c].promise = q, ~pairs[c].alreadyResolved PROVE c = d
    <3>1. pairs[c] \in OpenTo(q)
      BY <1>3, <2>1 DEF OpenTo
    <3>2. Hits(pairs, OpenTo(q)) \in {0, 1}
      BY <1>5, <1>11
    <3> QED BY <1>2, <1>4, <3>1, <3>2, HitsOne
  <2> QED BY <2>1
<1>15. Given(q)
  BY <1>14 DEF Given
<1> QED BY <1>12, <1>13, <1>14, <1>15 DEF Deserted

LEMMA OneGetter ==
  ASSUME TypeInv, RoutesAreSingle, running = "getThen", NEW q, q = Last(stack).promise
  PROVE  /\ Deserted(Front(stack), q)
         /\ \A c \in 1..Len(pairs) : pairs[c].promise = q => pairs[c].alreadyResolved
<1>1. PICK n : n = Len(promises)
  BY Zenon
<1>2. PICK m : m = Len(pairs)
  BY Zenon
<1>3. PICK base : base = Front(stack)
  OBVIOUS
<1>4. /\ stack # <<>> /\ Last(stack).kind = "getThen" /\ Last(stack) \in CallFrames(n, m)
      /\ n \in Nat /\ m \in Nat /\ stack \in Seq(Frame) /\ base \in Seq(Frame)
      /\ pairs \in Seq(Pair) /\ queue \in Seq(Job) /\ Last(stack) \in Frame
  BY <1>1, <1>2, <1>3, TopFrame, StackTypes, FrontLast DEF TypeOK
<1>5. q \in 1..n /\ Last(stack) \in RoutesOf(q)
  BY <1>4, FrameFields DEF RoutesOf, IsRoute
<1>6. PICK open : open = Hits(pairs, OpenTo(q))
  OBVIOUS
<1>7. PICK waiting : waiting = Hits(queue, ThenablesOf(q))
  OBVIOUS
<1>8. PICK below : below = Hits(base, RoutesOf(q))
  OBVIOUS
<1>9. open \in Nat /\ waiting \in Nat /\ below \in Nat
  BY <1>4, <1>6, <1>7, <1>8, HitsType
<1>10. Ways(q) = open + waiting + (below + 1)
  <2>1. Hits(stack, RoutesOf(q)) = below + 1
    BY <1>3, <1>4, <1>5, <1>8, HitsFront
  <2> QED BY <1>6, <1>7, <2>1, WaysAdd
<1>11. RouteIsSingle(q)
  BY <1>1, <1>5 DEF RoutesAreSingle
<1>12. open = 0 /\ waiting = 0 /\ below = 0
  BY <1>9, <1>10, <1>11 DEF RouteIsSingle
<1>13. \A c \in 1..Len(pairs) : pairs[c].promise = q => pairs[c].alreadyResolved
  <2> TAKE c \in 1..Len(pairs)
  <2>1. pairs[c] \in Pair /\ pairs[c] \notin OpenTo(q)
    BY <1>4, <1>6, <1>12, HitsType, ElementOfSeq, Zenon
  <2> QED BY <2>1 DEF OpenTo
<1>14. \A i \in 1..Len(queue) : queue[i] \notin ThenablesOf(q)
  BY <1>4, <1>7, <1>12, HitsType, Zenon
<1>15. \A i \in 1..Len(base) : base[i] \notin RoutesOf(q)
  BY <1>4, <1>8, <1>12, HitsType, Zenon
<1> QED BY <1>3, <1>13, <1>14, <1>15 DEF Deserted, Given

\* An activation that ends with an exception and has settled nothing.
LEMMA LostUses ==
  ASSUME NEW n, NEW m, NEW base, NEW q, NEW r, Typed(n, m, base), Losing(n, m, base, q, r),
         Flushes(base, promises), NEW c
  PROVE  InUse(queue', stack', promises', c) = InUse(queue, base, promises, c)
<1>1. /\ n \in Nat /\ m \in Nat /\ n = Len(promises)
      /\ promises \in Seq(PromiseObjects(n, m))
  BY DEF Typed
<1>2. /\ r = Orphaned(promises[q]) /\ Len(promises') = n
      /\ promises'[q] = r /\ \A p \in 1..n : p # q => promises'[p] = promises[p]
      /\ promises[q] \in PromiseObjects(n, m)
      /\ stack' = base /\ UNCHANGED <<pairs, queue>>
  BY DEF Losing
<1>3. \A p \in 1..n : SameUses(promises[p], promises'[p])
  <2>1. SameUses(promises[q], r)
    BY <1>2, LostRecord
  <2> QED BY <1>2, <2>1 DEF SameUses
<1>4. Rests(base, promises, base, promises', {})
  BY <1>1, <1>2, <1>3 DEF Rests
<1>5. PromiseLoad(base, promises', c) = PromiseLoad(base, promises, c)
  BY <1>1, <1>4, UsesStay
<1> QED BY <1>2, <1>5 DEF InUse

LEMMA DueLost ==
  ASSUME NEW n, NEW m, NEW base, NEW q, NEW r, Typed(n, m, base), Losing(n, m, base, q, r),
         NEW c \in 1..Len(pairs)
  PROVE  /\ Due(c, promises', pairs') = IF pairs[c].promise = q THEN 0 ELSE Due(c, promises, pairs)
         /\ Due(c, promises, pairs) \in {0, 1}
<1>1. pairs \in Seq(Pairs(n))
  BY DEF Typed
<1>2. pairs[c].promise \in 1..n
  <2>1. pairs[c] \in Pairs(n)
    BY <1>1, ElementOfSeq
  <2> QED BY <2>1 DEF Pairs
<1>3. r.lost
  BY LostRecord DEF Losing
<1>4. pairs[c].promise # q => promises'[pairs[c].promise] = promises[pairs[c].promise]
  BY <1>2 DEF Losing
<1>5. pairs[c].promise = q => promises'[pairs[c].promise].lost
  BY <1>3 DEF Losing
<1>6. pairs' = pairs
  BY DEF Losing
<1> QED BY <1>4, <1>5, <1>6 DEF Due

LEMMA UnwindsUses ==
  ASSUME TypeInv, RoutesAreSingle, ReactionInv, Unwinds
  PROVE  ReactionInv'
<1>1. PICK n : n = Len(promises)
  BY Zenon
<1>2. PICK m : m = Len(pairs)
  BY Zenon
<1>3. PICK frame : frame = Last(stack)
  OBVIOUS
<1>4. PICK base : base = Front(stack)
  OBVIOUS
<1>5. frame.kind \in {"getThen", "handler", "native", "thenable"} /\ frame.kind = running
  BY <1>3, TopFrame DEF Unwinds
<1>6. /\ Ready(base) /\ stack # <<>> /\ n \in Nat /\ m \in Nat
      /\ frame \in CallFrames(n, m) /\ stack \in Seq(Frame) /\ frame \in Frame
      /\ stack' = base /\ UNCHANGED <<pairs, queue>>
  BY <1>1, <1>2, <1>3, <1>4, <1>5, TopFrame, StackTypes, FrontLast DEF TypeOK, Unwinds
<1>7. PICK q : q = IF frame.kind = "getThen" THEN frame.promise ELSE pairs[frame.pair].promise
  OBVIOUS
<1>8. promises \in Seq(PromiseObjects(n, m)) /\ pairs \in Seq(Pairs(n))
  BY <1>1, <1>2, <1>6 DEF Ready
<1>9. /\ frame.kind # "getThen" => frame.pair \in 1..m
      /\ q \in 1..n
  <2>1. CASE frame.kind = "getThen"
    BY <1>6, <1>7, <2>1, FrameFields
  <2>2. CASE frame.kind # "getThen"
    <3>1. frame.pair \in 1..m
      BY <1>5, <1>6, <2>2, FrameFields
    <3>2. pairs[frame.pair] \in Pairs(n)
      BY <1>2, <1>8, <3>1, ElementOfSeq
    <3> QED BY <1>7, <2>2, <3>1, <3>2 DEF Pairs
  <2> QED BY <2>1, <2>2
<1>10. PICK r : r = Orphaned(promises[q])
  OBVIOUS
<1>11. promises[q] \in PromiseObjects(n, m) /\ q \in 1..Len(promises)
  BY <1>1, <1>8, <1>9, ElementOfSeq
<1>12. r \in PromiseObjects(n, m)
  BY <1>6, <1>10, <1>11, RecordTypes
<1>13. IF frame.kind = "thenable" THEN promises' = promises ELSE promises' = [promises EXCEPT ![q] = r]
  BY <1>3, <1>6, <1>7, <1>8, <1>10, <1>11, LenProperties DEF Unwinds, Orphaned
<1>14. Sane(stack, promises, pairs, queue) /\ Balanced(queue, stack, promises, pairs)
  BY DEF ReactionInv
<1>15. Countable(n, m, queue, stack, promises) /\ Typed(n, m, base)
  BY <1>1, <1>2, <1>6, StackCounts, TypedBase
<1>16. Sane(base, promises, pairs, queue) /\ Flushes(base, promises)
  <2>1. Sane(base, promises, pairs, queue)
    BY <1>4, <1>6, <1>14, SanePop
  <2> QED BY <2>1 DEF Sane
<1>17. ASSUME NEW c PROVE /\ InUse(queue, stack, promises, c) = InUse(queue, base, promises, c) + FrameLoad(frame, c)
                          /\ InUse(queue, base, promises, c) \in Nat
  <2>1. Last(stack).kind # "flush"
    BY <1>3, <1>5
  <2>2. stack # <<>> /\ Countable(n, m, queue, stack, promises)
    BY <1>6, <1>15
  <2>3. /\ InUse(queue, stack, promises, c) = InUse(queue, Front(stack), promises, c) + FrameLoad(Last(stack), c)
        /\ InUse(queue, Front(stack), promises, c) \in Nat
        /\ Countable(n, m, queue, Front(stack), promises)
    BY ONLY <2>1, <2>2, InUsePop, Zenon
  <2> QED BY <1>3, <1>4, <2>3
<1>18. CASE frame.kind = "thenable"
  <2>1. promises' = promises
    BY <1>13, <1>18
  <2>2. \A c : InUse(queue', stack', promises, c) = InUse(queue, stack, promises, c)
    <3> TAKE c
    <3>1. FrameLoad(frame, c) = 0
      BY <1>6, <1>18, FrameLoads DEF Idle
    <3>2. /\ InUse(queue, stack, promises, c) = InUse(queue, base, promises, c) + FrameLoad(frame, c)
          /\ InUse(queue, base, promises, c) \in Nat
      BY <1>17
    <3> QED BY <1>6, <3>1, <3>2
  <2>3. Sane(stack', promises, pairs, queue')
    BY <1>6, <1>16
  <2> QED BY <1>6, <2>1, <2>2, <2>3, SameBalance
<1>19. CASE frame.kind # "thenable"
  <2>1. Losing(n, m, base, q, r)
    <3>1. promises' = [promises EXCEPT ![q] = r]
      BY <1>13, <1>19
    <3>2. promises'[q] = r /\ Len(promises') = n /\ \A p \in 1..n : p # q => promises'[p] = promises[p]
      <4>1. PICK s : s = promises
        OBVIOUS
      <4>2. PICK changed : changed = [s EXCEPT ![q] = r]
        BY Zenon
      <4>3. q \in 1..Len(s) /\ s \in Seq(PromiseObjects(n, m)) /\ r \in PromiseObjects(n, m)
        BY <1>8, <1>11, <1>12, <4>1
      <4>4. Len(changed) = Len(s) /\ \A p \in 1..Len(s) : changed[p] = IF p = q THEN r ELSE s[p]
        BY ONLY <4>2, <4>3, ExceptSeq
      <4>5. promises' = changed /\ Len(s) = n
        BY <1>1, <3>1, <4>1, <4>2
      <4> QED BY <1>9, <4>1, <4>4, <4>5
    <3> QED BY <1>6, <1>9, <1>10, <1>11, <3>2 DEF Losing
  <2>2. Deserted(base, q) /\ \A c \in 1..m : Due(c, promises', pairs') = InUse(queue, base, promises, c)
    <3>1. \A c \in 1..m : /\ InUse(queue, stack, promises, c) = Due(c, promises, pairs)
                          /\ Due(c, promises, pairs) \in {0, 1}
                          /\ Due(c, promises', pairs')
                               = IF pairs[c].promise = q THEN 0 ELSE Due(c, promises, pairs)
      BY <1>2, <1>14, <1>15, <2>1, DueLost DEF Balanced
    <3>2. CASE frame.kind = "getThen"
      <4>1. /\ Deserted(base, q)
            /\ \A c \in 1..m : pairs[c].promise = q => pairs[c].alreadyResolved
        BY <1>2, <1>3, <1>4, <1>5, <1>7, <3>2, OneGetter
      <4>2. \A c \in 1..m : InUse(queue, base, promises, c) = Due(c, promises', pairs')
        <5> TAKE c \in 1..m
        <5>1. FrameLoad(frame, c) = 0
          BY <1>6, <3>2, FrameLoads DEF Idle
        <5>2. InUse(queue, base, promises, c) = Due(c, promises, pairs)
          BY <1>17, <3>1, <5>1
        <5>3. pairs[c].promise = q => Due(c, promises, pairs) = 0
          BY <4>1 DEF Due
        <5> QED BY <3>1, <5>2, <5>3
      <4> QED BY <4>1, <4>2
    <3>3. CASE frame.kind # "getThen"
      <4>1. PICK d : d = frame.pair
        OBVIOUS
      <4>2. frame.kind \in {"handler", "native"} /\ d \in 1..m /\ q = pairs[d].promise
        BY <1>5, <1>7, <1>9, <1>19, <3>3, <4>1
      <4>3. \A c : FrameLoad(frame, c) = IF c = d THEN 1 ELSE 0
        BY <1>6, <4>1, <4>2, FrameLoads
      <4>4. Due(d, promises, pairs) = 1 /\ InUse(queue, base, promises, d) = 0
        BY <1>17, <3>1, <4>2, <4>3
      <4>5. ~pairs[d].exposed /\ ~pairs[d].alreadyResolved
        BY <4>4 DEF Due
      <4>6. /\ Deserted(base, q)
            /\ \A c \in 1..m : pairs[c].promise = q /\ ~pairs[c].alreadyResolved => c = d
        BY <1>2, <1>4, <1>6, <4>2, <4>5, OnePair
      <4>7. \A c \in 1..m : InUse(queue, base, promises, c) = Due(c, promises', pairs')
        <5> TAKE c \in 1..m
        <5>1. CASE c = d
          BY <3>1, <4>2, <4>4, <5>1
        <5>2. CASE c # d
          <6>1. InUse(queue, base, promises, c) = Due(c, promises, pairs)
            BY <1>17, <3>1, <4>3, <5>2
          <6>2. pairs[c].promise = q => Due(c, promises, pairs) = 0
            BY <4>6, <5>2 DEF Due
          <6> QED BY <3>1, <6>1, <6>2
        <5> QED BY <5>1, <5>2
      <4> QED BY <4>6, <4>7
    <3> QED BY <3>2, <3>3
  <2>3. Sane(stack', promises', pairs', queue')
    <3>1. Sane(base, promises', pairs', queue')
      BY <1>15, <1>16, <2>1, <2>2, LostSane
    <3> QED BY <1>6, <3>1
  <2>4. \A c \in 1..m : InUse(queue', stack', promises', c) = Due(c, promises', pairs')
    <3> TAKE c \in 1..m
    <3>1. InUse(queue', stack', promises', c) = InUse(queue, base, promises, c)
      BY <1>15, <1>16, <2>1, LostUses
    <3> QED BY <2>2, <3>1
  <2>5. Len(pairs') = m
    BY <1>2, <1>6
  <2> QED BY <2>3, <2>4, <2>5 DEF ReactionInv, Balanced
<1> QED BY <1>18, <1>19

LEMMA ReactionKept ==
  ASSUME TypeInv, Begun(stack, promises), RoutesAreSingle, ReactionInv, [Next]_vars
  PROVE  ReactionInv'
<1>1. CASE UNCHANGED vars
  <2>1. UNCHANGED <<queue, stack, promises, pairs>>
    BY <1>1 DEF vars
  <2>2. Sane(stack', promises', pairs', queue')
    BY <2>1 DEF ReactionInv
  <2>3. Balanced(queue', stack', promises', pairs')
    BY <2>1 DEF ReactionInv
  <2> QED BY <2>2, <2>3 DEF ReactionInv
<1>2. ASSUME NEW c \in 1..MaxPairs,
             \/ ProgramRejects(c)
             \/ \E value \in {Primitive, NewObject} \cup 1..MaxPromises : ProgramResolves(c, value)
      PROVE  ReactionInv'
  BY <1>2, ProgramCallUses
<1>3. ASSUME NEW p \in 1..MaxPromises, NEW handler \in {NoHandler, Program},
             ProgramThen(p, handler)
      PROVE  ReactionInv'
  <2>1. ThenStep
    BY <1>3, Zenon DEF ProgramThen, ThenStep, Reachable, ForeignCode
  <2> QED BY <2>1, RegisteringUses
<1>4. CASE HookReturns \/ TrackerEnds \/ HostError \/ Caught \/ HookThrows \/ EndDrain \/ RunJobs
           \/ ThenReturns \/ TriggerThrows
  <2>1. QuietStep
    BY <1>4, QuietSteps
  <2>2. running = "trigger" => Last(stack).todo = <<>>
    <3>1. CASE TriggerThrows
      BY <3>1 DEF TriggerThrows
    <3>2. CASE HookReturns \/ TrackerEnds \/ HostError \/ Caught \/ HookThrows \/ EndDrain \/ RunJobs
               \/ ThenReturns
      <4>1. running # "trigger"
        BY <3>2 DEF HookReturns, TrackerEnds, HostError, Caught, HookThrows, EndDrain, RunJobs,
                    ThenReturns, ForeignCode, Foreign, Engine, Running
      <4> QED BY <4>1
    <3> QED BY <1>4, <3>1, <3>2
  <2> QED BY <2>1, <2>2, QuietUses
<1>5. CASE GetThenStep
  BY <1>5, GetThenUses
<1>6. CASE LoopStep
  BY <1>6, LoopUses
<1>7. CASE \/ NativeReturns \/ HandlerThrows \/ ThenFails
           \/ \E value \in {Primitive, NewObject} \cup 1..MaxPromises : HandlerReturns(value)
  BY <1>7, ReturnUses
<1>8. CASE NewPromise \/ RunReaction \/ RunThenable \/ StartJob \/ Unwinds
  BY <1>8, NewUses, ReactionUses, ThenableUses, StartUses, UnwindsUses
<1> QED BY <1>1, <1>2, <1>3, <1>4, <1>5, <1>6, <1>7, <1>8 DEF Next, GetThenStep, LoopStep

LEMMA PlacesAreUses ==
  ASSUME TypeInv, Sane(stack, promises, pairs, queue), NEW c
  PROVE  Places(c) = InUse(queue, stack, promises, c)
<1>1. PICK n, m : n = Len(promises) /\ m = Len(pairs)
  BY Zenon
<1>2. /\ Countable(n, m, queue, stack, promises) /\ n \in 0..MaxPromises /\ m \in 0..MaxPairs
      /\ stack \in Seq(Frame) /\ queue \in Seq(Job) /\ promises \in Seq(PromiseObjects(n, m))
      /\ n \in Nat /\ m \in Nat /\ Flushes(stack, promises) /\ Len(stack) \in Nat
  <2>1. stack \in Seq(Frame) /\ queue \in Seq(Job)
    BY StackTypes DEF TypeOK
  <2>2. promises \in Seq(PromiseObjects(n, m)) /\ n \in 0..MaxPromises /\ m \in 0..MaxPairs /\ n \in Nat /\ m \in Nat
    BY <1>1, TopFrame DEF TypeInv, Ready
  <2>3. Flushes(stack, promises)
    BY DEF Sane
  <2> QED BY <2>1, <2>2, <2>3, LenProperties DEF Countable
<1>3. HoldsJob(queue, c) = PlacesOf(queue, JobsFor(c))
  <2>1. \A i \in 1..Len(queue) : queue[i] \in Job
    BY <1>2, ElementOfSeq
  <2> QED BY <2>1 DEF HoldsJob, PlacesOf, JobsFor
<1>4. \A i \in 1..Len(stack) : stack[i] \in Frame
  BY <1>2, ElementOfSeq
<1>5. {i \in 1..Len(stack) : RunsFor(stack[i], c)} = PlacesOf(stack, RunnersOf(c))
  BY <1>4 DEF PlacesOf, RunnersOf
<1>6. ASSUME NEW s \in Seq(Reaction) PROVE Cardinality(Holds(s, c)) = Hits(s, UsersOf(c))
  <2>1. \A i \in 1..Len(s) : s[i] \in Reaction
    BY <1>6, ElementOfSeq
  <2>2. Holds(s, c) = PlacesOf(s, UsersOf(c))
    BY <2>1 DEF Holds, PlacesOf, UsersOf
  <2> QED BY <2>2 DEF Hits
<1>7. ASSUME NEW s \in Seq(Job) PROVE Cardinality(HoldsJob(s, c)) = Hits(s, JobsFor(c))
  <2>1. \A i \in 1..Len(s) : s[i] \in Job
    BY <1>7, ElementOfSeq
  <2>2. HoldsJob(s, c) = PlacesOf(s, JobsFor(c))
    BY <2>1 DEF HoldsJob, PlacesOf, JobsFor
  <2> QED BY <2>2 DEF Hits
<1> DEFINE InTrigger(i) == IF stack[i].kind = "trigger" THEN Cardinality(Holds(stack[i].todo, c)) ELSE 0
           InPromise(p) == Cardinality(Holds(promises[p].reactions, c))
                             + Cardinality(HoldsJob(Buffered(p), c))
           Triggers == [i \in 1..Len(stack) |-> InTrigger(i)]
           Objects  == [p \in 1..Len(promises) |-> InPromise(p)]
<1>8. \A i \in 1..Len(stack) : InTrigger(i) = TodoUses(stack[i], c)
  <2> TAKE i \in 1..Len(stack)
  <2>1. stack[i].kind = "trigger" => stack[i].todo \in Seq(Reaction)
    BY <1>4 DEF Frame
  <2>2. stack[i].kind = "trigger" => Cardinality(Holds(stack[i].todo, c)) = Hits(stack[i].todo, UsersOf(c))
    BY <1>6, <2>1
  <2> QED BY <2>2 DEF TodoUses
<1>9. Triggers = Todos(stack, c)
  BY <1>8 DEF Todos
<1>10. \A p \in 1..Len(promises) :
         InPromise(p) = RecordLoad(promises[p].reactions, RestOf(stack, promises[p], p), c)
  <2> TAKE p \in 1..Len(promises)
  <2>1. /\ promises[p].reactions \in Seq(Reactions(n, m))
        /\ RestOf(stack, promises[p], p) \in Seq(ReactionJobs(n, m))
    BY <1>2, UsesAreNumbers, Zenon
  <2>2. /\ promises[p].reactions \in Seq(Reaction) /\ RestOf(stack, promises[p], p) \in Seq(Job)
    <3>1. Reactions(n, m) \subseteq Reaction /\ ReactionJobs(n, m) \subseteq Job
      BY <1>2, ReactionTypes
    <3>2. \A S, T : S \subseteq T => Seq(S) \subseteq Seq(T)
      OBVIOUS
    <3> QED BY <2>1, <3>1, <3>2
  <2>3. Buffered(p) = RestOf(stack, promises[p], p)
    BY DEF Buffered, Flushed, RestOf, FlushedIn
  <2> QED BY <1>6, <1>7, <2>2, <2>3 DEF RecordLoad
<1>11. Objects = Loads(stack, promises, c)
  BY <1>10 DEF Loads
<1> HIDE DEF Triggers, Objects
<1>12. /\ FoldFunction(+, 0, Todos(stack, c)) = SumOn(Todos(stack, c), 1..Len(stack))
       /\ FoldFunction(+, 0, Loads(stack, promises, c)) = SumOn(Loads(stack, promises, c), 1..Len(promises))
  <2>1. DOMAIN Todos(stack, c) = 1..Len(stack)
    BY DEF Todos
  <2>2. DOMAIN Loads(stack, promises, c) = 1..Len(promises)
    BY DEF Loads
  <2> QED BY <2>1, <2>2, Zenon DEF FoldFunction, SumOn
<1>13. Places(c) = Cardinality(HoldsJob(queue, c)) + Cardinality({i \in 1..Len(stack) : RunsFor(stack[i], c)})
                     + FoldFunction(+, 0, Triggers) + FoldFunction(+, 0, Objects)
  BY Zenon DEF Places, Triggers, Objects
<1>14. Places(c) = Hits(queue, JobsFor(c)) + Hits(stack, RunnersOf(c))
                     + SumOn(Todos(stack, c), 1..Len(stack)) + PromiseLoad(stack, promises, c)
  BY <1>3, <1>5, <1>9, <1>11, <1>12, <1>13, Zenon DEF Hits, PromiseLoad
<1>15. /\ Hits(queue, JobsFor(c)) \in Nat /\ Hits(stack, RunnersOf(c)) \in Nat
       /\ SumOn(Todos(stack, c), 1..Len(stack)) \in Nat /\ PromiseLoad(stack, promises, c) \in Nat
  BY <1>2, InUseNumber, LoadNumber
<1> QED BY <1>14, <1>15 DEF InUse, Load

THEOREM ReactionsRunOnce == Spec => []EveryReactionRunsOnce
<1>1. Init => RoutesAreSingle /\ ReactionInv
  <2>1. Init => Len(promises) = 0 /\ Len(pairs) = 0 /\ Len(queue) = 0 /\ Len(stack) = 0
    BY DEF Init
  <2> QED BY <2>1 DEF RoutesAreSingle, ReactionInv, Sane, Flushes, Balanced
<1>2. /\ TypeInv /\ Begun(stack, promises) /\ RoutesAreSingle /\ ReactionInv /\ [Next]_vars
      => RoutesAreSingle' /\ ReactionInv'
  BY RoutesKept, ReactionKept
<1>3. TypeInv /\ ReactionInv => EveryReactionRunsOnce
  <2>1. ASSUME TypeInv, ReactionInv, NEW c \in 1..Len(pairs)
        PROVE  Places(c) = IF \/ pairs[c].exposed \/ pairs[c].alreadyResolved
                              \/ promises[pairs[c].promise].lost THEN 0 ELSE 1
    BY <2>1, PlacesAreUses DEF ReactionInv, Balanced, Due
  <2> QED BY <2>1 DEF EveryReactionRunsOnce
<1> QED BY <1>1, <1>2, <1>3, TypesAlways, PTL DEF Spec

-----------------------------------------------------------------------------
(* The order of registration *)

\* The reaction jobs of a promise are in the queue in the order of registration,
QueueLine(jobs) ==
  \A i, j \in 1..Len(jobs) :
    (/\ i < j /\ jobs[i].kind = "reaction" /\ jobs[j].kind = "reaction"
     /\ jobs[i].reaction.source = jobs[j].reaction.source)
      => jobs[i].reaction.derived < jobs[j].reaction.derived
\* those of p before registration d,
Before(jobs, p, d) ==
  \A i \in 1..Len(jobs) :
    jobs[i].kind = "reaction" /\ jobs[i].reaction.source = p => jobs[i].reaction.derived < d
\* and behind them those not enqueued yet.
Lined(jobs, s, p) ==
  \A k \in 1..Len(s) :
    /\ s[k].source = p /\ Before(jobs, p, s[k].derived)
    /\ \A j \in 1..Len(s) : j < k => s[j].derived < s[k].derived
LinedJobs(jobs, s, p) ==
  \A k \in 1..Len(s) :
    /\ s[k].kind = "reaction" /\ s[k].reaction.source = p /\ Before(jobs, p, s[k].reaction.derived)
    /\ \A j \in 1..Len(s) : j < k => s[j].reaction.derived < s[k].reaction.derived
InLine(jobs, frames, record, p) ==
  Lined(jobs, record.reactions, p) /\ LinedJobs(jobs, RestOf(frames, record, p), p)
\* Only the innermost activation has reactions to enqueue.
HasTodo(frame) == frame.kind = "trigger" /\ frame.todo # <<>>
TodoLine(jobs, frame, objects) ==
  Lined(jobs, frame.todo, frame.promise) /\ objects[frame.promise].reactionJobs = <<>>
TodoLines(jobs, frames, objects) ==
  \A i \in 1..Len(frames) : HasTodo(frames[i]) => i = Len(frames) /\ TodoLine(jobs, frames[i], objects)
Order(jobs, frames, objects) ==
  /\ QueueLine(jobs)
  /\ \A p \in 1..Len(objects) : InLine(jobs, frames, objects[p], p)
  /\ TodoLines(jobs, frames, objects)

Loopless(frames) == \A i \in 1..Len(frames) : ~HasTodo(frames[i])
\* No job is ahead of the others that was not.
NoneAhead(jobs, later) ==
  /\ QueueLine(jobs) => QueueLine(later)
  /\ \A p, d : Before(jobs, p, d) => Before(later, p, d)

LEMMA NoLine ==
  ASSUME NEW jobs, NEW p
  PROVE  Lined(jobs, <<>>, p) /\ LinedJobs(jobs, <<>>, p)
BY DEF Lined, LinedJobs

LEMMA LineStays ==
  ASSUME NEW jobs, NEW later, NoneAhead(jobs, later), NEW s, NEW p
  PROVE  /\ Lined(jobs, s, p) => Lined(later, s, p)
         /\ LinedJobs(jobs, s, p) => LinedJobs(later, s, p)
<1>1. \A d : Before(jobs, p, d) => Before(later, p, d)
  BY DEF NoneAhead
<1>2. Lined(jobs, s, p) => Lined(later, s, p)
  BY <1>1 DEF Lined
<1>3. LinedJobs(jobs, s, p) => LinedJobs(later, s, p)
  BY <1>1 DEF LinedJobs
<1> QED BY <1>2, <1>3

\* The queue loses its first job, or gets one of another kind.
LEMMA TailStays ==
  ASSUME NEW J, NEW jobs \in Seq(J), jobs # <<>>
  PROVE  NoneAhead(jobs, Tail(jobs))
<1>1. PICK k \in Nat : k = Len(jobs)
  BY LenProperties
<1>2. PICK rest : rest = Tail(jobs)
  BY Zenon
<1>3. Len(rest) = k - 1 /\ \A i \in 1..(k - 1) : rest[i] = jobs[i + 1] /\ i + 1 \in 1..k
  <2>1. Len(rest) = k - 1 /\ \A i \in 1..Len(rest) : rest[i] = jobs[i + 1]
    BY <1>1, <1>2, HeadTailProperties
  <2> QED BY <1>1, <2>1
<1>4. QueueLine(jobs) => QueueLine(rest)
  <2> SUFFICES ASSUME QueueLine(jobs), NEW i \in 1..(k - 1), NEW j \in 1..(k - 1), i < j,
                      rest[i].kind = "reaction", rest[j].kind = "reaction",
                      rest[i].reaction.source = rest[j].reaction.source
               PROVE  rest[i].reaction.derived < rest[j].reaction.derived
    BY <1>3 DEF QueueLine
  <2>1. i + 1 \in 1..Len(jobs) /\ j + 1 \in 1..Len(jobs) /\ i + 1 < j + 1
    BY <1>1, <1>3
  <2>2. rest[i] = jobs[i + 1] /\ rest[j] = jobs[j + 1]
    BY <1>3
  <2> QED BY <2>1, <2>2 DEF QueueLine
<1>5. \A p, d : Before(jobs, p, d) => Before(rest, p, d)
  BY <1>1, <1>3 DEF Before
<1> QED BY <1>2, <1>4, <1>5 DEF NoneAhead

LEMMA OthersStay ==
  ASSUME NEW J, NEW jobs \in Seq(J), NEW job, job.kind # "reaction"
  PROVE  NoneAhead(jobs, Append(jobs, job))
<1>1. PICK k \in Nat : k = Len(jobs)
  BY LenProperties
<1>2. PICK more : more = Append(jobs, job)
  BY Zenon
<1>3. Len(more) = k + 1 /\ more[k + 1] = job /\ \A i \in 1..k : more[i] = jobs[i]
  BY <1>1, <1>2, AppendAny
<1>4. \A i \in 1..(k + 1) : more[i].kind = "reaction" => i \in 1..k
  BY <1>1, <1>3
<1>5. QueueLine(jobs) => QueueLine(more)
  BY <1>1, <1>3, <1>4 DEF QueueLine
<1>6. \A p, d : Before(jobs, p, d) => Before(more, p, d)
  BY <1>1, <1>3, <1>4 DEF Before
<1> QED BY <1>2, <1>5, <1>6 DEF NoneAhead

\* A reaction job joins the queue.
LEMMA QueueGrows ==
  ASSUME NEW J, NEW jobs \in Seq(J), NEW job, NEW p, NEW d, job.kind = "reaction",
         p = job.reaction.source, d = job.reaction.derived, QueueLine(jobs), Before(jobs, p, d)
  PROVE  /\ QueueLine(Append(jobs, job))
         /\ \A q, e : Before(jobs, q, e) /\ (q = p => d < e) => Before(Append(jobs, job), q, e)
<1>1. PICK k \in Nat : k = Len(jobs)
  BY LenProperties
<1>2. PICK more : more = Append(jobs, job)
  BY Zenon
<1>3. Len(more) = k + 1 /\ more[k + 1] = job /\ \A i \in 1..k : more[i] = jobs[i]
  BY <1>1, <1>2, AppendAny
<1>4. \A i \in 1..(k + 1) : i \in 1..k \/ i = k + 1
  BY <1>1
<1>5. QueueLine(more)
  <2> SUFFICES ASSUME NEW i \in 1..(k + 1), NEW j \in 1..(k + 1), i < j,
                      more[i].kind = "reaction", more[j].kind = "reaction",
                      more[i].reaction.source = more[j].reaction.source
               PROVE  more[i].reaction.derived < more[j].reaction.derived
    BY <1>3 DEF QueueLine
  <2>1. i \in 1..k
    BY <1>1
  <2>2. CASE j \in 1..k
    BY <1>1, <1>3, <2>1, <2>2, Zenon DEF QueueLine
  <2>3. CASE j = k + 1
    BY <1>1, <1>3, <2>1, <2>3 DEF Before
  <2> QED BY <1>4, <2>2, <2>3
<1>6. ASSUME NEW q, NEW e, Before(jobs, q, e), q = p => d < e PROVE Before(more, q, e)
  BY <1>1, <1>3, <1>4, <1>6 DEF Before
<1> QED BY <1>2, <1>5, <1>6

\* The first of a line joins the queue.
LEMMA FirstJoins ==
  ASSUME NEW J, NEW jobs \in Seq(J), NEW S, NEW s \in Seq(S), s # <<>>, NEW p, NEW job,
         QueueLine(jobs), Lined(jobs, s, p), job.kind = "reaction", job.reaction = Head(s)
  PROVE  /\ QueueLine(Append(jobs, job)) /\ Lined(Append(jobs, job), Tail(s), p)
         /\ job.reaction.source = p
         /\ \A q, e : Before(jobs, q, e) /\ q # p => Before(Append(jobs, job), q, e)
<1>1. PICK k \in Nat : k = Len(s)
  BY LenProperties
<1>2. PICK more : more = Append(jobs, job)
  BY Zenon
<1>3. PICK rest : rest = Tail(s)
  BY Zenon
<1>4. /\ Len(rest) = k - 1 /\ \A i \in 1..(k - 1) : rest[i] = s[i + 1] /\ i + 1 \in 1..k
      /\ job.reaction = s[1] /\ k >= 1
  <2>1. k # 0
    BY <1>1, EmptySeq
  <2>2. Len(rest) = k - 1 /\ \A i \in 1..Len(rest) : rest[i] = s[i + 1]
    BY <1>1, <1>3, HeadTailProperties
  <2> QED BY <1>1, <2>1, <2>2
<1>5. PICK d : d = job.reaction.derived
  OBVIOUS
<1>6. 1 \in 1..k /\ job.reaction.source = p /\ Before(jobs, p, d)
  BY <1>1, <1>4, <1>5 DEF Lined
<1>7. /\ QueueLine(more)
      /\ \A q, e : Before(jobs, q, e) /\ (q = p => d < e) => Before(more, q, e)
  BY <1>2, <1>5, <1>6, QueueGrows, Zenon
<1>8. Lined(more, rest, p)
  <2> SUFFICES ASSUME NEW i \in 1..(k - 1)
               PROVE  /\ rest[i].source = p /\ Before(more, p, rest[i].derived)
                      /\ \A j \in 1..(k - 1) : j < i => rest[j].derived < rest[i].derived
    BY <1>4 DEF Lined
  <2>1. i + 1 \in 1..Len(s) /\ 1 \in 1..Len(s) /\ 1 < i + 1 /\ rest[i] = s[i + 1]
    BY <1>1, <1>4
  <2>2. s[i + 1].source = p /\ Before(jobs, p, s[i + 1].derived) /\ s[1].derived < s[i + 1].derived
    BY <2>1 DEF Lined
  <2>3. d < rest[i].derived
    BY <1>4, <1>5, <2>1, <2>2
  <2>4. Before(more, p, rest[i].derived)
    BY <1>7, <2>1, <2>2, <2>3
  <2>5. ASSUME NEW j \in 1..(k - 1), j < i PROVE rest[j].derived < rest[i].derived
    <3>1. j + 1 \in 1..Len(s) /\ j + 1 < i + 1 /\ rest[j] = s[j + 1]
      BY <1>1, <1>4, <2>5
    <3> QED BY <2>1, <3>1 DEF Lined
  <2> QED BY <2>1, <2>2, <2>4, <2>5
<1> QED BY <1>2, <1>3, <1>6, <1>7, <1>8

LEMMA FirstJobJoins ==
  ASSUME NEW J, NEW jobs \in Seq(J), NEW S, NEW s \in Seq(S), s # <<>>, NEW p, NEW job,
         QueueLine(jobs), LinedJobs(jobs, s, p), job = Head(s)
  PROVE  /\ QueueLine(Append(jobs, job)) /\ LinedJobs(Append(jobs, job), Tail(s), p)
         /\ job.reaction.source = p
         /\ \A q, e : Before(jobs, q, e) /\ q # p => Before(Append(jobs, job), q, e)
<1>1. PICK k \in Nat : k = Len(s)
  BY LenProperties
<1>2. PICK more : more = Append(jobs, job)
  BY Zenon
<1>3. PICK rest : rest = Tail(s)
  BY Zenon
<1>4. /\ Len(rest) = k - 1 /\ \A i \in 1..(k - 1) : rest[i] = s[i + 1] /\ i + 1 \in 1..k
      /\ job = s[1] /\ k >= 1
  <2>1. k # 0
    BY <1>1, EmptySeq
  <2>2. Len(rest) = k - 1 /\ \A i \in 1..Len(rest) : rest[i] = s[i + 1]
    BY <1>1, <1>3, HeadTailProperties
  <2> QED BY <1>1, <2>1, <2>2
<1>5. PICK d : d = job.reaction.derived
  OBVIOUS
<1>6. 1 \in 1..k /\ job.kind = "reaction" /\ job.reaction.source = p /\ Before(jobs, p, d)
  BY <1>1, <1>4, <1>5 DEF LinedJobs
<1>7. /\ QueueLine(more)
      /\ \A q, e : Before(jobs, q, e) /\ (q = p => d < e) => Before(more, q, e)
  BY <1>2, <1>5, <1>6, QueueGrows
<1>8. LinedJobs(more, rest, p)
  <2> SUFFICES ASSUME NEW i \in 1..(k - 1)
               PROVE  /\ rest[i].kind = "reaction" /\ rest[i].reaction.source = p
                      /\ Before(more, p, rest[i].reaction.derived)
                      /\ \A j \in 1..(k - 1) : j < i => rest[j].reaction.derived < rest[i].reaction.derived
    BY <1>4, Zenon DEF LinedJobs
  <2>1. i + 1 \in 1..Len(s) /\ 1 \in 1..Len(s) /\ 1 < i + 1 /\ rest[i] = s[i + 1]
    BY <1>1, <1>4
  <2>2. /\ s[i + 1].kind = "reaction" /\ s[i + 1].reaction.source = p
        /\ Before(jobs, p, s[i + 1].reaction.derived)
        /\ s[1].reaction.derived < s[i + 1].reaction.derived
    BY <2>1 DEF LinedJobs
  <2>3. d < rest[i].reaction.derived
    BY <1>4, <1>5, <2>1, <2>2
  <2>4. Before(more, p, rest[i].reaction.derived)
    BY <1>7, <2>1, <2>2, <2>3
  <2>5. ASSUME NEW j \in 1..(k - 1), j < i PROVE rest[j].reaction.derived < rest[i].reaction.derived
    <3>1. j + 1 \in 1..Len(s) /\ j + 1 < i + 1 /\ rest[j] = s[j + 1]
      BY <1>1, <1>4, <2>5
    <3> QED BY <2>1, <3>1 DEF LinedJobs
  <2> QED BY <2>1, <2>2, <2>4, <2>5
<1> QED BY <1>2, <1>3, <1>6, <1>7, <1>8

\* A line grows at its end.
LEMMA LineGrows ==
  ASSUME NEW jobs, NEW S, NEW s \in Seq(S), NEW p, NEW x, Lined(jobs, s, p),
         x.source = p, Before(jobs, p, x.derived), \A k \in 1..Len(s) : s[k].derived < x.derived
  PROVE  Lined(jobs, Append(s, x), p)
<1>1. PICK k \in Nat : k = Len(s)
  BY LenProperties
<1>2. PICK t : t = Append(s, x)
  BY Zenon
<1>3. Len(t) = k + 1 /\ t[k + 1] = x /\ \A i \in 1..k : t[i] = s[i]
  BY <1>1, <1>2, AppendAny
<1>4. \A i \in 1..(k + 1) : i \in 1..k \/ i = k + 1
  BY <1>1
<1>5. Lined(jobs, t, p)
  <2> SUFFICES ASSUME NEW i \in 1..(k + 1)
               PROVE  /\ t[i].source = p /\ Before(jobs, p, t[i].derived)
                      /\ \A j \in 1..(k + 1) : j < i => t[j].derived < t[i].derived
    BY <1>3, Zenon DEF Lined
  <2>1. \A j \in 1..(k + 1) : j < i => j \in 1..k
    BY <1>1
  <2>2. CASE i \in 1..k
    BY <1>1, <1>3, <2>1, <2>2 DEF Lined
  <2>3. CASE i = k + 1
    BY <1>1, <1>3, <2>1, <2>3
  <2> QED BY <1>4, <2>2, <2>3
<1> QED BY <1>2, <1>5

LEMMA JobLineGrows ==
  ASSUME NEW jobs, NEW S, NEW s \in Seq(S), NEW p, NEW x, LinedJobs(jobs, s, p), x.kind = "reaction",
         x.reaction.source = p, Before(jobs, p, x.reaction.derived),
         \A k \in 1..Len(s) : s[k].reaction.derived < x.reaction.derived
  PROVE  LinedJobs(jobs, Append(s, x), p)
<1>1. PICK k \in Nat : k = Len(s)
  BY LenProperties
<1>2. PICK t : t = Append(s, x)
  BY Zenon
<1>3. Len(t) = k + 1 /\ t[k + 1] = x /\ \A i \in 1..k : t[i] = s[i]
  BY <1>1, <1>2, AppendAny
<1>4. \A i \in 1..(k + 1) : i \in 1..k \/ i = k + 1
  BY <1>1
<1>5. LinedJobs(jobs, t, p)
  <2> SUFFICES ASSUME NEW i \in 1..(k + 1)
               PROVE  /\ t[i].kind = "reaction" /\ t[i].reaction.source = p
                      /\ Before(jobs, p, t[i].reaction.derived)
                      /\ \A j \in 1..(k + 1) : j < i => t[j].reaction.derived < t[i].reaction.derived
    BY <1>3 DEF LinedJobs
  <2>1. \A j \in 1..(k + 1) : j < i => j \in 1..k
    BY <1>1
  <2>2. CASE i \in 1..k
    BY <1>1, <1>3, <2>1, <2>2 DEF LinedJobs
  <2>3. CASE i = k + 1
    BY <1>1, <1>3, <2>1, <2>3
  <2> QED BY <1>4, <2>2, <2>3
<1> QED BY <1>2, <1>5

LEMMA NoneMoves == \A jobs : NoneAhead(jobs, jobs)
BY DEF NoneAhead

LEMMA BlankLine ==
  ASSUME NEW jobs, NEW frames, NEW record, NEW p, Blank(record)
  PROVE  InLine(jobs, frames, record, p)
<1>1. RestOf(frames, record, p) = SubSeq(<<>>, FlushedIn(frames, p) + 1, 0)
  BY Zenon DEF RestOf, Blank
<1>2. SubSeq(<<>>, FlushedIn(frames, p) + 1, 0) = <<>>
  BY DEF FlushedIn
<1> QED BY <1>1, <1>2, NoLine, Zenon DEF InLine, Blank

\* Nothing but the lines of the promises Q changes.
LEMMA OrderMoves ==
  ASSUME NEW jobs, NEW frames, NEW objects, NEW more, NEW later, NEW changed, NEW Q,
         Order(jobs, frames, objects), NoneAhead(jobs, more), TodoLines(more, later, changed),
         Rests(frames, objects, later, changed, Q),
         \A p \in Q : InLine(more, later, changed[p], p)
  PROVE  Order(more, later, changed)
<1>1. ASSUME NEW p \in 1..Len(changed) PROVE InLine(more, later, changed[p], p)
  <2>1. CASE p \in Q
    BY <2>1
  <2>2. CASE p \notin 1..Len(objects)
    <3>1. Blank(changed[p])
      BY <2>2 DEF Rests
    <3> QED BY <3>1, BlankLine
  <2>3. CASE p \in 1..Len(objects) /\ p \notin Q
    <3>1. SameUses(objects[p], changed[p]) /\ FlushedIn(later, p) = FlushedIn(frames, p)
      BY <2>3 DEF Rests
    <3>2. RestOf(later, changed[p], p) = RestOf(frames, objects[p], p)
      BY <3>1 DEF RestOf, SameUses
    <3>3. Lined(jobs, objects[p].reactions, p) /\ LinedJobs(jobs, RestOf(frames, objects[p], p), p)
      BY <2>3 DEF Order, InLine
    <3>4. Lined(more, objects[p].reactions, p) /\ LinedJobs(more, RestOf(frames, objects[p], p), p)
      BY <3>3, LineStays
    <3> QED BY <3>1, <3>2, <3>4 DEF InLine, SameUses
  <2> QED BY <2>1, <2>2, <2>3
<1>2. QueueLine(more)
  BY DEF Order, NoneAhead
<1> QED BY <1>1, <1>2 DEF Order

LEMMA NoLoops ==
  ASSUME NEW jobs, NEW F, NEW frames \in Seq(F), NEW objects, TodoLines(jobs, frames, objects)
  PROVE  /\ frames # <<>> => Loopless(Front(frames))
         /\ frames = <<>> \/ ~HasTodo(Last(frames)) => Loopless(frames)
<1>1. PICK k \in Nat : k = Len(frames)
  BY LenProperties
<1>2. frames # <<>> => Loopless(Front(frames))
  <2> HAVE frames # <<>>
  <2>1. Len(Front(frames)) = k - 1 /\ \A i \in 1..(k - 1) : Front(frames)[i] = frames[i]
    BY <1>1, FrontLast
  <2>2. \A i \in 1..(k - 1) : i \in 1..k /\ i # k
    BY <1>1
  <2> QED BY <1>1, <2>1, <2>2 DEF TodoLines, Loopless
<1>3. frames = <<>> \/ ~HasTodo(Last(frames)) => Loopless(frames)
  <2>1. frames = <<>> => k = 0
    BY <1>1
  <2> QED BY <1>1, <2>1 DEF TodoLines, Loopless, Last
<1> QED BY <1>2, <1>3

LEMMA NoTodo ==
  ASSUME NEW jobs, NEW frames, NEW objects, Loopless(frames)
  PROVE  TodoLines(jobs, frames, objects)
BY DEF Loopless, TodoLines

LEMMA TodoTop ==
  ASSUME NEW jobs, NEW F, NEW frames \in Seq(F), NEW objects, Loopless(frames), NEW frame,
         HasTodo(frame) => TodoLine(jobs, frame, objects)
  PROVE  /\ TodoLines(jobs, Append(frames, frame), objects)
         /\ ~HasTodo(frame) => Loopless(Append(frames, frame))
<1>1. PICK k \in Nat : k = Len(frames)
  BY LenProperties
<1>2. PICK more : more = Append(frames, frame)
  BY Zenon
<1>3. Len(more) = k + 1 /\ more[k + 1] = frame /\ \A i \in 1..k : more[i] = frames[i]
  BY <1>1, <1>2, AppendAny
<1>4. \A i \in 1..(k + 1) : i \in 1..k \/ i = k + 1
  BY <1>1
<1>5. TodoLines(jobs, more, objects)
  BY <1>1, <1>3, <1>4 DEF TodoLines, Loopless
<1>6. ~HasTodo(frame) => Loopless(more)
  BY <1>1, <1>3, <1>4 DEF Loopless
<1> QED BY <1>2, <1>5, <1>6

\* The activations change, and no loop has anything to do.
LEMMA FramesMove ==
  ASSUME NEW jobs, NEW frames, NEW objects, NEW later, Order(jobs, frames, objects), Loopless(later),
         Len(objects) \in Nat, \A p : FlushedIn(later, p) = FlushedIn(frames, p)
  PROVE  Order(jobs, later, objects)
<1>1. Rests(frames, objects, later, objects, {})
  BY DEF Rests, SameUses
<1> QED BY <1>1, NoneMoves, NoTodo, OrderMoves

LEMMA PushedFlush ==
  ASSUME NEW F, NEW frames \in Seq(F), NEW frame \in F, frame.kind # "flush"
  PROVE  \A p : FlushedIn(Append(frames, frame), p) = FlushedIn(frames, p)
<1> TAKE p
<1>1. ~IsFlush(frame, p)
  BY DEF IsFlush
<1> QED BY <1>1, FlushedPush

LEMMA PoppedFlush ==
  ASSUME NEW F, NEW frames \in Seq(F), frames # <<>>, Last(frames).kind # "flush"
  PROVE  \A p : FlushedIn(Front(frames), p) = FlushedIn(frames, p)
<1> TAKE p
<1>1. ~IsFlush(Last(frames), p)
  BY DEF IsFlush
<1> QED BY <1>1, FlushedPop

\* settlePromise() hands the reactions to its loop in the order of registration.
LEMMA SettleOrder ==
  ASSUME NEW n, NEW m, NEW base, Typed(n, m, base), Sane(base, promises, pairs, queue),
         Order(queue, base, promises), Loopless(base),
         NEW p \in 1..n, NEW state \in Settled, NEW result \in Values(n),
         Settle(p, state, result, base)
  PROVE  Order(queue', stack', promises')
<1>1. /\ promises' \in Seq(PromiseObjects(n, m)) /\ Len(promises') = n /\ queue' = queue
      /\ promises[p].state # "pending" => promises' = promises /\ stack' = base
      /\ promises[p].state = "pending" =>
           /\ stack' = Append(base, FreshTrigger(p, promises[p].reactions))
           /\ \A q \in 1..n : promises'[q] =
                IF q = p THEN SettledAs(promises[p], state, result) ELSE promises[q]
  BY SettleChanges DEF Typed
<1>2. n = Len(promises) /\ n \in Nat /\ m \in Nat /\ base \in Seq(CallFrames(n, m)) /\ promises[p] \in PromiseObjects(n, m)
  BY JobsLength DEF Typed
<1>3. CASE promises[p].state # "pending"
  BY <1>1, <1>3
<1>4. CASE promises[p].state = "pending"
  <2>1. PICK frame : frame = FreshTrigger(p, promises[p].reactions)
    OBVIOUS
  <2>2. frame.kind = "trigger" /\ frame.promise = p /\ frame.todo = promises[p].reactions
    BY <2>1 DEF FreshTrigger, TriggerFrame
  <2>3. frame \in CallFrames(n, m)
    <3>1. promises[p].reactions \in Seq(Reactions(n, m))
      BY <1>2 DEF PromiseObjects
    <3> QED BY <2>1, <3>1, FreshFrames DEF Typed
  <2>4. promises[p].reactionJobs = <<>>
    <3>1. Tidy(promises[p])
      BY <1>2 DEF Sane
    <3> QED BY <1>4, <3>1 DEF Tidy
  <2>5. PICK r : r = SettledAs(promises[p], state, result)
    OBVIOUS
  <2>6. r.reactions = <<>> /\ r.reactionJobs = <<>>
    BY <1>2, <2>4, <2>5 DEF SettledAs, PromiseObjects
  <2>7. promises'[p] = r /\ stack' = Append(base, frame) /\ \A q \in 1..n : q # p => promises'[q] = promises[q]
    BY <1>1, <1>4, <2>1, <2>5
  <2>8. \A q : FlushedIn(stack', q) = FlushedIn(base, q)
    BY <1>2, <2>2, <2>3, <2>7, PushedFlush
  <2>9. Rests(base, promises, stack', promises', {p})
    BY <1>1, <1>2, <2>7, <2>8 DEF Rests, SameUses
  <2>10. InLine(queue, stack', promises'[p], p)
    <3>1. Blank(promises'[p])
      BY <2>6, <2>7 DEF Blank
    <3> QED BY <3>1, BlankLine
  <2>11. TodoLines(queue, stack', promises')
    <3>1. Lined(queue, promises[p].reactions, p)
      BY <1>2 DEF Order, InLine
    <3>2. TodoLine(queue, frame, promises')
      BY <2>2, <2>6, <2>7, <3>1 DEF TodoLine
    <3> QED BY <1>2, <2>3, <2>7, <3>2, TodoTop
  <2>12. \A q \in {p} : InLine(queue, stack', promises'[q], q)
    BY <2>10
  <2>13. Order(queue, stack', promises')
    BY <2>9, <2>11, <2>12, NoneMoves, OrderMoves
  <2> QED BY <1>1, <2>13
<1> QED BY <1>3, <1>4

\* A call of a resolving function on activations without a loop.
LEMMA CallOrder ==
  ASSUME NEW n, NEW m, NEW base, Typed(n, m, base), Sane(base, promises, pairs, queue),
         Order(queue, base, promises), Loopless(base), NEW c \in 1..m, NEW value \in Values(n),
         Resolving(c, value, base)
  PROVE  Order(queue', stack', promises')
<1>1. /\ n \in 0..MaxPromises /\ n \in Nat /\ pairs \in Seq(Pairs(n)) /\ m = Len(pairs) /\ n = Len(promises)
      /\ m \in Nat /\ base \in Seq(CallFrames(n, m))
  BY DEF Typed
<1>2. pairs[c].promise \in 1..n
  <2>1. pairs[c] \in Pairs(n)
    BY <1>1, ElementOfSeq
  <2> QED BY <2>1 DEF Pairs
<1>3. PICK q : q = pairs[c].promise
  OBVIOUS
<1>4. CASE stack' = base /\ UNCHANGED <<promises, queue>>
  BY <1>4
<1>5. ASSUME NEW state \in Settled, NEW result \in Values(n), Settle(q, state, result, base)
      PROVE  Order(queue', stack', promises')
  BY <1>2, <1>3, <1>5, SettleOrder
<1>6. CASE stack' = Append(base, GetThenFrame(q, value)) /\ UNCHANGED <<promises, queue>>
  <2>1. PICK frame : frame = GetThenFrame(q, value)
    OBVIOUS
  <2>2. frame.kind = "getThen"
    BY <2>1 DEF GetThenFrame
  <2>3. \A p : FlushedIn(Append(base, frame), p) = FlushedIn(base, p)
    <3>1. base \in Seq(CallFrames(n, m) \cup {frame}) /\ frame \in CallFrames(n, m) \cup {frame}
      BY <1>1
    <3> QED BY <2>2, <3>1, PushedFlush
  <2>4. Loopless(Append(base, frame))
    <3>1. ~HasTodo(frame)
      BY <2>2 DEF HasTodo
    <3> QED BY <1>1, <3>1, TodoTop, Zenon
  <2> QED BY <1>1, <1>6, <2>1, <2>3, <2>4, FramesMove
<1> QED BY <1>1, <1>3, <1>4, <1>5, <1>6, CallCases, Zenon

OrderInv == Order(queue, stack, promises)

LEMMA TopOrder ==
  ASSUME TypeInv, ReactionInv, OrderInv
  PROVE  /\ stack \in Seq(Frame) /\ Len(promises) \in Nat
         /\ running # "trigger" => Loopless(stack)
         /\ stack # <<>> => Loopless(Front(stack)) /\ Sane(Front(stack), promises, pairs, queue)
         /\ stack # <<>> /\ running # "flush" =>
              /\ Order(queue, Front(stack), promises)
              /\ \A p : FlushedIn(Front(stack), p) = FlushedIn(stack, p)
<1>1. stack \in Seq(Frame) /\ Len(promises) \in Nat
  BY TopFrame, StackTypes DEF TypeOK
<1>2. TodoLines(queue, stack, promises)
  BY DEF OrderInv, Order
<1>3. running # "trigger" => Loopless(stack)
  <2> HAVE running # "trigger"
  <2>1. stack = <<>> \/ ~HasTodo(Last(stack))
    BY TopFrame DEF HasTodo
  <2> QED BY <1>1, <1>2, <2>1, NoLoops
<1>4. stack # <<>> => Loopless(Front(stack)) /\ Sane(Front(stack), promises, pairs, queue)
  BY <1>1, <1>2, NoLoops, SanePop DEF ReactionInv
<1>5. ASSUME stack # <<>>, running # "flush"
      PROVE  /\ Order(queue, Front(stack), promises)
             /\ \A p : FlushedIn(Front(stack), p) = FlushedIn(stack, p)
  <2>1. Last(stack).kind # "flush"
    BY <1>5, TopFrame
  <2>2. \A p : FlushedIn(Front(stack), p) = FlushedIn(stack, p)
    BY <1>1, <1>5, <2>1, PoppedFlush
  <2>3. Order(queue, stack, promises)
    BY DEF OrderInv
  <2> QED BY <1>1, <1>4, <1>5, <2>2, <2>3, FramesMove
<1> QED BY <1>1, <1>3, <1>4, <1>5

\* An activation that is no loop begins.
LEMMA PushOrder ==
  ASSUME NEW jobs, NEW objects, NEW frames \in Seq(Frame), NEW frame \in Frame,
         frame.kind \notin {"trigger", "flush"}, Order(jobs, frames, objects), Loopless(frames),
         Len(objects) \in Nat
  PROVE  /\ Order(jobs, Append(frames, frame), objects) /\ Loopless(Append(frames, frame))
         /\ \A p : FlushedIn(Append(frames, frame), p) = FlushedIn(frames, p)
<1>1. frame.kind # "flush" /\ ~HasTodo(frame)
  BY DEF HasTodo
<1>2. \A p : FlushedIn(Append(frames, frame), p) = FlushedIn(frames, p)
  BY <1>1, PushedFlush
<1>3. Loopless(Append(frames, frame))
  BY <1>1, TodoTop
<1> QED BY <1>2, <1>3, FramesMove

LEMMA CallStepOrder ==
  ASSUME TypeInv, ReactionInv, OrderInv, CallStep
  PROVE  OrderInv'
<1>1. PICK n : n = Len(promises)
  BY Zenon
<1>2. PICK m : m = Len(pairs)
  BY Zenon
<1>3. PICK c \in 1..m, value \in Values(n), base \in Seq(Frame) :
        CallBase(base) /\ Resolving(c, value, base)
  BY <1>1, <1>2 DEF CallStep
<1>4. Ready(base) /\ Len(promises) \in Nat
  BY <1>1, <1>2, <1>3, BaseTypes, TopFrame
<1>5. Typed(n, m, base)
  BY <1>1, <1>2, <1>4, TypedBase
<1>6. Order(queue, base, promises) /\ Loopless(base) /\ Sane(base, promises, pairs, queue)
  <2>1. CASE Foreign /\ base = stack
    <3>1. running # "trigger"
      BY <2>1 DEF Foreign
    <3> QED BY <2>1, <3>1, TopOrder DEF OrderInv, ReactionInv
  <2>2. CASE running \in {"native", "handler", "thenable", "job"} /\ base = Front(stack)
    <3>1. stack # <<>>
      BY <2>2, TopFrame
    <3> QED BY <2>2, <3>1, TopOrder
  <2>3. ASSUME running = "job", NEW d \in 1..Len(pairs), base = Append(Front(stack), NativeFrame(d))
        PROVE  Order(queue, base, promises) /\ Loopless(base) /\ Sane(base, promises, pairs, queue)
    <3>1. stack # <<>> /\ Front(stack) \in Seq(Frame)
      BY <2>3, TopFrame, StackTypes
    <3>2. /\ Order(queue, Front(stack), promises) /\ Loopless(Front(stack))
          /\ Sane(Front(stack), promises, pairs, queue)
      BY <2>3, <3>1, TopOrder
    <3>3. PICK frame : frame = NativeFrame(d)
      OBVIOUS
    <3>4. frame.kind = "native" /\ frame \in Frame
      <4>1. d \in 1..MaxPairs
        BY <1>2, <1>5, TypesAreTypes, ConstantsAreApart DEF Typed
      <4> QED BY <3>3, <4>1 DEF NativeFrame, Frame
    <3>5. Saved(frame, promises, pairs)
      BY <3>4 DEF Saved
    <3>6. Sane(Append(Front(stack), frame), promises, pairs, queue)
      BY <3>1, <3>2, <3>4, <3>5, SanePush
    <3>7. Order(queue, Append(Front(stack), frame), promises) /\ Loopless(Append(Front(stack), frame))
      BY <1>4, <3>1, <3>2, <3>4, PushOrder
    <3> QED BY <2>3, <3>3, <3>6, <3>7
  <2> QED BY <1>3, <2>1, <2>2, <2>3 DEF CallBase
<1> QED BY <1>3, <1>5, <1>6, CallOrder DEF OrderInv

LEMMA QuietOrder ==
  ASSUME TypeInv, ReactionInv, OrderInv, QuietStep
  PROVE  OrderInv'
<1>1. UNCHANGED <<promises, queue>>
  BY DEF QuietStep
<1>2. CASE stack' = stack
  BY <1>1, <1>2 DEF OrderInv
<1>3. CASE stack # <<>> /\ stack' = Front(stack) /\ running # "flush"
  <2>1. Order(queue, Front(stack), promises)
    BY <1>3, TopOrder
  <2> QED BY <1>1, <1>3, <2>1 DEF OrderInv
<1>4. CASE Foreign /\ stack' = Append(stack, DrainFrame)
  <2>1. stack \in Seq(Frame) /\ Len(promises) \in Nat /\ Loopless(stack)
    BY <1>4, TopOrder DEF Foreign
  <2>2. PICK frame : frame = DrainFrame
    OBVIOUS
  <2>3. frame \in Frame /\ frame.kind \notin {"trigger", "flush"}
    BY <2>2 DEF DrainFrame, Frame
  <2>4. Order(queue, Append(stack, frame), promises)
    BY <2>1, <2>3, PushOrder DEF OrderInv
  <2> QED BY <1>1, <1>4, <2>2, <2>4 DEF OrderInv
<1>5. \/ stack' = stack
      \/ stack # <<>> /\ stack' = Front(stack) /\ running # "flush"
      \/ Foreign /\ stack' = Append(stack, DrainFrame)
  BY TopFrame DEF QuietStep
<1> QED BY <1>2, <1>3, <1>4, <1>5

LEMMA HandlerOrder ==
  ASSUME TypeInv, ReactionInv, OrderInv, HandlerStep
  PROVE  OrderInv'
<1>1. PICK d \in 1..Len(pairs) : stack' = Append(Front(stack), HandlerFrame(d))
  BY DEF HandlerStep
<1>2. running = "job" /\ UNCHANGED <<promises, queue>> /\ stack # <<>> /\ Front(stack) \in Seq(Frame)
  BY TopFrame, StackTypes DEF HandlerStep
<1>3. Order(queue, Front(stack), promises) /\ Loopless(Front(stack)) /\ Len(promises) \in Nat
  BY <1>2, TopOrder
<1>4. PICK frame : frame = HandlerFrame(d)
  OBVIOUS
<1>5. frame \in Frame /\ frame.kind \notin {"trigger", "flush"}
  <2>1. d \in 1..MaxPairs
    BY TopFrame, ConstantsAreApart
  <2> QED BY <1>4, <2>1 DEF HandlerFrame, Frame
<1>6. Order(queue, Append(Front(stack), frame), promises)
  BY <1>2, <1>3, <1>5, PushOrder
<1> QED BY <1>1, <1>2, <1>4, <1>6 DEF OrderInv

LEMMA StartOrder ==
  ASSUME TypeInv, ReactionInv, OrderInv, StartJob
  PROVE  OrderInv'
<1>1. PICK job : job = Head(queue)
  OBVIOUS
<1>2. PICK frame : frame = JobFrame(job)
  OBVIOUS
<1>3. /\ UNCHANGED promises /\ queue # <<>> /\ queue' = Tail(queue) /\ stack' = Append(stack, frame)
      /\ running = "drain"
  BY <1>1, <1>2 DEF StartJob, Engine, Running
<1>4. queue \in Seq(Job) /\ stack \in Seq(Frame) /\ Len(promises) \in Nat /\ Loopless(stack)
  BY <1>3, StackTypes, TopOrder DEF TypeOK
<1>5. NoneAhead(queue, Tail(queue))
  BY <1>3, <1>4, TailStays
<1>6. Order(Tail(queue), stack, promises)
  <2>1. Rests(stack, promises, stack, promises, {})
    BY <1>4 DEF Rests, SameUses
  <2>2. TodoLines(Tail(queue), stack, promises)
    BY <1>4, NoTodo
  <2>3. Order(queue, stack, promises)
    BY DEF OrderInv
  <2> QED BY <1>5, <2>1, <2>2, <2>3, OrderMoves
<1>7. frame \in Frame /\ frame.kind \notin {"trigger", "flush"}
  <2>1. job \in Job
    BY <1>1, <1>3, <1>4, HeadTailProperties
  <2> QED BY <1>2, <2>1 DEF JobFrame, Frame
<1>8. Order(Tail(queue), Append(stack, frame), promises)
  BY <1>4, <1>6, <1>7, PushOrder
<1> QED BY <1>3, <1>8 DEF OrderInv

LEMMA NewOrder ==
  ASSUME TypeInv, ReactionInv, OrderInv, NewPromise
  PROVE  OrderInv'
<1>1. PICK child : child = PendingPromise(TRUE, 0)
  BY Zenon
<1>2. PICK n \in Nat : n = Len(promises)
  BY TopFrame
<1>3. promises' = Append(promises, child) /\ UNCHANGED <<queue, stack>> /\ running # "trigger"
  BY <1>1 DEF NewPromise, ForeignCode, Foreign
<1>4. Blank(child)
  BY <1>1 DEF PendingPromise, Blank
<1>5. promises \in Seq(Promise)
  BY StackTypes DEF TypeOK
<1>6. Len(promises') = n + 1 /\ promises'[n + 1] = child /\ \A p \in 1..n : promises'[p] = promises[p]
  BY <1>2, <1>3, <1>5, AppendAny
<1>7. Rests(stack, promises, stack, promises', {})
  <2>1. \A p \in 1..Len(promises') : p \in 1..n \/ Blank(promises'[p])
    BY <1>2, <1>4, <1>6
  <2> QED BY <1>2, <1>6, <2>1 DEF Rests, SameUses
<1>8. TodoLines(queue, stack, promises')
  BY <1>3, TopOrder, NoTodo
<1>9. Order(queue, stack, promises')
  BY <1>7, <1>8, NoneMoves, OrderMoves DEF OrderInv
<1> QED BY <1>3, <1>9 DEF OrderInv

LEMMA UnwindsOrder ==
  ASSUME TypeInv, ReactionInv, OrderInv, Unwinds
  PROVE  OrderInv'
<1>1. /\ stack' = Front(stack) /\ queue' = queue /\ stack # <<>>
      /\ running \in {"getThen", "handler", "native", "thenable"} /\ running = Last(stack).kind
  BY TopFrame DEF Unwinds
<1>2. Order(queue, Front(stack), promises) /\ Loopless(Front(stack)) /\ Len(promises) \in Nat
  BY <1>1, TopOrder
<1>3. PICK q : promises' \in {promises, [promises EXCEPT ![q].lost = TRUE]}
  BY Zenon DEF Unwinds
<1>4. /\ Len(promises') = Len(promises)
      /\ \A p \in 1..Len(promises) : SameUses(promises[p], promises'[p])
  <2>1. PICK s \in Seq(Promise) : s = promises
    BY StackTypes DEF TypeOK
  <2>2. PICK changed : changed = [s EXCEPT ![q].lost = TRUE]
    BY Zenon
  <2>3. DOMAIN changed = DOMAIN s /\ DOMAIN s = 1..Len(s)
    BY <2>1, <2>2, LenProperties
  <2>4. Len(changed) = Len(s)
    BY <2>2, LenProperties, ExceptSeq
  <2>5. \A p \in 1..Len(s) : SameUses(s[p], changed[p])
    <3> TAKE p \in 1..Len(s)
    <3>1. s[p] \in Promise
      BY <2>1, ElementOfSeq
    <3>2. changed[p] = IF p = q THEN [s[p] EXCEPT !.lost = TRUE] ELSE s[p]
      BY <2>2, <2>3, Zenon
    <3> QED BY <3>1, <3>2 DEF SameUses, Promise
  <2>6. \A p \in 1..Len(s) : SameUses(s[p], s[p])
    BY DEF SameUses
  <2> QED BY <1>3, <2>1, <2>2, <2>4, <2>5, <2>6, Zenon
<1>5. Rests(Front(stack), promises, Front(stack), promises', {})
  BY <1>2, <1>4 DEF Rests
<1>6. TodoLines(queue, Front(stack), promises')
  BY <1>2, NoTodo
<1>7. Order(queue, Front(stack), promises')
  BY <1>2, <1>5, <1>6, NoneMoves, OrderMoves
<1> QED BY <1>1, <1>7 DEF OrderInv

\* A reaction job of promise p joins the queue, and nothing but its line changes.
LEMMA OrderJoins ==
  ASSUME NEW jobs, NEW frames, NEW objects, NEW more, NEW later, NEW changed, NEW p,
         Order(jobs, frames, objects), QueueLine(more),
         \A q, d : Before(jobs, q, d) /\ q # p => Before(more, q, d),
         TodoLines(more, later, changed), Rests(frames, objects, later, changed, {p}),
         InLine(more, later, changed[p], p)
  PROVE  Order(more, later, changed)
<1>1. ASSUME NEW q \in 1..Len(changed) PROVE InLine(more, later, changed[q], q)
  <2>1. CASE q = p
    BY <2>1
  <2>2. CASE q \notin 1..Len(objects)
    <3>1. Blank(changed[q])
      BY <2>2 DEF Rests
    <3> QED BY <3>1, BlankLine
  <2>3. CASE q \in 1..Len(objects) /\ q # p
    <3>1. SameUses(objects[q], changed[q]) /\ FlushedIn(later, q) = FlushedIn(frames, q)
      BY <2>3 DEF Rests
    <3>2. RestOf(later, changed[q], q) = RestOf(frames, objects[q], q)
      BY <3>1 DEF RestOf, SameUses
    <3>3. Lined(jobs, objects[q].reactions, q) /\ LinedJobs(jobs, RestOf(frames, objects[q], q), q)
      BY <2>3 DEF Order, InLine
    <3>4. \A d : Before(jobs, q, d) => Before(more, q, d)
      BY <2>3
    <3>5. Lined(more, objects[q].reactions, q)
      BY <3>3, <3>4 DEF Lined
    <3>6. LinedJobs(more, RestOf(frames, objects[q], q), q)
      BY <3>3, <3>4 DEF LinedJobs
    <3> QED BY <3>1, <3>2, <3>5, <3>6 DEF InLine, SameUses
  <2> QED BY <2>1, <2>2, <2>3
<1> QED BY <1>1 DEF Order

LEMMA GetThenOrder ==
  ASSUME TypeInv, ReactionInv, OrderInv, "scheduler" \notin jobHost, GetThenStep
  PROVE  OrderInv'
<1>1. PICK n : n = Len(promises)
  BY Zenon
<1>2. PICK m : m = Len(pairs)
  BY Zenon
<1>3. PICK frame : frame = Last(stack)
  OBVIOUS
<1>4. PICK base : base = Front(stack)
  OBVIOUS
<1>5. Engine("getThen")
  BY DEF GetThenStep, ThenThrows, ThenNotCallable, ThenCallable
<1>6. /\ stack # <<>> /\ frame.kind = "getThen" /\ frame \in CallFrames(n, m)
      /\ Ready(base) /\ n \in Nat /\ m \in Nat
  BY <1>1, <1>2, <1>3, <1>4, <1>5, TopFrame DEF Engine, Running
<1>7. PICK q : q = frame.promise
  OBVIOUS
<1>8. PICK value : value = frame.resolution
  OBVIOUS
<1>9. /\ q \in 1..n /\ value \in 0..n /\ value \in Values(n) /\ GuestError \in Values(n)
      /\ "fulfilled" \in Settled /\ "rejected" \in Settled
  BY <1>6, <1>7, <1>8, FrameFields DEF Values, Settled
<1>10. Typed(n, m, base)
  BY <1>1, <1>2, <1>6, TypedBase
<1>11. Sane(base, promises, pairs, queue) /\ Order(queue, base, promises) /\ Loopless(base)
  BY <1>4, <1>5, <1>6, TopOrder DEF Engine, Running
<1>12. ASSUME NEW state \in Settled, NEW result \in Values(n), Settle(q, state, result, base)
       PROVE  OrderInv'
  <2>1. Order(queue', stack', promises')
    BY <1>9, <1>10, <1>11, <1>12, SettleOrder
  <2> QED BY <2>1 DEF OrderInv
<1>13. ASSUME NEW intrinsic \in BOOLEAN, ThenCallable(intrinsic) PROVE OrderInv'
  <2>1. PICK job : job = ThenableJob(q, value, intrinsic)
    OBVIOUS
  <2>2. job.kind # "reaction"
    BY <2>1 DEF ThenableJob
  <2>3. queue' = Append(queue, job) /\ stack' = base
    BY <1>3, <1>4, <1>7, <1>8, <1>13, <2>1 DEF ThenCallable, Enqueue
  <2>4. PICK r : r = Following(promises[q], value)
    OBVIOUS
  <2>5. PICK changed : changed = [promises EXCEPT ![q] = r]
    BY Zenon
  <2>6. /\ promises \in Seq(PromiseObjects(n, m)) /\ queue \in Seq(Jobs(n, m))
        /\ promises[q] \in PromiseObjects(n, m) /\ q \in 1..Len(promises)
    BY <1>1, <1>9, <1>10, ElementOfSeq DEF Typed
  <2>7. r \in PromiseObjects(n, m) /\ SameUses(promises[q], r)
    <3>1. r \in PromiseObjects(n, m)
      BY ONLY <1>6, <1>9, <2>4, <2>6, RecordTypes, Zenon
    <3> QED BY <1>6, <2>4, <2>6, <3>1, FollowedTidy
  <2>8. Len(changed) = n /\ \A p \in 1..n : changed[p] = IF p = q THEN r ELSE promises[p]
    BY <1>1, <2>5, <2>6, <2>7, ExceptSeq
  <2>9. promises' = promises \/ promises' = changed
    BY <1>3, <1>7, <1>8, <1>13, <2>4, <2>5, <2>6, LenProperties DEF ThenCallable, Following
  <2>10. Rests(base, promises, base, promises', {})
    <3>1. Len(promises') = n /\ \A p \in 1..n : SameUses(promises[p], promises'[p])
      BY <1>1, <2>7, <2>8, <2>9 DEF SameUses
    <3> QED BY <1>1, <3>1 DEF Rests
  <2>11. NoneAhead(queue, queue')
    BY <2>2, <2>3, <2>6, OthersStay
  <2>12. TodoLines(queue', base, promises')
    BY <1>11, NoTodo
  <2>13. Order(queue', base, promises')
    BY <1>11, <2>10, <2>11, <2>12, OrderMoves
  <2> QED BY <2>3, <2>13 DEF OrderInv
<1> QED BY <1>3, <1>4, <1>7, <1>8, <1>9, <1>12, <1>13 DEF GetThenStep, ThenThrows, ThenNotCallable

\* A registration that is made is the last of all.
LEMMA NewestOfAll ==
  ASSUME NEW n, NEW m, NEW base, Typed(n, m, base), NEW d \in Nat, m < d
  PROVE  /\ \A p : Before(queue, p, d)
         /\ \A s \in Seq(Reactions(n, m)) : \A k \in 1..Len(s) : s[k].derived < d
         /\ \A s \in Seq(ReactionJobs(n, m)) : \A k \in 1..Len(s) : s[k].reaction.derived < d
<1>1. m \in Nat /\ queue \in Seq(Jobs(n, m))
  BY DEF Typed
<1>2. \A reaction \in Reactions(n, m) : reaction.derived < d
  <2> TAKE reaction \in Reactions(n, m)
  <2>1. reaction.derived \in 1..m
    BY DEF Reactions
  <2> QED BY <1>1, <2>1
<1>3. \A job \in ReactionJobs(n, m) : job.reaction.derived < d
  BY <1>2 DEF ReactionJobs
<1>4. \A job \in Jobs(n, m) : job.kind = "reaction" => job.reaction.derived < d
  BY <1>3 DEF Jobs, ReactionJobs, ThenableJobs
<1>5. \A p : Before(queue, p, d)
  BY <1>1, <1>4, ElementOfSeq DEF Before
<1> QED BY <1>2, <1>3, <1>5, ElementOfSeq

LEMMA RegisteringOrder ==
  ASSUME NEW n, NEW m, NEW base, NEW p, NEW handler, NEW before, NEW reachable,
         Registering(n, m, base, p, handler, before, reachable), "scheduler" \notin jobHost,
         Order(queue, base, promises), Loopless(base)
  PROVE  Order(queue', stack', promises')
<1>1. /\ n \in Nat /\ m \in Nat /\ promises[p] \in PromiseObjects(n, m) /\ Tidy(promises[p]) /\ p \in 1..n
      /\ Len(before) \in Nat
  BY RegisteredPairs
<1>2. /\ Typed(n, m, base) /\ n = Len(promises) /\ Flushes(base, promises) /\ m <= Len(before)
      /\ promises \in Seq(PromiseObjects(n, m)) /\ queue \in Seq(Jobs(n, m))
  BY DEF Registering, Typed, Sane
<1>3. base \in Seq(Frame)
  BY <1>2, ReactionTypes, SeqMonotonic DEF Typed
<1>4. PICK d : d = Len(before) + 1
  OBVIOUS
<1>5. PICK reaction : reaction = NewReaction(p, Len(before), handler)
  OBVIOUS
<1>6. PICK job : job = JobNow(p, reaction)
  OBVIOUS
<1>7. /\ reaction.source = p /\ reaction.derived = d /\ job.kind = "reaction" /\ job.reaction = reaction
      /\ d \in Nat /\ m < d
  BY <1>1, <1>2, <1>4, <1>5, <1>6 DEF NewReaction, JobNow, ReactionJob
<1>8. /\ \A q : Before(queue, q, d)
      /\ \A s \in Seq(Reactions(n, m)) : \A k \in 1..Len(s) : s[k].derived < d
      /\ \A s \in Seq(ReactionJobs(n, m)) : \A k \in 1..Len(s) : s[k].reaction.derived < d
  BY <1>2, <1>7, NewestOfAll, Zenon
<1>9. /\ promises[p].reactions \in Seq(Reactions(n, m))
      /\ promises[p].reactionJobs \in Seq(ReactionJobs(n, m))
      /\ FlushedIn(base, p) \in 0..Len(promises[p].reactionJobs)
      /\ RestOf(base, promises[p], p) \in Seq(ReactionJobs(n, m))
  BY <1>1, <1>2, UsesAreNumbers, Zenon
<1>10. /\ Lined(queue, promises[p].reactions, p) /\ LinedJobs(queue, RestOf(base, promises[p], p), p)
       /\ QueueLine(queue)
  BY <1>1, <1>2 DEF Order, InLine
<1>11. ASSUME \A q : q # p => FlushedIn(stack', q) = FlushedIn(base, q)
       PROVE  Rests(base, promises, stack', promises', {p})
  BY <1>11, ThenRests
<1>12. ASSUME queue' = queue, Loopless(stack'), Rests(base, promises, stack', promises', {p}),
              InLine(queue, stack', promises'[p], p)
       PROVE  Order(queue', stack', promises')
  <2>1. TodoLines(queue, stack', promises')
    BY <1>12, NoTodo
  <2>2. \A q \in {p} : InLine(queue, stack', promises'[q], q)
    BY <1>12
  <2>3. Order(queue, stack', promises')
    BY <1>12, <2>1, <2>2, NoneMoves, OrderMoves
  <2> QED BY <1>12, <2>3
<1>13. CASE /\ promises[p].state = "pending" /\ promises'[p] = Registered(promises[p], reaction)
            /\ stack' = base /\ queue' = queue
  <2>1. /\ promises'[p].reactions = Append(promises[p].reactions, reaction)
        /\ promises'[p].reactionJobs = promises[p].reactionJobs
    BY <1>1, <1>13, Zenon DEF Registered, PromiseObjects
  <2>2. RestOf(stack', promises'[p], p) = RestOf(base, promises[p], p)
    BY <1>13, <2>1 DEF RestOf
  <2>3. Lined(queue, Append(promises[p].reactions, reaction), p)
    BY <1>7, <1>8, <1>9, <1>10, LineGrows, Zenon
  <2>4. InLine(queue, stack', promises'[p], p)
    BY <1>10, <2>1, <2>2, <2>3 DEF InLine
  <2> QED BY <1>11, <1>12, <1>13, <2>4
<1>14. CASE promises[p].state = "fulfilled" /\ promises'[p] = promises[p] /\ Enqueue(job, base)
  <2>1. queue' = Append(queue, job) /\ stack' = base
    BY <1>14 DEF Enqueue
  <2>2. Blank(promises[p])
    BY <1>1, <1>14 DEF Tidy, Blank
  <2>3. InLine(queue', stack', promises'[p], p)
    BY <1>14, <2>2, BlankLine
  <2>4. /\ QueueLine(Append(queue, job))
        /\ \A q, e : Before(queue, q, e) /\ (q = p => d < e) => Before(Append(queue, job), q, e)
    <3>1. job.kind = "reaction" /\ p = job.reaction.source /\ d = job.reaction.derived /\ Before(queue, p, d)
      BY <1>7, <1>8
    <3> QED BY <1>2, <1>10, <3>1, QueueGrows
  <2>5. QueueLine(queue') /\ \A q, e : Before(queue, q, e) /\ q # p => Before(queue', q, e)
    BY <2>1, <2>4
  <2>6. TodoLines(queue', stack', promises')
    BY <2>1, NoTodo
  <2>7. Rests(base, promises, stack', promises', {p})
    BY <1>11, <2>1
  <2> QED BY <2>3, <2>5, <2>6, <2>7, OrderJoins
<1>15. CASE /\ promises[p].state = "rejected" /\ promises'[p] = HoldingBack(promises[p], job)
            /\ stack' = base /\ queue' = queue
  <2>1. /\ promises'[p].reactions = promises[p].reactions
        /\ promises'[p].reactionJobs = Append(promises[p].reactionJobs, job)
    BY <1>1, <1>15 DEF HoldingBack, PromiseObjects
  <2>2. RestOf(stack', promises'[p], p) = Append(RestOf(base, promises[p], p), job)
    <3>1. PICK k : k = FlushedIn(base, p)
      OBVIOUS
    <3>2. RestOf(stack', promises'[p], p) = SubSeq(promises'[p].reactionJobs, k + 1, Len(promises'[p].reactionJobs))
      BY <1>15, <3>1 DEF RestOf
    <3>3. RestOf(base, promises[p], p) = SubSeq(promises[p].reactionJobs, k + 1, Len(promises[p].reactionJobs))
      BY <3>1 DEF RestOf
    <3>4. k \in 0..Len(promises[p].reactionJobs)
      BY <1>9, <3>1
    <3>5. PICK jobs : jobs = promises[p].reactionJobs
      OBVIOUS
    <3>6. jobs \in Seq(ReactionJobs(n, m)) /\ k \in 0..Len(jobs)
      BY <1>9, <3>4, <3>5
    <3>7. SubSeq(Append(jobs, job), k + 1, Len(Append(jobs, job))) = Append(SubSeq(jobs, k + 1, Len(jobs)), job)
      BY ONLY <3>6, RestAppend, Zenon
    <3> QED BY <2>1, <3>2, <3>3, <3>5, <3>7, Zenon
  <2>3. PICK rest : rest = RestOf(base, promises[p], p)
    OBVIOUS
  <2>4. LinedJobs(queue, Append(rest, job), p)
    <3>1. /\ rest \in Seq(ReactionJobs(n, m)) /\ LinedJobs(queue, rest, p) /\ job.kind = "reaction"
          /\ job.reaction.source = p /\ Before(queue, p, job.reaction.derived)
          /\ \A k \in 1..Len(rest) : rest[k].reaction.derived < job.reaction.derived
      BY <1>7, <1>8, <1>9, <1>10, <2>3
    <3> QED BY <3>1, JobLineGrows, Zenon
  <2>5. InLine(queue, stack', promises'[p], p)
    BY <1>10, <2>1, <2>2, <2>3, <2>4 DEF InLine
  <2> QED BY <1>11, <1>12, <1>15, <2>5
<1>16. CASE /\ promises[p].state = "rejected" /\ ~Buffers(p)
            /\ promises'[p] = MarkedNow(p, Flushing(promises[p], job))
            /\ stack' = IF Tells(p) THEN Append(Append(base, FreshFlush(p)), TrackerFrame)
                                    ELSE Append(base, FreshFlush(p))
            /\ queue' = queue
  <2>1. PICK flush : flush = FreshFlush(p)
    OBVIOUS
  <2>2. PICK tracker : tracker = TrackerFrame
    OBVIOUS
  <2>3. /\ flush.kind = "flush" /\ flush.promise = p /\ flush.next = 1
        /\ tracker.kind = "tracker"
    BY <2>1, <2>2 DEF FreshFlush, FlushFrame, TrackerFrame
  <2>4. flush \in Frame /\ tracker \in Frame
    <3>1. flush \in CallFrames(n, m) /\ tracker \in CallFrames(n, m)
      BY <1>1, <2>1, <2>2, FreshFrames, FramesAreFrames
    <3> QED BY <1>2, <3>1, ReactionTypes DEF Typed
  <2>5. PICK once : once = Append(base, flush)
    BY Zenon
  <2>6. once \in Seq(Frame) /\ stack' \in {once, Append(once, tracker)}
    BY <1>3, <1>16, <2>1, <2>2, <2>4, <2>5, AppendProperties
  <2>7. Loopless(stack')
    <3>1. ~HasTodo(flush) /\ ~HasTodo(tracker)
      BY <2>3 DEF HasTodo
    <3>2. Loopless(once)
      BY <1>3, <2>5, <3>1, TodoTop, Zenon
    <3>3. Loopless(Append(once, tracker))
      BY <2>6, <3>1, <3>2, TodoTop, Zenon
    <3> QED BY <2>6, <3>2, <3>3, Zenon
  <2>8. \A q : FlushedIn(stack', q) = FlushedIn(once, q)
    <3>1. tracker.kind # "flush"
      BY <2>3
    <3>2. \A q : FlushedIn(Append(once, tracker), q) = FlushedIn(once, q)
      BY <2>4, <2>6, <3>1, PushedFlush
    <3> QED BY <2>6, <3>2, Zenon
  <2>9. \A q : q # p => FlushedIn(stack', q) = FlushedIn(base, q)
    <3> TAKE q
    <3> HAVE q # p
    <3>1. ~IsFlush(flush, q)
      BY <2>3 DEF IsFlush
    <3>2. FlushedIn(once, q) = FlushedIn(base, q)
      BY <1>3, <2>4, <2>5, <3>1, FlushedPush
    <3> QED BY <2>8, <3>2
  <2>10. FlushedIn(stack', p) = 0
    <3>1. IsFlush(flush, p) /\ Unflushed(base, p)
      BY <1>16, <2>3, ThenHarmless DEF IsFlush
    <3>2. FlushedIn(once, p) = flush.next - 1
      BY <1>3, <2>4, <2>5, <3>1, FlushedTop
    <3> QED BY <2>3, <2>8, <3>2
  <2>11. /\ promises'[p].reactions = promises[p].reactions /\ promises'[p].reactionJobs = <<job>>
    BY <1>1, <1>16 DEF MarkedNow, Marked, Reported, Flushing, PromiseObjects
  <2>12. RestOf(stack', promises'[p], p) = <<job>>
    <3>1. PICK jobs \in Seq({job}) : jobs = <<job>>
      <4>1. PICK none \in Seq({job}) : none = <<>>
        BY EmptySeq, Zenon
      <4>2. Append(none, job) \in Seq({job}) /\ Append(none, job) = <<job>>
        BY <4>1
      <4> QED BY <4>2, Zenon
    <3>2. Len(jobs) = 1 /\ jobs[1] = job
      BY <3>1
    <3>3. PICK slice : slice = SubSeq(jobs, 0 + 1, Len(jobs))
      OBVIOUS
    <3>4. /\ slice \in Seq({job}) /\ Len(slice) = Len(jobs) - 0
          /\ \A i \in 1..(Len(jobs) - 0) : slice[i] = jobs[0 + i]
      <4>1. 0 \in 0..Len(jobs)
        BY <3>2
      <4> QED BY <3>1, <3>3, <4>1, SliceTypes
    <3>5. slice = jobs
      BY <3>1, <3>2, <3>4, SeqEqual
    <3> QED BY <2>10, <2>11, <3>1, <3>3, <3>5, Zenon DEF RestOf
  <2>13. LinedJobs(queue, <<job>>, p)
    BY <1>7, <1>8 DEF LinedJobs
  <2>14. InLine(queue, stack', promises'[p], p)
    BY <1>10, <2>11, <2>12, <2>13 DEF InLine
  <2>15. Rests(base, promises, stack', promises', {p})
    BY <1>11, <2>9
  <2> QED BY <1>12, <1>16, <2>7, <2>14, <2>15
<1>17. \/ /\ promises[p].state = "pending" /\ promises'[p] = Registered(promises[p], reaction)
          /\ stack' = base /\ queue' = queue
       \/ promises[p].state = "fulfilled" /\ promises'[p] = promises[p] /\ Enqueue(job, base)
       \/ /\ promises[p].state = "rejected" /\ promises'[p] = HoldingBack(promises[p], job)
          /\ stack' = base /\ queue' = queue
       \/ /\ promises[p].state = "rejected" /\ ~Buffers(p)
          /\ promises'[p] = MarkedNow(p, Flushing(promises[p], job))
          /\ stack' = IF Tells(p) THEN Append(Append(base, FreshFlush(p)), TrackerFrame)
                                  ELSE Append(base, FreshFlush(p))
          /\ queue' = queue
  BY <1>5, <1>6 DEF Registering, ThenDone
<1> QED BY <1>13, <1>14, <1>15, <1>16, <1>17

LEMMA ThenOrder ==
  ASSUME TypeInv, ReactionInv, OrderInv, "scheduler" \notin jobHost, ThenStep
  PROVE  OrderInv'
<1>1. PICK n, m, p, handler : Registering(n, m, stack, p, handler, pairs, TRUE)
  BY ThenRegisters, Zenon
<1>2. Order(queue, stack, promises) /\ Loopless(stack)
  BY TopOrder DEF OrderInv, ThenStep, Foreign
<1>3. Order(queue', stack', promises')
  BY <1>1, <1>2, RegisteringOrder, Zenon
<1> QED BY <1>3 DEF OrderInv

LEMMA ThenableOrder ==
  ASSUME TypeInv, ReactionInv, OrderInv, "scheduler" \notin jobHost, RunThenable
  PROVE  OrderInv'
<1>1. PICK n : n = Len(promises)
  BY Zenon
<1>2. PICK m : m = Len(pairs)
  BY Zenon
<1>3. PICK job : job = Last(stack).job
  OBVIOUS
<1>4. PICK base : base = Front(stack)
  OBVIOUS
<1>5. PICK k : k = m + 1
  OBVIOUS
<1>6. /\ running = "job" /\ stack # <<>> /\ n \in Nat /\ m \in Nat /\ Len(promises) \in Nat
      /\ stack \in Seq(Frame) /\ base \in Seq(Frame)
  BY <1>1, <1>2, <1>4, TopFrame, StackTypes DEF TypeOK, RunThenable, Engine, Running
<1>7. Order(queue, base, promises) /\ Loopless(base)
  BY <1>4, <1>6, TopOrder
<1>8. CASE job.intrinsic
  <2>1. PICK a, b, p, handler, before : Registering(a, b, base, p, handler, before, FALSE)
    BY <1>3, <1>4, <1>8, ThenableRegisters, Zenon
  <2>2. Order(queue', stack', promises')
    BY <1>7, <2>1, RegisteringOrder, Zenon
  <2> QED BY <2>2 DEF OrderInv
<1>9. CASE ~job.intrinsic
  <2>1. PICK frame : frame = ThenableFrame(k)
    OBVIOUS
  <2>2. stack' = Append(base, frame) /\ UNCHANGED <<promises, queue>>
    BY <1>2, <1>3, <1>4, <1>5, <1>9, <2>1, Zenon DEF RunThenable
  <2>3. frame \in Frame /\ frame.kind \notin {"trigger", "flush"}
    <3>1. k \in 1..MaxPairs
      <4>1. Fits(1) /\ Hits(queue, Thenables) \in Nat
        BY ThenableOnTop, TopFrame
      <4>2. Len(pairs) + 2 * (Hits(queue, Thenables) + 1) <= MaxPairs
        BY <4>1 DEF Fits
      <4> QED BY <1>2, <1>5, <1>6, <4>1, <4>2, ConstantsAreApart
    <3> QED BY <2>1, <3>1 DEF ThenableFrame, Frame
  <2>4. Order(queue, Append(base, frame), promises)
    BY <1>6, <1>7, <2>3, PushOrder
  <2> QED BY <2>2, <2>4 DEF OrderInv
<1> QED BY <1>8, <1>9

\* The innermost loop over reactions: what it has still to enqueue comes next.
LEMMA LoopOrder ==
  ASSUME TypeInv, ReactionInv, OrderInv, NEW n, NEW m, NEW frame, NEW base, NEW q,
         Looping(n, m, frame, base, q)
  PROVE  /\ Order(queue, stack, promises) /\ Loopless(base)
         /\ frame.kind = "trigger" => Order(queue, base, promises)
         /\ HasTodo(frame) => TodoLine(queue, frame, promises)
<1>1. /\ stack # <<>> /\ base = Front(stack) /\ frame = Last(stack) /\ frame.kind = running
      /\ stack \in Seq(Frame)
  BY DEF Looping
<1>2. Loopless(base) /\ (frame.kind = "trigger" => Order(queue, base, promises))
  BY <1>1, TopOrder
<1>3. Last(stack) = stack[Len(stack)] /\ Len(stack) \in 1..Len(stack)
  BY <1>1, LastEntry
<1>4. HasTodo(frame) => TodoLine(queue, frame, promises)
  BY <1>1, <1>3 DEF OrderInv, Order, TodoLines
<1> QED BY <1>2, <1>4 DEF OrderInv

LEMMA TriggerNextOrder ==
  ASSUME TypeInv, Begun(stack, promises), ReactionInv, OrderInv, "scheduler" \notin jobHost, TriggerNext
  PROVE  OrderInv'
<1>1. running = "trigger"
  BY DEF TriggerNext, Engine, Running
<1>2. PICK n, m, frame, base, q : Looping(n, m, frame, base, q)
  BY <1>1, LoopsLoop
<1>3. PICK reaction : reaction = Head(frame.todo)
  OBVIOUS
<1>4. PICK job : job = ReactionJob(reaction, promises[q].state, promises[q].result)
  OBVIOUS
<1>5. PICK next : next = AfterTurn(frame)
  OBVIOUS
<1>6. PICK over : over = Append(base, next)
  BY Zenon
<1>7. /\ frame.todo # <<>> /\ frame.kind = "trigger"
      /\ Enqueue(job, over) /\ UNCHANGED promises
  BY <1>1, <1>2, <1>3, <1>4, <1>5, <1>6, Zenon DEF TriggerNext, AfterTurn, Looping
<1>8. /\ n \in Nat /\ m \in Nat /\ n = Len(promises) /\ n \in 0..MaxPromises /\ m \in 0..MaxPairs
      /\ frame \in CallFrames(n, m) /\ frame.todo \in Seq(Reactions(n, m)) /\ q = frame.promise
      /\ base \in Seq(Frame) /\ queue \in Seq(Jobs(n, m))
      /\ Sane(base, promises, pairs, queue) /\ q \in 1..n
  BY <1>2, <1>7, Zenon DEF Looping
<1>9. /\ next.kind = "trigger" /\ next.promise = q /\ next.todo = Tail(frame.todo) /\ next \in Frame
  <2>1. next.kind = "trigger" /\ next.promise = q /\ next.todo = Tail(frame.todo)
    BY <1>5, <1>8 DEF AfterTurn, TriggerFrame
  <2>2. next \in CallFrames(n, m)
    BY <1>5, <1>7, <1>8, LoopFrames
  <2> QED BY <1>8, <2>1, <2>2, TypesAreTypes
<1>10. job.kind = "reaction" /\ job.reaction = Head(frame.todo)
  BY <1>3, <1>4 DEF ReactionJob
<1>11. queue' = Append(queue, job) /\ stack' = over
  BY <1>7 DEF Enqueue
<1>12. /\ Order(queue, base, promises) /\ Loopless(base)
       /\ Lined(queue, frame.todo, q) /\ promises[q].reactionJobs = <<>>
  <2>1. HasTodo(frame)
    BY <1>7 DEF HasTodo
  <2> QED BY <1>2, <1>7, <1>8, <2>1, LoopOrder DEF TodoLine
<1>13. Blank(promises[q])
  <2>1. promises[q].state # "pending"
    <3>1. stack[Len(stack)] = frame /\ Len(stack) \in 1..Len(stack)
      BY <1>2, LastEntry, Zenon DEF Looping
    <3> QED BY <1>7, <1>8, <3>1 DEF Begun
  <2>2. Tidy(promises[q])
    BY <1>8 DEF Sane
  <2> QED BY <1>12, <2>1, <2>2 DEF Tidy, Blank
<1>14. /\ QueueLine(Append(queue, job)) /\ Lined(Append(queue, job), Tail(frame.todo), q)
       /\ \A p, e : Before(queue, p, e) /\ p # q => Before(Append(queue, job), p, e)
  <2>1. PICK todo : todo = frame.todo
    OBVIOUS
  <2>2. /\ queue \in Seq(Jobs(n, m)) /\ todo \in Seq(Reactions(n, m)) /\ todo # <<>>
        /\ QueueLine(queue) /\ Lined(queue, todo, q) /\ job.kind = "reaction" /\ job.reaction = Head(todo)
    BY <1>7, <1>8, <1>10, <1>12, <2>1 DEF Order
  <2>3. /\ QueueLine(Append(queue, job)) /\ Lined(Append(queue, job), Tail(todo), q)
        /\ job.reaction.source = q
        /\ \A p, e : Before(queue, p, e) /\ p # q => Before(Append(queue, job), p, e)
    BY ONLY <2>2, FirstJoins, Zenon
  <2> QED BY <2>1, <2>3
<1>15. TodoLines(queue', over, promises)
  <2>1. HasTodo(next) => TodoLine(queue', next, promises)
    BY <1>9, <1>11, <1>12, <1>14 DEF TodoLine
  <2> QED BY <1>6, <1>8, <1>9, <1>12, <2>1, TodoTop
<1>16. Rests(base, promises, over, promises, {q})
  <2>1. next.kind # "flush"
    BY <1>9
  <2>2. \A p : FlushedIn(over, p) = FlushedIn(base, p)
    BY <1>6, <1>8, <1>9, <2>1, PushedFlush
  <2> QED BY <1>8, <2>2 DEF Rests, SameUses
<1>17. InLine(queue', over, promises[q], q)
  BY <1>13, BlankLine
<1>18. QueueLine(queue') /\ \A p, e : Before(queue, p, e) /\ p # q => Before(queue', p, e)
  BY <1>11, <1>14
<1>19. Order(queue', over, promises)
  BY <1>12, <1>15, <1>16, <1>17, <1>18, OrderJoins
<1> QED BY <1>7, <1>11, <1>19 DEF OrderInv

LEMMA FlushNextOrder ==
  ASSUME TypeInv, ReactionInv, OrderInv, "scheduler" \notin jobHost, FlushNext
  PROVE  OrderInv'
<1>1. running = "flush"
  BY DEF FlushNext, Engine, Running
<1>2. PICK n, m, q, job, over, before : FlushTurn(n, m, q, job, over, before)
  BY FlushTurns
<1>3. PICK next : next.kind = "flush" /\ next \in Frame /\ over = Append(Front(stack), next)
  BY <1>2 DEF FlushTurn
<1>4. /\ q \in 1..n /\ n = Len(promises) /\ n \in Nat
      /\ promises[q].enqueueInProgress /\ Tidy(promises[q])
      /\ before = RestOf(stack, promises[q], q) /\ before \in Seq(ReactionJobs(n, m)) /\ before # <<>>
      /\ job = Head(before) /\ RestOf(over, promises[q], q) = Tail(before)
      /\ Enqueue(job, over) /\ UNCHANGED promises
      /\ \A p : p # q => FlushedIn(over, p) = FlushedIn(stack, p)
  BY <1>2 DEF FlushTurn
<1>5. queue' = Append(queue, job) /\ stack' = over
  BY <1>4 DEF Enqueue
<1>6. Order(queue, stack, promises) /\ Loopless(Front(stack)) /\ Front(stack) \in Seq(Frame)
  BY <1>1, TopFrame, TopOrder, StackTypes DEF OrderInv
<1>7. LinedJobs(queue, before, q) /\ QueueLine(queue)
  BY <1>4, <1>6 DEF Order, InLine
<1>8. /\ QueueLine(Append(queue, job)) /\ LinedJobs(Append(queue, job), Tail(before), q)
      /\ \A p, e : Before(queue, p, e) /\ p # q => Before(Append(queue, job), p, e)
  <2>1. queue \in Seq(Job)
    BY StackTypes DEF TypeOK
  <2> QED BY <1>4, <1>7, <2>1, FirstJobJoins
<1>9. promises[q].reactions = <<>>
  BY <1>4 DEF Tidy
<1>10. InLine(queue', over, promises[q], q)
  BY <1>4, <1>5, <1>8, <1>9, NoLine DEF InLine
<1>11. TodoLines(queue', over, promises)
  <2>1. ~HasTodo(next)
    BY <1>3 DEF HasTodo
  <2>2. Loopless(over)
    BY <1>3, <1>6, <2>1, TodoTop, Zenon
  <2> QED BY <2>2, NoTodo
<1>12. Rests(stack, promises, over, promises, {q})
  BY <1>4 DEF Rests, SameUses
<1>13. QueueLine(queue') /\ \A p, e : Before(queue, p, e) /\ p # q => Before(queue', p, e)
  BY <1>5, <1>8
<1>14. Order(queue', over, promises)
  BY <1>6, <1>10, <1>11, <1>12, <1>13, OrderJoins
<1> QED BY <1>4, <1>5, <1>14 DEF OrderInv

LEMMA TriggerReturnsOrder ==
  ASSUME TypeInv, ReactionInv, OrderInv, TriggerReturns
  PROVE  OrderInv'
<1>1. running = "trigger"
  BY DEF TriggerReturns, Engine, Running
<1>2. PICK n, m, frame, base, q : Looping(n, m, frame, base, q)
  BY <1>1, LoopsLoop
<1>3. PICK r : r = Reported(promises[q], "reject")
  OBVIOUS
<1>4. /\ n \in Nat /\ m \in Nat /\ frame.kind = "trigger" /\ q = frame.promise /\ q \in 1..n /\ n = Len(promises)
      /\ base \in Seq(Frame) /\ promises \in Seq(PromiseObjects(n, m))
      /\ promises[q] \in PromiseObjects(n, m) /\ frame = Last(stack) /\ base = Front(stack)
  BY <1>1, <1>2, Zenon DEF Looping
<1>5. Order(queue, base, promises) /\ Loopless(base)
  BY <1>2, <1>4, LoopOrder
<1>6. r \in PromiseObjects(n, m) /\ SameUses(promises[q], r)
  <2>1. "reject" \in {"reject", "handle"}
    OBVIOUS
  <2>2. r \in PromiseObjects(n, m)
    BY <1>3, <1>4, <2>1, RecordTypes
  <2> QED BY <1>3, <1>4, <2>2 DEF Reported, PromiseObjects, SameUses
<1>7. PICK tracker : tracker = TrackerFrame
  OBVIOUS
<1>8. /\ promises' \in {promises, [promises EXCEPT ![q] = r]} /\ queue' = queue
      /\ stack' \in {base, Append(base, tracker)}
  BY <1>3, <1>4, <1>7, LenProperties DEF TriggerReturns, Track, Reported
<1>9. Len(promises') = n /\ \A p \in 1..n : SameUses(promises[p], promises'[p])
  <2>1. PICK changed : changed = [promises EXCEPT ![q] = r]
    BY Zenon
  <2>2. Len(changed) = n /\ \A p \in 1..n : changed[p] = IF p = q THEN r ELSE promises[p]
    BY <1>4, <1>6, <2>1, ExceptSeq
  <2> QED BY <1>6, <1>8, <2>1, <2>2 DEF SameUses
<1>10. Order(queue, base, promises')
  <2>1. Rests(base, promises, base, promises', {})
    BY <1>4, <1>9 DEF Rests
  <2>2. TodoLines(queue, base, promises')
    BY <1>5, NoTodo
  <2> QED BY <1>5, <2>1, <2>2, NoneMoves, OrderMoves
<1>11. Order(queue, Append(base, tracker), promises')
  <2>1. tracker \in Frame /\ tracker.kind \notin {"trigger", "flush"}
    BY <1>7 DEF TrackerFrame, Frame
  <2>2. Len(promises') \in Nat
    BY <1>4, <1>9
  <2> QED BY <1>4, <1>5, <1>10, <2>1, <2>2, PushOrder
<1> QED BY <1>8, <1>10, <1>11, Zenon DEF OrderInv

LEMMA FlushEndsOrder ==
  ASSUME TypeInv, ReactionInv, OrderInv, FlushEnds
  PROVE  OrderInv'
<1>1. running = "flush"
  BY DEF FlushEnds, Engine, Running
<1>2. PICK n, m, frame, base, q : Looping(n, m, frame, base, q)
  BY <1>1, LoopsLoop
<1>3. PICK r : r = FlushedOut(promises[q])
  OBVIOUS
<1>4. /\ n \in Nat /\ m \in Nat /\ frame.kind = "flush" /\ q = frame.promise /\ q \in 1..n /\ n = Len(promises)
      /\ base \in Seq(Frame) /\ stack = Append(base, frame) /\ frame \in Frame
      /\ promises[q] \in PromiseObjects(n, m) /\ Sane(base, promises, pairs, queue) /\ Unflushed(base, q)
      /\ promises[q].enqueueInProgress /\ promises \in Seq(PromiseObjects(n, m))
      /\ frame = Last(stack) /\ base = Front(stack)
  BY <1>1, <1>2, Zenon DEF Looping
<1>5. Order(queue, stack, promises) /\ Loopless(base)
  BY <1>2, <1>4, LoopOrder
<1>6. promises' = [promises EXCEPT ![q] = r] /\ stack' = base /\ UNCHANGED queue
  BY <1>3, <1>4, LenProperties, Zenon DEF FlushEnds, FlushedOut
<1>7. r \in PromiseObjects(n, m) /\ Blank(r)
  <2>1. r \in PromiseObjects(n, m)
    BY <1>3, <1>4, RecordTypes
  <2>2. Tidy(promises[q])
    BY <1>4 DEF Sane
  <2> QED BY <1>3, <1>4, <2>1, <2>2, Zenon DEF FlushedOut, PromiseObjects, Tidy, Blank
<1>8. PICK changed : changed = [promises EXCEPT ![q] = r]
  BY Zenon
<1>9. Len(changed) = n /\ \A p \in 1..n : changed[p] = IF p = q THEN r ELSE promises[p]
  <2>1. PICK s : s = promises
    OBVIOUS
  <2>2. q \in 1..Len(s) /\ s \in Seq(PromiseObjects(n, m)) /\ r \in PromiseObjects(n, m)
    BY <1>4, <1>7, <2>1
  <2>3. changed = [s EXCEPT ![q] = r]
    BY <1>8, <2>1
  <2>4. Len(changed) = Len(s) /\ \A p \in 1..Len(s) : changed[p] = IF p = q THEN r ELSE s[p]
    BY ONLY <2>2, <2>3, ExceptSeq
  <2> QED BY <1>4, <2>1, <2>4
<1>10. Rests(stack, promises, base, changed, {q})
  <2>1. Atop(base, stack, q)
    <3>1. OnTop(base, frame, stack, q)
      BY <1>4 DEF OnTop
    <3> QED BY <1>4, <3>1, FlushOnTop
  <2> QED BY <1>4, <1>9, <2>1 DEF Rests, SameUses, Atop
<1>11. \A p \in {q} : InLine(queue, base, changed[p], p)
  BY <1>4, <1>7, <1>9, BlankLine
<1>12. TodoLines(queue, base, changed)
  BY <1>5, NoTodo
<1>13. Order(queue, base, changed)
  BY <1>5, <1>10, <1>11, <1>12, NoneMoves, OrderMoves
<1> QED BY <1>6, <1>8, <1>13 DEF OrderInv

LEMMA LoopErrorOrder ==
  ASSUME TypeInv, ReactionInv, OrderInv, LoopKeepsError
  PROVE  OrderInv'
<1>1. running \in {"trigger", "flush"}
  BY DEF LoopKeepsError, Running
<1>2. PICK n, m, frame, base, q, next : Looping(n, m, frame, base, q) /\ LoopErred(n, m, frame, base, next)
  BY LoopErrs
<1>3. /\ frame.kind \in {"trigger", "flush"} /\ q = frame.promise /\ n = Len(promises) /\ n \in Nat
      /\ base \in Seq(Frame) /\ stack = Append(base, frame) /\ frame \in Frame
  BY <1>1, <1>2 DEF Looping
<1>4. /\ next.kind = frame.kind /\ next.promise = frame.promise /\ next \in Frame
      /\ frame.kind = "trigger" => next.todo = frame.todo
      /\ frame.kind = "flush" => next.next = frame.next
      /\ stack' = Append(base, next) /\ UNCHANGED <<promises, queue>>
  BY <1>2 DEF LoopErred
<1>5. /\ Order(queue, stack, promises) /\ Loopless(base)
      /\ HasTodo(frame) => TodoLine(queue, frame, promises)
  BY <1>2, LoopOrder
<1>6. TodoLines(queue, stack', promises)
  <2>1. HasTodo(next) => TodoLine(queue, next, promises)
    BY <1>4, <1>5 DEF HasTodo, TodoLine
  <2> QED BY <1>3, <1>4, <1>5, <2>1, TodoTop
<1>7. \A p : FlushedIn(stack', p) = FlushedIn(stack, p)
  <2>1. CASE frame.kind = "trigger"
    <3>1. frame.kind # "flush" /\ next.kind # "flush"
      BY <1>4, <2>1
    <3>2. \A p : FlushedIn(Append(base, frame), p) = FlushedIn(base, p)
      BY <1>3, <3>1, PushedFlush
    <3>3. \A p : FlushedIn(Append(base, next), p) = FlushedIn(base, p)
      BY <1>3, <1>4, <3>1, PushedFlush
    <3> QED BY <1>3, <1>4, <3>2, <3>3
  <2>2. CASE frame.kind = "flush"
    <3>1. Unflushed(base, q)
      BY <1>2, <2>2 DEF Looping
    <3>2. OnTop(base, frame, stack, q) /\ OnTop(base, next, stack', q)
      BY <1>3, <1>4, <2>2, <3>1 DEF OnTop
    <3>3. FlushedIn(stack, q) = frame.next - 1 /\ Atop(base, stack, q)
      BY <1>3, <3>2, FlushOnTop
    <3>4. FlushedIn(stack', q) = next.next - 1 /\ Atop(base, stack', q)
      BY <1>3, <1>4, <3>2, FlushOnTop
    <3> QED BY <1>4, <2>2, <3>3, <3>4 DEF Atop
  <2> QED BY <1>3, <2>1, <2>2
<1>8. Rests(stack, promises, stack', promises, {})
  BY <1>3, <1>7 DEF Rests, SameUses
<1>9. Order(queue, stack', promises)
  BY <1>5, <1>6, <1>8, NoneMoves, OrderMoves
<1> QED BY <1>4, <1>9 DEF OrderInv

\* The host of a run stays the same.
LEMMA HostStays ==
  ASSUME TypeInv, Next
  PROVE  jobHost' = jobHost
<1>1. CASE NewPromise \/ CallStep \/ HandlerStep \/ ThenStep \/ RunThenable \/ StartJob
  BY <1>1, Zenon DEF NewPromise, CallStep, HandlerStep, ThenStep, RunThenable, StartJob
<1>2. CASE GetThenStep \/ Unwinds \/ QuietStep
  BY <1>2 DEF GetThenStep, ThenThrows, ThenNotCallable, ThenCallable, Unwinds, QuietStep
<1>3. CASE LoopStep
  BY <1>3 DEF LoopStep, TriggerNext, TriggerReturns, FlushNext, FlushEnds, LoopKeepsError
<1> QED BY <1>1, <1>2, <1>3, StepKinds

OrderKeeps == "scheduler" \notin jobHost => OrderInv

LEMMA OrderKept ==
  ASSUME TypeInv, Begun(stack, promises), ReactionInv, OrderKeeps, [Next]_vars
  PROVE  OrderKeeps'
<1>1. CASE UNCHANGED vars
  BY <1>1 DEF vars, OrderKeeps, OrderInv
<1>2. CASE Next
  <2> SUFFICES ASSUME "scheduler" \notin jobHost'
               PROVE  OrderInv'
    BY DEF OrderKeeps
  <2>1. "scheduler" \notin jobHost /\ OrderInv
    BY <1>2, HostStays DEF OrderKeeps
  <2>2. CASE NewPromise \/ CallStep \/ HandlerStep
    BY <2>1, <2>2, NewOrder, CallStepOrder, HandlerOrder
  <2>3. CASE ThenStep \/ RunThenable \/ StartJob
    BY <2>1, <2>3, ThenOrder, ThenableOrder, StartOrder
  <2>4. CASE GetThenStep \/ Unwinds \/ QuietStep
    BY <2>1, <2>4, GetThenOrder, UnwindsOrder, QuietOrder
  <2>5. CASE LoopStep
    <3>1. CASE TriggerNext \/ TriggerReturns
      BY <2>1, <3>1, TriggerNextOrder, TriggerReturnsOrder
    <3>2. CASE FlushNext \/ FlushEnds \/ LoopKeepsError
      BY <2>1, <3>2, FlushNextOrder, FlushEndsOrder, LoopErrorOrder
    <3> QED BY <2>5, <3>1, <3>2 DEF LoopStep
  <2> QED BY <1>2, <2>2, <2>3, <2>4, <2>5, StepKinds
<1> QED BY <1>1, <1>2

\* The four places where a reaction on p waits, in the order in which they empty.
InQueue(x, p) ==
  \E i \in 1..Len(queue) :
    /\ queue[i].kind = "reaction" /\ queue[i].reaction.source = p
    /\ x = <<1, i, 0, queue[i].reaction.derived>>
At(x, p, i, k) ==
  /\ stack[i].kind = "trigger" /\ stack[i].todo[k].source = p
  /\ x = <<2, i, k, stack[i].todo[k].derived>>
InLoop(x, p) ==
  \E i \in 1..Len(stack) : \E k \in 1..Len(stack[i].todo) : At(x, p, i, k)
InBuffer(x, rest) ==
  \E k \in 1..Len(rest) : x = <<3, k, 0, rest[k].reaction.derived>>
InRecord(x, reactions) ==
  \E k \in 1..Len(reactions) : x = <<4, k, 0, reactions[k].derived>>
Placed(x, p, rest) ==
  InQueue(x, p) \/ InLoop(x, p) \/ InBuffer(x, rest) \/ InRecord(x, promises[p].reactions)

LEMMA WaitingPlaces ==
  ASSUME NEW p, NEW rest, rest = Buffered(p), NEW x \in Waiting(p)
  PROVE  Placed(x, p, rest)
<1> DEFINE queued == {i \in 1..Len(queue) : queue[i].kind = "reaction" /\ queue[i].reaction.source = p}
           loops  == {i \in 1..Len(stack) : stack[i].kind = "trigger"}
           todo(i) == {k \in 1..Len(stack[i].todo) : stack[i].todo[k].source = p}
           A == {<<1, i, 0, queue[i].reaction.derived>> : i \in queued}
           B == UNION {{<<2, i, k, stack[i].todo[k].derived>> : k \in todo(i)} : i \in loops}
           C == {<<3, k, 0, Buffered(p)[k].reaction.derived>> : k \in 1..Len(Buffered(p))}
           D == {<<4, k, 0, promises[p].reactions[k].derived>> : k \in 1..Len(promises[p].reactions)}
<1>1. Waiting(p) = A \cup B \cup C \cup D
  BY DEF Waiting
<1>2. x \in A => InQueue(x, p)
  BY DEF InQueue
<1>3. x \in B => InLoop(x, p)
  BY DEF InLoop, At
<1>4. x \in C => InBuffer(x, rest)
  BY DEF InBuffer
<1>5. x \in D => InRecord(x, promises[p].reactions)
  BY DEF InRecord
<1> HIDE DEF A, B, C, D
<1>6. x \in A \/ x \in B \/ x \in C \/ x \in D
  BY <1>1
<1> QED BY <1>2, <1>3, <1>4, <1>5, <1>6 DEF Placed

\* Precedence is lexicographic.
LEMMA PrecedesMeans ==
  ASSUME NEW a, NEW b, NEW c, NEW d, NEW e, NEW f, NEW g, NEW h,
         Precedes(<<a, b, c, d>>, <<e, f, g, h>>)
  PROVE  a < e \/ (a = e /\ (b < f \/ (b = f /\ c < g)))
<1>1. PICK x, y : x = <<a, b, c, d>> /\ y = <<e, f, g, h>>
  OBVIOUS
<1>2. x[1] = a /\ x[2] = b /\ x[3] = c /\ y[1] = e /\ y[2] = f /\ y[3] = g
  BY <1>1
<1>3. PICK n \in 1..3 : x[n] < y[n] /\ \A k \in 1..(n - 1) : x[k] = y[k]
  BY <1>1 DEF Precedes
<1>4. CASE n = 1
  BY <1>2, <1>3, <1>4
<1>5. CASE n = 2
  <2>1. 1 \in 1..(n - 1)
    BY <1>5
  <2> QED BY <1>2, <1>3, <1>5, <2>1
<1>6. CASE n = 3
  <2>1. 1 \in 1..(n - 1) /\ 2 \in 1..(n - 1)
    BY <1>6
  <2> QED BY <1>2, <1>3, <1>6, <2>1
<1> QED BY <1>3, <1>4, <1>5, <1>6

\* One place at a time holds the reactions on p that are not in the queue.
Apart(p, rest, reactions) ==
  /\ QueueLine(queue) /\ LinedJobs(queue, rest, p) /\ Lined(queue, reactions, p)
  /\ \A i \in 1..Len(stack) : \A k \in 1..Len(stack[i].todo) :
       stack[i].kind = "trigger" /\ stack[i].todo[k].source = p =>
         /\ i = Len(stack) /\ Lined(queue, stack[i].todo, p)
         /\ Len(rest) = 0 /\ Len(reactions) = 0
  /\ Len(rest) = 0 \/ Len(reactions) = 0

LEMMA PlacesApart ==
  ASSUME TypeInv, Begun(stack, promises), ReactionInv, OrderInv, NEW p \in 1..Len(promises),
         NEW rest, rest = RestOf(stack, promises[p], p), NEW reactions, reactions = promises[p].reactions
  PROVE  Apart(p, rest, reactions)
<1>1. PICK n : n = Len(promises)
  OBVIOUS
<1>2. PICK m : m = Len(pairs)
  BY Zenon
<1>3. /\ n \in Nat /\ m \in Nat /\ promises \in Seq(PromiseObjects(n, m)) /\ stack \in Seq(Frame)
      /\ Flushes(stack, promises) /\ \A q \in 1..n : Tidy(promises[q])
  <2>1. n \in Nat /\ m \in Nat /\ stack \in Seq(Frame)
    BY <1>1, <1>2, TopFrame, StackTypes DEF TypeOK
  <2>2. promises \in Seq(PromiseObjects(n, m))
    BY <1>1, <1>2, TopFrame DEF Ready
  <2> QED BY <1>1, <2>1, <2>2 DEF ReactionInv, Sane
<1>4. PICK jobs : jobs = promises[p].reactionJobs
  OBVIOUS
<1>5. /\ reactions \in Seq(Reactions(n, m)) /\ jobs \in Seq(ReactionJobs(n, m))
      /\ FlushedIn(stack, p) \in 0..Len(jobs) /\ Len(jobs) \in Nat
  BY <1>1, <1>3, <1>4, UsesAreNumbers, Zenon
<1>6. Len(rest) = Len(jobs) - FlushedIn(stack, p)
  BY <1>4, <1>5, SliceTypes DEF RestOf
<1>7. jobs = <<>> => Len(rest) = 0
  BY <1>5, <1>6, EmptySeq
<1>8. reactions = <<>> => Len(reactions) = 0
  BY EmptySeq
<1>9. Tidy(promises[p])
  BY <1>1, <1>3
<1>10. Len(rest) = 0 \/ Len(reactions) = 0
  BY <1>4, <1>7, <1>8, <1>9 DEF Tidy
<1>11. /\ QueueLine(queue) /\ LinedJobs(queue, rest, p) /\ Lined(queue, reactions, p)
       /\ TodoLines(queue, stack, promises)
  BY DEF OrderInv, Order, InLine
<1>12. ASSUME NEW i \in 1..Len(stack), NEW k \in 1..Len(stack[i].todo),
              stack[i].kind = "trigger", stack[i].todo[k].source = p
       PROVE  /\ i = Len(stack) /\ Lined(queue, stack[i].todo, p)
              /\ Len(rest) = 0 /\ Len(reactions) = 0
  <2>1. stack[i].todo # <<>>
    BY <1>12, EmptySeq
  <2>2. i = Len(stack) /\ TodoLine(queue, stack[i], promises)
    BY <1>11, <1>12, <2>1 DEF TodoLines, HasTodo
  <2>3. stack[i].promise = p
    BY <1>12, <2>2, Zenon DEF TodoLine, Lined
  <2>4. jobs = <<>> /\ Lined(queue, stack[i].todo, p)
    BY <1>4, <2>2, <2>3 DEF TodoLine
  <2>5. promises[p].state # "pending"
    BY <1>12, <2>3, Zenon DEF Begun
  <2> QED BY <1>7, <1>8, <1>9, <2>2, <2>4, <2>5 DEF Tidy
<1> QED BY <1>10, <1>11, <1>12 DEF Apart

LEMMA OrderOfRegistration ==
  ASSUME TypeInv, Begun(stack, promises), ReactionInv, OrderInv
  PROVE  RegistrationOrder
<1> SUFFICES ASSUME NEW p \in 1..Len(promises), NEW x \in Waiting(p), NEW y \in Waiting(p), Precedes(x, y)
             PROVE  x[4] < y[4]
  BY DEF RegistrationOrder
<1>1. PICK rest : rest = RestOf(stack, promises[p], p)
  OBVIOUS
<1>2. PICK reactions : reactions = promises[p].reactions
  OBVIOUS
<1>3. rest = Buffered(p)
  BY <1>1 DEF Buffered, Flushed, RestOf, FlushedIn
<1>4. /\ InQueue(x, p) \/ InLoop(x, p) \/ InBuffer(x, rest) \/ InRecord(x, reactions)
      /\ InQueue(y, p) \/ InLoop(y, p) \/ InBuffer(y, rest) \/ InRecord(y, reactions)
  BY <1>2, <1>3, WaitingPlaces DEF Placed
<1>5. Apart(p, rest, reactions)
  BY <1>1, <1>2, PlacesApart
<1>6. CASE InQueue(x, p)
  <2>1. PICK i \in 1..Len(queue) :
          /\ queue[i].kind = "reaction" /\ queue[i].reaction.source = p
          /\ x = <<1, i, 0, queue[i].reaction.derived>>
    BY <1>6 DEF InQueue
  <2>2. \A d : Before(queue, p, d) => x[4] < d
    BY <2>1 DEF Before
  <2>3. CASE InQueue(y, p)
    <3>1. PICK j \in 1..Len(queue) :
            /\ queue[j].kind = "reaction" /\ queue[j].reaction.source = p
            /\ y = <<1, j, 0, queue[j].reaction.derived>>
      BY <2>3 DEF InQueue
    <3>2. i < j
      BY <2>1, <3>1, PrecedesMeans
    <3> QED BY <1>5, <2>1, <3>1, <3>2 DEF Apart, QueueLine
  <2>4. CASE InLoop(y, p)
    BY <1>5, <2>2, <2>4 DEF InLoop, At, Apart, Lined
  <2>5. CASE InBuffer(y, rest)
    BY <1>5, <2>2, <2>5 DEF InBuffer, Apart, LinedJobs
  <2>6. CASE InRecord(y, reactions)
    BY <1>5, <2>2, <2>6 DEF InRecord, Apart, Lined
  <2> QED BY <1>4, <2>3, <2>4, <2>5, <2>6
<1>7. CASE InLoop(x, p)
  <2> PICK i \in 1..Len(stack) : \E k \in 1..Len(stack[i].todo) : At(x, p, i, k)
    BY <1>7 DEF InLoop
  <2> PICK k \in 1..Len(stack[i].todo) : At(x, p, i, k)
    OBVIOUS
  <2>1. /\ stack[i].kind = "trigger" /\ stack[i].todo[k].source = p
        /\ x = <<2, i, k, stack[i].todo[k].derived>>
    BY DEF At
  <2>2. i = Len(stack) /\ Lined(queue, stack[i].todo, p) /\ Len(rest) = 0 /\ Len(reactions) = 0
    BY <1>5, <2>1 DEF Apart
  <2>3. ~InQueue(y, p)
    BY <2>1, PrecedesMeans DEF InQueue
  <2>4. ~InBuffer(y, rest) /\ ~InRecord(y, reactions)
    BY <2>2 DEF InBuffer, InRecord
  <2> PICK j \in 1..Len(stack) : \E l \in 1..Len(stack[j].todo) : At(y, p, j, l)
    BY <1>4, <2>3, <2>4 DEF InLoop
  <2> PICK l \in 1..Len(stack[j].todo) : At(y, p, j, l)
    OBVIOUS
  <2>5. /\ stack[j].kind = "trigger" /\ stack[j].todo[l].source = p
        /\ y = <<2, j, l, stack[j].todo[l].derived>>
    BY Zenon DEF At
  <2>6. j = i
    BY <1>5, <2>2, <2>5 DEF Apart
  <2>7. k < l
    BY <2>1, <2>5, <2>6, PrecedesMeans
  <2> QED BY <2>1, <2>2, <2>5, <2>6, <2>7, Zenon DEF Lined
<1>8. CASE InBuffer(x, rest)
  <2>1. PICK k \in 1..Len(rest) : x = <<3, k, 0, rest[k].reaction.derived>>
    BY <1>8 DEF InBuffer
  <2>2. ~InQueue(y, p) /\ ~InLoop(y, p)
    <3>1. ~InQueue(y, p)
      BY <2>1, PrecedesMeans DEF InQueue
    <3>2. ~InLoop(y, p)
      BY <2>1, PrecedesMeans DEF InLoop, At
    <3> QED BY <3>1, <3>2
  <2>3. ~InRecord(y, reactions)
    BY <1>5, <2>1 DEF InRecord, Apart
  <2>4. PICK l \in 1..Len(rest) : y = <<3, l, 0, rest[l].reaction.derived>>
    BY <1>4, <2>2, <2>3 DEF InBuffer
  <2>5. k < l
    BY <2>1, <2>4, PrecedesMeans
  <2> QED BY <1>5, <2>1, <2>4, <2>5 DEF Apart, LinedJobs
<1>9. CASE InRecord(x, reactions)
  <2>1. PICK k \in 1..Len(reactions) : x = <<4, k, 0, reactions[k].derived>>
    BY <1>9 DEF InRecord
  <2>2. ~InQueue(y, p)
    BY <2>1, PrecedesMeans DEF InQueue
  <2>3. ~InLoop(y, p)
    BY <2>1, PrecedesMeans DEF InLoop, At
  <2>4. ~InBuffer(y, rest)
    BY <2>1, PrecedesMeans DEF InBuffer
  <2>5. PICK l \in 1..Len(reactions) : y = <<4, l, 0, reactions[l].derived>>
    BY <1>4, <2>2, <2>3, <2>4 DEF InRecord
  <2>6. k < l
    BY <2>1, <2>5, PrecedesMeans
  <2> QED BY <1>5, <2>1, <2>5, <2>6 DEF Apart, Lined
<1> QED BY <1>4, <1>6, <1>7, <1>8, <1>9

\* Reactions are run once, whatever throws or calls back, and where no scheduler
\* drains the queue in between also in the order of their registration.
THEOREM ReactionsRunInOrder == Spec => []ReactionsRunOnceInOrder
<1>1. Init => OrderKeeps
  <2>1. Init => Len(promises) = 0 /\ Len(queue) = 0 /\ Len(stack) = 0
    BY DEF Init
  <2> QED BY <2>1 DEF OrderKeeps, OrderInv, Order, QueueLine, TodoLines
<1>2. Init => RoutesAreSingle /\ ReactionInv
  <2>1. Init => Len(promises) = 0 /\ Len(pairs) = 0 /\ Len(queue) = 0 /\ Len(stack) = 0
    BY DEF Init
  <2> QED BY <2>1 DEF RoutesAreSingle, ReactionInv, Sane, Flushes, Balanced
<1>3. /\ TypeInv /\ Begun(stack, promises) /\ RoutesAreSingle /\ ReactionInv /\ OrderKeeps /\ [Next]_vars
      => RoutesAreSingle' /\ ReactionInv' /\ OrderKeeps'
  BY RoutesKept, ReactionKept, OrderKept
<1>4. TypeInv /\ Begun(stack, promises) /\ ReactionInv /\ OrderKeeps => OrderIsKeptWithoutScheduler
  BY OrderOfRegistration DEF OrderKeeps, OrderIsKeptWithoutScheduler
<1>5. EveryReactionRunsOnce /\ OrderIsKeptWithoutScheduler => ReactionsRunOnceInOrder
  BY DEF ReactionsRunOnceInOrder
<1> QED BY <1>1, <1>2, <1>3, <1>4, <1>5, ReactionsRunOnce, TypesAlways, PTL DEF Spec
=============================================================================
