--------------------------- MODULE AdoptionProofs ---------------------------
(***************************************************************************)
(* What TLAPS proves of adoption in Promises: a promise that follows       *)
(* another is settled after it and like it.                                *)
(*                                                                         *)
(* The argument: as long as a promise is bound to repeat a settlement, the *)
(* only pair that can settle it is used by a reaction of the promise it    *)
(* follows, and by nothing else: the program does not hold it, no handler  *)
(* runs for it and no other reaction names it.                             *)
(***************************************************************************)
EXTENDS PromisesProofs

-----------------------------------------------------------------------------
(* The invariant, of promises `objects` and pairs `couples` *)

\* Promise p waits to repeat the settlement of the promise it follows.
Bound(p, objects) ==
  LET q == objects[p].follows IN
  /\ objects[p].state = "pending" /\ q # 0
  /\ objects[q].state # "pending" => ~IsObject(objects[q].result)

\* A settlement of promise p like that of the promise it follows.
Repeats(p, state, result, objects) ==
  LET q == objects[p].follows IN
  q # 0 => /\ objects[q].state # "pending"
           /\ ~IsObject(objects[q].result) =>
                state = objects[q].state /\ result = objects[q].result

\* Pair c can settle a promise that is bound, to the promise `Leader(c)`.
Tied(c, objects, couples) ==
  ~couples[c].alreadyResolved /\ Bound(couples[c].promise, objects)
Leader(c, objects, couples) == objects[couples[c].promise].follows

\* Such a pair is used by a reaction of that promise alone.
Loyal(reaction, objects, couples) ==
  /\ Tied(reaction.derived, objects, couples) =>
       /\ reaction.handler = NoHandler
       /\ reaction.source = Leader(reaction.derived, objects, couples)
  /\ reaction.handler \notin {NoHandler, Program} /\ Tied(reaction.handler, objects, couples) =>
       reaction.source = Leader(reaction.handler, objects, couples)
LoyalJob(job, objects, couples) ==
  /\ job.kind = "reaction" =>
       /\ Loyal(job.reaction, objects, couples)
       /\ objects[job.reaction.source].state = job.type
       /\ objects[job.reaction.source].result = job.argument
  /\ job.kind = "thenable" /\ Bound(job.promise, objects) =>
       job.intrinsic /\ job.thenable = objects[job.promise].follows

LoyalReactions(reactions, p, objects, couples) ==
  \A i \in 1..Len(reactions) :
    reactions[i].source = p /\ Loyal(reactions[i], objects, couples)
LoyalJobs(jobs, objects, couples) ==
  \A i \in 1..Len(jobs) : LoyalJob(jobs[i], objects, couples)

\* No activation settles a bound promise on its own account.
LoyalFrame(frame, objects, couples) ==
  /\ frame.kind \in {"handler", "native", "thenable"} => ~Tied(frame.pair, objects, couples)
  /\ frame.kind = "getThen" => ~Bound(frame.promise, objects)
  /\ frame.kind = "trigger" => LoyalReactions(frame.todo, frame.promise, objects, couples)
  /\ frame.kind = "job" => LoyalJob(frame.job, objects, couples)
LoyalFrames(frames, objects, couples) ==
  \A i \in 1..Len(frames) : LoyalFrame(frames[i], objects, couples)

LoyalPromise(p, objects, couples) ==
  /\ LoyalReactions(objects[p].reactions, p, objects, couples)
  /\ LoyalJobs(objects[p].reactionJobs, objects, couples)
  /\ objects[p].state = "rejected" => objects[p].result = GuestError
  /\ objects[p].state # "pending" => Repeats(p, objects[p].state, objects[p].result, objects)

Loyalty(frames) ==
  /\ \A p \in 1..Len(promises) : LoyalPromise(p, promises, pairs)
  /\ \A c \in 1..Len(pairs) : pairs[c].exposed => ~Tied(c, promises, pairs)
  /\ LoyalJobs(queue, promises, pairs)
  /\ LoyalFrames(frames, promises, pairs)

-----------------------------------------------------------------------------
(* What stays loyal *)

\* No pair becomes tied, and no promise bound but perhaps e.
TiesLoosen ==
  \A c \in 1..Len(pairs) : Tied(c, promises', pairs') =>
    /\ Tied(c, promises, pairs)
    /\ Leader(c, promises', pairs') = Leader(c, promises, pairs)
BoundsLoosen(e) ==
  \A p \in 1..Len(promises) : p # e /\ Bound(p, promises') =>
    Bound(p, promises) /\ promises'[p].follows = promises[p].follows
Loosens(e) == Keeps /\ TiesLoosen /\ BoundsLoosen(e)

LEMMA BoundsLast ==
  ASSUME NEW n \in Nat, NEW m \in Nat, n = Len(promises), promises \in Seq(PromiseObjects(n, m)),
         Keeps, NEW p \in 1..n, promises'[p].follows = promises[p].follows, Bound(p, promises')
  PROVE  Bound(p, promises)
<1>1. promises[p] \in PromiseObjects(n, m)
  BY ElementOfSeq
<1>2. PICK q : q = promises[p].follows
  OBVIOUS
<1>3. promises[p].follows \in 0..n
  BY <1>1 DEF PromiseObjects
<1>4. promises[p].state = "pending" /\ q # 0
  BY <1>2 DEF Bound, Keeps
<1>5. q \in 1..n
  BY <1>2, <1>3, <1>4
<1>6. promises[q].state # "pending" => ~IsObject(promises[q].result)
  BY <1>2, <1>5 DEF Bound, Keeps
<1> QED BY <1>2, <1>4, <1>6 DEF Bound

\* Pairs keep their promise and, once used, stay so.
PairsKeep ==
  \A c \in 1..Len(pairs) :
    /\ pairs'[c].promise = pairs[c].promise /\ pairs'[c].exposed = pairs[c].exposed
    /\ pairs[c].alreadyResolved => pairs'[c].alreadyResolved

LEMMA LooseAsBefore ==
  ASSUME NEW n \in Nat, NEW m \in Nat, n = Len(promises), m = Len(pairs),
         promises \in Seq(PromiseObjects(n, m)), pairs \in Seq(Pairs(n)), Keeps, PairsKeep,
         \A p \in 1..n : promises'[p].follows = promises[p].follows
  PROVE  \A e : Loosens(e)
<1>1. \A p \in 1..n : Bound(p, promises') => Bound(p, promises)
  BY BoundsLast
<1>2. ASSUME NEW c \in 1..m, Tied(c, promises', pairs')
      PROVE  /\ Tied(c, promises, pairs)
             /\ Leader(c, promises', pairs') = Leader(c, promises, pairs)
  <2>1. pairs[c] \in Pairs(n)
    BY ElementOfSeq
  <2>2. pairs[c].promise \in 1..n
    BY <2>1 DEF Pairs
  <2> QED BY <1>1, <1>2, <2>2 DEF Tied, Leader, PairsKeep
<1>3. TiesLoosen
  BY <1>2 DEF TiesLoosen
<1> QED BY <1>1, <1>3 DEF Loosens, BoundsLoosen

LEMMA ReactionStaysLoyal ==
  ASSUME NEW n \in Nat, NEW m \in Nat, m = Len(pairs), TiesLoosen,
         NEW reaction \in Reactions(n, m), Loyal(reaction, promises, pairs)
  PROVE  Loyal(reaction, promises', pairs')
<1>1. /\ reaction.derived \in 1..m
      /\ reaction.handler \notin {NoHandler, Program} => reaction.handler \in 1..m
  BY DEF Reactions
<1> QED BY <1>1 DEF Loyal, TiesLoosen

LEMMA ReactionsStayLoyal ==
  ASSUME NEW n \in Nat, NEW m \in Nat, m = Len(pairs), TiesLoosen, NEW p,
         NEW reactions \in Seq(Reactions(n, m)), LoyalReactions(reactions, p, promises, pairs)
  PROVE  LoyalReactions(reactions, p, promises', pairs')
<1>1. \A i \in 1..Len(reactions) : reactions[i] \in Reactions(n, m)
  BY ElementOfSeq
<1> QED BY <1>1, ReactionStaysLoyal DEF LoyalReactions

\* The thenable job of the promise that becomes bound.
Exempt(job, e) == job.kind = "thenable" /\ job.promise = e

LEMMA JobStaysLoyal ==
  ASSUME NEW n \in Nat, NEW m \in Nat, n = Len(promises), m = Len(pairs), NEW e, Loosens(e),
         NEW job \in Jobs(n, m), ~Exempt(job, e), LoyalJob(job, promises, pairs)
  PROVE  LoyalJob(job, promises', pairs')
<1>1. CASE job \in ReactionJobs(n, m)
  <2>1. /\ job.kind = "reaction" /\ job.type # "pending"
        /\ job.reaction \in Reactions(n, m)
    BY <1>1 DEF ReactionJobs, Settled
  <2>2. job.reaction.source \in 1..n
    BY <2>1 DEF Reactions
  <2>3. Loyal(job.reaction, promises', pairs')
    BY <2>1, ReactionStaysLoyal DEF LoyalJob, Loosens
  <2> QED BY <2>1, <2>2, <2>3 DEF LoyalJob, Loosens, Keeps
<1>2. CASE job \in ThenableJobs(n)
  <2>1. job.kind = "thenable" /\ job.promise \in 1..n
    BY <1>2 DEF ThenableJobs
  <2> QED BY <2>1 DEF LoyalJob, Loosens, BoundsLoosen, Exempt
<1> QED BY <1>1, <1>2 DEF Jobs

LEMMA JobsStayLoyal ==
  ASSUME NEW n \in Nat, NEW m \in Nat, n = Len(promises), m = Len(pairs), NEW e, Loosens(e),
         NEW jobs \in Seq(Jobs(n, m)), \A i \in 1..Len(jobs) : ~Exempt(jobs[i], e),
         LoyalJobs(jobs, promises, pairs)
  PROVE  LoyalJobs(jobs, promises', pairs')
<1>1. \A i \in 1..Len(jobs) : jobs[i] \in Jobs(n, m)
  BY ElementOfSeq
<1> QED BY <1>1, JobStaysLoyal DEF LoyalJobs

LEMMA FrameStaysLoyal ==
  ASSUME NEW n \in Nat, NEW m \in Nat, n = Len(promises), m = Len(pairs), NEW e, Loosens(e),
         NEW frame \in CallFrames(n, m), frame.kind = "getThen" => frame.promise # e,
         LoyalFrame(frame, promises, pairs)
  PROVE  LoyalFrame(frame, promises', pairs')
<1>1. /\ frame.kind \in {"handler", "native", "thenable"} => frame.pair \in 1..m
      /\ frame.kind = "getThen" => frame.promise \in 1..n
      /\ frame.kind = "trigger" => frame.todo \in Seq(Reactions(n, m))
      /\ frame.kind # "job"
  BY FrameFields
<1>2. frame.kind = "trigger" => LoyalReactions(frame.todo, frame.promise, promises', pairs')
  BY <1>1, ReactionsStayLoyal DEF LoyalFrame, Loosens
<1> QED BY <1>1, <1>2 DEF LoyalFrame, Loosens, TiesLoosen, BoundsLoosen

LEMMA FramesStayLoyal ==
  ASSUME NEW n \in Nat, NEW m \in Nat, n = Len(promises), m = Len(pairs), NEW e, Loosens(e),
         NEW base \in Seq(CallFrames(n, m)), LoyalFrames(base, promises, pairs),
         \A i \in 1..Len(base) : base[i].kind = "getThen" => base[i].promise # e
  PROVE  LoyalFrames(base, promises', pairs')
<1>1. \A i \in 1..Len(base) : base[i] \in CallFrames(n, m)
  BY ElementOfSeq
<1> QED BY <1>1, FrameStaysLoyal DEF LoyalFrames

LEMMA LoyalPush ==
  ASSUME NEW F, NEW base \in Seq(F), NEW frame, NEW objects, NEW couples,
         LoyalFrames(base, objects, couples), LoyalFrame(frame, objects, couples)
  PROVE  LoyalFrames(Append(base, frame), objects, couples)
<1>1. PICK frames : frames = Append(base, frame)
  OBVIOUS
<1>2. Len(frames) = Len(base) + 1 /\ frames[Len(base) + 1] = frame /\ Len(base) \in Nat
  BY <1>1, AppendAny, LenProperties
<1>3. \A i \in 1..Len(base) : frames[i] = base[i]
  BY <1>1, AppendAny
<1>4. \A i \in 1..Len(frames) : i \in 1..Len(base) \/ i = Len(base) + 1
  BY <1>2
<1> QED BY <1>1, <1>2, <1>3, <1>4 DEF LoyalFrames

LEMMA LoyalPop ==
  ASSUME NEW F, NEW frames \in Seq(F), frames # <<>>, NEW objects, NEW couples,
         LoyalFrames(frames, objects, couples)
  PROVE  /\ LoyalFrames(Front(frames), objects, couples)
         /\ LoyalFrame(Last(frames), objects, couples)
<1>1. /\ Len(frames) \in Nat \ {0} /\ Len(Front(frames)) = Len(frames) - 1
      /\ \A i \in 1..(Len(frames) - 1) : Front(frames)[i] = frames[i]
  BY FrontLast
<1>2. \A i \in 1..(Len(frames) - 1) : i \in 1..Len(frames)
  BY <1>1
<1>3. Last(frames) = frames[Len(frames)] /\ Len(frames) \in 1..Len(frames)
  BY LastEntry
<1> QED BY <1>1, <1>2, <1>3 DEF LoyalFrames

LEMMA LoyalAppend ==
  ASSUME NEW J, NEW jobs \in Seq(J), NEW job, NEW objects, NEW couples,
         LoyalJobs(jobs, objects, couples), LoyalJob(job, objects, couples)
  PROVE  LoyalJobs(Append(jobs, job), objects, couples)
<1>1. PICK more : more = Append(jobs, job)
  OBVIOUS
<1>2. Len(more) = Len(jobs) + 1 /\ more[Len(jobs) + 1] = job /\ Len(jobs) \in Nat
  BY <1>1, AppendAny, LenProperties
<1>3. \A i \in 1..Len(jobs) : more[i] = jobs[i]
  BY <1>1, AppendAny
<1>4. \A i \in 1..Len(more) : i \in 1..Len(jobs) \/ i = Len(jobs) + 1
  BY <1>2
<1> QED BY <1>1, <1>2, <1>3, <1>4 DEF LoyalJobs

LEMMA LoyalTail ==
  ASSUME NEW J, NEW jobs \in Seq(J), jobs # <<>>, NEW objects, NEW couples,
         LoyalJobs(jobs, objects, couples)
  PROVE  LoyalJobs(Tail(jobs), objects, couples) /\ LoyalJob(Head(jobs), objects, couples)
<1>1. /\ Len(jobs) \in Nat \ {0} /\ Len(Tail(jobs)) = Len(jobs) - 1
      /\ \A i \in 1..Len(Tail(jobs)) : Tail(jobs)[i] = jobs[i + 1]
      /\ Head(jobs) = jobs[1]
  BY HeadTailProperties, EmptySeq, LenProperties
<1>2. \A i \in 1..Len(Tail(jobs)) : i + 1 \in 1..Len(jobs)
  BY <1>1
<1>3. 1 \in 1..Len(jobs)
  BY <1>1
<1> QED BY <1>1, <1>2, <1>3 DEF LoyalJobs

LEMMA LoyalTurn ==
  ASSUME NEW R, NEW reactions \in Seq(R), reactions # <<>>, NEW p, NEW objects, NEW couples,
         LoyalReactions(reactions, p, objects, couples)
  PROVE  /\ LoyalReactions(Tail(reactions), p, objects, couples)
         /\ Head(reactions).source = p /\ Loyal(Head(reactions), objects, couples)
<1>1. /\ Len(reactions) \in Nat \ {0} /\ Len(Tail(reactions)) = Len(reactions) - 1
      /\ \A i \in 1..Len(Tail(reactions)) : Tail(reactions)[i] = reactions[i + 1]
      /\ Head(reactions) = reactions[1]
  BY HeadTailProperties, EmptySeq, LenProperties
<1>2. \A i \in 1..Len(Tail(reactions)) : i + 1 \in 1..Len(reactions)
  BY <1>1
<1>3. 1 \in 1..Len(reactions)
  BY <1>1
<1> QED BY <1>1, <1>2, <1>3 DEF LoyalReactions

LEMMA LoyalRegistered ==
  ASSUME NEW R, NEW reactions \in Seq(R), NEW reaction, NEW p, NEW objects, NEW couples,
         LoyalReactions(reactions, p, objects, couples),
         reaction.source = p, Loyal(reaction, objects, couples)
  PROVE  LoyalReactions(Append(reactions, reaction), p, objects, couples)
<1>1. PICK more : more = Append(reactions, reaction)
  OBVIOUS
<1>2. /\ Len(more) = Len(reactions) + 1 /\ more[Len(reactions) + 1] = reaction
      /\ Len(reactions) \in Nat
  BY <1>1, AppendAny, LenProperties
<1>3. \A i \in 1..Len(reactions) : more[i] = reactions[i]
  BY <1>1, AppendAny
<1>4. \A i \in 1..Len(more) : i \in 1..Len(reactions) \/ i = Len(reactions) + 1
  BY <1>2
<1> QED BY <1>1, <1>2, <1>3, <1>4 DEF LoyalReactions

LEMMA LoyalPlain ==
  ASSUME NEW frame, frame.kind \in {"drain", "hook", "tracker", "flush"}, NEW objects, NEW couples
  PROVE  LoyalFrame(frame, objects, couples)
BY DEF LoyalFrame

\* What a promise registered and buffered.
LEMMA ListsStayLoyal ==
  ASSUME NEW n \in Nat, NEW m \in Nat, n = Len(promises), m = Len(pairs),
         promises \in Seq(PromiseObjects(n, m)), NEW e, Loosens(e),
         NEW p \in 1..n, LoyalPromise(p, promises, pairs)
  PROVE  /\ LoyalReactions(promises[p].reactions, p, promises', pairs')
         /\ LoyalJobs(promises[p].reactionJobs, promises', pairs')
<1>1. promises[p] \in PromiseObjects(n, m)
  BY ElementOfSeq
<1>2. /\ promises[p].reactions \in Seq(Reactions(n, m))
      /\ promises[p].reactionJobs \in Seq(ReactionJobs(n, m))
  BY <1>1 DEF PromiseObjects
<1>3. \A i \in 1..Len(promises[p].reactionJobs) : ~Exempt(promises[p].reactionJobs[i], e)
  <2> TAKE i \in 1..Len(promises[p].reactionJobs)
  <2>1. promises[p].reactionJobs[i] \in ReactionJobs(n, m)
    BY <1>2, ElementOfSeq
  <2> QED BY <2>1 DEF ReactionJobs, Exempt
<1>4. promises[p].reactionJobs \in Seq(Jobs(n, m))
  <2>1. ReactionJobs(n, m) \subseteq Jobs(n, m)
    BY DEF Jobs
  <2> QED BY <1>2, <2>1, SeqMonotonic
<1> QED BY <1>2, <1>3, <1>4, ReactionsStayLoyal, JobsStayLoyal DEF LoyalPromise, Loosens

LEMMA PromiseStaysLoyal ==
  ASSUME NEW n \in Nat, NEW m \in Nat, n = Len(promises), promises \in Seq(PromiseObjects(n, m)),
         Keeps, NEW p \in 1..n, LoyalPromise(p, promises, pairs),
         promises'[p].state = promises[p].state, promises'[p].result = promises[p].result,
         promises[p].state # "pending" => promises'[p].follows = promises[p].follows,
         LoyalReactions(promises'[p].reactions, p, promises', pairs'),
         LoyalJobs(promises'[p].reactionJobs, promises', pairs')
  PROVE  LoyalPromise(p, promises', pairs')
<1>1. promises[p] \in PromiseObjects(n, m)
  BY ElementOfSeq
<1>2. promises[p].follows \in 0..n
  BY <1>1 DEF PromiseObjects
<1>3. promises[p].state # "pending" =>
        Repeats(p, promises'[p].state, promises'[p].result, promises')
  BY <1>2 DEF LoyalPromise, Repeats, Keeps
<1> QED BY <1>3 DEF LoyalPromise

\* Changes of no interest here.
SameLoyalty(record, changed) ==
  /\ changed.state = record.state /\ changed.result = record.result
  /\ changed.follows = record.follows /\ changed.reactions = record.reactions
  /\ changed.reactionJobs \in {record.reactionJobs, <<>>}

LEMMA StaysLoyal ==
  ASSUME NEW n \in Nat, NEW m \in Nat, n = Len(promises), m = Len(pairs),
         promises \in Seq(PromiseObjects(n, m)), pairs \in Seq(Pairs(n)), NEW base, Loyalty(base),
         Len(promises') = n, Len(pairs') = m, Keeps, PairsKeep,
         \A p \in 1..n : SameLoyalty(promises[p], promises'[p]),
         LoyalJobs(queue', promises', pairs'), LoyalFrames(stack', promises', pairs')
  PROVE  Loyalty(stack)'
<1>1. Loosens(0)
  <2>1. \A p \in 1..n : promises'[p].follows = promises[p].follows
    BY DEF SameLoyalty
  <2> QED BY <2>1, LooseAsBefore
<1>2. ASSUME NEW p \in 1..n PROVE LoyalPromise(p, promises', pairs')
  <2>1. LoyalPromise(p, promises, pairs)
    BY DEF Loyalty
  <2>2. /\ LoyalReactions(promises[p].reactions, p, promises', pairs')
        /\ LoyalJobs(promises[p].reactionJobs, promises', pairs')
    BY <1>1, <2>1, ListsStayLoyal
  <2>3. LoyalJobs(<<>>, promises', pairs')
    BY DEF LoyalJobs
  <2>4. /\ promises'[p].state = promises[p].state /\ promises'[p].result = promises[p].result
        /\ promises'[p].follows = promises[p].follows
        /\ promises'[p].reactions = promises[p].reactions
        /\ promises'[p].reactionJobs \in {promises[p].reactionJobs, <<>>}
    BY DEF SameLoyalty
  <2>5. LoyalReactions(promises'[p].reactions, p, promises', pairs')
    BY <2>2, <2>4
  <2>6. LoyalJobs(promises'[p].reactionJobs, promises', pairs')
    BY <2>2, <2>3, <2>4
  <2> QED BY <2>1, <2>4, <2>5, <2>6, PromiseStaysLoyal
<1>3. \A c \in 1..m : pairs'[c].exposed => ~Tied(c, promises', pairs')
  BY <1>1 DEF Loyalty, PairsKeep, Loosens, TiesLoosen
<1> QED BY <1>2, <1>3 DEF Loyalty

LEMMA RestStaysLoyal ==
  ASSUME NEW n \in Nat, NEW m \in Nat, n = Len(promises), m = Len(pairs), Loosens(0),
         queue \in Seq(Jobs(n, m)), NEW base \in Seq(CallFrames(n, m)), Loyalty(base)
  PROVE  LoyalJobs(queue, promises', pairs') /\ LoyalFrames(base, promises', pairs')
<1>1. \A i \in 1..Len(base) : base[i].kind = "getThen" => base[i].promise # 0
  <2> TAKE i \in 1..Len(base)
  <2>1. base[i] \in CallFrames(n, m)
    BY ElementOfSeq
  <2> QED BY <2>1, FrameFields
<1>2. \A i \in 1..Len(queue) : ~Exempt(queue[i], 0)
  <2> TAKE i \in 1..Len(queue)
  <2>1. queue[i] \in Jobs(n, m)
    BY ElementOfSeq
  <2> QED BY <2>1 DEF Jobs, ReactionJobs, ThenableJobs, Exempt
<1> QED BY <1>1, <1>2, FramesStayLoyal, JobsStayLoyal DEF Loyalty

\* A settlement that repeats, if the promise follows another, that of the other.
LEMMA SettleLoyal ==
  ASSUME NEW n \in Nat, NEW m \in Nat, n = Len(promises), m = Len(pairs),
         promises \in Seq(PromiseObjects(n, m)), pairs \in Seq(Pairs(n)), queue \in Seq(Jobs(n, m)),
         NEW p \in 1..n, NEW state \in Settled, NEW result \in Values(n),
         NEW base \in Seq(CallFrames(n, m)), Loyalty(base), Settle(p, state, result, base),
         Len(pairs') = m, Keeps, PairsKeep,
         promises[p].state = "pending" => Repeats(p, state, result, promises),
         state = "rejected" => result = GuestError
  PROVE  Loyalty(stack)'
<1>1. promises[p] \in PromiseObjects(n, m) /\ p \in 1..Len(promises)
  BY ElementOfSeq
<1>2. PICK r : r = SettledAs(promises[p], state, result)
  OBVIOUS
<1>3. /\ r.state = state /\ r.result = result /\ r.reactions = <<>>
      /\ r.reactionJobs = promises[p].reactionJobs /\ r.follows = promises[p].follows
  BY <1>1, <1>2 DEF SettledAs, PromiseObjects
<1>4. PICK frame : frame = FreshTrigger(p, promises[p].reactions)
  OBVIOUS
<1>5. frame.kind = "trigger" /\ frame.promise = p /\ frame.todo = promises[p].reactions
  BY <1>4 DEF FreshTrigger, TriggerFrame
<1>6. Len(promises') = n /\ queue' = queue
  BY SettleChanges
<1>7. CASE promises[p].state # "pending"
  <2>1. promises' = promises /\ stack' = base
    BY <1>7, SettleChanges
  <2>2. Loosens(0)
    BY <2>1, LooseAsBefore
  <2>3. LoyalFrames(stack', promises', pairs') /\ LoyalJobs(queue', promises', pairs')
    BY <1>6, <2>1, <2>2, RestStaysLoyal
  <2>4. \A q \in 1..n : SameLoyalty(promises[q], promises'[q])
    BY <2>1 DEF SameLoyalty
  <2> QED BY <1>6, <2>3, <2>4, StaysLoyal
<1>8. CASE promises[p].state = "pending"
  <2>1. /\ stack' = Append(base, frame)
        /\ \A q \in 1..n : promises'[q] = IF q = p THEN r ELSE promises[q]
    BY <1>2, <1>4, <1>8, SettleChanges
  <2>2. Loosens(0)
    <3>1. \A q \in 1..n : promises'[q].follows = promises[q].follows
      BY <1>3, <2>1
    <3> QED BY <3>1, LooseAsBefore
  <2>3. \A q \in 1..n : LoyalPromise(q, promises, pairs)
    BY DEF Loyalty
  <2>4. \A q \in 1..n : /\ LoyalReactions(promises[q].reactions, q, promises', pairs')
                        /\ LoyalJobs(promises[q].reactionJobs, promises', pairs')
    BY <2>2, <2>3, ListsStayLoyal
  <2>5. LoyalFrames(stack', promises', pairs') /\ LoyalJobs(queue', promises', pairs')
    <3>1. LoyalFrame(frame, promises', pairs')
      BY <1>5, <2>4 DEF LoyalFrame
    <3>2. LoyalFrames(base, promises', pairs') /\ LoyalJobs(queue', promises', pairs')
      BY <1>6, <2>2, RestStaysLoyal
    <3> QED BY <2>1, <3>1, <3>2, LoyalPush
  <2>6. LoyalPromise(p, promises', pairs')
    <3>1. LoyalReactions(<<>>, p, promises', pairs')
      BY DEF LoyalReactions
    <3>2. promises'[p] = r
      BY <2>1
    <3>3. Repeats(p, state, result, promises')
      <4>1. PICK leader : leader = promises[p].follows
        OBVIOUS
      <4>2. leader \in 0..n
        BY <1>1, <4>1 DEF PromiseObjects
      <4>3. leader # 0 => promises[leader].state # "pending"
        BY <1>8, <4>1 DEF Repeats
      <4>4. leader # 0 => promises'[leader] = promises[leader]
        BY <1>8, <2>1, <4>2, <4>3
      <4> QED BY <1>3, <1>8, <3>2, <4>1, <4>3, <4>4 DEF Repeats
    <3> QED BY <1>3, <2>4, <3>1, <3>2, <3>3 DEF LoyalPromise
  <2>7. ASSUME NEW q \in 1..n, q # p PROVE LoyalPromise(q, promises', pairs')
    <3>1. promises'[q] = promises[q]
      BY <2>1, <2>7
    <3> QED BY <2>3, <2>4, <3>1, PromiseStaysLoyal
  <2>8. \A c \in 1..m : pairs'[c].exposed => ~Tied(c, promises', pairs')
    BY <2>2 DEF Loyalty, PairsKeep, Loosens, TiesLoosen
  <2> QED BY <1>6, <2>5, <2>6, <2>7, <2>8 DEF Loyalty
<1> QED BY <1>7, <1>8

-----------------------------------------------------------------------------
(* Calls of resolving functions *)

LEMMA UseKeeps ==
  ASSUME NEW n \in Nat, pairs \in Seq(Pairs(n)), NEW c \in 1..Len(pairs),
         pairs' = [pairs EXCEPT ![c].alreadyResolved = TRUE]
  PROVE  PairsKeep /\ Len(pairs') = Len(pairs)
<1>1. /\ Len(pairs') = Len(pairs)
      /\ \A d \in 1..Len(pairs) :
           pairs'[d] = IF d = c THEN [pairs[c] EXCEPT !.alreadyResolved = TRUE] ELSE pairs[d]
  BY UsePair
<1>2. pairs[c] \in Pairs(n)
  BY ElementOfSeq
<1>3. PICK pair : pair = [pairs[c] EXCEPT !.alreadyResolved = TRUE]
  OBVIOUS
<1>4. /\ pair.promise = pairs[c].promise /\ pair.exposed = pairs[c].exposed
      /\ pair.alreadyResolved
  BY <1>2, <1>3 DEF Pairs
<1> QED BY <1>1, <1>3, <1>4 DEF PairsKeep

LEMMA CallOutcomes ==
  ASSUME NEW n \in 0..MaxPromises, NEW c, NEW value \in Values(n), NEW base,
         Resolving(c, value, base)
  PROVE  \/ /\ pairs[c].alreadyResolved
            /\ stack' = base /\ UNCHANGED <<promises, pairs, queue, checkpointState>>
         \/ /\ ~pairs[c].alreadyResolved
            /\ pairs' = [pairs EXCEPT ![c].alreadyResolved = TRUE]
            /\ \/ Settle(pairs[c].promise, "rejected", GuestError, base)
               \/ Settle(pairs[c].promise, "fulfilled", value, base)
               \/ /\ stack' = Append(base, GetThenFrame(pairs[c].promise, value))
                  /\ UNCHANGED <<promises, queue, checkpointState>>
<1>1. CASE CallReject(c, base)
  BY <1>1 DEF CallReject, Ignored
<1>2. CASE CallResolve(c, value, base)
  BY <1>2 DEF CallResolve, Ignored
<1> QED BY <1>1, <1>2 DEF Resolving

\* A call on behalf of nobody's follower.
LEMMA FreeCall ==
  ASSUME NEW n \in 0..MaxPromises, NEW m \in Nat, n = Len(promises), m = Len(pairs),
         promises \in Seq(PromiseObjects(n, m)), pairs \in Seq(Pairs(n)), queue \in Seq(Jobs(n, m)),
         NEW base \in Seq(CallFrames(n, m)), Loyalty(base), Keeps,
         NEW c \in 1..m, ~Tied(c, promises, pairs), NEW value \in Values(n),
         Resolving(c, value, base)
  PROVE  Loyalty(stack)'
<1>1. n \in Nat
  BY ConstantsAreApart
<1>2. PICK p : p = pairs[c].promise
  OBVIOUS
<1>3. p \in 1..n
  <2>1. pairs[c] \in Pairs(n)
    BY ElementOfSeq
  <2> QED BY <1>2, <2>1 DEF Pairs
<1>4. ASSUME promises' = promises, queue' = queue, Len(pairs') = m, PairsKeep,
             NEW frame, LoyalFrame(frame, promises', pairs'), stack' \in {base, Append(base, frame)}
      PROVE  Loyalty(stack)'
  <2>1. \A q \in 1..n : SameLoyalty(promises[q], promises'[q])
    BY <1>4 DEF SameLoyalty
  <2>2. Loosens(0)
    BY <1>1, <1>4, LooseAsBefore
  <2>3. LoyalJobs(queue', promises', pairs') /\ LoyalFrames(base, promises', pairs')
    BY <1>1, <1>4, <2>2, RestStaysLoyal
  <2>4. LoyalFrames(stack', promises', pairs')
    BY <1>4, <2>3, LoyalPush
  <2> QED BY <1>1, <1>4, <2>1, <2>3, <2>4, StaysLoyal
<1>5. CASE pairs[c].alreadyResolved
  <2>1. stack' = base /\ UNCHANGED <<promises, pairs, queue>>
    BY <1>5, CallOutcomes
  <2>2. PairsKeep
    BY <2>1 DEF PairsKeep
  <2>3. LoyalFrame(HookFrame, promises', pairs')
    BY LoyalPlain, Kinds
  <2> QED BY <1>4, <2>1, <2>2, <2>3
<1>6. CASE ~pairs[c].alreadyResolved
  <2>1. /\ pairs' = [pairs EXCEPT ![c].alreadyResolved = TRUE]
        /\ \/ Settle(p, "rejected", GuestError, base)
           \/ Settle(p, "fulfilled", value, base)
           \/ /\ stack' = Append(base, GetThenFrame(p, value))
              /\ UNCHANGED <<promises, queue, checkpointState>>
    BY <1>2, <1>6, CallOutcomes
  <2>2. PairsKeep /\ Len(pairs') = m
    BY <1>1, <2>1, UseKeeps
  <2>3. ~Bound(p, promises)
    BY <1>2, <1>6 DEF Tied
  <2>4. promises[p].state = "pending" => \A state, result : Repeats(p, state, result, promises)
    BY <2>3 DEF Bound, Repeats
  <2>5. /\ GuestError \in Values(n) /\ "fulfilled" \in Settled /\ "rejected" \in Settled
        /\ "fulfilled" # "rejected"
    BY DEF Values, Settled
  <2>6. CASE Settle(p, "rejected", GuestError, base)
    BY <1>1, <1>3, <2>2, <2>4, <2>5, <2>6, SettleLoyal
  <2>7. CASE Settle(p, "fulfilled", value, base)
    BY <1>1, <1>3, <2>2, <2>4, <2>5, <2>7, SettleLoyal
  <2>8. CASE /\ stack' = Append(base, GetThenFrame(p, value))
             /\ UNCHANGED <<promises, queue, checkpointState>>
    <3>1. PICK frame : frame = GetThenFrame(p, value)
      OBVIOUS
    <3>2. frame.kind = "getThen" /\ frame.promise = p
      BY <3>1, Kinds
    <3>3. LoyalFrame(frame, promises', pairs')
      BY <2>3, <2>8, <3>2 DEF LoyalFrame
    <3> QED BY <1>4, <2>2, <2>8, <3>1, <3>3
  <2> QED BY <2>1, <2>6, <2>7, <2>8
<1> QED BY <1>5, <1>6

\* A call that passes on the settlement of the promise followed.
LEMMA TiedCall ==
  ASSUME NEW n \in 0..MaxPromises, NEW m \in Nat, n = Len(promises), m = Len(pairs),
         promises \in Seq(PromiseObjects(n, m)), pairs \in Seq(Pairs(n)), queue \in Seq(Jobs(n, m)),
         NEW base \in Seq(CallFrames(n, m)), Loyalty(base), Keeps,
         NEW c \in 1..m, Tied(c, promises, pairs), NEW q, q = Leader(c, promises, pairs),
         NEW argument \in Values(n), NEW type \in Settled,
         promises[q].state = type, promises[q].result = argument,
         CallPair(c, type, argument, base)
  PROVE  Loyalty(stack)'
<1>1. n \in Nat /\ n <= MaxPromises /\ MaxPromises \in Nat
  BY ConstantsAreApart
<1>2. PICK p : p = pairs[c].promise
  OBVIOUS
<1>3. p \in 1..n
  <2>1. pairs[c] \in Pairs(n)
    BY ElementOfSeq
  <2> QED BY <1>2, <2>1 DEF Pairs
<1>4. q \in 1..n /\ q = promises[p].follows
  <2>1. promises[p] \in PromiseObjects(n, m)
    BY <1>3, ElementOfSeq
  <2>2. promises[p].follows \in 0..n
    BY <2>1 DEF PromiseObjects
  <2> QED BY <1>2, <2>2 DEF Tied, Bound, Leader
<1>5. /\ ~pairs[c].alreadyResolved /\ promises[q].state # "pending" /\ ~IsObject(argument)
  BY <1>2, <1>4 DEF Tied, Bound, Settled
<1>6. IsObject(p)
  BY <1>1, <1>3 DEF IsObject
<1>7. type = "rejected" => argument = GuestError
  BY <1>4 DEF Loyalty, LoyalPromise
<1>8. /\ pairs' = [pairs EXCEPT ![c].alreadyResolved = TRUE]
      /\ Settle(p, type, argument, base)
  <2>1. CASE type = "fulfilled"
    <3>1. CallResolve(c, argument, base) /\ argument # p
      BY <1>5, <1>6, <2>1 DEF CallPair
    <3> QED BY <1>2, <1>5, <2>1, <3>1 DEF CallResolve, Ignored
  <2>2. CASE type = "rejected"
    <3>1. CallReject(c, base)
      BY <2>2 DEF CallPair
    <3> QED BY <1>2, <1>5, <1>7, <2>2, <3>1 DEF CallReject, Ignored
  <2> QED BY <2>1, <2>2 DEF Settled
<1>9. PairsKeep /\ Len(pairs') = m
  BY <1>1, <1>8, UseKeeps
<1>10. Repeats(p, type, argument, promises)
  BY <1>4, <1>5 DEF Repeats
<1> QED BY <1>1, <1>3, <1>7, <1>8, <1>9, <1>10, SettleLoyal

\* The program, handlers and thenables.
LEMMA FreeCallStep ==
  ASSUME TypeInv, Loyalty(stack), Keeps, NEW base, CallBase(base),
         LoyalFrames(base, promises, pairs), NEW c \in 1..Len(pairs), ~Tied(c, promises, pairs),
         NEW value \in Values(Len(promises)), Resolving(c, value, base)
  PROVE  Loyalty(stack)'
<1>1. PICK n : n = Len(promises)
  OBVIOUS
<1>2. PICK m : m = Len(pairs)
  OBVIOUS
<1>3. n \in 0..MaxPromises /\ m \in Nat /\ Ready(base)
  BY <1>1, <1>2, TopFrame, BaseTypes
<1>4. /\ promises \in Seq(PromiseObjects(n, m)) /\ pairs \in Seq(Pairs(n))
      /\ queue \in Seq(Jobs(n, m)) /\ base \in Seq(CallFrames(n, m))
  BY <1>1, <1>2, <1>3 DEF Ready
<1>5. Loyalty(base)
  BY DEF Loyalty
<1> QED BY <1>1, <1>2, <1>3, <1>4, <1>5, FreeCall

LEMMA ProgramCallLoyal ==
  ASSUME TypeInv, Loyalty(stack), Keeps, NEW c \in 1..MaxPairs,
         \/ ProgramRejects(c)
         \/ \E value \in {Primitive, NewObject} \cup 1..MaxPromises : ProgramResolves(c, value)
  PROVE  Loyalty(stack)'
<1>1. c \in 1..Len(pairs) /\ ~Tied(c, promises, pairs) /\ CallBase(stack)
  BY DEF ProgramRejects, ProgramResolves, Exposed, ForeignCode, Loyalty, CallBase
<1>2. GuestError \in Values(Len(promises)) /\ LoyalFrames(stack, promises, pairs)
  BY DEF Values, Loyalty
<1>3. CASE ProgramRejects(c)
  <2>1. Resolving(c, GuestError, stack)
    BY <1>3 DEF ProgramRejects, Resolving
  <2> QED BY <1>1, <1>2, <2>1, FreeCallStep
<1>4. ASSUME NEW value \in {Primitive, NewObject} \cup 1..MaxPromises, ProgramResolves(c, value)
      PROVE  Loyalty(stack)'
  <2>1. value \in {Primitive, NewObject} \cup 1..Len(promises) /\ Len(promises) \in Nat
    BY <1>4, TopFrame DEF ProgramResolves, Reachable
  <2>2. value \in Values(Len(promises))
    BY <2>1 DEF Values, NewObject
  <2>3. Resolving(c, value, stack)
    BY <1>4 DEF ProgramResolves, Resolving
  <2> QED BY <1>1, <1>2, <2>2, <2>3, FreeCallStep
<1> QED BY <1>3, <1>4

LEMMA ReturnLoyal ==
  ASSUME TypeInv, Loyalty(stack), Keeps,
         \/ NativeReturns \/ HandlerThrows \/ ThenFails
         \/ \E value \in {Primitive, NewObject} \cup 1..MaxPromises : HandlerReturns(value)
  PROVE  Loyalty(stack)'
<1>1. PICK c : c = Last(stack).pair
  OBVIOUS
<1>2. PICK base : base = Front(stack)
  OBVIOUS
<1>3. running \in {"native", "handler", "thenable"}
  BY DEF NativeReturns, HandlerThrows, ThenFails, HandlerReturns, Engine, Running
<1>4. /\ stack # <<>> /\ Last(stack).kind = running /\ stack \in Seq(Frame)
      /\ Last(stack) \in CallFrames(Len(promises), Len(pairs))
      /\ Len(promises) \in Nat /\ Len(pairs) \in Nat
  BY <1>3, TopFrame, StackTypes DEF TypeOK
<1>5. c \in 1..Len(pairs) /\ CallBase(base)
  BY <1>1, <1>2, <1>3, <1>4, FrameFields DEF CallBase
<1>6. LoyalFrames(stack, promises, pairs)
  BY DEF Loyalty
<1>7. LoyalFrames(base, promises, pairs) /\ LoyalFrame(Last(stack), promises, pairs)
  BY <1>2, <1>4, <1>6, LoyalPop
<1>8. ~Tied(c, promises, pairs)
  BY <1>1, <1>3, <1>4, <1>7 DEF LoyalFrame
<1>9. ASSUME NEW value \in Values(Len(promises)), Resolving(c, value, base)
      PROVE  Loyalty(stack)'
  BY <1>5, <1>7, <1>8, <1>9, FreeCallStep
<1>10. Primitive \in Values(Len(promises)) /\ GuestError \in Values(Len(promises))
  BY DEF Values
<1>11. CASE NativeReturns
  BY <1>1, <1>2, <1>9, <1>10, <1>11 DEF NativeReturns, Resolving
<1>12. CASE HandlerThrows \/ ThenFails
  BY <1>1, <1>2, <1>9, <1>10, <1>12 DEF HandlerThrows, ThenFails, Resolving
<1>13. ASSUME NEW value \in {Primitive, NewObject} \cup 1..MaxPromises, HandlerReturns(value)
       PROVE  Loyalty(stack)'
  <2>1. value \in {Primitive, NewObject} \cup 1..Len(promises)
    BY <1>13 DEF HandlerReturns, Reachable
  <2>2. value \in Values(Len(promises))
    BY <1>4, <2>1 DEF Values, NewObject
  <2> QED BY <1>1, <1>2, <1>9, <1>13, <2>2 DEF HandlerReturns, Resolving
<1> QED BY <1>11, <1>12, <1>13

-----------------------------------------------------------------------------
(* The other steps *)

LEMMA SamePromises ==
  ASSUME NEW base, Loyalty(base), UNCHANGED <<promises, pairs>>,
         LoyalJobs(queue', promises, pairs), LoyalFrames(stack', promises, pairs)
  PROVE  Loyalty(stack)'
BY DEF Loyalty

LEMMA ReactionLoyal ==
  ASSUME TypeInv, Loyalty(stack), Keeps, RunReaction
  PROVE  Loyalty(stack)'
<1>1. PICK n : n = Len(promises)
  OBVIOUS
<1>2. PICK m : m = Len(pairs)
  OBVIOUS
<1>3. PICK job : job = Last(stack).job
  OBVIOUS
<1>4. PICK base : base = Front(stack)
  OBVIOUS
<1>5. running = "job" /\ job.kind = "reaction"
  BY <1>3 DEF RunReaction, Engine, Running
<1>6. /\ stack # <<>> /\ Last(stack) \in JobFrames(n, m) /\ Last(stack).kind = "job"
      /\ n \in Nat /\ m \in Nat /\ n \in 0..MaxPromises /\ stack \in Seq(Frame)
  BY <1>1, <1>2, <1>5, TopFrame, StackTypes DEF TypeOK
<1>7. job \in ReactionJobs(n, m)
  <2>1. job \in Jobs(n, m)
    BY <1>3, <1>6 DEF JobFrames
  <2> QED BY <1>5, <2>1 DEF Jobs, ThenableJobs
<1>8. PICK reaction : reaction = job.reaction
  OBVIOUS
<1>9. PICK d : d = reaction.derived
  OBVIOUS
<1>10. PICK handler : handler = reaction.handler
  OBVIOUS
<1>11. PICK q : q = reaction.source
  OBVIOUS
<1>12. /\ d \in 1..m /\ handler \in {NoHandler, Program} \cup 1..m /\ q \in 1..n
       /\ job.argument \in Values(n) /\ job.type \in Settled
  BY <1>7, <1>8, <1>9, <1>10, <1>11 DEF ReactionJobs, Reactions
<1>13. LoyalFrames(base, promises, pairs) /\ LoyalFrame(Last(stack), promises, pairs)
  BY <1>4, <1>6, LoyalPop DEF Loyalty
<1>14. /\ promises[q].state = job.type /\ promises[q].result = job.argument
       /\ Tied(d, promises, pairs) => handler = NoHandler /\ q = Leader(d, promises, pairs)
       /\ handler \notin {NoHandler, Program} /\ Tied(handler, promises, pairs) =>
            q = Leader(handler, promises, pairs)
  BY <1>3, <1>5, <1>6, <1>8, <1>9, <1>10, <1>11, <1>13 DEF LoyalFrame, LoyalJob, Loyal
<1>15. CallBase(base) /\ CallBase(Append(base, NativeFrame(d)))
  BY <1>2, <1>3, <1>4, <1>5, <1>12 DEF CallBase
<1>16. ASSUME NEW c \in 1..m, NEW over, CallBase(over), LoyalFrames(over, promises, pairs),
              Tied(c, promises, pairs) => q = Leader(c, promises, pairs),
              CallPair(c, job.type, job.argument, over)
       PROVE  Loyalty(stack)'
  <2>1. CASE Tied(c, promises, pairs)
    <3>1. Ready(over)
      BY <1>16, BaseTypes
    <3>2. /\ promises \in Seq(PromiseObjects(n, m)) /\ pairs \in Seq(Pairs(n))
          /\ queue \in Seq(Jobs(n, m)) /\ over \in Seq(CallFrames(n, m))
      BY <1>1, <1>2, <3>1 DEF Ready
    <3>3. Loyalty(over)
      BY <1>16 DEF Loyalty
    <3> QED BY <1>1, <1>2, <1>6, <1>12, <1>14, <1>16, <2>1, <3>2, <3>3, TiedCall
  <2>2. CASE ~Tied(c, promises, pairs)
    <3>1. Resolving(c, job.argument, over)
      BY <1>16 DEF CallPair, Resolving
    <3> QED BY <1>1, <1>2, <1>12, <1>16, <2>2, <3>1, FreeCallStep
  <2> QED BY <2>1, <2>2
<1>17. ASSUME ~Tied(d, promises, pairs), NEW frame \in {HandlerFrame(d), NativeFrame(d)}
       PROVE  LoyalFrames(Append(base, frame), promises, pairs)
  <2>1. frame.kind \in {"handler", "native"} /\ frame.pair = d
    BY <1>17, Kinds
  <2>2. LoyalFrame(frame, promises, pairs)
    BY <1>17, <2>1 DEF LoyalFrame
  <2>3. base \in Seq(Frame)
    BY <1>4, StackTypes
  <2> QED BY <1>13, <2>2, <2>3, LoyalPush
<1>18. CASE handler = NoHandler /\ CallPair(d, job.type, job.argument, base)
  BY <1>12, <1>13, <1>14, <1>15, <1>16, <1>18
<1>19. CASE /\ handler = Program /\ stack' = Append(base, HandlerFrame(d))
            /\ UNCHANGED <<promises, pairs, queue>>
  <2>1. ~Tied(d, promises, pairs)
    BY <1>14, <1>19 DEF NoHandler, Program
  <2>2. LoyalFrames(stack', promises, pairs)
    BY <1>17, <1>19, <2>1
  <2>3. LoyalJobs(queue', promises, pairs)
    BY <1>19 DEF Loyalty
  <2> QED BY <1>19, <2>2, <2>3, SamePromises
<1>20. CASE /\ handler \in 1..MaxPairs
            /\ CallPair(handler, job.type, job.argument, Append(base, NativeFrame(d)))
  <2>1. handler \in 1..m /\ handler \notin {NoHandler, Program}
    BY <1>12, <1>20 DEF NoHandler, Program
  <2>2. ~Tied(d, promises, pairs)
    BY <1>14, <2>1
  <2>3. LoyalFrames(Append(base, NativeFrame(d)), promises, pairs)
    BY <1>17, <2>2
  <2> QED BY <1>14, <1>15, <1>16, <1>20, <2>1, <2>3
<1>21. \/ handler = NoHandler /\ CallPair(d, job.type, job.argument, base)
       \/ /\ handler = Program /\ stack' = Append(base, HandlerFrame(d))
          /\ UNCHANGED <<promises, pairs, queue>>
       \/ /\ handler \in 1..MaxPairs
          /\ CallPair(handler, job.type, job.argument, Append(base, NativeFrame(d)))
  BY <1>3, <1>4, <1>8, <1>9, <1>10 DEF RunReaction
<1> QED BY <1>18, <1>19, <1>20, <1>21

LEMMA QuietLoyal ==
  ASSUME TypeInv, Loyalty(stack), QuietStep \/ StartJob
  PROVE  Loyalty(stack)'
<1>1. stack \in Seq(Frame) /\ queue \in Seq(Job)
  BY StackTypes DEF TypeOK
<1>2. LoyalFrames(stack, promises, pairs) /\ LoyalJobs(queue, promises, pairs)
  BY DEF Loyalty
<1>3. UNCHANGED <<promises, pairs>>
  BY DEF QuietStep, StartJob
<1>4. CASE QuietStep
  <2>1. \/ stack' = stack
        \/ stack # <<>> /\ stack' = Front(stack)
        \/ stack' = Append(stack, DrainFrame)
    BY <1>4, TopFrame DEF QuietStep
  <2>2. LoyalFrame(DrainFrame, promises, pairs)
    BY LoyalPlain, Kinds
  <2>3. LoyalFrames(stack', promises, pairs)
    BY <1>1, <1>2, <2>1, <2>2, LoyalPush, LoyalPop
  <2>4. LoyalJobs(queue', promises, pairs)
    BY <1>2, <1>4 DEF QuietStep
  <2> QED BY <1>3, <2>3, <2>4, SamePromises
<1>5. CASE StartJob
  <2>1. PICK job : job = Head(queue)
    OBVIOUS
  <2>2. queue # <<>> /\ queue' = Tail(queue) /\ stack' = Append(stack, JobFrame(job))
    BY <1>5, <2>1 DEF StartJob
  <2>3. LoyalJobs(queue', promises, pairs) /\ LoyalJob(job, promises, pairs)
    BY <1>1, <1>2, <2>1, <2>2, LoyalTail
  <2>4. LoyalFrame(JobFrame(job), promises, pairs)
    BY <2>3, Kinds DEF LoyalFrame
  <2>5. LoyalFrames(stack', promises, pairs)
    BY <1>1, <1>2, <2>2, <2>4, LoyalPush
  <2> QED BY <1>3, <2>3, <2>5, SamePromises
<1> QED BY <1>4, <1>5

\* Changes to a promise that leave everything else alone.
LEMMA RecordLoyal ==
  ASSUME TypeInv, Keeps, NEW base, Ready(base), Loyalty(base), NEW q \in 1..Len(promises),
         NEW r \in PromiseObjects(Len(promises), Len(pairs)),
         SameLoyalty(promises[q], r), promises' \in {promises, [promises EXCEPT ![q] = r]},
         UNCHANGED <<pairs, queue>>, NEW frame, frame.kind \in {"hook", "tracker"},
         stack' \in {base, Append(base, frame)}
  PROVE  Loyalty(stack)'
<1>1. PICK n : n = Len(promises)
  OBVIOUS
<1>2. PICK m : m = Len(pairs)
  OBVIOUS
<1>3. n \in Nat /\ m \in Nat
  BY <1>1, <1>2, TopFrame
<1>4. /\ promises \in Seq(PromiseObjects(n, m)) /\ pairs \in Seq(Pairs(n))
      /\ queue \in Seq(Jobs(n, m)) /\ base \in Seq(CallFrames(n, m))
  BY <1>1, <1>2 DEF Ready
<1>5. PICK changed : changed = [promises EXCEPT ![q] = r]
  OBVIOUS
<1>6. /\ Len(changed) = n
      /\ \A p \in 1..n : changed[p] = IF p = q THEN r ELSE promises[p]
  BY <1>1, <1>2, <1>4, <1>5, ExceptSeq
<1>7. \A p : SameLoyalty(promises[p], promises[p])
  BY DEF SameLoyalty
<1>8. Len(promises') = n /\ \A p \in 1..n : SameLoyalty(promises[p], promises'[p])
  BY <1>1, <1>5, <1>6, <1>7
<1>9. PairsKeep
  BY DEF PairsKeep
<1>10. Loosens(0)
  <2>1. \A p \in 1..n : promises'[p].follows = promises[p].follows
    BY <1>8 DEF SameLoyalty
  <2> QED BY <1>1, <1>2, <1>3, <1>4, <1>9, <2>1, LooseAsBefore
<1>11. LoyalJobs(queue', promises', pairs') /\ LoyalFrames(base, promises', pairs')
  BY <1>1, <1>2, <1>3, <1>4, <1>10, RestStaysLoyal
<1>12. LoyalFrames(stack', promises', pairs')
  <2>1. LoyalFrame(frame, promises', pairs')
    BY LoyalPlain
  <2>2. LoyalFrames(Append(base, frame), promises', pairs')
    BY <1>4, <1>11, <2>1, LoyalPush
  <2> QED BY <1>11, <2>2
<1> QED BY <1>1, <1>2, <1>3, <1>4, <1>8, <1>9, <1>11, <1>12, StaysLoyal

LEMMA SameRecords ==
  ASSUME NEW n \in Nat, NEW m \in Nat, NEW record \in PromiseObjects(n, m)
  PROVE  /\ SameLoyalty(record, record)
         /\ SameLoyalty(record, FlushedOut(record))
         /\ SameLoyalty(record, Orphaned(record))
         /\ SameLoyalty(record, Reported(record, "reject"))
BY DEF PromiseObjects, SameLoyalty, FlushedOut, Orphaned, Reported

LEMMA UnwindsLoyal ==
  ASSUME TypeInv, Loyalty(stack), Keeps, Unwinds
  PROVE  Loyalty(stack)'
<1>1. PICK n : n = Len(promises)
  OBVIOUS
<1>2. PICK m : m = Len(pairs)
  OBVIOUS
<1>3. PICK frame : frame = Last(stack)
  OBVIOUS
<1>4. PICK base : base = Front(stack)
  OBVIOUS
<1>5. frame.kind \in {"getThen", "handler", "native", "thenable"} /\ frame.kind = running
  BY <1>3, TopFrame DEF Unwinds
<1>6. /\ Ready(base) /\ stack # <<>> /\ n \in Nat /\ m \in Nat
      /\ frame \in CallFrames(n, m) /\ stack \in Seq(Frame)
      /\ stack' = base /\ UNCHANGED <<pairs, queue>>
  BY <1>1, <1>2, <1>3, <1>4, <1>5, TopFrame, StackTypes DEF TypeOK, Unwinds
<1>7. PICK q : q = IF frame.kind = "getThen" THEN frame.promise ELSE pairs[frame.pair].promise
  OBVIOUS
<1>8. promises \in Seq(PromiseObjects(n, m)) /\ pairs \in Seq(Pairs(n))
  BY <1>1, <1>2, <1>6 DEF Ready
<1>9. Loyalty(base)
  <2>1. LoyalFrames(base, promises, pairs)
    BY <1>4, <1>6, LoyalPop DEF Loyalty
  <2> QED BY <2>1 DEF Loyalty
<1>10. q \in 1..n
  <2>1. CASE frame.kind = "getThen"
    BY <1>6, <1>7, <2>1, FrameFields
  <2>2. CASE frame.kind # "getThen"
    <3>1. frame.pair \in 1..Len(pairs)
      BY <1>2, <1>5, <1>6, <2>2, FrameFields
    <3>2. pairs[frame.pair] \in Pairs(n)
      BY <1>8, <3>1, ElementOfSeq
    <3> QED BY <1>7, <2>2, <3>2 DEF Pairs
  <2> QED BY <2>1, <2>2
<1>11. PICK r : r = Orphaned(promises[q])
  OBVIOUS
<1>12. promises[q] \in PromiseObjects(n, m) /\ q \in 1..Len(promises)
  BY <1>1, <1>8, <1>10, ElementOfSeq
<1>13. r \in PromiseObjects(n, m) /\ SameLoyalty(promises[q], r)
  BY <1>6, <1>11, <1>12, RecordTypes, SameRecords
<1>14. promises' \in {promises, [promises EXCEPT ![q] = r]}
  BY <1>3, <1>7, <1>8, <1>11, <1>12, LenProperties DEF Unwinds, Orphaned
<1> QED BY <1>1, <1>2, <1>6, <1>9, <1>12, <1>13, <1>14, Kinds, RecordLoyal

LEMMA LoopLoyal ==
  ASSUME TypeInv, Loyalty(stack), Keeps, LoopStep
  PROVE  Loyalty(stack)'
<1>1. PICK n : n = Len(promises)
  OBVIOUS
<1>2. PICK m : m = Len(pairs)
  OBVIOUS
<1>3. PICK frame : frame = Last(stack)
  OBVIOUS
<1>4. PICK base : base = Front(stack)
  OBVIOUS
<1>5. /\ stack # <<>> /\ frame.kind \in {"trigger", "flush"} /\ frame \in CallFrames(n, m)
      /\ frame.kind = running /\ Ready(stack) /\ Ready(base) /\ n \in Nat /\ m \in Nat
      /\ stack \in Seq(Frame)
  BY <1>1, <1>2, <1>3, <1>4, TopFrame, StackTypes
     DEF LoopStep, TriggerNext, TriggerReturns, FlushNext, FlushEnds, LoopKeepsError, Engine, Running, TypeOK
<1>6. PICK q : q = frame.promise
  OBVIOUS
<1>7. q \in 1..n
  BY <1>5, <1>6, FrameFields
<1>8. /\ promises \in Seq(PromiseObjects(n, m)) /\ stack \in Seq(CallFrames(n, m))
      /\ base \in Seq(CallFrames(n, m)) /\ queue \in Seq(Jobs(n, m))
  BY <1>1, <1>2, <1>5 DEF Ready
<1>9. promises[q] \in PromiseObjects(n, m) /\ q \in 1..Len(promises)
  BY <1>1, <1>7, <1>8, ElementOfSeq
<1>10. LoyalFrames(base, promises, pairs) /\ LoyalFrame(frame, promises, pairs)
  BY <1>3, <1>4, <1>5, LoyalPop DEF Loyalty
<1>11. Loyalty(base) /\ LoyalPromise(q, promises, pairs) /\ LoyalJobs(queue, promises, pairs)
  BY <1>1, <1>7, <1>10 DEF Loyalty
<1>12. ASSUME NEW job, LoyalJob(job, promises, pairs), NEW next,
              LoyalFrame(next, promises, pairs), Enqueue(job, Append(base, next)),
              UNCHANGED <<promises, pairs>>
       PROVE  Loyalty(stack)'
  <2>1. PICK above : above = Append(base, next)
    OBVIOUS
  <2>2. LoyalFrames(above, promises, pairs)
    BY <1>8, <1>10, <1>12, <2>1, LoyalPush
  <2>3. LoyalFrames(Append(above, HookFrame), promises, pairs)
    <3>1. LoyalFrame(HookFrame, promises, pairs)
      BY LoyalPlain, Kinds
    <3>2. PICK N : N = CallFrames(n, m) \cup {next}
      OBVIOUS
    <3>3. base \in Seq(N) /\ next \in N
      BY <1>8, <3>2, SeqMonotonic
    <3>4. above \in Seq(N)
      BY <2>1, <3>3, AppendProperties
    <3> QED BY <2>2, <3>1, <3>4, LoyalPush
  <2>4. LoyalFrames(stack', promises, pairs)
    BY <1>12, <2>1, <2>2, <2>3 DEF Enqueue
  <2>5. LoyalJobs(queue', promises, pairs)
    BY <1>8, <1>11, <1>12, LoyalAppend DEF Enqueue
  <2> QED BY <1>11, <1>12, <2>4, <2>5, SamePromises
<1>13. CASE TriggerNext
  <2>1. /\ frame.kind = "trigger" /\ frame.todo # <<>> /\ frame.todo \in Seq(Reactions(n, m))
    BY <1>3, <1>5, <1>13, FrameFields DEF TriggerNext, Engine, Running
  <2>2. LoyalReactions(frame.todo, q, promises, pairs)
    BY <1>6, <1>10, <2>1 DEF LoyalFrame
  <2>3. PICK reaction : reaction = Head(frame.todo)
    OBVIOUS
  <2>4. /\ LoyalReactions(Tail(frame.todo), q, promises, pairs)
        /\ reaction.source = q /\ Loyal(reaction, promises, pairs)
    BY <2>1, <2>2, <2>3, LoyalTurn
  <2>5. PICK job : job = ReactionJob(reaction, promises[q].state, promises[q].result)
    OBVIOUS
  <2>6. /\ job.kind = "reaction" /\ job.reaction = reaction
        /\ job.type = promises[q].state /\ job.argument = promises[q].result
    BY <2>5 DEF ReactionJob
  <2>7. LoyalJob(job, promises, pairs)
    BY <2>4, <2>6 DEF LoyalJob
  <2>8. PICK next : next = AfterTurn(frame)
    OBVIOUS
  <2>9. next.kind = "trigger" /\ next.promise = q /\ next.todo = Tail(frame.todo)
    BY <1>6, <2>8 DEF AfterTurn, TriggerFrame
  <2>10. LoyalFrame(next, promises, pairs)
    BY <2>4, <2>9 DEF LoyalFrame
  <2>11. Enqueue(job, Append(base, next)) /\ UNCHANGED <<promises, pairs>>
    BY <1>3, <1>4, <1>6, <1>13, <2>3, <2>5, <2>8 DEF TriggerNext, AfterTurn
  <2> QED BY <1>12, <2>7, <2>10, <2>11
<1>14. CASE FlushNext
  <2>1. frame.kind = "flush" /\ frame.next \in Nat \ {0}
    BY <1>3, <1>5, <1>14, FrameFields DEF FlushNext, Engine, Running
  <2>2. PICK job : job = promises[q].reactionJobs[frame.next]
    OBVIOUS
  <2>3. PICK next : next = AfterFlush(frame)
    OBVIOUS
  <2>4. /\ Enqueue(job, Append(base, next)) /\ UNCHANGED <<promises, pairs>>
        /\ frame.next <= Len(promises[q].reactionJobs)
    BY <1>3, <1>4, <1>6, <1>14, <2>2, <2>3 DEF FlushNext, AfterFlush
  <2>5. promises[q].reactionJobs \in Seq(ReactionJobs(n, m))
    BY <1>9 DEF PromiseObjects
  <2>6. frame.next \in 1..Len(promises[q].reactionJobs)
    BY <2>1, <2>4, <2>5, LenProperties
  <2>7. LoyalJob(job, promises, pairs)
    BY <1>11, <2>2, <2>6 DEF LoyalPromise, LoyalJobs
  <2>8. LoyalFrame(next, promises, pairs)
    BY <2>3, LoyalPlain DEF AfterFlush, FlushFrame
  <2> QED BY <1>12, <2>4, <2>7, <2>8
<1>15. CASE FlushEnds
  <2>1. PICK r : r = FlushedOut(promises[q])
    OBVIOUS
  <2>2. r \in PromiseObjects(n, m) /\ SameLoyalty(promises[q], r)
    BY <1>5, <1>9, <2>1, RecordTypes, SameRecords
  <2>3. /\ promises' \in {promises, [promises EXCEPT ![q] = r]}
        /\ stack' \in {base, Append(base, TrackerFrame)} /\ UNCHANGED <<pairs, queue>>
    BY <1>3, <1>4, <1>6, <1>8, <1>9, <1>15, <2>1, LenProperties DEF FlushEnds, FlushedOut
  <2> QED BY <1>1, <1>2, <1>5, <1>9, <1>11, <2>2, <2>3, Kinds, RecordLoyal
<1>16. CASE TriggerReturns
  <2>1. PICK r : r = Reported(promises[q], "reject")
    OBVIOUS
  <2>2. "reject" \in {"reject", "handle"}
    OBVIOUS
  <2>3. r \in PromiseObjects(n, m) /\ SameLoyalty(promises[q], r)
    BY <1>5, <1>9, <2>1, <2>2, RecordTypes, SameRecords
  <2>4. /\ promises' \in {promises, [promises EXCEPT ![q] = r]}
        /\ stack' \in {base, Append(base, TrackerFrame)} /\ UNCHANGED <<pairs, queue>>
    BY <1>3, <1>4, <1>6, <1>8, <1>9, <1>16, <2>1, LenProperties DEF TriggerReturns, Track, Reported
  <2> QED BY <1>1, <1>2, <1>5, <1>9, <1>11, <2>3, <2>4, Kinds, RecordLoyal
<1>17. CASE LoopKeepsError
  <2>1. PICK next : next = Erring(frame)
    OBVIOUS
  <2>2. /\ next.kind = frame.kind /\ next.promise = frame.promise /\ next \in CallFrames(n, m)
        /\ frame.kind = "trigger" => next.todo = frame.todo
    <3>1. frame.kind = "trigger" => next.todo = frame.todo
      BY <1>5, <2>1, FrameFields DEF Erring, TriggerFrame
    <3> QED BY <1>5, <2>1, <3>1, LoopFrames
  <2>3. LoyalFrame(next, promises, pairs)
    BY <1>5, <1>10, <2>2 DEF LoyalFrame
  <2>4. Len(stack) \in 1..Len(stack) /\ UNCHANGED <<promises, pairs, queue>>
    BY <1>5, <1>8, <1>17, LastEntry DEF LoopKeepsError
  <2>5. stack' = [stack EXCEPT ![Len(stack)] = next]
    BY <1>3, <1>17, <2>1 DEF LoopKeepsError, Erring, Last
  <2>6. Len(stack') = Len(stack)
        /\ \A i \in 1..Len(stack) : stack'[i] = IF i = Len(stack) THEN next ELSE stack[i]
    BY <1>8, <2>2, <2>4, <2>5, ExceptSeq
  <2>7. LoyalFrames(stack', promises, pairs)
    BY <2>3, <2>6 DEF LoyalFrames, Loyalty
  <2>8. LoyalJobs(queue', promises, pairs)
    BY <1>11, <2>4
  <2> QED BY <2>4, <2>7, <2>8, SamePromises
<1> QED BY <1>13, <1>14, <1>15, <1>16, <1>17 DEF LoopStep

\* The promise whose `then` is read has no other route: no pair of it is open, no
\* job and no other activation is about to make one.
LEMMA GetterAlone ==
  ASSUME TypeInv, RoutesAreSingle, Engine("getThen"), NEW q, q = Last(stack).promise
  PROVE  /\ promises[q].state = "pending"
         /\ \A c \in 1..Len(pairs) : pairs[c].promise = q => pairs[c].alreadyResolved
         /\ \A i \in 1..Len(queue) : ~Exempt(queue[i], q)
         /\ \A i \in 1..Len(Front(stack)) :
              Front(stack)[i].kind = "getThen" => Front(stack)[i].promise # q
<1>1. PICK n : n = Len(promises)
  OBVIOUS
<1>2. PICK m : m = Len(pairs)
  OBVIOUS
<1>3. PICK base : base = Front(stack)
  OBVIOUS
<1>4. /\ stack # <<>> /\ Last(stack).kind = "getThen" /\ Last(stack) \in CallFrames(n, m)
      /\ n \in Nat /\ m \in Nat /\ stack \in Seq(Frame) /\ base \in Seq(Frame)
      /\ pairs \in Seq(Pair) /\ queue \in Seq(Job) /\ Last(stack) \in Frame
  BY <1>1, <1>2, <1>3, TopFrame, StackTypes, FrontLast DEF TypeOK, Engine, Running
<1>5. q \in 1..n /\ Last(stack) \in RoutesOf(q)
  BY <1>4, FrameFields DEF RoutesOf, IsRoute
<1>6. PICK open : open = Hits(pairs, OpenTo(q))
  OBVIOUS
<1>7. PICK waiting : waiting = Hits(queue, ThenablesOf(q))
  OBVIOUS
<1>8. PICK below : below = Hits(base, RoutesOf(q))
  OBVIOUS
<1>9. open \in Nat /\ waiting \in Nat /\ below \in Nat
  BY <1>4, <1>6, <1>7, <1>8, HitsType
<1>10. Ways(q) = open + waiting + (below + 1)
  <2>1. Hits(stack, RoutesOf(q)) = below + 1
    BY <1>3, <1>4, <1>5, <1>8, HitsFront
  <2> QED BY <1>6, <1>7, <2>1, WaysAdd
<1>11. RouteIsSingle(q)
  BY <1>1, <1>5 DEF RoutesAreSingle
<1>12. promises[q].state = "pending" /\ open = 0 /\ waiting = 0 /\ below = 0
  BY <1>9, <1>10, <1>11 DEF RouteIsSingle
<1>13. \A c \in 1..Len(pairs) : pairs[c].promise = q => pairs[c].alreadyResolved
  <2> TAKE c \in 1..Len(pairs)
  <2>1. pairs[c] \in Pair /\ pairs[c] \notin OpenTo(q)
    BY <1>4, <1>6, <1>12, HitsType, ElementOfSeq
  <2> QED BY <2>1 DEF OpenTo
<1>14. \A i \in 1..Len(queue) : ~Exempt(queue[i], q)
  <2> TAKE i \in 1..Len(queue)
  <2>1. queue[i] \in Job /\ queue[i] \notin ThenablesOf(q)
    BY <1>4, <1>7, <1>12, HitsType, ElementOfSeq
  <2> QED BY <2>1 DEF ThenablesOf, IsThenableJob, Exempt
<1>15. \A i \in 1..Len(base) : base[i].kind = "getThen" => base[i].promise # q
  <2> TAKE i \in 1..Len(base)
  <2>1. base[i] \in Frame /\ base[i] \notin RoutesOf(q)
    BY <1>4, <1>8, <1>12, HitsType, ElementOfSeq
  <2> QED BY <2>1 DEF RoutesOf, IsRoute
<1> QED BY <1>3, <1>12, <1>13, <1>14, <1>15

LEMMA GetThenLoyal ==
  ASSUME TypeInv, RoutesAreSingle, Loyalty(stack), Keeps, GetThenStep
  PROVE  Loyalty(stack)'
<1>1. PICK n : n = Len(promises)
  OBVIOUS
<1>2. PICK m : m = Len(pairs)
  OBVIOUS
<1>3. PICK frame : frame = Last(stack)
  OBVIOUS
<1>4. PICK base : base = Front(stack)
  OBVIOUS
<1>5. Engine("getThen") /\ pairs' = pairs
  BY DEF GetThenStep, ThenThrows, ThenNotCallable, ThenCallable
<1>6. /\ stack # <<>> /\ frame.kind = "getThen" /\ frame \in CallFrames(n, m)
      /\ Ready(base) /\ n \in Nat /\ m \in Nat /\ stack \in Seq(Frame)
  BY <1>1, <1>2, <1>3, <1>4, <1>5, TopFrame, StackTypes DEF Engine, Running, TypeOK
<1>7. PICK q : q = frame.promise
  OBVIOUS
<1>8. PICK value : value = frame.resolution
  OBVIOUS
<1>9. /\ q \in 1..n /\ value \in 0..n /\ value \in Values(n) /\ GuestError \in Values(n)
      /\ "fulfilled" \in Settled /\ "rejected" \in Settled /\ "fulfilled" # "rejected"
  BY <1>6, <1>7, <1>8, FrameFields DEF Values, Settled
<1>10. /\ promises \in Seq(PromiseObjects(n, m)) /\ base \in Seq(CallFrames(n, m))
       /\ pairs \in Seq(Pairs(n)) /\ queue \in Seq(Jobs(n, m))
  BY <1>1, <1>2, <1>6 DEF Ready
<1>11. LoyalFrames(base, promises, pairs) /\ ~Bound(q, promises)
  BY <1>3, <1>4, <1>6, <1>7, LoyalPop DEF Loyalty, LoyalFrame
<1>12. Loyalty(base) /\ LoyalJobs(queue, promises, pairs)
  BY <1>11 DEF Loyalty
<1>13. PairsKeep /\ Len(pairs') = m
  BY <1>2, <1>5 DEF PairsKeep
<1>14. ASSUME NEW state \in Settled, NEW result \in Values(n), Settle(q, state, result, base),
              state = "rejected" => result = GuestError
       PROVE  Loyalty(stack)'
  <2>1. promises[q].state = "pending" => Repeats(q, state, result, promises)
    BY <1>11 DEF Bound, Repeats
  <2> QED BY <1>1, <1>2, <1>6, <1>9, <1>10, <1>12, <1>13, <1>14, <2>1, SettleLoyal
<1>15. ASSUME NEW intrinsic \in BOOLEAN, ThenCallable(intrinsic) PROVE Loyalty(stack)'
  <2>1. PICK job : job = ThenableJob(q, value, intrinsic)
    OBVIOUS
  <2>2. /\ job.kind = "thenable" /\ job.promise = q /\ job.thenable = value
        /\ job.intrinsic = intrinsic
    BY <2>1 DEF ThenableJob
  <2>3. queue' = Append(queue, job) /\ stack' \in {base, Append(base, HookFrame)}
    BY <1>3, <1>4, <1>7, <1>8, <1>15, <2>1 DEF ThenCallable, Enqueue
  <2>4. LoyalFrame(HookFrame, promises', pairs')
    BY LoyalPlain, Kinds
  <2>5. CASE ~intrinsic
    <3>1. promises' = promises
      BY <1>15, <2>5 DEF ThenCallable
    <3>2. LoyalJob(job, promises, pairs)
      BY <1>11, <2>2 DEF LoyalJob
    <3>3. LoyalJobs(queue', promises, pairs)
      BY <1>10, <1>12, <2>3, <3>2, LoyalAppend
    <3>4. LoyalFrames(stack', promises, pairs)
      BY <1>5, <1>10, <1>11, <2>3, <2>4, <3>1, LoyalPush
    <3> QED BY <1>5, <1>12, <3>1, <3>3, <3>4, SamePromises
  <2>6. CASE intrinsic
    <3>1. PICK r : r = Following(promises[q], value)
      OBVIOUS
    <3>2. promises[q] \in PromiseObjects(n, m) /\ q \in 1..Len(promises)
      BY <1>1, <1>9, <1>10, ElementOfSeq
    <3>3. r \in PromiseObjects(n, m)
      <4>1. n \in Nat /\ m \in Nat /\ value \in 0..n /\ promises[q] \in PromiseObjects(n, m)
        BY <1>6, <1>9, <3>2
      <4> QED BY ONLY <3>1, <4>1, RecordTypes
    <3>4. /\ r.state = promises[q].state /\ r.result = promises[q].result /\ r.follows = value
          /\ r.reactions = promises[q].reactions /\ r.reactionJobs = promises[q].reactionJobs
      BY <3>1, <3>2 DEF Following, PromiseObjects
    <3>5. promises' = [promises EXCEPT ![q] = r]
      BY <1>3, <1>7, <1>8, <1>10, <1>15, <2>6, <3>1, <3>2, LenProperties DEF ThenCallable, Following
    <3>6. /\ Len(promises') = n
          /\ \A p \in 1..n : promises'[p] = IF p = q THEN r ELSE promises[p]
      BY <1>1, <1>10, <3>2, <3>3, <3>5, ExceptSeq
    <3>7. /\ promises[q].state = "pending"
          /\ \A c \in 1..m : pairs[c].promise = q => pairs[c].alreadyResolved
          /\ \A i \in 1..Len(queue) : ~Exempt(queue[i], q)
          /\ \A i \in 1..Len(base) : base[i].kind = "getThen" => base[i].promise # q
      BY <1>2, <1>3, <1>4, <1>5, <1>7, GetterAlone
    <3>8. \A p \in 1..n : p # q /\ Bound(p, promises') =>
            Bound(p, promises) /\ promises'[p].follows = promises[p].follows
      BY <1>1, <1>6, <1>10, <3>6, BoundsLast
    <3>9. ASSUME NEW c \in 1..m, Tied(c, promises', pairs')
          PROVE  /\ Tied(c, promises, pairs)
                 /\ Leader(c, promises', pairs') = Leader(c, promises, pairs)
      <4>1. pairs[c] \in Pairs(n)
        BY <1>2, <1>10, ElementOfSeq
      <4>2. pairs[c].promise \in 1..n /\ pairs[c].promise # q
        BY <1>5, <3>7, <3>9, <4>1 DEF Tied, Pairs
      <4> QED BY <1>5, <3>8, <3>9, <4>2 DEF Tied, Leader
    <3>10. Loosens(q)
      BY <1>1, <1>2, <3>8, <3>9 DEF Loosens, TiesLoosen, BoundsLoosen
    <3>11. ASSUME NEW p \in 1..n PROVE LoyalPromise(p, promises', pairs')
      <4>1. LoyalPromise(p, promises, pairs)
        BY <1>1, <1>12 DEF Loyalty
      <4>2. /\ promises'[p].state = promises[p].state /\ promises'[p].result = promises[p].result
            /\ promises[p].state # "pending" => promises'[p].follows = promises[p].follows
            /\ promises'[p].reactions = promises[p].reactions
            /\ promises'[p].reactionJobs = promises[p].reactionJobs
        BY <3>4, <3>6, <3>7
      <4>3. /\ LoyalReactions(promises'[p].reactions, p, promises', pairs')
            /\ LoyalJobs(promises'[p].reactionJobs, promises', pairs')
        BY <1>1, <1>2, <1>6, <1>10, <3>10, <4>1, <4>2, ListsStayLoyal
      <4> QED BY <1>1, <1>6, <1>10, <4>1, <4>2, <4>3, PromiseStaysLoyal
    <3>12. \A c \in 1..m : pairs'[c].exposed => ~Tied(c, promises', pairs')
      BY <1>2, <1>5, <1>12, <3>9 DEF Loyalty
    <3>13. LoyalJobs(queue, promises', pairs') /\ LoyalFrames(base, promises', pairs')
      BY <1>1, <1>2, <1>6, <1>10, <1>11, <1>12, <3>7, <3>10, FramesStayLoyal, JobsStayLoyal
    <3>14. LoyalJob(job, promises', pairs')
      BY <1>9, <2>2, <2>6, <3>4, <3>6 DEF LoyalJob
    <3>15. LoyalJobs(queue', promises', pairs')
      BY <1>10, <2>3, <3>13, <3>14, LoyalAppend
    <3>16. LoyalFrames(stack', promises', pairs')
      BY <1>10, <2>3, <2>4, <3>13, LoyalPush
    <3> QED BY <1>1, <1>13, <3>6, <3>11, <3>12, <3>15, <3>16 DEF Loyalty
  <2> QED BY <2>5, <2>6
<1> QED BY <1>3, <1>4, <1>7, <1>8, <1>9, <1>14, <1>15 DEF GetThenStep, ThenThrows, ThenNotCallable

\* One more promise, which nobody has registered anything on, and more pairs.
LEMMA MoreLoyal ==
  ASSUME NEW n \in Nat, NEW m \in Nat, n = Len(promises), m = Len(pairs),
         promises \in Seq(PromiseObjects(n, m)), NEW base, Loyalty(base),
         Loosens(0), PairsKeep, Len(promises') = n + 1,
         \A p \in 1..n :
           /\ promises'[p].state = promises[p].state /\ promises'[p].result = promises[p].result
           /\ promises'[p].follows = promises[p].follows
           /\ LoyalReactions(promises'[p].reactions, p, promises', pairs')
           /\ LoyalJobs(promises'[p].reactionJobs, promises', pairs'),
         NEW reachable, NEW leader, promises'[n + 1] = PendingPromise(reachable, leader),
         \A c \in 1..Len(pairs') : c \in 1..m \/ ~pairs'[c].exposed \/ ~Tied(c, promises', pairs'),
         LoyalJobs(queue', promises', pairs'), LoyalFrames(stack', promises', pairs')
  PROVE  Loyalty(stack)'
<1>1. ASSUME NEW p \in 1..n PROVE LoyalPromise(p, promises', pairs')
  <2>1. LoyalPromise(p, promises, pairs)
    BY DEF Loyalty
  <2> QED BY <2>1, PromiseStaysLoyal DEF Loosens
<1>2. LoyalPromise(n + 1, promises', pairs')
  <2>1. PICK child : child = PendingPromise(reachable, leader)
    OBVIOUS
  <2>2. child.state = "pending" /\ child.reactions = <<>> /\ child.reactionJobs = <<>>
    BY <2>1 DEF PendingPromise
  <2> QED BY <2>1, <2>2 DEF LoyalPromise, LoyalReactions, LoyalJobs
<1>3. \A p \in 1..Len(promises') : LoyalPromise(p, promises', pairs')
  <2>1. \A p \in 1..(n + 1) : p \in 1..n \/ p = n + 1
    OBVIOUS
  <2> QED BY <1>1, <1>2, <2>1
<1>4. \A c \in 1..m : pairs'[c].exposed => ~Tied(c, promises', pairs')
  BY DEF Loyalty, PairsKeep, Loosens, TiesLoosen
<1>5. \A c \in 1..Len(pairs') : pairs'[c].exposed => ~Tied(c, promises', pairs')
  BY <1>4
<1> QED BY <1>3, <1>5 DEF Loyalty

LEMMA NewLoyal ==
  ASSUME TypeInv, Loyalty(stack), Keeps, NewPromise
  PROVE  Loyalty(stack)'
<1>1. PICK n : n = Len(promises)
  OBVIOUS
<1>2. PICK m : m = Len(pairs)
  OBVIOUS
<1>3. PICK child : child = PendingPromise(TRUE, 0)
  OBVIOUS
<1>4. PICK pair : pair = NewPair(n + 1, TRUE)
  OBVIOUS
<1>5. /\ n \in Nat /\ m \in Nat /\ Ready(stack) /\ UNCHANGED <<queue, stack>>
      /\ promises' = Append(promises, child) /\ pairs' = Append(pairs, pair)
  BY <1>1, <1>2, <1>3, <1>4, TopFrame DEF NewPromise, ForeignCode, Foreign
<1>6. /\ promises \in Seq(PromiseObjects(n, m)) /\ stack \in Seq(CallFrames(n, m))
      /\ pairs \in Seq(Pairs(n)) /\ queue \in Seq(Jobs(n, m))
  BY <1>1, <1>2, <1>5 DEF Ready
<1>7. Len(promises') = n + 1 /\ promises'[n + 1] = child /\ \A q \in 1..n : promises'[q] = promises[q]
  BY <1>1, <1>5, <1>6, AppendAny
<1>8. Len(pairs') = m + 1 /\ pairs'[m + 1] = pair /\ \A c \in 1..m : pairs'[c] = pairs[c]
  BY <1>2, <1>5, <1>6, AppendAny
<1>9. PairsKeep
  BY <1>2, <1>8 DEF PairsKeep
<1>10. Loosens(0)
  BY <1>1, <1>2, <1>5, <1>6, <1>7, <1>9, LooseAsBefore
<1>11. LoyalJobs(queue', promises', pairs') /\ LoyalFrames(stack', promises', pairs')
  BY <1>1, <1>2, <1>5, <1>6, <1>10, RestStaysLoyal
<1>12. ASSUME NEW p \in 1..n
       PROVE  /\ LoyalReactions(promises'[p].reactions, p, promises', pairs')
              /\ LoyalJobs(promises'[p].reactionJobs, promises', pairs')
  <2>1. LoyalPromise(p, promises, pairs)
    BY <1>1 DEF Loyalty
  <2> QED BY <1>1, <1>2, <1>5, <1>6, <1>7, <1>10, <2>1, ListsStayLoyal
<1>13. ~Tied(m + 1, promises', pairs')
  BY <1>3, <1>4, <1>7, <1>8 DEF Tied, Bound, NewPair, PendingPromise
<1>14. \A c \in 1..Len(pairs') : c \in 1..m \/ ~pairs'[c].exposed \/ ~Tied(c, promises', pairs')
  <2>1. \A c \in 1..(m + 1) : c \in 1..m \/ c = m + 1
    BY <1>5
  <2> QED BY <1>8, <1>13, <2>1
<1> QED BY <1>1, <1>2, <1>3, <1>5, <1>6, <1>7, <1>9, <1>10, <1>11, <1>12, <1>14, MoreLoyal

\* What performPromiseThen() makes of its promise.
LEMMA ThenRecords ==
  ASSUME NEW n \in Nat, NEW m \in Nat, NEW record \in PromiseObjects(n, m)
  PROVE  /\ \A reaction :
              /\ Registered(record, reaction).reactions = Append(record.reactions, reaction)
              /\ Registered(record, reaction).reactionJobs = record.reactionJobs
              /\ Registered(record, reaction).follows = record.follows
         /\ \A job :
              /\ HoldingBack(record, job).reactions = record.reactions
              /\ HoldingBack(record, job).reactionJobs = Append(record.reactionJobs, job)
              /\ HoldingBack(record, job).follows = record.follows
         /\ \A job, p :
              /\ MarkedNow(p, Flushing(record, job)).reactions = record.reactions
              /\ MarkedNow(p, Flushing(record, job)).reactionJobs = <<job>>
              /\ MarkedNow(p, Flushing(record, job)).follows = record.follows
<1>1. \A reaction :
        /\ Registered(record, reaction).reactions = Append(record.reactions, reaction)
        /\ Registered(record, reaction).reactionJobs = record.reactionJobs
        /\ Registered(record, reaction).follows = record.follows
  BY DEF Registered, PromiseObjects
<1>2. \A job :
        /\ HoldingBack(record, job).reactions = record.reactions
        /\ HoldingBack(record, job).reactionJobs = Append(record.reactionJobs, job)
        /\ HoldingBack(record, job).follows = record.follows
  BY DEF HoldingBack, PromiseObjects
<1>3. \A job, p :
        /\ MarkedNow(p, Flushing(record, job)).reactions = record.reactions
        /\ MarkedNow(p, Flushing(record, job)).reactionJobs = <<job>>
        /\ MarkedNow(p, Flushing(record, job)).follows = record.follows
  BY DEF MarkedNow, Marked, Reported, Flushing, PromiseObjects
<1> QED BY <1>1, <1>2, <1>3

\* A handler that is a function of a pair belongs to whom `p` is adopted by.
LEMMA ThenLoyal ==
  ASSUME NEW base, Ready(base), Loyalty(base), Keeps, Len(promises) \in Nat, Len(pairs) \in Nat,
         NEW before \in Seq(Pairs(Len(promises))), Len(pairs) <= Len(before),
         \A c \in 1..Len(before) : c \in 1..Len(pairs) \/ ~before[c].exposed,
         \A c \in 1..Len(pairs) : before[c] = pairs[c],
         NEW p \in 1..Len(promises), NEW reachable,
         NEW handler \in {NoHandler, Program} \cup 1..Len(before),
         handler \notin {NoHandler, Program} /\ Tied(handler, promises, before) =>
           p = Leader(handler, promises, before),
         ThenDone(p, handler, before, reachable, base)
  PROVE  Loyalty(stack)'
<1>1. PICK n : n = Len(promises)
  OBVIOUS
<1>2. PICK m : m = Len(pairs)
  OBVIOUS
<1>3. PICK k : k = Len(before)
  OBVIOUS
<1>4. PICK leader : leader = IF handler = NoHandler THEN p ELSE 0
  OBVIOUS
<1>5. PICK reaction : reaction = NewReaction(p, k, handler)
  OBVIOUS
<1>6. PICK job : job = JobNow(p, reaction)
  OBVIOUS
<1>7. PICK pair : pair = HiddenPair(n + 1)
  OBVIOUS
<1>8. /\ n \in Nat /\ m \in Nat /\ k \in Nat /\ m <= k /\ p \in 1..n
      /\ promises \in Seq(PromiseObjects(n, m)) /\ pairs \in Seq(Pairs(n))
      /\ queue \in Seq(Jobs(n, m)) /\ base \in Seq(CallFrames(n, m))
  BY <1>1, <1>2, <1>3, LenProperties DEF Ready
<1>9. /\ Len(promises') = n + 1 /\ promises'[n + 1] = PendingPromise(reachable, leader)
      /\ \A q \in 1..n : q # p => promises'[q] = promises[q]
      /\ pairs' = Append(before, pair)
  BY <1>1, <1>4, <1>7 DEF ThenDone, Child
<1>10. \/ /\ promises'[p] = Registered(promises[p], reaction)
          /\ stack' = base /\ queue' = queue
       \/ promises'[p] = promises[p] /\ Enqueue(job, base)
       \/ /\ promises'[p] = HoldingBack(promises[p], job)
          /\ stack' = base /\ queue' = queue
       \/ /\ promises'[p] = MarkedNow(p, Flushing(promises[p], job))
          /\ stack' = IF Tells(p) THEN Append(Append(base, FreshFlush(p)), TrackerFrame)
                                  ELSE Append(base, FreshFlush(p))
          /\ queue' = queue
  BY <1>3, <1>5, <1>6 DEF ThenDone
<1>11. promises[p] \in PromiseObjects(n, m) /\ LoyalPromise(p, promises, pairs)
  BY <1>1, <1>8, ElementOfSeq DEF Loyalty
<1>12. /\ promises'[p].state = promises[p].state /\ promises'[p].result = promises[p].result
       /\ promises'[p].follows = promises[p].follows
  BY <1>8, <1>10, <1>11, Alike, ThenRecords
<1>13. Len(pairs') = k + 1 /\ pairs'[k + 1] = pair /\ \A c \in 1..k : pairs'[c] = before[c]
  BY <1>3, <1>9, AppendAny
<1>14. PairsKeep
  <2>1. \A c \in 1..m : c \in 1..k
    BY <1>8
  <2> QED BY <1>2, <1>13, <2>1 DEF PairsKeep
<1>15. \A q \in 1..n :
         /\ promises'[q].state = promises[q].state /\ promises'[q].result = promises[q].result
         /\ promises'[q].follows = promises[q].follows
  BY <1>9, <1>12
<1>16. Loosens(0)
  BY <1>1, <1>2, <1>8, <1>14, <1>15, LooseAsBefore
<1>17. /\ reaction.source = p /\ reaction.derived = k + 1 /\ reaction.handler = handler
       /\ job.kind = "reaction" /\ job.reaction = reaction
       /\ job.type = promises[p].state /\ job.argument = promises[p].result
       /\ pair.promise = n + 1 /\ ~pair.exposed
  BY <1>5, <1>6, <1>7 DEF NewReaction, JobNow, ReactionJob, HiddenPair, NewPair
<1>18. Loyal(reaction, promises', pairs')
  <2>1. Bound(n + 1, promises') => leader # 0 /\ promises'[n + 1].follows = leader
    BY <1>9 DEF Bound, PendingPromise
  <2>2. Tied(k + 1, promises', pairs') =>
          handler = NoHandler /\ p = Leader(k + 1, promises', pairs')
    BY <1>4, <1>13, <1>17, <2>1 DEF Tied, Leader
  <2>3. ASSUME handler \notin {NoHandler, Program}, Tied(handler, promises', pairs')
        PROVE  p = Leader(handler, promises', pairs')
    <3>1. handler \in 1..k
      BY <1>3, <2>3
    <3>2. before[handler] \in Pairs(n) /\ pairs'[handler] = before[handler]
      BY <1>1, <1>3, <1>13, <3>1, ElementOfSeq
    <3>3. PICK q : q = before[handler].promise
      OBVIOUS
    <3>4. q \in 1..n
      BY <3>2, <3>3 DEF Pairs
    <3>5. Bound(q, promises)
      BY <1>1, <1>8, <1>15, <2>3, <3>2, <3>3, <3>4, BoundsLast DEF Tied
    <3>6. Tied(handler, promises, before)
      BY <2>3, <3>2, <3>3, <3>5 DEF Tied
    <3>7. p = promises[q].follows
      BY <2>3, <3>3, <3>6 DEF Leader
    <3> QED BY <1>15, <3>2, <3>3, <3>4, <3>7 DEF Leader
  <2> QED BY <1>17, <2>2, <2>3 DEF Loyal
<1>19. LoyalJob(job, promises', pairs')
  BY <1>12, <1>17, <1>18 DEF LoyalJob
<1>20. \A q \in 1..n : /\ LoyalReactions(promises[q].reactions, q, promises', pairs')
                       /\ LoyalJobs(promises[q].reactionJobs, promises', pairs')
  BY <1>1, <1>2, <1>8, <1>16, ListsStayLoyal DEF Loyalty
<1>21. /\ LoyalReactions(promises'[p].reactions, p, promises', pairs')
       /\ LoyalJobs(promises'[p].reactionJobs, promises', pairs')
  <2>1. /\ promises[p].reactions \in Seq(Reactions(n, m))
        /\ promises[p].reactionJobs \in Seq(ReactionJobs(n, m))
    BY <1>11 DEF PromiseObjects
  <2>2. LoyalReactions(Append(promises[p].reactions, reaction), p, promises', pairs')
    BY <1>8, <1>17, <1>18, <1>20, <2>1, LoyalRegistered
  <2>3. LoyalJobs(Append(promises[p].reactionJobs, job), promises', pairs')
    BY <1>8, <1>19, <1>20, <2>1, LoyalAppend
  <2>4. LoyalJobs(<<job>>, promises', pairs')
    BY <1>19 DEF LoyalJobs
  <2>5. /\ promises'[p].reactions \in {promises[p].reactions, Append(promises[p].reactions, reaction)}
        /\ promises'[p].reactionJobs \in
             {promises[p].reactionJobs, Append(promises[p].reactionJobs, job), <<job>>}
    <3>1. \/ promises'[p] = promises[p]
          \/ promises'[p] = Registered(promises[p], reaction)
          \/ promises'[p] = HoldingBack(promises[p], job)
          \/ promises'[p] = MarkedNow(p, Flushing(promises[p], job))
      BY <1>10
    <3>2. promises[p] \in PromiseObjects(n, m) /\ n \in Nat /\ m \in Nat
      BY <1>8, <1>11
    <3>3. CASE promises'[p] = promises[p]
      BY <3>3
    <3>4. CASE promises'[p] = Registered(promises[p], reaction)
      <4>1. /\ promises'[p].reactions = Append(promises[p].reactions, reaction)
            /\ promises'[p].reactionJobs = promises[p].reactionJobs
        BY <3>2, <3>4, ThenRecords, SMTT(30)
      <4> QED BY <4>1
    <3>5. CASE promises'[p] = HoldingBack(promises[p], job)
      <4>1. /\ promises'[p].reactions = promises[p].reactions
            /\ promises'[p].reactionJobs = Append(promises[p].reactionJobs, job)
        BY <3>2, <3>5, ThenRecords, SMTT(30)
      <4> QED BY <4>1
    <3>6. CASE promises'[p] = MarkedNow(p, Flushing(promises[p], job))
      <4>1. /\ promises'[p].reactions = promises[p].reactions
            /\ promises'[p].reactionJobs = <<job>>
        BY <3>2, <3>6, ThenRecords
      <4> QED BY <4>1
    <3> QED BY <3>1, <3>3, <3>4, <3>5, <3>6
  <2> QED BY <1>8, <1>20, <2>2, <2>3, <2>4, <2>5
<1>22. \A q \in 1..n :
         /\ LoyalReactions(promises'[q].reactions, q, promises', pairs')
         /\ LoyalJobs(promises'[q].reactionJobs, promises', pairs')
  BY <1>9, <1>20, <1>21
<1>23. LoyalJobs(queue, promises', pairs') /\ LoyalFrames(base, promises', pairs')
  BY <1>1, <1>2, <1>8, <1>16, RestStaysLoyal
<1>24. LoyalJobs(queue', promises', pairs')
  <2>1. LoyalJobs(Append(queue, job), promises', pairs')
    BY <1>8, <1>19, <1>23, LoyalAppend
  <2> QED BY <1>10, <1>23, <2>1 DEF Enqueue
<1>25. LoyalFrames(stack', promises', pairs')
  <2>1. PICK flush : flush = FreshFlush(p)
    OBVIOUS
  <2>2. PICK flushing : flushing = Append(base, flush)
    OBVIOUS
  <2>3. /\ LoyalFrame(flush, promises', pairs') /\ LoyalFrame(HookFrame, promises', pairs')
        /\ LoyalFrame(TrackerFrame, promises', pairs')
    <3>1. /\ flush.kind = "flush" /\ HookFrame.kind = "hook" /\ TrackerFrame.kind = "tracker"
      BY <1>8, <2>1, FreshFrames, Kinds
    <3> QED BY <3>1, LoyalPlain
  <2>4. flush \in CallFrames(n, m)
    BY <1>8, <2>1, FreshFrames
  <2>5. flushing \in Seq(CallFrames(n, m)) /\ LoyalFrames(flushing, promises', pairs')
    BY <1>8, <1>23, <2>2, <2>3, <2>4, AppendProperties, LoyalPush
  <2>6. /\ LoyalFrames(Append(base, HookFrame), promises', pairs')
        /\ LoyalFrames(Append(flushing, TrackerFrame), promises', pairs')
    BY <1>8, <1>23, <2>3, <2>5, LoyalPush
  <2>7. stack' \in {base, Append(base, HookFrame), flushing, Append(flushing, TrackerFrame)}
    BY <1>10, <2>1, <2>2 DEF Enqueue
  <2> QED BY <1>23, <2>5, <2>6, <2>7
<1>26. \A c \in 1..Len(pairs') : c \in 1..m \/ ~pairs'[c].exposed \/ ~Tied(c, promises', pairs')
  <2>1. \A c \in 1..(k + 1) : c \in 1..k \/ c = k + 1
    BY <1>8
  <2>2. \A c \in 1..k : c \in 1..m \/ ~pairs'[c].exposed
    BY <1>2, <1>3, <1>13
  <2> QED BY <1>13, <1>17, <2>1, <2>2
<1>27. \A q \in 1..n :
         /\ promises'[q].state = promises[q].state /\ promises'[q].result = promises[q].result
         /\ promises'[q].follows = promises[q].follows
         /\ LoyalReactions(promises'[q].reactions, q, promises', pairs')
         /\ LoyalJobs(promises'[q].reactionJobs, promises', pairs')
  BY <1>15, <1>22
<1>28. Loyalty(base)
  OBVIOUS
<1>29. promises'[n + 1] = PendingPromise(reachable, leader) /\ Len(promises') = n + 1
  BY <1>9
<1>30. n \in Nat /\ m \in Nat /\ promises \in Seq(PromiseObjects(n, m))
  BY <1>8
<1> QED BY ONLY <1>1, <1>2, <1>14, <1>16, <1>24, <1>25, <1>26, <1>27, <1>28, <1>29, <1>30, MoreLoyal

LEMMA RegisteringLoyal ==
  ASSUME TypeInv, Loyalty(stack), Keeps, ThenStep
  PROVE  Loyalty(stack)'
<1>1. PICK p \in 1..Len(promises), handler \in {NoHandler, Program} :
        PerformThen(p, handler, pairs, TRUE, stack)
  BY DEF ThenStep
<1>2. Ready(stack) /\ UNCHANGED <<jobHost, thrown>> /\ Len(promises) \in Nat /\ Len(pairs) \in Nat
  BY TopFrame DEF ThenStep, Foreign
<1>3. /\ pairs \in Seq(Pairs(Len(promises))) /\ Len(pairs) <= Len(pairs)
      /\ handler \in {NoHandler, Program} \cup 1..Len(pairs) /\ TRUE \in BOOLEAN
  BY <1>2 DEF Ready
<1>4. ThenDone(p, handler, pairs, TRUE, stack)
  BY <1>1, <1>2, <1>3, ThenEffect
<1> QED BY <1>2, <1>3, <1>4, ThenLoyal

LEMMA ThenableLoyal ==
  ASSUME TypeInv, Loyalty(stack), Keeps, RunThenable
  PROVE  Loyalty(stack)'
<1>1. PICK n : n = Len(promises)
  OBVIOUS
<1>2. PICK m : m = Len(pairs)
  OBVIOUS
<1>3. PICK job : job = Last(stack).job
  OBVIOUS
<1>4. PICK base : base = Front(stack)
  OBVIOUS
<1>5. PICK q : q = job.promise
  OBVIOUS
<1>6. PICK k : k = m + 1
  OBVIOUS
<1>7. /\ stack # <<>> /\ q \in 1..n /\ Ready(base) /\ (job.intrinsic => job.thenable \in 1..n)
      /\ n \in Nat /\ m \in Nat /\ stack \in Seq(Frame) /\ UNCHANGED <<jobHost, thrown>>
      /\ Last(stack).kind = "job" /\ job.kind = "thenable"
  BY <1>1, <1>2, <1>3, <1>4, <1>5, ThenableOnTop, TopFrame, StackTypes DEF TypeOK, RunThenable
<1>8. LoyalFrames(base, promises, pairs) /\ LoyalFrame(Last(stack), promises, pairs)
  BY <1>4, <1>7, LoyalPop DEF Loyalty
<1>9. Bound(q, promises) => job.intrinsic /\ job.thenable = promises[q].follows
  BY <1>3, <1>5, <1>7, <1>8 DEF LoyalFrame, LoyalJob
<1>10. Loyalty(base)
  BY <1>8 DEF Loyalty
<1>11. /\ promises \in Seq(PromiseObjects(n, m)) /\ pairs \in Seq(Pairs(n))
       /\ queue \in Seq(Jobs(n, m)) /\ base \in Seq(CallFrames(n, m))
  BY <1>1, <1>2, <1>7 DEF Ready
<1>12. CASE job.intrinsic
  <2>1. PICK pair : pair = HiddenPair(q)
    OBVIOUS
  <2>2. PICK before : before = Append(pairs, pair)
    OBVIOUS
  <2>3. pair \in Pairs(n) /\ pair.promise = q /\ ~pair.exposed
    BY <1>7, <2>1 DEF HiddenPair, NewPair, Pairs
  <2>4. before \in Seq(Pairs(n)) /\ Len(before) = k /\ before[k] = pair
    BY <1>2, <1>6, <1>11, <2>2, <2>3, AppendProperties
  <2>5. \A c \in 1..m : before[c] = pairs[c]
    BY <1>2, <1>11, <2>2, AppendAny
  <2>6. PICK p : p = job.thenable
    OBVIOUS
  <2>7. PerformThen(p, k, before, FALSE, base)
    BY <1>2, <1>3, <1>4, <1>5, <1>6, <1>12, <2>1, <2>2, <2>6 DEF RunThenable, HiddenPair
  <2>8. /\ p \in 1..n /\ m <= Len(before) /\ FALSE \in BOOLEAN
        /\ k \in {NoHandler, Program} \cup 1..Len(before)
    BY <1>6, <1>7, <1>12, <2>4, <2>6
  <2>9. ThenDone(p, k, before, FALSE, base)
    BY <1>1, <1>2, <1>7, <2>4, <2>7, <2>8, ThenEffect
  <2>10. \A c \in 1..Len(before) : c \in 1..m \/ ~before[c].exposed
    <3>1. \A c \in 1..k : c \in 1..m \/ c = k
      BY <1>6, <1>7
    <3> QED BY <2>3, <2>4, <3>1
  <2>11. Tied(k, promises, before) => p = Leader(k, promises, before)
    BY <1>9, <2>3, <2>4, <2>6 DEF Tied, Leader
  <2> QED BY <1>1, <1>2, <1>7, <1>10, <2>4, <2>5, <2>8, <2>9, <2>10, <2>11, ThenLoyal
<1>13. CASE ~job.intrinsic
  <2>1. PICK pair : pair = NewPair(q, TRUE)
    OBVIOUS
  <2>2. pair.promise = q
    BY <2>1 DEF NewPair
  <2>3. /\ pairs' = Append(pairs, pair) /\ stack' = Append(base, ThenableFrame(k))
        /\ UNCHANGED <<promises, queue>>
    BY <1>2, <1>3, <1>4, <1>5, <1>6, <1>13, <2>1 DEF RunThenable
  <2>4. Len(pairs') = k /\ pairs'[k] = pair /\ \A c \in 1..m : pairs'[c] = pairs[c]
    BY <1>2, <1>6, <1>11, <2>3, AppendAny
  <2>5. ~Tied(k, promises', pairs')
    BY <1>9, <1>13, <2>2, <2>3, <2>4 DEF Tied
  <2>6. PairsKeep
    BY <1>2, <2>4 DEF PairsKeep
  <2>7. Loosens(0)
    BY <1>1, <1>2, <1>7, <1>11, <2>3, <2>6, LooseAsBefore
  <2>8. LoyalJobs(queue', promises', pairs') /\ LoyalFrames(base, promises', pairs')
    BY <1>1, <1>2, <1>7, <1>10, <1>11, <2>3, <2>7, RestStaysLoyal
  <2>9. LoyalFrame(ThenableFrame(k), promises', pairs')
    <3>1. ThenableFrame(k).kind = "thenable" /\ ThenableFrame(k).pair = k
      BY Kinds
    <3> QED BY <2>5, <3>1 DEF LoyalFrame
  <2>10. LoyalFrames(stack', promises', pairs')
    BY <1>11, <2>3, <2>8, <2>9, LoyalPush
  <2>11. ASSUME NEW p \in 1..n PROVE LoyalPromise(p, promises', pairs')
    <3>1. LoyalPromise(p, promises, pairs)
      BY <1>1, <1>10 DEF Loyalty
    <3>2. /\ LoyalReactions(promises[p].reactions, p, promises', pairs')
          /\ LoyalJobs(promises[p].reactionJobs, promises', pairs')
      BY <1>1, <1>2, <1>7, <1>11, <2>7, <3>1, ListsStayLoyal
    <3> QED BY <1>1, <1>7, <1>11, <2>3, <3>1, <3>2, PromiseStaysLoyal
  <2>12. \A c \in 1..Len(pairs') : pairs'[c].exposed => ~Tied(c, promises', pairs')
    <3>1. \A c \in 1..k : c \in 1..m \/ c = k
      BY <1>6, <1>7
    <3>2. \A c \in 1..m : pairs'[c].exposed => ~Tied(c, promises', pairs')
      BY <1>2, <1>10, <2>4, <2>7 DEF Loyalty, Loosens, TiesLoosen
    <3> QED BY <2>4, <2>5, <3>1, <3>2
  <2> QED BY <1>1, <2>3, <2>8, <2>10, <2>11, <2>12 DEF Loyalty
<1> QED BY <1>12, <1>13

-----------------------------------------------------------------------------
(* Every step, and the theorem *)

LEMMA LoyaltyKept ==
  ASSUME TypeInv, RoutesAreSingle, Loyalty(stack), Keeps, [Next]_vars
  PROVE  Loyalty(stack)'
<1>1. CASE UNCHANGED vars
  BY <1>1 DEF vars, Loyalty
<1>2. ASSUME NEW c \in 1..MaxPairs,
             \/ ProgramRejects(c)
             \/ \E value \in {Primitive, NewObject} \cup 1..MaxPromises : ProgramResolves(c, value)
      PROVE  Loyalty(stack)'
  BY <1>2, ProgramCallLoyal
<1>3. ASSUME NEW p \in 1..MaxPromises, NEW handler \in {NoHandler, Program},
             ProgramThen(p, handler)
      PROVE  Loyalty(stack)'
  <2>1. ThenStep
    BY <1>3 DEF ProgramThen, ThenStep, Reachable, ForeignCode
  <2> QED BY <2>1, RegisteringLoyal
<1>4. CASE HookReturns \/ TrackerEnds \/ HostError \/ Caught \/ HookThrows \/ EndDrain \/ RunJobs
           \/ ThenReturns \/ TriggerThrows
  BY <1>4, QuietSteps, QuietLoyal
<1>5. CASE GetThenStep
  BY <1>5, GetThenLoyal
<1>6. CASE LoopStep
  BY <1>6, LoopLoyal
<1>7. CASE \/ NativeReturns \/ HandlerThrows \/ ThenFails
           \/ \E value \in {Primitive, NewObject} \cup 1..MaxPromises : HandlerReturns(value)
  BY <1>7, ReturnLoyal
<1>8. CASE NewPromise \/ RunReaction \/ RunThenable \/ StartJob \/ Unwinds
  BY <1>8, NewLoyal, ReactionLoyal, ThenableLoyal, QuietLoyal, UnwindsLoyal
<1> QED BY <1>1, <1>2, <1>3, <1>4, <1>5, <1>6, <1>7, <1>8 DEF Next, GetThenStep, LoopStep

\* A promise that adopts another through the intrinsic `then`, or is derived from
\* it without a handler, is never settled before it or unlike it, whatever getters,
\* thenables, handlers and hooks run meanwhile.
THEOREM AdoptionsAreKept == Spec => []AdoptedOutcomeIsKept
<1>1. Init => RoutesAreSingle /\ Loyalty(stack)
  <2>1. Init => Len(promises) = 0 /\ Len(pairs) = 0 /\ Len(queue) = 0 /\ Len(stack) = 0
    BY DEF Init
  <2> QED BY <2>1 DEF RoutesAreSingle, Loyalty, LoyalJobs, LoyalFrames
<1>2. /\ TypeInv /\ Begun(stack, promises) /\ RoutesAreSingle /\ Loyalty(stack)
      /\ [Next]_vars
      => RoutesAreSingle' /\ Loyalty(stack)'
  BY RoutesKept, StepKept, LoyaltyKept DEF Kept
<1>3. TypeInv /\ Loyalty(stack) => AdoptedOutcomeIsKept
  <2>1. ASSUME TypeInv, Loyalty(stack), NEW p \in 1..Len(promises), NEW q,
               q = promises[p].follows, promises[p].state \in Settled, q # 0
        PROVE  /\ promises[q].state \in Settled
               /\ ~IsObject(promises[q].result) =>
                    /\ promises[p].state = promises[q].state
                    /\ promises[p].result = promises[q].result
    <3>1. PICK n : n = Len(promises)
      OBVIOUS
    <3>2. PICK m : m = Len(pairs)
      OBVIOUS
    <3>3. n \in Nat /\ m \in Nat /\ promises \in Seq(PromiseObjects(n, m))
      BY <2>1, <3>1, <3>2, TopFrame DEF TypeInv, Ready
    <3>4. promises[p] \in PromiseObjects(n, m)
      BY <2>1, <3>1, <3>3, ElementOfSeq
    <3>5. q \in 1..n
      BY <2>1, <3>3, <3>4 DEF PromiseObjects
    <3>6. promises[q] \in PromiseObjects(n, m)
      BY <3>1, <3>3, <3>5, ElementOfSeq
    <3>7. promises[q].state \in Settled \cup {"pending"}
      BY <3>6 DEF PromiseObjects
    <3>8. Repeats(p, promises[p].state, promises[p].result, promises)
      BY <2>1 DEF Loyalty, LoyalPromise, Settled
    <3> QED BY <2>1, <3>7, <3>8 DEF Repeats
  <2> QED BY <2>1 DEF AdoptedOutcomeIsKept
<1> QED BY <1>1, <1>2, <1>3, TypesAlways, PTL DEF Spec
=============================================================================
