----------------------- MODULE ModuleEvaluationProofs -----------------------
(***************************************************************************)
(* What TLAPS proves of links and evaluations for any graph of modules.    *)
(*                                                                         *)
(* Linking.  A record is open while it is on the stack of a link.  An open *)
(* record is in a cycle with the record of one frame, its owner, the last  *)
(* that was entered before it; and what it requests is linked, or open and *)
(* not below the ancestor index of its owner's record.  So when the two    *)
(* indices of a record are equal at the end of its frame, what is on the   *)
(* stack above it is a strongly connected component.                       *)
(*                                                                         *)
(* Evaluation.  Evaluations nest, and all but the last are running a body. *)
(* What an evaluation has entered and not committed is held by no other,   *)
(* is in the component of the record of one of its frames, and depends on  *)
(* the record on top.  Of what such a record has requested so far, all is  *)
(* evaluated, or held by the same evaluation in the same component.  So a  *)
(* component is committed when all it requests is; it has no member that   *)
(* failed, because what fails depends on a module that failed and is held  *)
(* by nobody; and what fails with a module, the least set closed under     *)
(* components and waiting, depends on it and has nothing evaluated in it.  *)
(***************************************************************************)
EXTENDS ModuleEvaluation, SequenceLemmas

-----------------------------------------------------------------------------
(* The invariant of linking *)

FrameRecord == [record: Modules, dependencyIndex: Nat, entered: BOOLEAN]

Open       == {m \in Modules : status[m] = "linking"}
Rec(i)     == linkPending[i].record
Done(i)    == linkPending[i].dependencyIndex
Active(i)  == i \in 1..Len(linkPending) /\ linkPending[i].entered

RecordInv ==
  /\ IsFiniteSet(linkRecords)
  /\ \A m \in linkRecords : status[m] # "unlinked"
  /\ \A m \in Open : m \in linkRecords /\ dfsIndex[m] \in 1..Cardinality(linkRecords)

\* The stack holds the open records in the order of their indices.
StackInv ==
  /\ \A i \in 1..Len(linkStack) : linkStack[i] \in Open
  /\ \A m \in Open : \E i \in 1..Len(linkStack) : linkStack[i] = m
  /\ \A i, j \in 1..Len(linkStack) : i < j => dfsIndex[linkStack[i]] < dfsIndex[linkStack[j]]

\* Each frame but the last waits for the record of the next.
FrameInv ==
  /\ \A i \in 1..Len(linkPending) :
       /\ Done(i) <= Len(requested[Rec(i)])
       /\ Active(i) => Rec(i) \in Open
       /\ ~Active(i) =>
            i = Len(linkPending) /\ status[Rec(i)] = "unlinked" /\ Done(i) = 0
       /\ i < Len(linkPending) =>
            Done(i) < Len(requested[Rec(i)]) /\ requested[Rec(i)][Done(i) + 1] = Rec(i + 1)
  /\ \A i, j \in 1..Len(linkPending) :
       i < j /\ Active(j) => dfsIndex[Rec(i)] < dfsIndex[Rec(j)] /\ Reaches(Rec(i), Rec(j))
  /\ \A m \in Open : Active(1) /\ dfsIndex[Rec(1)] <= dfsIndex[m]

\* Frame i is the last that was entered before record m, or it is the frame of m.
Owns(i, m) ==
  /\ Active(i) /\ dfsIndex[Rec(i)] <= dfsIndex[m]
  /\ \A j \in 1..Len(linkPending) : i < j /\ Active(j) => dfsIndex[m] < dfsIndex[Rec(j)]

OwnerInv ==
  \A m \in Open : \E i \in 1..Len(linkPending) :
    Owns(i, m) /\ Reaches(Rec(i), m) /\ Reaches(m, Rec(i))

LowInv ==
  \A m \in Open :
    /\ dfsAncestorIndex[m] <= dfsIndex[m]
    /\ \E n \in Open : dfsIndex[n] = dfsAncestorIndex[m] /\ Reaches(m, n)

InFrame(m) == \E i \in 1..Len(linkPending) : Active(i) /\ Rec(i) = m

\* The link has looked at request n of record m.
Looked(m, n) ==
  \/ ~InFrame(m) /\ n \in Requests(m)
  \/ \E i \in 1..Len(linkPending) :
       Active(i) /\ Rec(i) = m /\ \E k \in 1..Done(i) : n = requested[m][k]

\* Record n is not below what frame i knows it can reach, or will know when it has
\* looked at its next request.
Covers(i, n) ==
  \/ dfsAncestorIndex[Rec(i)] <= dfsIndex[n]
  \/ /\ i = Len(linkPending) /\ Done(i) < Len(requested[Rec(i)])
     /\ requested[Rec(i)][Done(i) + 1] \in Open
     /\ dfsAncestorIndex[requested[Rec(i)][Done(i) + 1]] <= dfsIndex[n]

EdgeInv ==
  \A m \in Open :
    /\ ~InFrame(m) => m \notin broken
    /\ \A n \in Modules : Looked(m, n) =>
         \/ status[n] = "linked"
         \/ n \in Open /\ \A i \in 1..Len(linkPending) : Owns(i, m) => Covers(i, n)

Exact(m) ==
  /\ evaluationSccMembers[m] = Component(m)
  /\ evaluationSccRoot[m] \in Component(m)
  /\ \A n \in Component(m) : evaluationSccRoot[n] = evaluationSccRoot[m]

LinkedInv ==
  /\ \A m \in Linked :
       /\ m \notin broken /\ Requests(m) \subseteq Linked /\ Exact(m)
       /\ m \notin linkRecords =>
            environment[m] = "complete" /\ \A n \in Requests(m) : n \notin linkRecords
       /\ ~Linking => environment[m] = "complete"
  /\ \A m \in Modules : status[m] # "linked" => evaluationSccMembers[m] = {}
  /\ \A m \in Modules : status[m] = "unlinked" => environment[m] = "none"

LinkInv ==
  /\ LinkTypeOK /\ RecordInv /\ StackInv /\ FrameInv /\ OwnerInv /\ LowInv /\ EdgeInv /\ LinkedInv

-----------------------------------------------------------------------------
(* The graph *)

LEMMA GraphType ==
  ASSUME LinkTypeOK
  PROVE  /\ requested \in [Modules -> Seq(Modules)]
         /\ \A m \in Modules :
              /\ requested[m] \in Seq(Modules) /\ Len(requested[m]) \in Nat
              /\ Requests(m) = {requested[m][k] : k \in 1..Len(requested[m])}
              /\ Requests(m) \subseteq Modules
<1>1. requested \in [Modules -> Seq(Modules)]
  BY GraphAssumption DEF LinkTypeOK
<1>2. ASSUME NEW m \in Modules
      PROVE  /\ requested[m] \in Seq(Modules) /\ Len(requested[m]) \in Nat
             /\ Requests(m) = {requested[m][k] : k \in 1..Len(requested[m])}
             /\ Requests(m) \subseteq Modules
  <2>1. requested[m] \in Seq(Modules)
    BY <1>1
  <2>2. Len(requested[m]) \in Nat /\ DOMAIN requested[m] = 1..Len(requested[m])
    BY <2>1, LenProperties
  <2>3. Requests(m) = {requested[m][k] : k \in 1..Len(requested[m])}
    BY <2>2 DEF Requests, Range
  <2>4. \A k \in 1..Len(requested[m]) : requested[m][k] \in Modules
    BY <2>1, ElementOfSeq
  <2> QED BY <2>1, <2>2, <2>3, <2>4
<1> QED BY <1>1, <1>2

\* What holds of a module and of the requests of whatever it holds of, holds of
\* all that the module reaches.
LEMMA ReachClosed ==
  ASSUME LinkTypeOK, NEW S \in SUBSET Modules, \A m \in S : Requests(m) \subseteq S,
         NEW m \in S, NEW n, Reaches(m, n)
  PROVE  n \in S
<1>1. requested \in Graphs /\ m \in Modules
  BY DEF LinkTypeOK
<1>2. ClosedUnder(requested, S)
  BY DEF ClosedUnder, Requests
<1> QED BY <1>1, <1>2 DEF Reaches, Dependencies

LEMMA ReachSelf ==
  ASSUME LinkTypeOK, NEW m \in Modules
  PROVE  Reaches(m, m)
BY DEF Reaches, Dependencies, LinkTypeOK

LEMMA ReachEdge ==
  ASSUME LinkTypeOK, NEW m \in Modules, NEW n \in Requests(m)
  PROVE  Reaches(m, n)
<1>1. n \in Modules /\ requested \in Graphs
  BY GraphType DEF LinkTypeOK
<1>2. ASSUME NEW S \in SUBSET Modules, m \in S, ClosedUnder(requested, S) PROVE n \in S
  BY <1>2 DEF ClosedUnder, Requests
<1> QED BY <1>1, <1>2 DEF Reaches, Dependencies

LEMMA ReachTrans ==
  ASSUME LinkTypeOK, NEW m \in Modules, NEW n, NEW q, Reaches(m, n), Reaches(n, q)
  PROVE  Reaches(m, q)
<1>1. n \in Modules /\ requested \in Graphs
  BY DEF Reaches, Dependencies, LinkTypeOK
<1>2. q \in Modules
  BY <1>1 DEF Reaches, Dependencies
<1>3. ASSUME NEW S \in SUBSET Modules, m \in S, ClosedUnder(requested, S) PROVE q \in S
  <2>1. n \in S
    BY <1>1, <1>3 DEF Reaches, Dependencies
  <2> QED BY <1>1, <1>3, <2>1 DEF Reaches, Dependencies
<1> QED BY <1>1, <1>2, <1>3 DEF Reaches, Dependencies

-----------------------------------------------------------------------------
(* The frames of a link *)

LEMMA TopLink ==
  ASSUME LinkTypeOK, Linking, NEW k, k = Len(linkPending)
  PROVE  /\ k \in Nat \ {0} /\ linkPending \in Seq(FrameRecord)
         /\ frame = linkPending[k] /\ current = Rec(k) /\ current \in Modules
         /\ \A i \in 1..k : linkPending[i] \in FrameRecord /\ Rec(i) \in Modules /\ Done(i) \in Nat
         /\ Front(linkPending) \in Seq(FrameRecord) /\ Len(Front(linkPending)) = k - 1
         /\ \A i \in 1..(k - 1) : Front(linkPending)[i] = linkPending[i]
<1>1. linkPending \in Seq(FrameRecord) /\ linkPending # <<>>
  BY DEF LinkTypeOK, Linking, FrameRecord
<1>2. /\ k \in Nat \ {0} /\ Front(linkPending) \in Seq(FrameRecord)
      /\ Len(Front(linkPending)) = k - 1
      /\ \A i \in 1..(k - 1) : Front(linkPending)[i] = linkPending[i]
  BY <1>1, FrontLast
<1>3. \A i \in 1..k : linkPending[i] \in FrameRecord
  BY <1>1, ElementOfSeq
<1>4. \A i \in 1..k : Rec(i) \in Modules /\ Done(i) \in Nat
  BY <1>3 DEF FrameRecord, Rec, Done
<1>5. frame = linkPending[k] /\ current = Rec(k)
  BY <1>1 DEF frame, current, Last, Rec
<1> QED BY <1>1, <1>2, <1>3, <1>4, <1>5

\* The frames below k stay as they are.
Beneath(k) == \A i \in 1..(k - 1) : linkPending'[i] = linkPending[i]

LEMMA EnterFrames ==
  ASSUME LinkTypeOK, EnterLink, NEW k, k = Len(linkPending)
  PROVE  /\ linkPending' \in Seq(FrameRecord) /\ Len(linkPending') = k /\ Beneath(k)
         /\ linkPending'[k].record = current /\ linkPending'[k].entered
         /\ linkPending'[k].dependencyIndex = Done(k)
<1>1. PICK top : top = [frame EXCEPT !.entered = TRUE]
  OBVIOUS
<1>2. Linking /\ linkPending' = Append(Front(linkPending), top)
  BY <1>1 DEF EnterLink
<1>3. frame \in FrameRecord /\ frame = linkPending[k] /\ k \in Nat \ {0}
  BY <1>2, TopLink
<1>4. /\ top \in FrameRecord /\ top.record = current /\ top.entered
      /\ top.dependencyIndex = Done(k)
  BY <1>1, <1>3 DEF FrameRecord, current, Done
<1>5. Front(linkPending) \in Seq(FrameRecord) /\ Len(Front(linkPending)) = k - 1
  BY <1>2, TopLink
<1>6. \A i \in 1..(k - 1) : Front(linkPending)[i] = linkPending[i]
  BY <1>2, TopLink
<1>7. /\ linkPending' \in Seq(FrameRecord) /\ Len(linkPending') = k /\ linkPending'[k] = top
      /\ \A i \in 1..(k - 1) : linkPending'[i] = Front(linkPending)[i]
  BY <1>2, <1>3, <1>4, <1>5, AppendProperties
<1> QED BY <1>4, <1>6, <1>7 DEF Beneath

\* The turn of LinkDependency that goes on to the next request.
LinkAdvances ==
  /\ Visiting /\ HasDependency /\ status[dependency] # "unlinked"
  /\ linkPending' = Append(Front(linkPending), Advance)
  /\ dfsAncestorIndex' =
       IF status[dependency] = "linking"
         THEN [dfsAncestorIndex EXCEPT ![current] = Min({@, dfsAncestorIndex[dependency]})]
         ELSE dfsAncestorIndex
  /\ UNCHANGED <<source, status, environment, dfsIndex, sccVars, linkStack, linkRecords>>

LEMMA AdvanceFrames ==
  ASSUME LinkTypeOK, LinkAdvances, NEW k, k = Len(linkPending)
  PROVE  /\ linkPending' \in Seq(FrameRecord) /\ Len(linkPending') = k /\ Beneath(k)
         /\ linkPending'[k].record = current /\ linkPending'[k].entered
         /\ linkPending'[k].dependencyIndex = Done(k) + 1
<1>1. PICK top : top = [frame EXCEPT !.dependencyIndex = @ + 1]
  OBVIOUS
<1>2. Linking /\ linkPending' = Append(Front(linkPending), top) /\ frame.entered
  BY <1>1 DEF LinkAdvances, Visiting, Advance
<1>3. frame \in FrameRecord /\ frame = linkPending[k] /\ k \in Nat \ {0} /\ Done(k) \in Nat
  BY <1>2, TopLink
<1>4. /\ top \in FrameRecord /\ top.record = current /\ top.entered
      /\ top.dependencyIndex = Done(k) + 1
  BY <1>1, <1>2, <1>3 DEF FrameRecord, current, Done
<1>5. Front(linkPending) \in Seq(FrameRecord) /\ Len(Front(linkPending)) = k - 1
  BY <1>2, TopLink
<1>6. \A i \in 1..(k - 1) : Front(linkPending)[i] = linkPending[i]
  BY <1>2, TopLink
<1>7. /\ linkPending' \in Seq(FrameRecord) /\ Len(linkPending') = k /\ linkPending'[k] = top
      /\ \A i \in 1..(k - 1) : linkPending'[i] = Front(linkPending)[i]
  BY <1>2, <1>3, <1>4, <1>5, AppendProperties
<1> QED BY <1>4, <1>6, <1>7 DEF Beneath

LEMMA TopRequest ==
  ASSUME LinkTypeOK, Linking, HasDependency, NEW k, k = Len(linkPending)
  PROVE  /\ Done(k) < Len(requested[Rec(k)])
         /\ dependency = requested[Rec(k)][Done(k) + 1]
         /\ dependency \in Modules /\ dependency \in Requests(current)
<1>1. frame = linkPending[k] /\ current = Rec(k) /\ current \in Modules /\ k \in Nat \ {0}
      /\ \A i \in 1..k : Done(i) \in Nat
  BY TopLink
<1>2. Done(k) \in Nat
  BY <1>1
<1>3. Done(k) < Len(requested[Rec(k)]) /\ dependency = requested[Rec(k)][Done(k) + 1]
  BY <1>1 DEF HasDependency, dependency, Done
<1>4. /\ Len(requested[current]) \in Nat /\ Requests(current) \subseteq Modules
      /\ Requests(current) = {requested[current][i] : i \in 1..Len(requested[current])}
  BY <1>1, GraphType
<1>5. Done(k) + 1 \in 1..Len(requested[current])
  BY <1>1, <1>2, <1>3, <1>4
<1> QED BY <1>1, <1>3, <1>4, <1>5

LEMMA DescendFrames ==
  ASSUME LinkTypeOK, Linking, HasDependency, Descend, NEW k, k = Len(linkPending)
  PROVE  /\ linkPending' \in Seq(FrameRecord) /\ Len(linkPending') = k + 1
         /\ \A i \in 1..k : linkPending'[i] = linkPending[i]
         /\ linkPending'[k + 1].record = dependency /\ ~linkPending'[k + 1].entered
         /\ linkPending'[k + 1].dependencyIndex = 0
<1>1. PICK top : top = Frame(dependency)
  OBVIOUS
<1>2. /\ top \in FrameRecord /\ top.record = dependency /\ ~top.entered
      /\ top.dependencyIndex = 0
  BY <1>1, TopRequest DEF Frame, FrameRecord
<1>3. linkPending' = Append(linkPending, top)
  BY <1>1 DEF Descend
<1>4. linkPending \in Seq(FrameRecord)
  BY TopLink
<1>5. /\ linkPending' \in Seq(FrameRecord) /\ Len(linkPending') = k + 1
      /\ \A i \in 1..k : linkPending'[i] = linkPending[i]
      /\ linkPending'[k + 1] = top
  BY <1>2, <1>3, <1>4, AppendProperties
<1> QED BY <1>2, <1>5

LEMMA PopFrames ==
  ASSUME LinkTypeOK, Linking, PopFrame, NEW k, k = Len(linkPending)
  PROVE  linkPending' \in Seq(FrameRecord) /\ Len(linkPending') = k - 1 /\ Beneath(k)
BY TopLink DEF PopFrame, Beneath

-----------------------------------------------------------------------------
(* The stack of a link *)

LEMMA SameIndex ==
  ASSUME StackInv, NEW m \in Open, NEW n \in Open, dfsIndex[m] = dfsIndex[n],
         LinkTypeOK
  PROVE  m = n
<1>1. PICK i \in 1..Len(linkStack), j \in 1..Len(linkStack) : linkStack[i] = m /\ linkStack[j] = n
  BY DEF StackInv
<1>2. Len(linkStack) \in Nat /\ dfsIndex[m] \in Nat
  BY LenProperties DEF LinkTypeOK, Open
<1>3. ~(i < j) /\ ~(j < i)
  BY <1>1, <1>2 DEF StackInv
<1> QED BY <1>1, <1>2, <1>3

Above(c) == {m \in Open : dfsIndex[c] <= dfsIndex[m]}

LEMMA StackAbove ==
  ASSUME LinkTypeOK, StackInv, NEW c \in Open, NEW at,
         at = CHOOSE i \in 1..Len(linkStack) : linkStack[i] = c
  PROVE  /\ at \in 1..Len(linkStack) /\ linkStack[at] = c
         /\ Range(SubSeq(linkStack, at, Len(linkStack))) = Above(c)
         /\ SubSeq(linkStack, 1, at - 1) \in Seq(Modules)
         /\ Len(SubSeq(linkStack, 1, at - 1)) = at - 1
         /\ \A i \in 1..(at - 1) : SubSeq(linkStack, 1, at - 1)[i] = linkStack[i]
         /\ \A m \in Open : m \notin Above(c) <=> \E i \in 1..(at - 1) : linkStack[i] = m
<1>1. at \in 1..Len(linkStack) /\ linkStack[at] = c
  BY DEF StackInv
<1>2. linkStack \in Seq(Modules) /\ Len(linkStack) \in Nat
  BY LenProperties DEF LinkTypeOK
<1>3. PICK last : last = Len(linkStack)
  OBVIOUS
<1>4. PICK above : above = SubSeq(linkStack, at, last)
  OBVIOUS
<1>5. /\ at \in Nat \ {0} /\ last \in Nat /\ at <= last + 1 /\ at <= last
      /\ last <= Len(linkStack)
  BY <1>1, <1>2, <1>3
<1>6. /\ above \in Seq(Modules) /\ Len(above) = last - at + 1
      /\ \A i \in 1..(last - at + 1) : above[i] = linkStack[at + i - 1]
  BY ONLY <1>2, <1>4, <1>5, SliceProperties
<1>7. Range(above) = {linkStack[i] : i \in at..last}
  <2>1. DOMAIN above = 1..(last - at + 1)
    BY <1>6, LenProperties
  <2>2. ASSUME NEW i \in at..last PROVE linkStack[i] \in Range(above)
    <3>1. i - at + 1 \in 1..(last - at + 1) /\ at + (i - at + 1) - 1 = i
      BY <1>5
    <3>2. above[i - at + 1] = linkStack[i]
      BY <1>6, <3>1
    <3> QED BY <2>1, <3>1, <3>2 DEF Range
  <2>3. ASSUME NEW i \in 1..(last - at + 1) PROVE above[i] \in {linkStack[j] : j \in at..last}
    <3>1. at + i - 1 \in at..last
      BY <1>5
    <3> QED BY <1>6, <3>1
  <2> QED BY <2>1, <2>2, <2>3, ZenonT(30) DEF Range
<1>8. \A i \in 1..last : linkStack[i] \in Open /\ dfsIndex[linkStack[i]] \in Nat
  BY <1>3 DEF StackInv, Open, LinkTypeOK
<1>9. \A i \in 1..last : dfsIndex[c] <= dfsIndex[linkStack[i]] <=> at <= i
  <2> TAKE i \in 1..last
  <2>1. i < at => dfsIndex[linkStack[i]] < dfsIndex[c]
    BY <1>1, <1>3 DEF StackInv
  <2>2. at < i => dfsIndex[c] < dfsIndex[linkStack[i]]
    BY <1>1, <1>3 DEF StackInv
  <2>3. dfsIndex[linkStack[i]] \in Nat /\ dfsIndex[c] \in Nat
    BY <1>1, <1>3, <1>8
  <2> QED BY <1>1, <1>5, <2>1, <2>2, <2>3
<1>10. \A m \in Open : \E i \in 1..last : linkStack[i] = m
  BY <1>3 DEF StackInv
<1>11. Range(above) = Above(c)
  <2>1. Range(above) \subseteq Above(c)
    BY <1>5, <1>7, <1>8, <1>9, SMTT(30) DEF Above
  <2>2. ASSUME NEW m \in Above(c) PROVE m \in Range(above)
    <3>1. PICK i \in 1..last : linkStack[i] = m
      BY <1>10 DEF Above
    <3>2. at <= i
      BY <1>9, <3>1 DEF Above
    <3>3. i \in at..last
      BY <1>5, <3>2
    <3> QED BY <1>7, <3>1, <3>3
  <2> QED BY <2>1, <2>2
<1>12. PICK under : under = at - 1
  OBVIOUS
<1>13. /\ SubSeq(linkStack, 1, under) \in Seq(Modules) /\ Len(SubSeq(linkStack, 1, under)) = under
       /\ \A i \in 1..under : SubSeq(linkStack, 1, under)[i] = linkStack[i]
  <2>1. under \in Nat /\ 1 <= under + 1 /\ under <= Len(linkStack) /\ 1 \in Nat \ {0}
    BY <1>3, <1>5, <1>12
  <2>2. /\ SubSeq(linkStack, 1, under) \in Seq(Modules)
        /\ Len(SubSeq(linkStack, 1, under)) = under - 1 + 1
        /\ \A i \in 1..(under - 1 + 1) : SubSeq(linkStack, 1, under)[i] = linkStack[1 + i - 1]
    BY <1>2, <2>1, SliceProperties
  <2>3. under - 1 + 1 = under /\ \A i \in 1..under : 1 + i - 1 = i
    BY <2>1
  <2> QED BY <2>2, <2>3
<1>14. \A m \in Open : m \notin Above(c) <=> \E i \in 1..under : linkStack[i] = m
  <2> TAKE m \in Open
  <2>1. ASSUME m \notin Above(c) PROVE \E i \in 1..under : linkStack[i] = m
    <3>1. PICK i \in 1..last : linkStack[i] = m
      BY <1>10
    <3>2. ~(at <= i)
      BY <1>9, <2>1, <3>1 DEF Above
    <3>3. i \in 1..under
      BY <1>5, <1>12, <3>2
    <3> QED BY <3>1, <3>3
  <2>2. ASSUME NEW i \in 1..under, linkStack[i] = m PROVE m \notin Above(c)
    <3>1. i \in 1..last /\ ~(at <= i)
      BY <1>5, <1>12
    <3> QED BY <1>9, <2>2, <3>1 DEF Above
  <2> QED BY <2>1, <2>2
<1> QED BY <1>1, <1>3, <1>4, <1>11, <1>12, <1>13, <1>14

-----------------------------------------------------------------------------
(* What the steps of a link do *)

LEMMA MinOfTwo ==
  ASSUME NEW a \in Nat, NEW b \in Nat
  PROVE  Min({a, b}) \in {a, b} /\ Min({a, b}) <= a /\ Min({a, b}) <= b
<1>1. \E x \in {a, b} : \A y \in {a, b} : x <= y
  <2>1. CASE a <= b
    BY <2>1
  <2>2. CASE b <= a
    BY <2>2
  <2> QED BY <2>1, <2>2
<1> QED BY <1>1 DEF Min

LEMMA TopIsOpen ==
  ASSUME LinkTypeOK, FrameInv, Visiting, NEW k, k = Len(linkPending)
  PROVE  Active(k) /\ current \in Open /\ Rec(k) = current
<1>1. Linking /\ frame.entered
  BY DEF Visiting
<1>2. k \in 1..Len(linkPending) /\ frame = linkPending[k] /\ current = Rec(k)
  BY <1>1, TopLink
<1> QED BY <1>1, <1>2 DEF FrameInv, Active

\* The records that leave the stack at the end of the frame of record c.
Leaving(c) == IF dfsAncestorIndex[c] = dfsIndex[c] THEN Above(c) ELSE {}

LEMMA FinishEffect ==
  ASSUME LinkTypeOK, StackInv, FrameInv, FinishRecord, NEW k, k = Len(linkPending),
         NEW c \in Modules, c = current
  PROVE  /\ ~(Done(k) < Len(requested[c])) /\ c \notin broken
         /\ status' = [m \in Modules |-> IF m \in Leaving(c) THEN "linked" ELSE status[m]]
         /\ evaluationSccRoot' =
              [m \in Modules |-> IF m \in Leaving(c) THEN c ELSE evaluationSccRoot[m]]
         /\ evaluationSccMembers' =
              [m \in Modules |-> IF m \in Leaving(c) THEN Leaving(c) ELSE evaluationSccMembers[m]]
         /\ environment' =
              [m \in Modules |-> IF k = 1 /\ m \in linkRecords THEN "complete"
                                 ELSE IF m = c THEN "bound" ELSE environment[m]]
         /\ linkStack' \in Seq(Modules)
         /\ dfsAncestorIndex[c] # dfsIndex[c] => linkStack' = linkStack
         /\ dfsAncestorIndex[c] = dfsIndex[c] =>
              /\ Len(linkStack') < Len(linkStack)
              /\ \A i \in 1..Len(linkStack') : linkStack'[i] = linkStack[i]
              /\ \A m \in Open :
                   m \notin Leaving(c) <=> \E i \in 1..Len(linkStack') : linkStack'[i] = m
<1>1. PICK at : at = CHOOSE i \in 1..Len(linkStack) : linkStack[i] = c
  OBVIOUS
<1>2. Visiting /\ c \in Open /\ frame = linkPending[k] /\ Rec(k) = c
  BY TopIsOpen, TopLink DEF FinishRecord, Visiting
<1>3. /\ Range(SubSeq(linkStack, at, Len(linkStack))) = Above(c)
      /\ at \in 1..Len(linkStack)
  BY <1>1, <1>2, StackAbove
<1>4. PICK rest : rest = SubSeq(linkStack, 1, at - 1)
  OBVIOUS
<1>5. /\ rest \in Seq(Modules) /\ Len(rest) = at - 1
      /\ \A i \in 1..(at - 1) : rest[i] = linkStack[i]
      /\ \A m \in Open : m \notin Above(c) <=> \E i \in 1..(at - 1) : linkStack[i] = m
  <2>1. SubSeq(linkStack, 1, at - 1) \in Seq(Modules) /\ Len(SubSeq(linkStack, 1, at - 1)) = at - 1
    BY <1>1, <1>2, StackAbove
  <2>2. \A i \in 1..(at - 1) : SubSeq(linkStack, 1, at - 1)[i] = linkStack[i]
    BY <1>1, <1>2, StackAbove
  <2>3. \A m \in Open : m \notin Above(c) <=> \E i \in 1..(at - 1) : linkStack[i] = m
    BY <1>1, <1>2, StackAbove, ZenonT(30)
  <2> QED BY <1>4, <2>1, <2>2, <2>3
<1>6. Leaving(c) = IF dfsAncestorIndex[c] = dfsIndex[c]
                     THEN Range(SubSeq(linkStack, at, Len(linkStack))) ELSE {}
  BY <1>3 DEF Leaving
<1>7. /\ status' = [m \in Modules |-> IF m \in Leaving(c) THEN "linked" ELSE status[m]]
      /\ evaluationSccRoot' =
           [m \in Modules |-> IF m \in Leaving(c) THEN c ELSE evaluationSccRoot[m]]
      /\ evaluationSccMembers' =
           [m \in Modules |-> IF m \in Leaving(c) THEN Leaving(c) ELSE evaluationSccMembers[m]]
  BY <1>1, <1>6 DEF FinishRecord
<1>8. /\ linkStack' = IF dfsAncestorIndex[c] = dfsIndex[c] THEN rest ELSE linkStack
      /\ c \notin broken /\ ~HasDependency
  BY <1>1, <1>4 DEF FinishRecord
<1>9. environment' =
        [m \in Modules |-> IF Len(linkPending) = 1 /\ m \in linkRecords THEN "complete"
                           ELSE [environment EXCEPT ![c] = "bound"][m]]
  BY DEF FinishRecord
<1>10. environment \in [Modules -> {"none", "bound", "complete"}] /\ linkStack \in Seq(Modules)
  BY DEF LinkTypeOK
<1>11. environment' =
         [m \in Modules |-> IF k = 1 /\ m \in linkRecords THEN "complete"
                            ELSE IF m = c THEN "bound" ELSE environment[m]]
  BY <1>9, <1>10
<1>12. ~(Done(k) < Len(requested[c]))
  BY <1>2, <1>8 DEF HasDependency, Done
<1>13. linkStack' \in Seq(Modules)
  BY <1>5, <1>8, <1>10
<1>14. ASSUME dfsAncestorIndex[c] = dfsIndex[c]
       PROVE  /\ Len(linkStack') < Len(linkStack)
              /\ \A i \in 1..Len(linkStack') : linkStack'[i] = linkStack[i]
              /\ \A m \in Open :
                   m \notin Leaving(c) <=> \E i \in 1..Len(linkStack') : linkStack'[i] = m
  <2>1. linkStack' = rest /\ Leaving(c) = Above(c) /\ Len(linkStack) \in Nat
    BY <1>8, <1>10, <1>14, LenProperties DEF Leaving
  <2>2. Len(linkStack') = at - 1 /\ \A i \in 1..(at - 1) : linkStack'[i] = linkStack[i]
    BY <1>5, <2>1
  <2>3. \A m \in Open : m \notin Leaving(c) <=> \E i \in 1..(at - 1) : linkStack'[i] = m
    BY <1>5, <2>1
  <2> QED BY <1>3, <2>1, <2>2, <2>3
<1> QED BY <1>7, <1>8, <1>11, <1>12, <1>13, <1>14

-----------------------------------------------------------------------------
(* The beginning of a link, and what is no step of it *)

LEMMA SameGraph ==
  ASSUME UNCHANGED source
  PROVE  /\ \A m, n : Reaches(m, n)' <=> Reaches(m, n)
         /\ \A m : Requests(m)' = Requests(m) /\ Component(m)' = Component(m)
BY DEF source, Reaches, Requests, Component

LEMMA LinkStutters ==
  ASSUME LinkInv, UNCHANGED <<source, linkVars>>
  PROVE  LinkInv'
<1>1. /\ UNCHANGED <<requested, broken, status, environment, dfsIndex, dfsAncestorIndex>>
      /\ UNCHANGED <<evaluationSccRoot, evaluationSccMembers, linkPending, linkStack, linkRecords>>
  BY DEF source, linkVars, dfsVars, sccVars
<1>2. Open' = Open /\ Linked' = Linked
  BY <1>1 DEF Open, Linked
<1>3. LinkTypeOK' /\ RecordInv' /\ StackInv'
  BY <1>1, <1>2 DEF LinkInv, LinkTypeOK, RecordInv, StackInv
<1>4. FrameInv' /\ OwnerInv' /\ LowInv'
  BY <1>1, <1>2 DEF LinkInv, FrameInv, OwnerInv, Owns, LowInv, Rec, Done, Active, Reaches
<1>5. EdgeInv'
  BY <1>1, <1>2 DEF LinkInv, EdgeInv, Looked, InFrame, Owns, Covers, Rec, Done, Active, Requests
<1>6. LinkedInv'
  BY <1>1, <1>2 DEF LinkInv, LinkedInv, Exact, Requests, Component, Reaches, Linking
<1> QED BY <1>3, <1>4, <1>5, <1>6 DEF LinkInv

LEMMA NothingOpen ==
  ASSUME LinkTypeOK, FrameInv, ~Linking
  PROVE  Open = {}
<1>1. Len(linkPending) = 0
  BY DEF Linking
<1> QED BY <1>1 DEF FrameInv, Active

LEMMA LinkBegins ==
  ASSUME LinkInv, NEW root \in Modules, LinkModuleGraph(root)
  PROVE  LinkInv'
<1>1. LinkTypeOK /\ FrameInv /\ StackInv /\ LinkedInv /\ ~Linking
  BY DEF LinkInv, LinkModuleGraph
<1>2. Open = {}
  BY <1>1, NothingOpen
<1>3. /\ UNCHANGED <<requested, broken, status, environment, dfsIndex, dfsAncestorIndex>>
      /\ UNCHANGED <<evaluationSccRoot, evaluationSccMembers, linkStack, source>>
      /\ linkRecords' = {} /\ linkPending' = <<Frame(root)>> /\ status[root] # "linked"
  BY DEF LinkModuleGraph, source, dfsVars, sccVars
<1>4. Open' = {}
  BY <1>2, <1>3 DEF Open
<1>5. status[root] = "unlinked"
  BY <1>1, <1>2, <1>3 DEF LinkTypeOK, Open
<1>6. /\ Len(linkPending') = 1 /\ linkPending'[1] = Frame(root)
      /\ Frame(root) \in FrameRecord
  BY <1>3 DEF Frame, FrameRecord
<1>7. linkPending' \in Seq(FrameRecord)
  BY <1>3, <1>6
<1>8. LinkTypeOK'
  BY <1>1, <1>3, <1>7 DEF LinkTypeOK, FrameRecord
<1>9. RecordInv'
  BY <1>3, <1>4, FS_EmptySet DEF RecordInv
<1>10. StackInv'
  BY <1>1, <1>2, <1>3, <1>4 DEF StackInv
<1>11. FrameInv'
  <2>1. \A i \in 1..Len(linkPending') :
          i = 1 /\ linkPending'[i].record = root /\ ~linkPending'[i].entered
          /\ linkPending'[i].dependencyIndex = 0
    BY <1>6 DEF Frame
  <2>2. Len(requested[root]) \in Nat
    BY <1>1, GraphType
  <2> QED BY <1>3, <1>4, <1>5, <1>6, <2>1, <2>2 DEF FrameInv, Rec, Done, Active
<1>12. OwnerInv' /\ LowInv' /\ EdgeInv'
  BY <1>4 DEF OwnerInv, LowInv, EdgeInv
<1>13. LinkedInv'
  <2>1. Linked' = Linked /\ \A m : Exact(m)' <=> Exact(m)
    BY <1>3 DEF Linked, Exact, Component, Reaches
  <2>2. \A m : Requests(m)' = Requests(m)
    BY <1>3 DEF Requests
  <2>3. Linking'
    BY <1>6 DEF Linking
  <2> QED BY <1>1, <1>3, <2>1, <2>2, <2>3 DEF LinkedInv
<1> QED BY <1>8, <1>9, <1>10, <1>11, <1>12, <1>13 DEF LinkInv

-----------------------------------------------------------------------------
(* A record is entered *)

LEMMA EnterLinkKept ==
  ASSUME LinkInv, EnterLink
  PROVE  LinkInv'
<1>1. PICK k : k = Len(linkPending)
  OBVIOUS
<1>2. PICK c : c = current
  OBVIOUS
<1>3. PICK x : x = Cardinality(linkRecords) + 1
  OBVIOUS
<1>4. /\ LinkTypeOK /\ RecordInv /\ StackInv /\ FrameInv /\ OwnerInv /\ LowInv /\ EdgeInv
      /\ LinkedInv /\ Linking /\ ~frame.entered
  BY DEF LinkInv, EnterLink
<1>5. /\ k \in Nat \ {0} /\ frame = linkPending[k] /\ c = Rec(k) /\ c \in Modules
      /\ \A i \in 1..k : Rec(i) \in Modules /\ Done(i) \in Nat
  BY <1>1, <1>2, <1>4, TopLink
<1>6. status[c] = "unlinked" /\ Done(k) = 0 /\ c \notin Open /\ c \notin Linked /\ ~Active(k)
  BY <1>1, <1>4, <1>5 DEF FrameInv, Open, Linked, Active
<1>7. c \notin linkRecords /\ IsFiniteSet(linkRecords)
  BY <1>4, <1>6 DEF RecordInv
<1>8. x \in Nat \ {0} /\ IsFiniteSet(linkRecords \cup {c}) /\ Cardinality(linkRecords \cup {c}) = x
  BY <1>3, <1>7, FS_AddElement, FS_CardinalityType
<1>9. /\ linkRecords' = linkRecords \cup {c}
      /\ status' = [status EXCEPT ![c] = "linking"]
      /\ dfsIndex' = [dfsIndex EXCEPT ![c] = x]
      /\ dfsAncestorIndex' = [dfsAncestorIndex EXCEPT ![c] = x]
      /\ linkStack' = Append(linkStack, c)
      /\ UNCHANGED <<requested, broken, source, environment>>
      /\ UNCHANGED <<evaluationSccRoot, evaluationSccMembers>>
  BY <1>2, <1>3 DEF EnterLink, source, sccVars
<1>10. /\ linkPending' \in Seq(FrameRecord) /\ Len(linkPending') = k /\ Beneath(k)
       /\ linkPending'[k].record = c /\ linkPending'[k].entered
       /\ linkPending'[k].dependencyIndex = 0
  BY <1>1, <1>2, <1>4, <1>6, EnterFrames
<1>11. /\ status \in [Modules -> {"unlinked", "linking", "linked"}]
       /\ dfsIndex \in [Modules -> Nat] /\ dfsAncestorIndex \in [Modules -> Nat]
       /\ linkStack \in Seq(Modules)
  BY <1>4 DEF LinkTypeOK
<1>12. /\ status'[c] = "linking" /\ dfsIndex'[c] = x /\ dfsAncestorIndex'[c] = x
       /\ \A m \in Modules : m # c => /\ status'[m] = status[m] /\ dfsIndex'[m] = dfsIndex[m]
                                      /\ dfsAncestorIndex'[m] = dfsAncestorIndex[m]
  BY <1>5, <1>9, <1>11
<1>13. Open' = Open \cup {c} /\ Linked' = Linked
  BY <1>5, <1>6, <1>12 DEF Open, Linked
<1>14. \A m \in Open : m \in Modules /\ m # c /\ dfsIndex[m] \in Nat /\ dfsIndex[m] < x
  BY <1>3, <1>4, <1>6, <1>7, <1>8, FS_CardinalityType DEF RecordInv, Open
<1>15. LinkTypeOK'
  <2>1. \A m \in Modules : dfsAncestorIndex'[m] <= dfsIndex'[m]
    <3> TAKE m \in Modules
    <3>1. dfsAncestorIndex[m] <= dfsIndex[m]
      BY <1>4 DEF LinkTypeOK
    <3> QED BY <1>8, <1>12, <3>1
  <2>2. linkStack' \in Seq(Modules)
    BY <1>5, <1>9, <1>11, AppendProperties
  <2>3. /\ status' \in [Modules -> {"unlinked", "linking", "linked"}]
        /\ dfsIndex' \in [Modules -> Nat] /\ dfsAncestorIndex' \in [Modules -> Nat]
        /\ linkRecords' \subseteq Modules
    BY <1>4, <1>5, <1>8, <1>9, <1>11 DEF LinkTypeOK
  <2> QED BY <1>4, <1>9, <1>10, <2>1, <2>2, <2>3 DEF LinkTypeOK, FrameRecord
<1>16. RecordInv'
  <2>1. \A m \in linkRecords' : status'[m] # "unlinked"
    BY <1>4, <1>9, <1>12 DEF RecordInv, LinkTypeOK
  <2>2. \A m \in Open' : m \in linkRecords' /\ dfsIndex'[m] \in 1..x
    <3>1. \A m \in Open : m \in linkRecords /\ dfsIndex[m] \in 1..(x - 1)
      BY <1>3, <1>4, <1>7, FS_CardinalityType DEF RecordInv
    <3> QED BY <1>8, <1>9, <1>12, <1>13, <1>14, <3>1
  <2> QED BY <1>8, <1>9, <2>1, <2>2 DEF RecordInv
<1>17. StackInv'
  <2>1. PICK n : n = Len(linkStack)
    OBVIOUS
  <2>2. /\ n \in Nat /\ Len(linkStack') = n + 1 /\ linkStack'[n + 1] = c
        /\ \A i \in 1..n : linkStack'[i] = linkStack[i]
    BY <1>5, <1>9, <1>11, <2>1, LenProperties, AppendProperties
  <2>3. \A i \in 1..(n + 1) : i \in 1..n \/ i = n + 1
    BY <2>2
  <2>4. \A i \in 1..n : linkStack'[i] \in Open /\ dfsIndex'[linkStack'[i]] = dfsIndex[linkStack[i]]
    BY <1>4, <1>12, <1>14, <2>1, <2>2 DEF StackInv
  <2>5. \A m \in Open' : \E i \in 1..(n + 1) : linkStack'[i] = m
    BY <1>4, <1>13, <2>1, <2>2 DEF StackInv
  <2>6. ASSUME NEW i \in 1..(n + 1), NEW j \in 1..(n + 1), i < j
        PROVE  dfsIndex'[linkStack'[i]] < dfsIndex'[linkStack'[j]]
    <3>1. i \in 1..n
      BY <2>2, <2>6
    <3>2. CASE j = n + 1
      BY <1>12, <1>14, <2>2, <2>4, <3>1, <3>2
    <3>3. CASE j \in 1..n
      BY <1>4, <2>1, <2>4, <2>6, <3>1, <3>3 DEF StackInv
    <3> QED BY <2>3, <3>2, <3>3
  <2>7. \A i \in 1..(n + 1) : linkStack'[i] \in Open'
    BY <1>13, <2>2, <2>3, <2>4
  <2> QED BY <2>2, <2>5, <2>6, <2>7 DEF StackInv
<1>18. /\ \A i \in 1..k : Rec(i)' = Rec(i) /\ Done(i)' = Done(i)
       /\ \A i : Active(i)' <=> i \in 1..k
       /\ \A i : Active(i) <=> i \in 1..(k - 1)
  <2>1. \A i \in 1..(k - 1) : linkPending'[i] = linkPending[i] /\ linkPending[i].entered
    <3> TAKE i \in 1..(k - 1)
    <3>1. i \in 1..Len(linkPending) /\ i # Len(linkPending)
      BY <1>1, <1>5
    <3> QED BY <1>4, <1>10, <3>1 DEF Beneath, FrameInv, Active
  <2>2. \A i \in 1..k : i \in 1..(k - 1) \/ i = k
    BY <1>5
  <2>3. 1..(k - 1) \subseteq 1..k
    BY <1>5
  <2> QED BY <1>1, <1>5, <1>6, <1>10, <2>1, <2>2, <2>3 DEF Rec, Done, Active
<1>19. \A i \in 1..(k - 1) : Rec(i) \in Open /\ i \in 1..k
  BY <1>1, <1>4, <1>5, <1>18 DEF FrameInv, Active
<1>20. \A m : InFrame(m)' <=> InFrame(m) \/ m = c
  <2>1. \A i \in 1..k : i \in 1..(k - 1) \/ i = k
    BY <1>5
  <2>2. k \in 1..k
    BY <1>5
  <2> QED BY <1>1, <1>5, <1>10, <1>18, <1>19, <2>1, <2>2 DEF InFrame
<1>21. FrameInv'
  <2>1. \A i \in 1..k : i \in 1..(k - 1) \/ i = k
    BY <1>5
  <2>2. ASSUME NEW i \in 1..k
        PROVE  /\ Done(i)' <= Len(requested'[Rec(i)'])
               /\ Rec(i)' \in Open'
               /\ i < k =>
                    /\ Done(i)' < Len(requested'[Rec(i)'])
                    /\ requested'[Rec(i)'][Done(i)' + 1] = Rec(i + 1)'
    <3>1. Rec(i)' \in Open'
      BY <1>5, <1>13, <1>18, <1>19, <2>1
    <3>2. Done(i)' <= Len(requested'[Rec(i)'])
      BY <1>1, <1>4, <1>9, <1>18 DEF FrameInv
    <3>3. ASSUME i < k
          PROVE  /\ Done(i)' < Len(requested'[Rec(i)'])
                 /\ requested'[Rec(i)'][Done(i)' + 1] = Rec(i + 1)'
      <4>1. i + 1 \in 1..k
        BY <1>5, <3>3
      <4> QED BY <1>1, <1>4, <1>9, <1>18, <3>3, <4>1 DEF FrameInv
    <3> QED BY <3>1, <3>2, <3>3
  <2>3. ASSUME NEW i \in 1..k, NEW j \in 1..k, i < j
        PROVE  dfsIndex'[Rec(i)'] < dfsIndex'[Rec(j)'] /\ Reaches(Rec(i), Rec(j))
    <3>1. i \in 1..(k - 1)
      BY <1>5, <2>3
    <3>2. Rec(i) \in Open /\ Rec(i) \in Modules
      BY <1>19, <3>1 DEF Open
    <3>3. CASE j \in 1..(k - 1)
      <4>1. dfsIndex[Rec(i)] < dfsIndex[Rec(j)] /\ Reaches(Rec(i), Rec(j))
        BY <1>1, <1>4, <1>18, <2>3, <3>3 DEF FrameInv
      <4>2. Rec(j) \in Open
        BY <1>19, <3>3
      <4> QED BY <1>12, <1>14, <1>18, <3>2, <4>1, <4>2
    <3>4. CASE j = k
      <4>1. dfsIndex'[Rec(i)'] < dfsIndex'[Rec(j)']
        BY <1>5, <1>12, <1>14, <1>18, <3>2, <3>4
      <4>2. PICK p : p = k - 1
        OBVIOUS
      <4>3. p \in 1..(k - 1) /\ p \in 1..k /\ p < k /\ p + 1 = k /\ i <= p
        BY <1>5, <3>1, <4>2
      <4>4. /\ Done(p) < Len(requested[Rec(p)]) /\ requested[Rec(p)][Done(p) + 1] = c
            /\ Rec(p) \in Modules /\ Done(p) \in Nat
        BY <1>1, <1>4, <1>5, <4>3 DEF FrameInv
      <4>5. c \in Requests(Rec(p))
        <5>1. /\ Len(requested[Rec(p)]) \in Nat
              /\ Requests(Rec(p)) = {requested[Rec(p)][q] : q \in 1..Len(requested[Rec(p)])}
          BY <1>4, <4>4, GraphType
        <5>2. Done(p) + 1 \in 1..Len(requested[Rec(p)])
          BY <4>4, <5>1
        <5> QED BY <4>4, <5>1, <5>2
      <4>6. Reaches(Rec(p), c)
        BY <1>4, <4>4, <4>5, ReachEdge
      <4>7. i = p \/ Reaches(Rec(i), Rec(p))
        BY <1>1, <1>4, <1>18, <3>1, <4>3 DEF FrameInv
      <4>8. Reaches(Rec(i), c)
        BY <1>4, <3>2, <4>6, <4>7, ReachTrans
      <4> QED BY <1>5, <3>4, <4>1, <4>8
    <3> QED BY <2>1, <3>3, <3>4
  <2>4. ASSUME NEW m \in Open' PROVE Active(1)' /\ dfsIndex'[Rec(1)'] <= dfsIndex'[m]
    <3>1. 1 \in 1..k /\ Active(1)' /\ Rec(1)' = Rec(1)
      BY <1>5, <1>18
    <3>2. CASE k = 1
      <4>1. Open = {}
        BY <1>4, <1>6, <3>2 DEF FrameInv
      <4> QED BY <1>5, <1>8, <1>12, <1>13, <3>1, <3>2, <4>1
    <3>3. CASE k # 1
      <4>1. 1 \in 1..(k - 1)
        BY <1>5, <3>3
      <4>2. Rec(1) \in Open
        BY <1>19, <4>1
      <4>3. m \in Open => dfsIndex[Rec(1)] <= dfsIndex[m]
        BY <1>4 DEF FrameInv
      <4>4. dfsIndex[Rec(1)] \in Nat /\ dfsIndex[Rec(1)] < x
        BY <1>14, <4>2
      <4>5. dfsIndex'[Rec(1)'] = dfsIndex[Rec(1)]
        BY <1>12, <1>14, <3>1, <4>2
      <4> QED BY <1>8, <1>12, <1>13, <1>14, <3>1, <4>3, <4>4, <4>5
    <3> QED BY <3>2, <3>3
  <2>5. \A i, j \in 1..k : Reaches(Rec(i), Rec(j)) => Reaches(Rec(i), Rec(j))'
    BY <1>9, <1>18 DEF Reaches
  <2> QED BY <1>10, <1>18, <2>2, <2>3, <2>4, <2>5 DEF FrameInv
<1>22. \A i \in 1..(k - 1), m \in Open : Owns(i, m)' <=> Owns(i, m)
  <2> TAKE i \in 1..(k - 1), m \in Open
  <2>1. /\ \A j \in 1..k : j \in 1..(k - 1) \/ j = k
        /\ \A j \in 1..(k - 1) : j \in 1..k /\ j # k
    BY <1>5
  <2>2. dfsIndex'[Rec(i)'] = dfsIndex[Rec(i)] /\ dfsIndex'[m] = dfsIndex[m] /\ dfsIndex[m] < x
    BY <1>12, <1>14, <1>18, <1>19
  <2>3. \A j \in 1..(k - 1) : dfsIndex'[Rec(j)'] = dfsIndex[Rec(j)]
    BY <1>12, <1>14, <1>18, <1>19
  <2>4. dfsIndex'[Rec(k)'] = x
    BY <1>5, <1>12, <1>18
  <2>5. /\ Active(i) /\ Active(i)' /\ Len(linkPending') = k /\ Len(linkPending) = k
        /\ \A j \in 1..k : Active(j)' /\ (Active(j) <=> j \in 1..(k - 1))
    BY <1>1, <1>10, <1>18, <2>1
  <2>6. Owns(i, m)' <=> /\ dfsIndex[Rec(i)] <= dfsIndex[m]
                        /\ \A j \in 1..(k - 1) : i < j => dfsIndex[m] < dfsIndex[Rec(j)]
    BY <2>1, <2>2, <2>3, <2>4, <2>5 DEF Owns
  <2>7. Owns(i, m) <=> /\ dfsIndex[Rec(i)] <= dfsIndex[m]
                       /\ \A j \in 1..(k - 1) : i < j => dfsIndex[m] < dfsIndex[Rec(j)]
    BY <2>1, <2>5 DEF Owns
  <2> QED BY <2>6, <2>7
<1>23. /\ Owns(k, c)' /\ \A m \in Open : ~Owns(k, m)'
       /\ \A i \in 1..(k - 1) : ~Owns(i, c)'
  <2>1. k \in 1..k /\ Active(k)' /\ dfsIndex'[Rec(k)'] = x /\ Len(linkPending') = k
    BY <1>5, <1>10, <1>12, <1>18
  <2>2. \A j \in 1..k : ~(k < j)
    BY <1>5
  <2>3. \A i \in 1..(k - 1) : i < k
    BY <1>5
  <2>4. Owns(k, c)'
    BY <1>8, <1>12, <2>1, <2>2 DEF Owns
  <2>5. ASSUME NEW m \in Open PROVE ~Owns(k, m)'
    <3>1. dfsIndex'[m] \in Nat /\ dfsIndex'[m] < x
      BY <1>12, <1>14
    <3> QED BY <1>8, <2>1, <3>1 DEF Owns
  <2>6. ASSUME NEW i \in 1..(k - 1) PROVE ~Owns(i, c)'
    BY <1>8, <1>12, <2>1, <2>3 DEF Owns
  <2> QED BY <2>4, <2>5, <2>6
<1>24. OwnerInv'
  <2>1. ASSUME NEW m \in Open
        PROVE  \E i \in 1..k : Owns(i, m)' /\ Reaches(Rec(i), m)' /\ Reaches(m, Rec(i))'
    <3>1. PICK i \in 1..k : Owns(i, m) /\ Reaches(Rec(i), m) /\ Reaches(m, Rec(i))
      BY <1>1, <1>4 DEF OwnerInv
    <3>2. i \in 1..(k - 1)
      BY <1>18, <3>1 DEF Owns
    <3>3. Reaches(Rec(i), m)' /\ Reaches(m, Rec(i))'
      BY <1>9, <1>18, <3>1 DEF Reaches
    <3> QED BY <1>22, <3>1, <3>2, <3>3
  <2>2. k \in 1..k /\ Reaches(Rec(k), c)' /\ Reaches(c, Rec(k))'
    <3>1. Reaches(c, c) /\ Rec(k)' = c /\ k \in 1..k
      BY <1>4, <1>5, <1>18, ReachSelf
    <3> QED BY <1>9, <3>1 DEF Reaches
  <2> QED BY <1>10, <1>13, <1>23, <2>1, <2>2 DEF OwnerInv
<1>25. LowInv'
  <2>1. ASSUME NEW m \in Open
        PROVE  /\ dfsAncestorIndex'[m] <= dfsIndex'[m]
               /\ \E n \in Open' : dfsIndex'[n] = dfsAncestorIndex'[m] /\ Reaches(m, n)'
    <3>1. PICK n \in Open : dfsIndex[n] = dfsAncestorIndex[m] /\ Reaches(m, n)
      BY <1>4 DEF LowInv
    <3>2. dfsIndex'[n] = dfsAncestorIndex'[m] /\ n \in Open' /\ Reaches(m, n)'
      BY <1>9, <1>12, <1>13, <1>14, <3>1 DEF Reaches
    <3>3. dfsAncestorIndex'[m] <= dfsIndex'[m]
      BY <1>4, <1>12, <1>14 DEF LowInv
    <3> QED BY <3>2, <3>3
  <2>2. Reaches(c, c)'
    BY <1>4, <1>5, <1>9, ReachSelf DEF Reaches
  <2>3. dfsAncestorIndex'[c] <= dfsIndex'[c] /\ dfsIndex'[c] = dfsAncestorIndex'[c]
    BY <1>8, <1>12
  <2> QED BY <1>13, <2>1, <2>2, <2>3 DEF LowInv
<1>26. EdgeInv'
  <2>1. ASSUME NEW m \in Open, NEW n \in Modules, Looked(m, n)' PROVE Looked(m, n)
    <3>1. InFrame(m)' <=> InFrame(m)
      BY <1>14, <1>20
    <3>2. CASE ~InFrame(m)' /\ n \in Requests(m)'
      BY <1>9, <3>1, <3>2, SameGraph DEF Looked
    <3>3. ASSUME NEW i \in 1..k, Active(i)', Rec(i)' = m,
                 NEW q \in 1..Done(i)', n = requested'[m][q]
          PROVE  Looked(m, n)
      <4>1. i # k /\ i \in 1..k
        BY <1>5, <1>14, <1>18, <3>3
      <4>2. i \in 1..(k - 1)
        BY <1>5, <4>1
      <4> QED BY <1>1, <1>9, <1>18, <3>3, <4>1, <4>2 DEF Looked
    <3> QED BY <1>10, <2>1, <3>2, <3>3 DEF Looked
  <2>2. ASSUME NEW m \in Open, NEW n \in Modules, Looked(m, n)'
        PROVE  \/ status'[n] = "linked"
               \/ n \in Open' /\ \A i \in 1..k : Owns(i, m)' => Covers(i, n)'
    <3>1. Looked(m, n)
      BY <2>1, <2>2
    <3>2. CASE status[n] = "linked"
      BY <1>6, <1>12, <3>2 DEF Linked
    <3>3. CASE n \in Open /\ \A i \in 1..Len(linkPending) : Owns(i, m) => Covers(i, n)
      <4>1. ASSUME NEW i \in 1..k, Owns(i, m)' PROVE Covers(i, n)'
        <5>1. i \in 1..(k - 1)
          BY <1>5, <1>23, <4>1
        <5>2. Covers(i, n) /\ i # k
          BY <1>1, <1>5, <1>22, <3>3, <4>1, <5>1
        <5>3. dfsAncestorIndex[Rec(i)] <= dfsIndex[n]
          BY <1>1, <5>2 DEF Covers
        <5>4. dfsAncestorIndex'[Rec(i)'] = dfsAncestorIndex[Rec(i)] /\ dfsIndex'[n] = dfsIndex[n]
          BY <1>12, <1>14, <1>18, <1>19, <3>3, <5>1
        <5> QED BY <5>3, <5>4 DEF Covers
      <4> QED BY <1>13, <3>3, <4>1
    <3> QED BY <1>4, <3>1, <3>2, <3>3 DEF EdgeInv
  <2>3. ASSUME NEW n \in Modules PROVE ~Looked(c, n)'
    <3>1. InFrame(c)'
      BY <1>20
    <3>2. ASSUME NEW i \in 1..k, Rec(i)' = c, NEW q \in 1..Done(i)' PROVE FALSE
      <4>1. i \in 1..(k - 1) \/ i = k
        BY <1>5
      <4>2. i = k
        BY <1>6, <1>18, <1>19, <3>2, <4>1
      <4> QED BY <1>6, <1>18, <3>2, <4>2
    <3> QED BY <1>10, <3>1, <3>2 DEF Looked
  <2>4. \A m \in Open : ~InFrame(m)' => m \notin broken'
    BY <1>4, <1>9, <1>20 DEF EdgeInv
  <2>5. InFrame(c)'
    BY <1>20
  <2> QED BY <1>10, <1>13, <2>2, <2>3, <2>4, <2>5 DEF EdgeInv
<1>27. LinkedInv'
  <2>1. \A m : Exact(m)' <=> Exact(m)
    BY <1>9 DEF Exact, Component, Reaches
  <2>2. \A m : Requests(m)' = Requests(m)
    BY <1>9 DEF Requests
  <2>3. Linking' /\ Linking
    <3>1. Len(linkPending') # 0
      BY <1>5, <1>10
    <3> QED BY <1>4, <3>1 DEF Linking
  <2>4. \A m \in Linked : /\ m \notin broken' /\ Requests(m)' \subseteq Linked' /\ Exact(m)'
                          /\ Requests(m) \subseteq Linked /\ m # c
    BY <1>4, <1>6, <1>9, <1>13, <2>1, <2>2 DEF LinkedInv
  <2>5. ASSUME NEW m \in Linked, m \notin linkRecords'
        PROVE  environment'[m] = "complete" /\ \A n \in Requests(m)' : n \notin linkRecords'
    BY <1>4, <1>6, <1>9, <2>2, <2>4, <2>5 DEF LinkedInv
  <2>6. \A m \in Modules : status'[m] # "linked" => evaluationSccMembers'[m] = {}
    BY <1>4, <1>6, <1>9, <1>12 DEF LinkedInv
  <2>7. \A m \in Modules : status'[m] = "unlinked" => environment'[m] = "none"
    BY <1>4, <1>6, <1>9, <1>12 DEF LinkedInv
  <2> QED BY <1>13, <2>3, <2>4, <2>5, <2>6, <2>7 DEF LinkedInv
<1> QED BY <1>15, <1>16, <1>17, <1>21, <1>24, <1>25, <1>26, <1>27 DEF LinkInv

-----------------------------------------------------------------------------
(* A request is passed *)

LEMMA AdvanceKept ==
  ASSUME LinkInv, LinkAdvances
  PROVE  LinkInv'
<1>1. PICK k : k = Len(linkPending)
  OBVIOUS
<1>2. PICK c : c = current
  OBVIOUS
<1>3. PICK d : d = dependency
  OBVIOUS
<1>4. /\ LinkTypeOK /\ RecordInv /\ StackInv /\ FrameInv /\ OwnerInv /\ LowInv /\ EdgeInv
      /\ LinkedInv /\ Visiting /\ Linking /\ HasDependency
  BY DEF LinkInv, LinkAdvances, Visiting
<1>5. /\ k \in Nat \ {0} /\ c = Rec(k) /\ c \in Modules /\ Active(k) /\ c \in Open
      /\ \A i \in 1..k : Rec(i) \in Modules /\ Done(i) \in Nat
  BY <1>1, <1>2, <1>4, TopLink, TopIsOpen
<1>6. /\ Done(k) < Len(requested[c]) /\ d = requested[c][Done(k) + 1]
      /\ d \in Modules /\ d \in Requests(c) /\ status[d] # "unlinked"
  BY <1>1, <1>2, <1>3, <1>4, <1>5, TopRequest DEF LinkAdvances
<1>7. /\ dfsAncestorIndex' =
           IF status[d] = "linking"
             THEN [dfsAncestorIndex EXCEPT ![c] = Min({dfsAncestorIndex[c], dfsAncestorIndex[d]})]
             ELSE dfsAncestorIndex
      /\ UNCHANGED <<requested, broken, source, status, environment, dfsIndex, linkStack>>
      /\ UNCHANGED <<linkRecords, evaluationSccRoot, evaluationSccMembers>>
  BY <1>2, <1>3 DEF LinkAdvances, source, sccVars
<1>8. /\ linkPending' \in Seq(FrameRecord) /\ Len(linkPending') = k /\ Beneath(k)
      /\ linkPending'[k].record = c /\ linkPending'[k].entered
      /\ linkPending'[k].dependencyIndex = Done(k) + 1
  BY <1>1, <1>2, <1>4, AdvanceFrames
<1>9. /\ dfsIndex \in [Modules -> Nat] /\ dfsAncestorIndex \in [Modules -> Nat]
      /\ Open' = Open /\ Linked' = Linked
  BY <1>4, <1>7 DEF LinkTypeOK, Open, Linked
<1>10. /\ dfsAncestorIndex'[c] \in Nat /\ dfsAncestorIndex'[c] <= dfsAncestorIndex[c]
       /\ d \in Open => dfsAncestorIndex'[c] <= dfsAncestorIndex[d]
       /\ \/ dfsAncestorIndex'[c] = dfsAncestorIndex[c]
          \/ d \in Open /\ dfsAncestorIndex'[c] = dfsAncestorIndex[d]
  <2>1. CASE status[d] = "linking"
    <3>1. dfsAncestorIndex'[c] = Min({dfsAncestorIndex[c], dfsAncestorIndex[d]})
      BY <1>5, <1>7, <1>9, <2>1
    <3>2. dfsAncestorIndex[c] \in Nat /\ dfsAncestorIndex[d] \in Nat /\ d \in Open
      BY <1>5, <1>6, <1>9, <2>1 DEF Open
    <3>3. /\ dfsAncestorIndex'[c] \in {dfsAncestorIndex[c], dfsAncestorIndex[d]}
          /\ dfsAncestorIndex'[c] <= dfsAncestorIndex[c]
          /\ dfsAncestorIndex'[c] <= dfsAncestorIndex[d]
      BY <3>1, <3>2, MinOfTwo
    <3> QED BY <3>2, <3>3
  <2>2. CASE status[d] # "linking"
    BY <1>5, <1>7, <1>9, <2>2 DEF Open
  <2> QED BY <2>1, <2>2
<1>11. \A m \in Modules : m # c => dfsAncestorIndex'[m] = dfsAncestorIndex[m]
  BY <1>7, <1>9
<1>12. LinkTypeOK'
  <2>1. dfsAncestorIndex' \in [Modules -> Nat]
    BY <1>6, <1>7, <1>9, <1>10
  <2>2. \A m \in Modules : dfsAncestorIndex'[m] <= dfsIndex'[m]
    <3> TAKE m \in Modules
    <3>1. dfsAncestorIndex[m] <= dfsIndex[m]
      BY <1>4 DEF LinkTypeOK
    <3> QED BY <1>7, <1>9, <1>10, <1>11, <3>1
  <2> QED BY <1>4, <1>7, <1>8, <2>1, <2>2 DEF LinkTypeOK, FrameRecord
<1>13. RecordInv' /\ StackInv'
  BY <1>4, <1>7, <1>9 DEF RecordInv, StackInv
<1>14. /\ \A i \in 1..k : Rec(i)' = Rec(i)
       /\ \A i \in 1..(k - 1) : Done(i)' = Done(i)
       /\ Done(k)' = Done(k) + 1
       /\ \A i : Active(i)' <=> Active(i)
  <2>1. \A i \in 1..k : i \in 1..(k - 1) \/ i = k
    BY <1>5
  <2>2. linkPending[k].entered /\ \A i \in 1..(k - 1) : linkPending'[i] = linkPending[i]
    BY <1>5, <1>8 DEF Active, Beneath
  <2> QED BY <1>1, <1>5, <1>8, <2>1, <2>2 DEF Rec, Done, Active
<1>15. FrameInv'
  <2>1. ASSUME NEW i \in 1..k
        PROVE  /\ Done(i)' <= Len(requested'[Rec(i)'])
               /\ Active(i)' => Rec(i)' \in Open'
               /\ ~Active(i)' => i = k /\ status'[Rec(i)'] = "unlinked" /\ Done(i)' = 0
               /\ i < k => /\ Done(i)' < Len(requested'[Rec(i)'])
                           /\ requested'[Rec(i)'][Done(i)' + 1] = Rec(i + 1)'
    <3>1. CASE i = k
      <4>1. Len(requested[c]) \in Nat
        BY <1>4, <1>5, GraphType
      <4> QED BY <1>5, <1>6, <1>7, <1>9, <1>14, <3>1, <4>1
    <3>2. CASE i \in 1..(k - 1)
      <4>1. i + 1 \in 1..k
        BY <1>5, <3>2
      <4> QED BY <1>1, <1>4, <1>7, <1>9, <1>14, <3>2, <4>1 DEF FrameInv
    <3>3. i = k \/ i \in 1..(k - 1)
      BY <1>5
    <3> QED BY <3>1, <3>2, <3>3
  <2>2. \A i, j \in 1..k : i < j /\ Active(j)' =>
          dfsIndex'[Rec(i)'] < dfsIndex'[Rec(j)'] /\ Reaches(Rec(i), Rec(j))'
    BY <1>1, <1>4, <1>7, <1>14 DEF FrameInv, Reaches
  <2>3. \A m \in Open' : Active(1)' /\ dfsIndex'[Rec(1)'] <= dfsIndex'[m]
    <3>1. 1 \in 1..k
      BY <1>5
    <3> QED BY <1>1, <1>4, <1>7, <1>9, <1>14, <3>1 DEF FrameInv
  <2> QED BY <1>8, <2>1, <2>2, <2>3 DEF FrameInv
<1>16. \A i, m : Owns(i, m)' <=> Owns(i, m)
  <2>1. \A i : Active(i) => i \in 1..k
    BY <1>1 DEF Active
  <2> QED BY <1>1, <1>7, <1>8, <1>14, <2>1 DEF Owns
<1>17. OwnerInv'
  BY <1>1, <1>4, <1>7, <1>8, <1>9, <1>14, <1>16 DEF OwnerInv, Reaches
<1>18. LowInv'
  <2>1. ASSUME NEW m \in Open
        PROVE  /\ dfsAncestorIndex'[m] <= dfsIndex[m]
               /\ \E n \in Open : dfsIndex[n] = dfsAncestorIndex'[m] /\ Reaches(m, n)
    <3>1. CASE dfsAncestorIndex'[m] = dfsAncestorIndex[m]
      BY <1>4, <3>1 DEF LowInv
    <3>2. CASE m = c /\ d \in Open /\ dfsAncestorIndex'[c] = dfsAncestorIndex[d]
      <4>1. PICK n \in Open : dfsIndex[n] = dfsAncestorIndex[d] /\ Reaches(d, n)
        BY <1>4, <3>2 DEF LowInv
      <4>2. Reaches(c, n)
        BY <1>4, <1>5, <1>6, <4>1, ReachEdge, ReachTrans
      <4>3. dfsAncestorIndex[c] <= dfsIndex[c] /\ dfsIndex[c] \in Nat /\ dfsAncestorIndex[c] \in Nat
        BY <1>4, <1>5, <1>9 DEF LowInv
      <4>4. dfsAncestorIndex'[c] <= dfsIndex[c]
        BY <1>10, <4>3
      <4> QED BY <3>2, <4>1, <4>2, <4>4
    <3>3. m \in Modules
      BY DEF Open
    <3> QED BY <1>10, <1>11, <3>1, <3>2, <3>3
  <2> QED BY <1>7, <1>9, <2>1 DEF LowInv, Reaches
<1>19. \A m : InFrame(m)' <=> InFrame(m)
  BY <1>1, <1>8, <1>14 DEF InFrame
<1>20. \A i \in 1..(k - 1) : Rec(i) # c /\ i \in 1..k /\ i < k
  <2> TAKE i \in 1..(k - 1)
  <2>1. i \in 1..k /\ k \in 1..k /\ i < k
    BY <1>5
  <2>2. dfsIndex[Rec(i)] < dfsIndex[c] /\ dfsIndex[c] \in Nat
    BY <1>1, <1>4, <1>5, <1>9, <2>1 DEF FrameInv
  <2> QED BY <2>1, <2>2
<1>21. ASSUME NEW i \in 1..k, NEW n \in Open, Covers(i, n) PROVE Covers(i, n)'
  <2>1. dfsIndex'[n] = dfsIndex[n] /\ dfsIndex[n] \in Nat
    BY <1>7, <1>9 DEF Open
  <2>2. CASE i = k
    <3>1. \/ dfsAncestorIndex[c] <= dfsIndex[n]
          \/ d \in Open /\ dfsAncestorIndex[d] <= dfsIndex[n]
      BY <1>5, <1>6, <1>21, <2>2 DEF Covers
    <3>2. dfsAncestorIndex[c] \in Nat /\ dfsAncestorIndex[d] \in Nat
      BY <1>5, <1>6, <1>9
    <3>3. dfsAncestorIndex'[c] <= dfsIndex'[n]
      BY <1>10, <2>1, <3>1, <3>2
    <3> QED BY <1>5, <1>14, <2>2, <3>3 DEF Covers
  <2>3. CASE i \in 1..(k - 1)
    <3>1. dfsAncestorIndex[Rec(i)] <= dfsIndex[n] /\ i # k
      BY <1>1, <1>20, <1>21, <2>3 DEF Covers
    <3>2. dfsAncestorIndex'[Rec(i)'] = dfsAncestorIndex[Rec(i)]
      BY <1>5, <1>11, <1>14, <1>20, <2>3
    <3> QED BY <2>1, <3>1, <3>2 DEF Covers
  <2>4. i = k \/ i \in 1..(k - 1)
    BY <1>5
  <2> QED BY <2>2, <2>3, <2>4
<1>22. EdgeInv'
  <2>1. ASSUME NEW m \in Open, NEW n \in Modules, Looked(m, n)'
        PROVE  Looked(m, n) \/ (m = c /\ n = d)
    <3>1. CASE ~InFrame(m)' /\ n \in Requests(m)'
      BY <1>7, <1>19, <3>1, SameGraph DEF Looked
    <3>2. ASSUME NEW i \in 1..k, Active(i)', Rec(i)' = m,
                 NEW q \in 1..Done(i)', n = requested'[m][q]
          PROVE  Looked(m, n) \/ (m = c /\ n = d)
      <4>1. CASE i \in 1..(k - 1)
        BY <1>1, <1>7, <1>14, <3>2, <4>1 DEF Looked
      <4>2. CASE i = k /\ q = Done(k) + 1
        BY <1>5, <1>6, <1>7, <1>14, <3>2, <4>2
      <4>3. CASE i = k /\ q \in 1..Done(k)
        BY <1>1, <1>5, <1>7, <1>14, <3>2, <4>3 DEF Looked
      <4>4. i = k => q = Done(k) + 1 \/ q \in 1..Done(k)
        BY <1>5, <1>14, <3>2
      <4>5. i = k \/ i \in 1..(k - 1)
        BY <1>5
      <4> QED BY <4>1, <4>2, <4>3, <4>4, <4>5
    <3> QED BY <1>8, <2>1, <3>1, <3>2 DEF Looked
  <2>2. ASSUME NEW m \in Open, NEW n \in Modules, Looked(m, n)'
        PROVE  \/ status[n] = "linked"
               \/ n \in Open /\ \A i \in 1..k : Owns(i, m) => Covers(i, n)'
    <3>1. CASE Looked(m, n)
      <4>1. status[n] = "linked" \/ (n \in Open /\ \A i \in 1..k : Owns(i, m) => Covers(i, n))
        BY <1>1, <1>4, <3>1 DEF EdgeInv
      <4> QED BY <1>21, <4>1
    <3>2. CASE m = c /\ n = d
      <4>1. status[d] = "linked" \/ d \in Open
        BY <1>4, <1>6 DEF LinkTypeOK, Open
      <4>2. ASSUME d \in Open PROVE Covers(k, d)'
        <5>1. dfsAncestorIndex[d] <= dfsIndex[d] /\ dfsAncestorIndex[d] \in Nat /\ dfsIndex[d] \in Nat
          BY <1>4, <1>6, <1>9, <4>2 DEF LowInv
        <5>2. dfsAncestorIndex'[Rec(k)'] <= dfsIndex'[d]
          <6>1. k \in 1..k /\ Rec(k)' = c
            BY <1>5, <1>14
          <6> QED BY <1>7, <1>10, <4>2, <5>1, <6>1
        <5> QED BY <5>2 DEF Covers
      <4>3. ASSUME NEW i \in 1..k, Owns(i, c) PROVE i = k
        <5>1. k \in 1..k /\ dfsIndex[c] \in Nat
          BY <1>5, <1>9
        <5>2. ~(i < k)
          BY <1>1, <1>5, <4>3, <5>1 DEF Owns
        <5> QED BY <1>5, <5>2
      <4> QED BY <3>2, <4>1, <4>2, <4>3
    <3> QED BY <2>1, <2>2, <3>1, <3>2
  <2>3. \A m \in Open : ~InFrame(m)' => m \notin broken'
    BY <1>4, <1>7, <1>19 DEF EdgeInv
  <2> QED BY <1>7, <1>8, <1>9, <1>16, <2>2, <2>3 DEF EdgeInv
<1>23. LinkedInv'
  <2>1. \A m : (Exact(m)' <=> Exact(m)) /\ Requests(m)' = Requests(m)
    BY <1>7 DEF Exact, Component, Reaches, Requests
  <2>2. Linking' /\ Linking
    <3>1. Len(linkPending') # 0
      BY <1>5, <1>8
    <3> QED BY <1>4, <3>1 DEF Linking
  <2> QED BY <1>4, <1>7, <1>9, <2>1, <2>2 DEF LinkedInv
<1> QED BY <1>12, <1>13, <1>15, <1>17, <1>18, <1>22, <1>23 DEF LinkInv

-----------------------------------------------------------------------------
(* A dependency is gone into *)

LEMMA DescendKept ==
  ASSUME LinkInv, Visiting, HasDependency, status[dependency] = "unlinked", Descend
  PROVE  LinkInv'
<1>1. PICK k : k = Len(linkPending)
  OBVIOUS
<1>2. PICK c : c = current
  OBVIOUS
<1>3. PICK d : d = dependency
  OBVIOUS
<1>4. /\ LinkTypeOK /\ RecordInv /\ StackInv /\ FrameInv /\ OwnerInv /\ LowInv /\ EdgeInv
      /\ LinkedInv /\ Linking
  BY DEF LinkInv, Visiting
<1>5. /\ k \in Nat \ {0} /\ c = Rec(k) /\ c \in Modules /\ Active(k)
      /\ \A i \in 1..k : Rec(i) \in Modules /\ Done(i) \in Nat
  BY <1>1, <1>2, <1>4, TopLink, TopIsOpen
<1>6. /\ Done(k) < Len(requested[c]) /\ d = requested[c][Done(k) + 1]
      /\ d \in Modules /\ status[d] = "unlinked" /\ d \notin Open
  BY <1>1, <1>2, <1>3, <1>4, <1>5, TopRequest DEF Open
<1>7. PICK l : l = k + 1
  OBVIOUS
<1>8. /\ linkPending' \in Seq(FrameRecord) /\ Len(linkPending') = l
      /\ \A i \in 1..k : linkPending'[i] = linkPending[i]
      /\ linkPending'[l].record = d /\ ~linkPending'[l].entered
      /\ linkPending'[l].dependencyIndex = 0
  BY <1>1, <1>3, <1>4, <1>7, DescendFrames
<1>9. /\ UNCHANGED <<requested, broken, source, status, environment, dfsIndex, dfsAncestorIndex>>
      /\ UNCHANGED <<evaluationSccRoot, evaluationSccMembers, linkStack, linkRecords>>
  BY DEF Descend, source, dfsVars, sccVars
<1>10. Open' = Open /\ Linked' = Linked
  BY <1>9 DEF Open, Linked
<1>11. /\ l \in Nat /\ k \in 1..l /\ 1..k \subseteq 1..l /\ l \notin 1..k /\ l \in 1..l
       /\ \A i \in 1..l : i \in 1..k \/ i = l
  BY <1>5, <1>7
<1>12. /\ \A i \in 1..k : Rec(i)' = Rec(i) /\ Done(i)' = Done(i)
       /\ \A i \in 1..k : Active(i) /\ Rec(i) \in Open
       /\ \A i : Active(i)' <=> Active(i)
       /\ Rec(l)' = d /\ Done(l)' = 0 /\ ~Active(l)' /\ ~Active(l)
  <2>1. \A i \in 1..k : i # k => Active(i)
    BY <1>1, <1>4 DEF FrameInv
  <2>2. \A i \in 1..k : Active(i) /\ Rec(i) \in Open
    BY <1>1, <1>4, <1>5, <2>1 DEF FrameInv
  <2> QED BY <1>1, <1>8, <1>11, <2>2 DEF Rec, Done, Active
<1>13. LinkTypeOK' /\ RecordInv' /\ StackInv'
  BY <1>4, <1>8, <1>9, <1>10 DEF LinkTypeOK, FrameRecord, RecordInv, StackInv
<1>14. FrameInv'
  <2>1. ASSUME NEW i \in 1..l
        PROVE  /\ Done(i)' <= Len(requested'[Rec(i)'])
               /\ Active(i)' => Rec(i)' \in Open'
               /\ ~Active(i)' => i = l /\ status'[Rec(i)'] = "unlinked" /\ Done(i)' = 0
               /\ i < l => /\ Done(i)' < Len(requested'[Rec(i)'])
                           /\ requested'[Rec(i)'][Done(i)' + 1] = Rec(i + 1)'
    <3>1. CASE i = l
      <4>1. Len(requested[d]) \in Nat
        BY <1>4, <1>6, GraphType
      <4> QED BY <1>6, <1>9, <1>11, <1>12, <3>1, <4>1
    <3>2. CASE i = k
      BY <1>1, <1>4, <1>5, <1>6, <1>7, <1>9, <1>10, <1>12, <3>2 DEF FrameInv
    <3>3. CASE i \in 1..k /\ i # k
      <4>1. i + 1 \in 1..k /\ i < k
        BY <1>5, <3>3
      <4> QED BY <1>1, <1>4, <1>9, <1>10, <1>12, <3>3, <4>1 DEF FrameInv
    <3> QED BY <1>11, <3>1, <3>2, <3>3
  <2>2. ASSUME NEW i \in 1..l, NEW j \in 1..l, i < j, Active(j)'
        PROVE  dfsIndex'[Rec(i)'] < dfsIndex'[Rec(j)'] /\ Reaches(Rec(i), Rec(j))'
    <3>1. j \in 1..k /\ Active(j)
      BY <1>11, <1>12, <2>2
    <3>2. i \in 1..k
      BY <1>5, <2>2, <3>1
    <3> QED BY <1>1, <1>4, <1>9, <1>12, <2>2, <3>1, <3>2 DEF FrameInv, Reaches
  <2>3. \A m \in Open' : Active(1)' /\ dfsIndex'[Rec(1)'] <= dfsIndex'[m]
    <3>1. 1 \in 1..k
      BY <1>5
    <3> QED BY <1>4, <1>9, <1>10, <1>12, <3>1 DEF FrameInv
  <2> QED BY <1>8, <2>1, <2>2, <2>3 DEF FrameInv
<1>15. \A i, m : Owns(i, m)' <=> Owns(i, m)
  <2>1. \A i : Active(i) => i \in 1..k
    BY <1>1 DEF Active
  <2> QED BY <1>1, <1>8, <1>9, <1>11, <1>12, <2>1 DEF Owns
<1>16. OwnerInv' /\ LowInv'
  <2>1. OwnerInv'
    <3> SUFFICES ASSUME NEW m \in Open
                 PROVE  \E i \in 1..l : Owns(i, m)' /\ Reaches(Rec(i), m)' /\ Reaches(m, Rec(i))'
      BY <1>8, <1>10 DEF OwnerInv
    <3>1. PICK i \in 1..k : Owns(i, m) /\ Reaches(Rec(i), m) /\ Reaches(m, Rec(i))
      BY <1>1, <1>4 DEF OwnerInv
    <3>2. Reaches(Rec(i), m)' /\ Reaches(m, Rec(i))'
      BY <1>9, <1>12, <3>1 DEF Reaches
    <3> QED BY <1>11, <1>15, <3>1, <3>2
  <2> QED BY <1>4, <1>9, <1>10, <2>1 DEF LowInv, Reaches
<1>17. \A m : InFrame(m)' <=> InFrame(m)
  BY <1>1, <1>8, <1>11, <1>12 DEF InFrame
<1>18. EdgeInv'
  <2>1. ASSUME NEW m \in Open, NEW n \in Modules, Looked(m, n)' PROVE Looked(m, n)
    <3>1. CASE ~InFrame(m)' /\ n \in Requests(m)'
      BY <1>9, <1>17, <3>1, SameGraph DEF Looked
    <3>2. ASSUME NEW i \in 1..l, Active(i)', Rec(i)' = m,
                 NEW q \in 1..Done(i)', n = requested'[m][q]
          PROVE  Looked(m, n)
      <4>1. i \in 1..k
        BY <1>11, <1>12, <3>2
      <4> QED BY <1>1, <1>9, <1>12, <3>2, <4>1 DEF Looked
    <3> QED BY <1>8, <2>1, <3>1, <3>2 DEF Looked
  <2>2. ASSUME NEW i \in 1..k, NEW n \in Modules, Covers(i, n) PROVE Covers(i, n)'
    <3>1. dfsAncestorIndex[Rec(i)] <= dfsIndex[n]
      <4>1. i = k => requested[Rec(i)][Done(i) + 1] \notin Open
        BY <1>5, <1>6
      <4> QED BY <1>1, <2>2, <4>1 DEF Covers
    <3> QED BY <1>9, <1>12, <3>1 DEF Covers
  <2>3. ASSUME NEW m \in Open, NEW n \in Modules, Looked(m, n)'
        PROVE  \/ status'[n] = "linked"
               \/ n \in Open' /\ \A i \in 1..l : Owns(i, m)' => Covers(i, n)'
    <3>1. status[n] = "linked" \/ (n \in Open /\ \A i \in 1..k : Owns(i, m) => Covers(i, n))
      BY <1>1, <1>4, <2>1, <2>3 DEF EdgeInv
    <3>2. \A i : Owns(i, m) => i \in 1..k
      BY <1>1 DEF Owns, Active
    <3> QED BY <1>9, <1>10, <1>15, <2>2, <3>1, <3>2
  <2>4. \A m \in Open : ~InFrame(m)' => m \notin broken'
    BY <1>4, <1>9, <1>17 DEF EdgeInv
  <2> QED BY <1>8, <1>10, <2>3, <2>4 DEF EdgeInv
<1>19. LinkedInv'
  <2>1. \A m : (Exact(m)' <=> Exact(m)) /\ Requests(m)' = Requests(m)
    BY <1>9 DEF Exact, Component, Reaches, Requests
  <2>2. Linking' /\ Linking
    <3>1. Len(linkPending') # 0
      BY <1>5, <1>7, <1>8
    <3> QED BY <1>4, <3>1 DEF Linking
  <2> QED BY <1>4, <1>9, <1>10, <2>1, <2>2 DEF LinkedInv
<1> QED BY <1>13, <1>14, <1>16, <1>18, <1>19 DEF LinkInv

-----------------------------------------------------------------------------
(* A link fails *)

LEMMA LinkFailsKept ==
  ASSUME LinkInv, LinkFails
  PROVE  LinkInv'
<1>1. /\ LinkTypeOK /\ RecordInv /\ StackInv /\ FrameInv /\ LinkedInv
  BY DEF LinkInv
<1>2. PICK gone : gone = linkRecords
  OBVIOUS
<1>3. /\ status' = [m \in Modules |-> IF m \in gone THEN "unlinked" ELSE status[m]]
      /\ environment' = [m \in Modules |-> IF m \in gone THEN "none" ELSE environment[m]]
      /\ dfsIndex' = [m \in Modules |-> IF m \in gone THEN 0 ELSE dfsIndex[m]]
      /\ dfsAncestorIndex' = [m \in Modules |-> IF m \in gone THEN 0 ELSE dfsAncestorIndex[m]]
      /\ evaluationSccRoot' =
           [m \in Modules |-> IF m \in gone THEN NoModule ELSE evaluationSccRoot[m]]
      /\ evaluationSccMembers' =
           [m \in Modules |-> IF m \in gone THEN {} ELSE evaluationSccMembers[m]]
      /\ linkPending' = <<>> /\ linkStack' = <<>> /\ linkRecords' = {}
      /\ UNCHANGED <<requested, broken, source>>
  BY <1>2 DEF LinkFails, RolledBack, source
<1>4. Len(linkPending') = 0 /\ Len(linkStack') = 0 /\ ~Linking'
  BY <1>3 DEF Linking
<1>5. Open' = {} /\ Linked' = Linked \ gone
  <2>1. Open \subseteq gone
    BY <1>1, <1>2 DEF RecordInv
  <2> QED BY <1>3, <2>1 DEF Open, Linked
<1>6. LinkTypeOK'
  <2>1. /\ status' \in [Modules -> {"unlinked", "linking", "linked"}]
        /\ environment' \in [Modules -> {"none", "bound", "complete"}]
    BY <1>1, <1>3 DEF LinkTypeOK
  <2>2. dfsIndex' \in [Modules -> Nat] /\ dfsAncestorIndex' \in [Modules -> Nat]
    BY <1>1, <1>3 DEF LinkTypeOK
  <2>3. \A m \in Modules : dfsAncestorIndex'[m] <= dfsIndex'[m]
    BY <1>1, <1>3 DEF LinkTypeOK
  <2>4. /\ evaluationSccRoot' \in [Modules -> Modules \cup {NoModule}]
        /\ evaluationSccMembers' \in [Modules -> SUBSET Modules]
    BY <1>1, <1>3 DEF LinkTypeOK
  <2>5. linkPending' \in Seq(FrameRecord) /\ linkStack' \in Seq(Modules)
    BY <1>3
  <2> QED BY <1>1, <1>3, <2>1, <2>2, <2>3, <2>4, <2>5 DEF LinkTypeOK, FrameRecord
<1>7. RecordInv' /\ StackInv'
  BY <1>3, <1>4, <1>5, FS_EmptySet DEF RecordInv, StackInv
<1>8. FrameInv' /\ OwnerInv' /\ LowInv' /\ EdgeInv'
  BY <1>4, <1>5 DEF FrameInv, OwnerInv, LowInv, EdgeInv
<1>9. LinkedInv'
  <2>1. \A m : Requests(m)' = Requests(m) /\ Component(m)' = Component(m)
    BY <1>3, SameGraph
  <2>2. PICK S : S = Linked \ gone
    OBVIOUS
  <2>3. S \in SUBSET Modules /\ \A m \in S : Requests(m) \subseteq S
    BY <1>1, <1>2, <2>2 DEF LinkedInv, Linked
  <2>4. ASSUME NEW m \in S PROVE Exact(m)'
    <3>1. Component(m) \subseteq S
      BY <1>1, <2>3, ReachClosed DEF Component
    <3>2. \A n \in S : /\ evaluationSccMembers'[n] = evaluationSccMembers[n]
                       /\ evaluationSccRoot'[n] = evaluationSccRoot[n]
      BY <1>3, <2>2, <2>3
    <3>3. Exact(m)
      BY <1>1, <2>2, <2>4 DEF LinkedInv
    <3> QED BY <2>1, <2>4, <3>1, <3>2, <3>3 DEF Exact
  <2>5. ASSUME NEW m \in S
        PROVE  m \notin broken' /\ environment'[m] = "complete" /\ Requests(m)' \subseteq Linked'
    <3>1. m \in Modules /\ m \in Linked /\ m \notin gone
      BY <2>2, <2>3
    <3>2. m \notin broken /\ environment[m] = "complete"
      BY <1>1, <1>2, <3>1 DEF LinkedInv
    <3> QED BY <1>3, <1>5, <2>1, <2>2, <2>3, <3>1, <3>2
  <2>6. \A m \in Modules : status'[m] # "linked" => evaluationSccMembers'[m] = {}
    BY <1>1, <1>3 DEF LinkedInv
  <2>7. \A m \in Modules : status'[m] = "unlinked" => environment'[m] = "none"
    BY <1>1, <1>3 DEF LinkedInv
  <2> QED BY <1>3, <1>5, <2>2, <2>4, <2>5, <2>6, <2>7 DEF LinkedInv
<1> QED BY <1>6, <1>7, <1>8, <1>9 DEF LinkInv

-----------------------------------------------------------------------------
(* A frame is done *)

\* What frame k, the last, owns when all requests of its record have been looked at.
LEMMA TopOwns ==
  ASSUME LinkInv, Visiting, NEW k, k = Len(linkPending), NEW c, c = current
  PROVE  /\ k \in Nat \ {0} /\ c = Rec(k) /\ c \in Modules /\ c \in Open /\ c \in Above(c)
         /\ \A i \in 1..k : Active(i) /\ Rec(i) \in Open /\ Done(i) \in Nat
         /\ \A i \in 1..(k - 1) : /\ i \in 1..k /\ i < k /\ i # k
                                  /\ Rec(i) # c /\ Rec(i) \notin Above(c)
                                  /\ dfsIndex[Rec(i)] < dfsIndex[c] /\ Reaches(Rec(i), c)
         /\ \A m \in Above(c) : /\ Owns(k, m) /\ Reaches(c, m) /\ Reaches(m, c)
                                /\ InFrame(m) => m = c
         /\ \A m \in Open \ Above(c) : ~Owns(k, m) /\ m # c
<1>1. /\ LinkTypeOK /\ FrameInv /\ OwnerInv /\ Linking
  BY DEF LinkInv, Visiting
<1>2. /\ k \in Nat \ {0} /\ c = Rec(k) /\ c \in Modules /\ Active(k) /\ c \in Open
      /\ \A i \in 1..k : Rec(i) \in Modules /\ Done(i) \in Nat
  BY <1>1, TopLink, TopIsOpen
<1>3. /\ dfsIndex \in [Modules -> Nat] /\ k \in 1..k
      /\ \A i \in 1..k : i \in 1..(k - 1) \/ i = k
  BY <1>1, <1>2 DEF LinkTypeOK
<1>4. \A i \in 1..k : Active(i) /\ Rec(i) \in Open
  <2>1. \A i \in 1..k : i # k => Active(i)
    BY <1>1 DEF FrameInv
  <2> QED BY <1>1, <1>2, <2>1 DEF FrameInv
<1>5. \A m \in Open : m \in Modules /\ dfsIndex[m] \in Nat
  BY <1>3 DEF Open
<1>6. ASSUME NEW i \in 1..(k - 1)
      PROVE  /\ i \in 1..k /\ i < k /\ i # k
             /\ Rec(i) # c /\ Rec(i) \notin Above(c)
             /\ dfsIndex[Rec(i)] < dfsIndex[c] /\ Reaches(Rec(i), c)
  <2>1. i \in 1..k /\ i < k /\ i # k
    BY <1>2
  <2>2. dfsIndex[Rec(i)] < dfsIndex[c] /\ Reaches(Rec(i), c)
    BY <1>1, <1>2, <1>3, <1>4, <2>1 DEF FrameInv
  <2>3. dfsIndex[Rec(i)] \in Nat /\ dfsIndex[c] \in Nat
    BY <1>2, <1>4, <1>5, <2>1
  <2> QED BY <2>1, <2>2, <2>3 DEF Above
<1>7. c \in Above(c)
  BY <1>2, <1>3 DEF Above
<1>8. ASSUME NEW m \in Above(c)
      PROVE  Owns(k, m) /\ Reaches(c, m) /\ Reaches(m, c) /\ (InFrame(m) => m = c)
  <2>1. m \in Open /\ dfsIndex[c] <= dfsIndex[m] /\ dfsIndex[m] \in Nat /\ dfsIndex[c] \in Nat
    BY <1>2, <1>5 DEF Above
  <2>2. \A j \in 1..k : ~(k < j)
    BY <1>2
  <2>3. Owns(k, m)
    BY <1>2, <2>1, <2>2 DEF Owns
  <2>4. PICK i \in 1..k : Owns(i, m) /\ Reaches(Rec(i), m) /\ Reaches(m, Rec(i))
    BY <1>1, <2>1 DEF OwnerInv
  <2>5. i = k
    <3>1. CASE i \in 1..(k - 1)
      <4>1. dfsIndex[m] < dfsIndex[Rec(k)]
        BY <1>2, <1>3, <1>6, <2>4, <3>1 DEF Owns
      <4> QED BY <1>2, <2>1, <4>1
    <3> QED BY <1>3, <3>1
  <2>6. InFrame(m) => m = c
    BY <1>2, <1>3, <1>6 DEF InFrame
  <2> QED BY <1>2, <2>3, <2>4, <2>5, <2>6
<1>9. ASSUME NEW m \in Open \ Above(c) PROVE ~Owns(k, m) /\ m # c
  <2>1. ~(dfsIndex[Rec(k)] <= dfsIndex[m])
    BY <1>2 DEF Above
  <2> QED BY <1>7, <2>1 DEF Owns
<1> QED BY <1>2, <1>4, <1>6, <1>7, <1>8, <1>9

LEMMA TopCovers ==
  ASSUME LinkInv, Visiting, NEW k, k = Len(linkPending), NEW c, c = current,
         ~(Done(k) < Len(requested[c])), NEW m \in Above(c), NEW n \in Requests(m)
  PROVE  status[n] = "linked" \/ (n \in Open /\ dfsAncestorIndex[c] <= dfsIndex[n])
<1>1. LinkTypeOK /\ EdgeInv
  BY DEF LinkInv
<1>2. /\ k \in Nat \ {0} /\ c = Rec(k) /\ c \in Modules /\ Owns(k, m)
      /\ InFrame(m) => m = c
      /\ Active(k) /\ Done(k) \in Nat /\ k \in 1..k
  <2>1. k \in Nat \ {0}
    BY TopOwns
  <2>2. k \in 1..k
    BY <2>1
  <2> QED BY <2>1, <2>2, TopOwns
<1>3. m \in Open /\ m \in Modules
  BY DEF Above, Open
<1>4. /\ n \in Modules /\ Len(requested[m]) \in Nat
      /\ Requests(m) = {requested[m][q] : q \in 1..Len(requested[m])}
  BY <1>1, <1>3, GraphType
<1>5. Looked(m, n)
  <2>1. CASE ~InFrame(m)
    BY <2>1 DEF Looked
  <2>2. CASE m = c
    <3>1. PICK q \in 1..Len(requested[m]) : n = requested[m][q]
      BY <1>4
    <3>2. q \in 1..Done(k)
      BY <1>2, <1>4, <2>2
    <3> QED BY <1>2, <2>2, <3>1, <3>2 DEF Looked
  <2> QED BY <1>2, <2>1, <2>2
<1>6. status[n] = "linked" \/ (n \in Open /\ Covers(k, n))
  BY <1>1, <1>2, <1>3, <1>4, <1>5 DEF EdgeInv
<1> QED BY <1>2, <1>6 DEF Covers

LEMMA ComponentsAgree ==
  ASSUME LinkTypeOK, NEW m \in Modules, NEW n \in Component(m)
  PROVE  Component(n) = Component(m)
<1>1. n \in Modules /\ Reaches(m, n) /\ Reaches(n, m)
  BY DEF Component
<1>2. ASSUME NEW q \in Component(m) PROVE q \in Component(n)
  BY <1>1, ReachTrans DEF Component
<1>3. ASSUME NEW q \in Component(n) PROVE q \in Component(m)
  BY <1>1, ReachTrans DEF Component
<1> QED BY <1>2, <1>3

\* What is on the stack above a record is its component, and may request only what
\* is linked besides.
LEMMA ClosingIsExact ==
  ASSUME LinkInv, Visiting, NEW k, k = Len(linkPending), NEW c, c = current,
         ~(Done(k) < Len(requested[c])), dfsAncestorIndex[c] = dfsIndex[c]
  PROVE  /\ Above(c) = Component(c)
         /\ \A m \in Above(c) : Requests(m) \subseteq Linked \cup Above(c)
<1>1. LinkTypeOK /\ LinkedInv
  BY DEF LinkInv
<1>2. /\ c \in Modules /\ c \in Open /\ c \in Above(c) /\ Above(c) \subseteq Modules
      /\ \A m \in Above(c) : Reaches(c, m) /\ Reaches(m, c)
  BY TopOwns DEF Above, Open
<1>3. ASSUME NEW m \in Above(c), NEW n \in Requests(m) PROVE n \in Linked \cup Above(c)
  <2>1. status[n] = "linked" \/ (n \in Open /\ dfsIndex[c] <= dfsIndex[n])
    BY TopCovers
  <2>2. n \in Modules
    BY <1>1, <1>2, GraphType
  <2> QED BY <2>1, <2>2 DEF Linked, Above
<1>4. PICK S : S = Linked \cup Above(c)
  OBVIOUS
<1>5. S \in SUBSET Modules /\ \A m \in S : Requests(m) \subseteq S
  BY <1>1, <1>2, <1>3, <1>4 DEF LinkedInv, Linked
<1>6. Linked \in SUBSET Modules /\ \A m \in Linked : Requests(m) \subseteq Linked
  BY <1>1 DEF LinkedInv, Linked
<1>7. ASSUME NEW n \in Component(c) PROVE n \in Above(c)
  <2>1. n \in S
    BY <1>1, <1>2, <1>4, <1>5, ReachClosed DEF Component
  <2>2. n \notin Linked
    <3>1. SUFFICES ASSUME n \in Linked PROVE FALSE
      OBVIOUS
    <3>2. c \in Linked
      BY <1>1, <1>6, <3>1, ReachClosed DEF Component
    <3> QED BY <1>2, <3>2 DEF Linked, Open
  <2> QED BY <1>4, <2>1, <2>2
<1> QED BY <1>2, <1>3, <1>7 DEF Component

LEMMA PoppedFrames ==
  ASSUME LinkInv, FinishRecord, NEW k, k = Len(linkPending), NEW c, c = current
  PROVE  /\ UNCHANGED <<requested, broken, source, dfsIndex, dfsAncestorIndex, linkRecords>>
         /\ linkPending' \in Seq(FrameRecord) /\ Len(linkPending') = k - 1
         /\ \A i \in 1..(k - 1) : Rec(i)' = Rec(i) /\ Done(i)' = Done(i)
         /\ \A i : Active(i)' <=> i \in 1..(k - 1)
         /\ \A m : InFrame(m)' <=> InFrame(m) /\ m # c
         /\ \A m \in Open \ Above(c) : \A i : Owns(i, m)' <=> Owns(i, m)
<1>1. /\ LinkTypeOK /\ Linking /\ Visiting /\ PopFrame
      /\ UNCHANGED <<requested, broken, source, dfsIndex, dfsAncestorIndex, linkRecords>>
  BY DEF LinkInv, FinishRecord, Visiting, source, dfsVars
<1>2. linkPending' \in Seq(FrameRecord) /\ Len(linkPending') = k - 1 /\ Beneath(k)
  BY <1>1, PopFrames
<1>3. /\ k \in Nat \ {0} /\ c = Rec(k)
      /\ \A i \in 1..k : Active(i) /\ Rec(i) \in Open
      /\ \A i \in 1..(k - 1) : i \in 1..k /\ i < k /\ Rec(i) # c
      /\ \A m \in Open \ Above(c) : ~Owns(k, m)
      /\ c \in Open
  BY <1>1, TopOwns
<1>4. k \in 1..k /\ \A i \in 1..k : i \in 1..(k - 1) \/ i = k
  BY <1>3
<1>5. \A i \in 1..(k - 1) : Rec(i)' = Rec(i) /\ Done(i)' = Done(i)
  BY <1>2 DEF Beneath, Rec, Done
<1>6. \A i : Active(i)' <=> i \in 1..(k - 1)
  BY <1>2, <1>3 DEF Beneath, Active
<1>7. \A i : Active(i) <=> i \in 1..k
  BY <1>3 DEF Active
<1>8. \A m : InFrame(m)' <=> InFrame(m) /\ m # c
  BY <1>2, <1>3, <1>4, <1>5, <1>6, <1>7 DEF InFrame
<1>9. ASSUME NEW m \in Open \ Above(c), NEW i PROVE Owns(i, m)' <=> Owns(i, m)
  <2>1. i \notin 1..(k - 1) => ~Owns(i, m) /\ ~Owns(i, m)'
    BY <1>3, <1>4, <1>6, <1>7 DEF Owns
  <2>2. CASE i \in 1..(k - 1)
    <3>1. dfsIndex[m] < dfsIndex[Rec(k)] /\ i < k
      <4>1. dfsIndex[m] \in Nat /\ dfsIndex[c] \in Nat /\ ~(dfsIndex[c] <= dfsIndex[m])
        BY <1>1, <1>3 DEF Above, Open, LinkTypeOK
      <4> QED BY <1>3, <2>2, <4>1, SMTT(30)
    <3>2. dfsIndex'[Rec(i)'] = dfsIndex[Rec(i)] /\ dfsIndex'[m] = dfsIndex[m]
      BY <1>1, <1>5, <2>2
    <3>3. \A j \in 1..(k - 1) : dfsIndex'[Rec(j)'] = dfsIndex[Rec(j)] /\ j \in 1..k
      BY <1>1, <1>3, <1>5
    <3>4. Owns(i, m)' <=> /\ dfsIndex[Rec(i)] <= dfsIndex[m]
                          /\ \A j \in 1..(k - 1) : i < j => dfsIndex[m] < dfsIndex[Rec(j)]
      BY <1>2, <1>6, <2>2, <3>2, <3>3 DEF Owns
    <3>5. Owns(i, m) <=> /\ dfsIndex[Rec(i)] <= dfsIndex[m]
                         /\ \A j \in 1..k : i < j => dfsIndex[m] < dfsIndex[Rec(j)]
      BY <1>3, <1>7, <2>2 DEF Owns
    <3>6. \A j \in 1..k : j \in 1..(k - 1) \/ j = k
      BY <1>4
    <3> QED BY <3>1, <3>3, <3>4, <3>5, <3>6
  <2> QED BY <2>1, <2>2
<1> QED BY <1>1, <1>2, <1>5, <1>6, <1>8, <1>9

LEMMA FramesLeft ==
  ASSUME LinkInv, FinishRecord, NEW k, k = Len(linkPending),
         Open' \subseteq Open, \A i \in 1..(k - 1) : Rec(i) \in Open', k = 1 => Open' = {}
  PROVE  FrameInv'
<1>1. /\ LinkTypeOK /\ Visiting /\ FrameInv
  BY DEF LinkInv, FinishRecord
<1>2. PICK c : c = current
  OBVIOUS
<1>3. /\ UNCHANGED <<requested, source, dfsIndex>>
      /\ Len(linkPending') = k - 1
      /\ \A i \in 1..(k - 1) : Rec(i)' = Rec(i) /\ Done(i)' = Done(i)
      /\ \A i : Active(i)' <=> i \in 1..(k - 1)
  BY <1>2, PoppedFrames
<1>4. /\ k \in Nat \ {0} /\ \A i \in 1..(k - 1) : i \in 1..k /\ i < k
      /\ \A i \in 1..k : Active(i)
  BY <1>1, <1>2, TopOwns
<1>5. ASSUME NEW i \in 1..(k - 1)
      PROVE  /\ Done(i)' <= Len(requested'[Rec(i)'])
             /\ Rec(i)' \in Open'
             /\ i < k - 1 =>
                  /\ Done(i)' < Len(requested'[Rec(i)'])
                  /\ requested'[Rec(i)'][Done(i)' + 1] = Rec(i + 1)'
  <2>1. /\ Done(i) <= Len(requested[Rec(i)]) /\ Done(i) < Len(requested[Rec(i)])
        /\ requested[Rec(i)][Done(i) + 1] = Rec(i + 1)
    BY <1>1, <1>4 DEF FrameInv
  <2>2. i < k - 1 => i + 1 \in 1..(k - 1)
    BY <1>4
  <2>3. i < k - 1 => Rec(i + 1)' = Rec(i + 1)
    BY <1>3, <2>2
  <2> QED BY <1>3, <2>1, <2>3
<1>6. \A i, j \in 1..(k - 1) : i < j =>
        dfsIndex'[Rec(i)'] < dfsIndex'[Rec(j)'] /\ Reaches(Rec(i), Rec(j))'
  <2> TAKE i, j \in 1..(k - 1)
  <2>1. i < j => dfsIndex[Rec(i)] < dfsIndex[Rec(j)] /\ Reaches(Rec(i), Rec(j))
    BY <1>1, <1>4 DEF FrameInv
  <2>2. Reaches(Rec(i), Rec(j)) => Reaches(Rec(i), Rec(j))'
    BY <1>3 DEF Reaches
  <2> QED BY <1>3, <2>1, <2>2
<1>7. \A m \in Open' : Active(1)' /\ dfsIndex'[Rec(1)'] <= dfsIndex'[m]
  <2>1. k # 1 => 1 \in 1..(k - 1)
    BY <1>4
  <2>2. \A m \in Open : dfsIndex[Rec(1)] <= dfsIndex[m]
    BY <1>1 DEF FrameInv
  <2> QED BY <1>3, <2>1, <2>2
<1> QED BY <1>3, <1>5, <1>6, <1>7 DEF FrameInv

\* The record is the root of its component.
LEMMA ClosingKept ==
  ASSUME LinkInv, FinishRecord, dfsAncestorIndex[current] = dfsIndex[current]
  PROVE  LinkInv'
<1>1. PICK k : k = Len(linkPending)
  OBVIOUS
<1>2. PICK c : c = current
  OBVIOUS
<1>3. /\ LinkTypeOK /\ RecordInv /\ StackInv /\ FrameInv /\ OwnerInv /\ LowInv /\ EdgeInv
      /\ LinkedInv /\ Linking /\ Visiting
  BY DEF LinkInv, FinishRecord, Visiting
<1>4. /\ k \in Nat \ {0} /\ c = Rec(k) /\ c \in Modules /\ c \in Open /\ c \in Above(c)
      /\ \A i \in 1..k : Active(i) /\ Rec(i) \in Open
      /\ \A i \in 1..(k - 1) : i \in 1..k /\ i < k /\ i # k /\ Rec(i) \notin Above(c)
      /\ \A m \in Above(c) : InFrame(m) => m = c
      /\ \A m \in Open \ Above(c) : ~Owns(k, m) /\ m # c
  BY <1>1, <1>2, <1>3, TopOwns
<1>5. PICK A : A = Above(c)
  OBVIOUS
<1>6. Leaving(c) = A /\ A \subseteq Open /\ Open \subseteq Modules /\ A \subseteq Modules
  BY <1>2, <1>5 DEF Leaving, Above, Open
<1>7. /\ ~(Done(k) < Len(requested[c])) /\ c \notin broken
      /\ status' = [m \in Modules |-> IF m \in A THEN "linked" ELSE status[m]]
      /\ evaluationSccRoot' = [m \in Modules |-> IF m \in A THEN c ELSE evaluationSccRoot[m]]
      /\ evaluationSccMembers' =
           [m \in Modules |-> IF m \in A THEN A ELSE evaluationSccMembers[m]]
      /\ environment' = [m \in Modules |-> IF k = 1 /\ m \in linkRecords THEN "complete"
                                           ELSE IF m = c THEN "bound" ELSE environment[m]]
      /\ linkStack' \in Seq(Modules)
      /\ Len(linkStack') < Len(linkStack)
      /\ \A i \in 1..Len(linkStack') : linkStack'[i] = linkStack[i]
      /\ \A m \in Open : m \notin A <=> \E i \in 1..Len(linkStack') : linkStack'[i] = m
  BY <1>1, <1>2, <1>3, <1>4, <1>6, FinishEffect, SMTT(30)
<1>8. /\ UNCHANGED <<requested, broken, source, dfsIndex, dfsAncestorIndex, linkRecords>>
      /\ linkPending' \in Seq(FrameRecord) /\ Len(linkPending') = k - 1
      /\ \A i \in 1..(k - 1) : Rec(i)' = Rec(i) /\ Done(i)' = Done(i)
      /\ \A i : Active(i)' <=> i \in 1..(k - 1)
      /\ \A m : InFrame(m)' <=> InFrame(m) /\ m # c
      /\ \A m \in Open \ Above(c) : \A i : Owns(i, m)' <=> Owns(i, m)
  BY <1>1, <1>2, PoppedFrames
<1>9. /\ A = Component(c)
      /\ \A m \in A : Requests(m) \subseteq Linked \cup A
  BY <1>1, <1>2, <1>3, <1>5, <1>7, ClosingIsExact
<1>10. Open' = Open \ A /\ Linked' = Linked \cup A /\ Linked \cap A = {}
  BY <1>3, <1>6, <1>7 DEF Open, Linked, LinkTypeOK
<1>11. k = 1 => Open' = {}
  <2>1. ASSUME k = 1, NEW m \in Open PROVE m \in A
    <3>1. dfsIndex[c] <= dfsIndex[m]
      BY <1>3, <1>4, <2>1 DEF FrameInv
    <3> QED BY <1>5, <3>1 DEF Above
  <2> QED BY <1>10, <2>1
<1>12. LinkTypeOK'
  <2>1. /\ status' \in [Modules -> {"unlinked", "linking", "linked"}]
        /\ environment' \in [Modules -> {"none", "bound", "complete"}]
    BY <1>3, <1>7 DEF LinkTypeOK
  <2>2. evaluationSccRoot' \in [Modules -> Modules \cup {NoModule}]
    BY <1>3, <1>4, <1>7 DEF LinkTypeOK
  <2>3. evaluationSccMembers' \in [Modules -> SUBSET Modules]
    BY <1>3, <1>6, <1>7 DEF LinkTypeOK
  <2> QED BY <1>3, <1>7, <1>8, <2>1, <2>2, <2>3 DEF LinkTypeOK, FrameRecord
<1>13. RecordInv'
  <2>1. \A m \in linkRecords : status'[m] # "unlinked"
    BY <1>3, <1>7 DEF RecordInv, LinkTypeOK
  <2> QED BY <1>3, <1>8, <1>10, <2>1 DEF RecordInv
<1>14. StackInv'
  <2>1. \A i \in 1..Len(linkStack') : i \in 1..Len(linkStack)
    <3>1. Len(linkStack) \in Nat /\ Len(linkStack') \in Nat
      BY <1>3, <1>7, LenProperties DEF LinkTypeOK
    <3> QED BY <1>7, <3>1
  <2>2. \A i \in 1..Len(linkStack') : linkStack'[i] \in Open \ A
    BY <1>3, <1>7, <2>1 DEF StackInv
  <2>3. \A i, j \in 1..Len(linkStack') :
          i < j => dfsIndex'[linkStack'[i]] < dfsIndex'[linkStack'[j]]
    BY <1>3, <1>7, <1>8, <2>1 DEF StackInv
  <2> QED BY <1>7, <1>10, <2>2, <2>3 DEF StackInv
<1>15. FrameInv'
  <2>1. \A i \in 1..(k - 1) : Rec(i) \in Open'
    BY <1>4, <1>5, <1>10
  <2> QED BY <1>1, <1>10, <1>11, <2>1, FramesLeft
<1>16. \A m \in Open \ A : \A i : Owns(i, m) => i \in 1..(k - 1)
  <2>1. \A i \in 1..k : i \in 1..(k - 1) \/ i = k
    BY <1>4
  <2> QED BY <1>1, <1>4, <1>5, <2>1 DEF Owns, Active
<1>17. OwnerInv'
  <2> SUFFICES ASSUME NEW m \in Open \ A
               PROVE  \E i \in 1..(k - 1) :
                        Owns(i, m)' /\ Reaches(Rec(i), m)' /\ Reaches(m, Rec(i))'
    BY <1>8, <1>10 DEF OwnerInv
  <2>1. PICK i \in 1..k : Owns(i, m) /\ Reaches(Rec(i), m) /\ Reaches(m, Rec(i))
    BY <1>1, <1>3 DEF OwnerInv
  <2>2. i \in 1..(k - 1) /\ Owns(i, m)'
    BY <1>5, <1>8, <1>16, <2>1
  <2>3. Reaches(Rec(i), m)' /\ Reaches(m, Rec(i))'
    BY <1>8, <2>1, <2>2 DEF Reaches
  <2> QED BY <2>2, <2>3
<1>18. LowInv'
  <2> SUFFICES ASSUME NEW m \in Open \ A
               PROVE  /\ dfsAncestorIndex[m] <= dfsIndex[m]
                      /\ \E n \in Open \ A :
                           dfsIndex[n] = dfsAncestorIndex[m] /\ Reaches(m, n)
    BY <1>8, <1>10 DEF LowInv, Reaches
  <2>1. PICK n \in Open : dfsIndex[n] = dfsAncestorIndex[m] /\ Reaches(m, n)
    BY <1>3 DEF LowInv
  <2>2. dfsAncestorIndex[m] <= dfsIndex[m]
    BY <1>3 DEF LowInv
  <2>3. dfsIndex[m] \in Nat /\ dfsIndex[n] \in Nat /\ dfsIndex[c] \in Nat
    BY <1>3, <1>4, <1>6 DEF LinkTypeOK
  <2>4. n \notin A
    <3>1. ~(dfsIndex[c] <= dfsIndex[m])
      BY <1>5 DEF Above
    <3>2. ~(dfsIndex[c] <= dfsIndex[n])
      BY <2>1, <2>2, <2>3, <3>1
    <3> QED BY <1>5, <3>2 DEF Above
  <2> QED BY <2>1, <2>2, <2>4
<1>19. EdgeInv'
  <2>1. ASSUME NEW m \in Open \ A, NEW n \in Modules, Looked(m, n)' PROVE Looked(m, n)
    <3>1. CASE ~InFrame(m)' /\ n \in Requests(m)'
      BY <1>4, <1>5, <1>8, <3>1, SameGraph DEF Looked
    <3>2. ASSUME NEW i \in 1..(k - 1), Rec(i)' = m,
                 NEW q \in 1..Done(i)', n = requested'[m][q]
          PROVE  Looked(m, n)
      BY <1>1, <1>4, <1>8, <3>2 DEF Looked
    <3> QED BY <1>8, <2>1, <3>1, <3>2 DEF Looked
  <2>2. ASSUME NEW i \in 1..(k - 1), NEW n \in Modules, Covers(i, n) PROVE Covers(i, n)'
    <3>1. dfsAncestorIndex[Rec(i)] <= dfsIndex[n]
      BY <1>1, <1>4, <2>2 DEF Covers
    <3> QED BY <1>8, <3>1 DEF Covers
  <2>3. ASSUME NEW m \in Open \ A, NEW n \in Modules, Looked(m, n)'
        PROVE  \/ status'[n] = "linked"
               \/ n \in Open' /\ \A i \in 1..(k - 1) : Owns(i, m)' => Covers(i, n)'
    <3>1. status[n] = "linked" \/ (n \in Open /\ \A i \in 1..k : Owns(i, m) => Covers(i, n))
      BY <1>1, <1>3, <2>1, <2>3 DEF EdgeInv
    <3>2. CASE status[n] = "linked" \/ n \in A
      BY <1>7, <3>2
    <3>3. CASE n \in Open \ A /\ \A i \in 1..k : Owns(i, m) => Covers(i, n)
      BY <1>4, <1>5, <1>8, <1>10, <2>2, <3>3
    <3> QED BY <3>1, <3>2, <3>3
  <2>4. \A m \in Open \ A : ~InFrame(m)' => m \notin broken'
    BY <1>3, <1>4, <1>5, <1>8 DEF EdgeInv
  <2> QED BY <1>8, <1>10, <2>3, <2>4 DEF EdgeInv
<1>20. LinkedInv'
  <2>1. /\ \A m : Requests(m)' = Requests(m) /\ Component(m)' = Component(m)
    BY <1>8, SameGraph
  <2>2. ASSUME NEW m \in A PROVE Exact(m)'
    <3>1. Component(m) = A
      BY <1>3, <1>4, <1>9, ComponentsAgree
    <3>2. \A n \in A : evaluationSccMembers'[n] = A /\ evaluationSccRoot'[n] = c
      BY <1>6, <1>7
    <3>3. c \in A
      BY <1>4, <1>5
    <3> QED BY <2>1, <3>1, <3>2, <3>3 DEF Exact
  <2>3. ASSUME NEW m \in Linked PROVE Exact(m)'
    <3>1. Linked \in SUBSET Modules /\ \A n \in Linked : Requests(n) \subseteq Linked
      BY <1>3 DEF LinkedInv, Linked
    <3>2. Component(m) \subseteq Linked
      BY <1>3, <3>1, ReachClosed DEF Component
    <3>3. \A n \in Linked : /\ evaluationSccMembers'[n] = evaluationSccMembers[n]
                            /\ evaluationSccRoot'[n] = evaluationSccRoot[n]
      BY <1>7, <1>10, <3>1
    <3>4. Exact(m)
      BY <1>3 DEF LinkedInv
    <3> QED BY <2>1, <3>2, <3>3, <3>4 DEF Exact
  <2>4. ASSUME NEW m \in Linked
        PROVE  /\ m \notin broken' /\ Requests(m)' \subseteq Linked'
               /\ m \notin linkRecords' =>
                    environment'[m] = "complete" /\ \A n \in Requests(m)' : n \notin linkRecords'
    <3>1. /\ m \notin broken /\ Requests(m) \subseteq Linked /\ m # c /\ m \in Modules
          /\ m \notin linkRecords =>
               environment[m] = "complete" /\ \A n \in Requests(m) : n \notin linkRecords
      BY <1>3, <1>4, <1>5, <1>10 DEF LinkedInv, Linked
    <3> QED BY <1>7, <1>8, <1>10, <2>1, <3>1
  <2>5. ASSUME NEW m \in A
        PROVE  m \notin broken' /\ Requests(m)' \subseteq Linked' /\ m \in linkRecords'
    <3>1. m \in linkRecords
      BY <1>3, <1>6 DEF RecordInv
    <3>2. m \notin broken
      BY <1>3, <1>4, <1>5, <1>6, <1>7 DEF EdgeInv
    <3> QED BY <1>8, <1>9, <1>10, <2>1, <3>1, <3>2
  <2>6. ASSUME ~Linking', NEW m \in Linked' PROVE environment'[m] = "complete"
    <3>1. k = 1
      BY <1>4, <1>8, <2>6 DEF Linking
    <3>2. m \in Modules /\ m \notin linkRecords => environment[m] = "complete" /\ m # c
      <4>1. CASE m \in A
        BY <1>6, <2>5, <1>8, <4>1
      <4>2. CASE m \in Linked
        BY <1>3, <1>4, <1>5, <1>10, <4>2 DEF LinkedInv, Linked
      <4> QED BY <1>10, <4>1, <4>2
    <3>3. m \in Modules
      BY DEF Linked
    <3> QED BY <1>7, <3>1, <3>2, <3>3
  <2>7. \A m \in Modules : status'[m] # "linked" => evaluationSccMembers'[m] = {}
    BY <1>3, <1>7 DEF LinkedInv
  <2>8. \A m \in Modules : status'[m] = "unlinked" => environment'[m] = "none"
    <3> TAKE m \in Modules
    <3>1. ASSUME status'[m] = "unlinked" PROVE m \notin linkRecords /\ m # c /\ environment[m] = "none"
      <4>1. status[m] = "unlinked"
        BY <1>7, <3>1
      <4> QED BY <1>3, <1>4, <4>1 DEF RecordInv, LinkedInv, Open
    <3> QED BY <1>7, <3>1
  <2>9. \A m \in Linked' : m \in Linked \/ m \in A
    BY <1>10
  <2> QED BY <2>2, <2>3, <2>4, <2>5, <2>6, <2>7, <2>8, <2>9 DEF LinkedInv
<1> QED BY <1>12, <1>13, <1>14, <1>15, <1>17, <1>18, <1>19, <1>20 DEF LinkInv

\* The record is in a cycle with one that was entered earlier; what its frame owned
\* passes to the frame below.
LEMMA HandingOnKept ==
  ASSUME LinkInv, FinishRecord, dfsAncestorIndex[current] # dfsIndex[current]
  PROVE  LinkInv'
<1>1. PICK k : k = Len(linkPending)
  OBVIOUS
<1>2. PICK c : c = current
  OBVIOUS
<1>3. /\ LinkTypeOK /\ RecordInv /\ StackInv /\ FrameInv /\ OwnerInv /\ LowInv /\ EdgeInv
      /\ LinkedInv /\ Linking /\ Visiting
  BY DEF LinkInv, FinishRecord, Visiting
<1>4. /\ k \in Nat \ {0} /\ c = Rec(k) /\ c \in Modules /\ c \in Open /\ c \in Above(c)
      /\ \A i \in 1..k : Active(i) /\ Rec(i) \in Open
      /\ \A i \in 1..(k - 1) : /\ i \in 1..k /\ i < k /\ i # k /\ Rec(i) \notin Above(c)
                               /\ dfsIndex[Rec(i)] < dfsIndex[c] /\ Reaches(Rec(i), c)
      /\ \A m \in Above(c) : Reaches(c, m) /\ Reaches(m, c) /\ (InFrame(m) => m = c)
      /\ \A m \in Open \ Above(c) : ~Owns(k, m) /\ m # c
  BY <1>1, <1>2, <1>3, TopOwns
<1>5. Leaving(c) = {} /\ Above(c) \subseteq Open /\ Open \subseteq Modules
  BY <1>2 DEF Leaving, Above, Open
<1>6. /\ ~(Done(k) < Len(requested[c])) /\ c \notin broken
      /\ status' = [m \in Modules |-> status[m]]
      /\ evaluationSccRoot' = [m \in Modules |-> evaluationSccRoot[m]]
      /\ evaluationSccMembers' = [m \in Modules |-> evaluationSccMembers[m]]
      /\ environment' = [m \in Modules |-> IF k = 1 /\ m \in linkRecords THEN "complete"
                                           ELSE IF m = c THEN "bound" ELSE environment[m]]
      /\ linkStack' = linkStack
  BY <1>1, <1>2, <1>3, <1>4, <1>5, FinishEffect
<1>7. UNCHANGED <<status, evaluationSccRoot, evaluationSccMembers>>
  BY <1>3, <1>6 DEF LinkTypeOK
<1>8. /\ UNCHANGED <<requested, broken, source, dfsIndex, dfsAncestorIndex, linkRecords>>
      /\ linkPending' \in Seq(FrameRecord) /\ Len(linkPending') = k - 1
      /\ \A i \in 1..(k - 1) : Rec(i)' = Rec(i) /\ Done(i)' = Done(i)
      /\ \A i : Active(i)' <=> i \in 1..(k - 1)
      /\ \A m : InFrame(m)' <=> InFrame(m) /\ m # c
      /\ \A m \in Open \ Above(c) : \A i : Owns(i, m)' <=> Owns(i, m)
  BY <1>1, <1>2, PoppedFrames
<1>9. Open' = Open /\ Linked' = Linked
  BY <1>7 DEF Open, Linked
<1>10. \A m \in Modules : dfsIndex[m] \in Nat /\ dfsAncestorIndex[m] \in Nat
  BY <1>3 DEF LinkTypeOK
<1>11. PICK y \in Open : dfsIndex[y] = dfsAncestorIndex[c] /\ Reaches(c, y)
  BY <1>3, <1>4 DEF LowInv
<1>12. dfsIndex[y] < dfsIndex[c] /\ y \notin Above(c)
  <2>1. dfsAncestorIndex[c] <= dfsIndex[c] /\ dfsAncestorIndex[c] # dfsIndex[c]
    BY <1>2, <1>3, <1>4 DEF LowInv
  <2>2. dfsIndex[y] < dfsIndex[c]
    BY <1>4, <1>5, <1>10, <1>11, <2>1
  <2>3. ~(dfsIndex[c] <= dfsIndex[y])
    BY <1>4, <1>5, <1>10, <2>2
  <2> QED BY <2>2, <2>3 DEF Above
<1>13. k # 1
  <2>1. k = 1 => dfsIndex[c] <= dfsIndex[y]
    BY <1>3, <1>4 DEF FrameInv
  <2> QED BY <1>4, <1>5, <1>10, <1>12, <2>1
<1>14. PICK p : p = k - 1
  OBVIOUS
<1>15. /\ p \in Nat \ {0} /\ p \in 1..(k - 1) /\ p \in 1..k /\ p + 1 = k
       /\ \A i \in 1..(k - 1) : i < p \/ i = p
       /\ \A i \in 1..k : i = k \/ i \in 1..(k - 1)
       /\ Rec(p) \in Open /\ Rec(p) \in Modules
  <2>1. p \in Nat \ {0} /\ p \in 1..(k - 1) /\ p \in 1..k /\ p + 1 = k
    BY <1>4, <1>13, <1>14
  <2>2. \A i \in 1..(k - 1) : i < p \/ i = p
    BY <1>4, <1>14
  <2>3. \A i \in 1..k : i = k \/ i \in 1..(k - 1)
    BY <1>4
  <2> QED BY <1>4, <1>5, <2>1, <2>2, <2>3
<1>16. LinkTypeOK'
  <2>1. environment' \in [Modules -> {"none", "bound", "complete"}]
    BY <1>3, <1>6 DEF LinkTypeOK
  <2> QED BY <1>3, <1>6, <1>7, <1>8, <2>1 DEF LinkTypeOK, FrameRecord
<1>17. RecordInv' /\ StackInv'
  BY <1>3, <1>6, <1>7, <1>8, <1>9 DEF RecordInv, StackInv
<1>18. FrameInv'
  <2>1. \A i \in 1..(k - 1) : Rec(i) \in Open'
    BY <1>4, <1>9
  <2> QED BY <1>1, <1>9, <1>13, <2>1, FramesLeft
<1>19. \A m \in Open \ Above(c) : \A i : Owns(i, m) => i \in 1..(k - 1)
  BY <1>1, <1>4, <1>15 DEF Owns, Active
<1>20. ASSUME NEW m \in Above(c)
       PROVE  Owns(p, m)' /\ \A i \in 1..(k - 1) : Owns(i, m)' => i = p
  <2>1. dfsIndex[Rec(p)] < dfsIndex[m] /\ dfsIndex[m] \in Nat /\ dfsIndex[Rec(p)] \in Nat
    <3>1. dfsIndex[c] <= dfsIndex[m] /\ m \in Modules /\ dfsIndex[Rec(p)] < dfsIndex[c]
      BY <1>4, <1>5, <1>15 DEF Above
    <3> QED BY <1>4, <1>10, <1>15, <3>1
  <2>2. dfsIndex'[Rec(p)'] = dfsIndex[Rec(p)] /\ dfsIndex'[m] = dfsIndex[m]
    BY <1>8, <1>15
  <2>3. \A j \in 1..(k - 1) : ~(p < j)
    BY <1>14
  <2>4. Owns(p, m)'
    BY <1>8, <1>15, <2>1, <2>2, <2>3 DEF Owns
  <2>5. ASSUME NEW i \in 1..(k - 1), i < p PROVE ~Owns(i, m)'
    <3>1. ~(dfsIndex'[m] < dfsIndex'[Rec(p)'])
      BY <2>1, <2>2
    <3> QED BY <1>8, <1>15, <2>5, <3>1 DEF Owns
  <2> QED BY <1>15, <2>4, <2>5
<1>21. Reaches(c, Rec(p))
  <2>1. PICK i \in 1..k : Owns(i, y) /\ Reaches(y, Rec(i))
    BY <1>1, <1>3 DEF OwnerInv
  <2>2. i \in 1..(k - 1)
    BY <1>12, <1>19, <2>1
  <2>3. i = p \/ Reaches(Rec(i), Rec(p))
    BY <1>1, <1>3, <1>4, <1>15, <2>2 DEF FrameInv
  <2>4. y \in Modules /\ Rec(i) \in Modules
    BY <1>4, <1>5, <2>2
  <2> QED BY <1>3, <1>4, <1>11, <2>1, <2>3, <2>4, ReachTrans
<1>22. OwnerInv'
  <2>1. ASSUME NEW m \in Open \ Above(c)
        PROVE  \E i \in 1..(k - 1) : Owns(i, m)' /\ Reaches(Rec(i), m)' /\ Reaches(m, Rec(i))'
    <3>1. PICK i \in 1..k : Owns(i, m) /\ Reaches(Rec(i), m) /\ Reaches(m, Rec(i))
      BY <1>1, <1>3 DEF OwnerInv
    <3>2. i \in 1..(k - 1) /\ Owns(i, m)'
      BY <1>8, <1>19, <3>1
    <3>3. Reaches(Rec(i), m)' /\ Reaches(m, Rec(i))'
      BY <1>8, <3>1, <3>2 DEF Reaches
    <3> QED BY <3>2, <3>3
  <2>2. ASSUME NEW m \in Above(c)
        PROVE  \E i \in 1..(k - 1) : Owns(i, m)' /\ Reaches(Rec(i), m)' /\ Reaches(m, Rec(i))'
    <3>1. m \in Modules /\ Reaches(c, m) /\ Reaches(m, c) /\ Reaches(Rec(p), c)
      BY <1>4, <1>5, <1>15
    <3>2. Reaches(Rec(p), m) /\ Reaches(m, Rec(p))
      BY <1>3, <1>4, <1>15, <1>21, <3>1, ReachTrans
    <3>3. Reaches(Rec(p), m)' /\ Reaches(m, Rec(p))'
      BY <1>8, <1>15, <3>2 DEF Reaches
    <3> QED BY <1>15, <1>20, <3>3
  <2>3. \A m \in Open : m \in Above(c) \/ m \in Open \ Above(c)
    OBVIOUS
  <2> QED BY <1>8, <1>9, <2>1, <2>2, <2>3 DEF OwnerInv
<1>23. LowInv'
  BY <1>3, <1>8, <1>9 DEF LowInv, Reaches
<1>24. EdgeInv'
  <2>1. ASSUME NEW m \in Open \ Above(c), NEW n \in Modules, Looked(m, n)' PROVE Looked(m, n)
    <3>1. CASE ~InFrame(m)' /\ n \in Requests(m)'
      BY <1>4, <1>8, <3>1, SameGraph DEF Looked
    <3>2. ASSUME NEW i \in 1..(k - 1), Rec(i)' = m,
                 NEW q \in 1..Done(i)', n = requested'[m][q]
          PROVE  Looked(m, n)
      BY <1>1, <1>4, <1>8, <3>2 DEF Looked
    <3> QED BY <1>8, <2>1, <3>1, <3>2 DEF Looked
  <2>2. ASSUME NEW i \in 1..(k - 1), NEW n \in Modules, Covers(i, n) PROVE Covers(i, n)'
    <3>1. dfsAncestorIndex[Rec(i)] <= dfsIndex[n]
      BY <1>1, <1>4, <2>2 DEF Covers
    <3> QED BY <1>8, <3>1 DEF Covers
  <2>3. ASSUME NEW m \in Open \ Above(c), NEW n \in Modules, Looked(m, n)'
        PROVE  \/ status'[n] = "linked"
               \/ n \in Open' /\ \A i \in 1..(k - 1) : Owns(i, m)' => Covers(i, n)'
    <3>1. status[n] = "linked" \/ (n \in Open /\ \A i \in 1..k : Owns(i, m) => Covers(i, n))
      BY <1>1, <1>3, <2>1, <2>3 DEF EdgeInv
    <3> QED BY <1>4, <1>7, <1>8, <1>9, <2>2, <3>1
  <2>4. ASSUME NEW m \in Above(c), NEW n \in Modules, Looked(m, n)'
        PROVE  \/ status'[n] = "linked"
               \/ n \in Open' /\ \A i \in 1..(k - 1) : Owns(i, m)' => Covers(i, n)'
    <3>1. n \in Requests(m)
      <4>1. \A i \in 1..(k - 1) : Rec(i)' # m
        BY <1>4, <1>8
      <4> QED BY <1>8, <2>4, <4>1, SameGraph DEF Looked
    <3>2. status[n] = "linked" \/ (n \in Open /\ dfsAncestorIndex[c] <= dfsIndex[n])
      BY <1>1, <1>2, <1>3, <1>6, <3>1, TopCovers
    <3>3. ASSUME dfsAncestorIndex[c] <= dfsIndex[n] PROVE Covers(p, n)'
      <4>1. Done(p) < Len(requested[Rec(p)]) /\ requested[Rec(p)][Done(p) + 1] = c
        <5>1. p < Len(linkPending) /\ p \in 1..Len(linkPending)
          BY <1>1, <1>4, <1>15
        <5> QED BY <1>3, <1>4, <1>15, <5>1 DEF FrameInv
      <4>2. /\ Done(p)' < Len(requested'[Rec(p)']) /\ requested'[Rec(p)'][Done(p)' + 1] = c
            /\ c \in Open' /\ dfsAncestorIndex'[c] <= dfsIndex'[n] /\ p = Len(linkPending')
        BY <1>4, <1>8, <1>9, <1>14, <1>15, <3>3, <4>1
      <4> QED BY <4>2 DEF Covers
    <3> QED BY <1>7, <1>9, <1>20, <3>2, <3>3
  <2>5. \A m \in Open : ~InFrame(m)' => m \notin broken'
    BY <1>3, <1>6, <1>8 DEF EdgeInv
  <2>6. \A m \in Open : m \in Above(c) \/ m \in Open \ Above(c)
    OBVIOUS
  <2> QED BY <1>8, <1>9, <2>3, <2>4, <2>5, <2>6 DEF EdgeInv
<1>25. LinkedInv'
  <2>1. \A m : (Exact(m)' <=> Exact(m)) /\ Requests(m)' = Requests(m)
    BY <1>7, <1>8 DEF Exact, Component, Reaches, Requests
  <2>2. Linking' /\ Linking
    <3>1. Len(linkPending') # 0
      BY <1>8, <1>15
    <3> QED BY <1>3, <3>1 DEF Linking
  <2>3. \A m \in Modules : m # c => environment'[m] = environment[m]
    BY <1>6, <1>13
  <2>4. c \notin Linked /\ status[c] # "unlinked" /\ Linked \subseteq Modules
    BY <1>4 DEF Open, Linked
  <2> QED BY <1>3, <1>7, <1>8, <1>9, <2>1, <2>2, <2>3, <2>4 DEF LinkedInv
<1> QED BY <1>16, <1>17, <1>18, <1>22, <1>23, <1>24, <1>25 DEF LinkInv

LEMMA LinkStepKept ==
  ASSUME LinkInv, LinkStep
  PROVE  LinkInv'
<1>1. CASE EnterLink
  BY <1>1, EnterLinkKept
<1>2. CASE LinkDependency
  <2>1. CASE Visiting /\ HasDependency /\ status[dependency] = "unlinked" /\ Descend
    BY <2>1, DescendKept
  <2>2. CASE LinkAdvances
    BY <2>2, AdvanceKept
  <2> QED BY <1>2, <2>1, <2>2 DEF LinkDependency, LinkAdvances
<1>3. CASE FinishRecord
  BY <1>3, ClosingKept, HandingOnKept
<1>4. CASE LinkFails
  BY <1>4, LinkFailsKept
<1> QED BY <1>1, <1>2, <1>3, <1>4 DEF LinkStep

-----------------------------------------------------------------------------
(* The theorem of linking *)

LEMMA LinkInvInit == ASSUME Init PROVE LinkInv
<1>1. /\ LinkInit /\ requested \in Graphs /\ broken \in SUBSET Modules
      /\ status = [m \in Modules |-> "unlinked"] /\ environment = [m \in Modules |-> "none"]
      /\ dfsIndex = [m \in Modules |-> 0] /\ dfsAncestorIndex = [m \in Modules |-> 0]
      /\ evaluationSccRoot = [m \in Modules |-> NoModule]
      /\ evaluationSccMembers = [m \in Modules |-> {}]
      /\ linkPending = <<>> /\ linkStack = <<>> /\ linkRecords = {}
  BY DEF Init, LinkInit
<1>2. Len(linkPending) = 0 /\ Len(linkStack) = 0 /\ Open = {} /\ Linked = {}
  BY <1>1 DEF Open, Linked
<1>3. LinkTypeOK
  BY <1>1 DEF LinkTypeOK
<1>4. RecordInv /\ StackInv /\ FrameInv /\ OwnerInv /\ LowInv /\ EdgeInv
  BY <1>1, <1>2, FS_EmptySet DEF RecordInv, StackInv, FrameInv, OwnerInv, LowInv, EdgeInv
<1>5. LinkedInv
  BY <1>1, <1>2 DEF LinkedInv
<1> QED BY <1>3, <1>4, <1>5 DEF LinkInv

LEMMA LinkInvNext == ASSUME LinkInv, [Next]_vars PROVE LinkInv'
<1>1. CASE \E m \in Modules : Link(m)
  BY <1>1, LinkBegins DEF Link
<1>2. CASE LinkProceeds
  BY <1>2, LinkStepKept DEF LinkProceeds
<1>3. CASE UNCHANGED <<source, linkVars>>
  BY <1>3, LinkStutters
<1>4. CASE \E m \in Modules : EvaluateModule(m)
  BY <1>3, <1>4 DEF EvaluateModule
<1>5. CASE Enter \/ VisitRequest
  BY <1>3, <1>5 DEF Enter, VisitRequest
<1>6. CASE SkipBody \/ StartBody \/ BodyReturns \/ BodyThrows \/ BodyAborts
  BY <1>3, <1>6 DEF SkipBody, StartBody, BodyReturns, BodyThrows, BodyAborts
<1>7. CASE UNCHANGED vars
  BY <1>3, <1>7 DEF vars
<1> QED BY <1>1, <1>2, <1>4, <1>5, <1>6, <1>7 DEF Next

LEMMA LinkInvHolds == Spec => []LinkInv
<1> QED BY LinkInvInit, LinkInvNext, PTL DEF Spec

LEMMA WholeWhenInvariant == ASSUME LinkInv PROVE LinksAreWhole
<1>1. LinkTypeOK /\ LinkedInv /\ FrameInv
  BY DEF LinkInv
<1>2. SccsAreExact
  BY <1>1 DEF LinkedInv, SccsAreExact, Exact
<1>3. LinkingIsTransactional
  <2> SUFFICES ASSUME ~Linking, NEW m \in Modules
               PROVE  \/ /\ status[m] = "linked" /\ environment[m] = "complete"
                         /\ m \notin broken /\ Requests(m) \subseteq Linked
                      \/ /\ status[m] = "unlinked" /\ environment[m] = "none"
                         /\ evaluationSccMembers[m] = {}
    BY DEF LinkingIsTransactional
  <2>1. Open = {}
    BY <1>1, NothingOpen
  <2>2. CASE status[m] = "linked"
    BY <1>1, <2>2 DEF LinkedInv, Linked
  <2>3. CASE status[m] = "unlinked"
    BY <1>1, <2>3 DEF LinkedInv
  <2> QED BY <1>1, <2>1, <2>2, <2>3 DEF LinkTypeOK, Open
<1> QED BY <1>1, <1>2, <1>3 DEF LinksAreWhole

\* linkModuleGraph(), on any graph, from any roots, in any number of links that succeed
\* or fail, between and within evaluations: the components it stores are those of the
\* graph, and between links each record is linked with all it requests or has nothing.
THEOREM LinksStayWhole == Spec => []LinksAreWhole
<1> QED BY LinkInvHolds, WholeWhenInvariant, PTL
-----------------------------------------------------------------------------
(* The invariant of evaluation *)

TransactionRecord ==
  [pending: Seq(FrameRecord), active: SUBSET Modules, completed: SUBSET Modules, running: BOOLEAN]

Evaluated == {m \in Modules : evaluationStatus[m] = "evaluated"}
Errored   == {m \in Modules : evaluationStatus[m] = "errored"}

\* The records that no link under way can take back.
Settled == {m \in Linked : Linking => m \notin linkRecords}

At(t, j)      == t.pending[j].record
Visited(t, j) == t.pending[j].dependencyIndex
Entered(t, j) == j \in 1..Len(t.pending) /\ t.pending[j].entered
Depth(t)      == Len(t.pending)

\* Each frame but the last is at the request that the next is for.
Traversal(t) ==
  /\ \A j \in 1..Depth(t) :
       /\ At(t, j) \in Settled /\ Visited(t, j) <= Len(requested[At(t, j)])
       /\ ~Entered(t, j) => Visited(t, j) = 0
       /\ j < Depth(t) =>
            /\ Entered(t, j) /\ Visited(t, j) >= 1
            /\ requested[At(t, j)][Visited(t, j)] = At(t, j + 1)
  /\ \A i, j \in 1..Depth(t) : i < j => Reaches(At(t, i), At(t, j))
  /\ t.running => /\ Entered(t, Depth(t))
                  /\ Visited(t, Depth(t)) = Len(requested[At(t, Depth(t))])

\* What an evaluation has entered and not committed: the records of its frames, and
\* completed ones in a cycle with one of those.
Holds(t) ==
  /\ t.active \subseteq Settled
  /\ t.completed \subseteq t.active
  /\ \A j \in 1..Depth(t) : Entered(t, j) => At(t, j) \in t.active \ t.completed
  /\ \A i, j \in 1..Depth(t) : Entered(t, i) /\ Entered(t, j) /\ At(t, i) = At(t, j) => i = j
  /\ \A m \in t.active : m \in t.completed \/ \E j \in 1..Depth(t) : Entered(t, j) /\ At(t, j) = m
  /\ \A m \in t.active : \E j \in 1..Depth(t) : Entered(t, j) /\ m \in Members(At(t, j))

InFlight(t) == \A m \in t.active : evaluationStatus[m] \in {"evaluating", "errored"}

\* A request that was visited is among the modules E that are evaluated, or in the
\* same component and held.
Resolved(t, E, m, n) == n \in E \/ (n \in t.active /\ n \in Members(m))
Resolves(t, E) ==
  /\ \A m \in t.completed : \A n \in Requests(m) : Resolved(t, E, m, n)
  /\ \A j \in 1..Depth(t) : \A m, n \in Modules : \A q \in 1..Visited(t, j) :
       Entered(t, j) /\ m = At(t, j) /\ n = requested[m][q] =>
         Resolved(t, E, m, n) \/ (q = Visited(t, j) /\ j < Depth(t))

RunsTop(t) == t.running => At(t, Depth(t)) \in bodiesStarted \ evaluationBodyCompleted

TransactionInv(t) ==
  Traversal(t) /\ Holds(t) /\ InFlight(t) /\ Resolves(t, Evaluated) /\ RunsTop(t)

Calls == {transactions[i] : i \in 1..Len(transactions)}
StackOfCalls ==
  /\ \A t \in Calls : TransactionInv(t) /\ Depth(t) # 0
  /\ \A i \in 1..Len(transactions) :
       i < Len(transactions) \/ Linking => transactions[i].running
  /\ \A i, j \in 1..Len(transactions) :
       i # j => transactions[i].active \cap transactions[j].active = {}

Held(m) == \E i \in 1..Len(transactions) : m \in transactions[i].active

\* A body that has begun and not ended is running or has thrown.
BodyInv ==
  /\ repeated = {}
  /\ evaluationBodyCompleted \subseteq bodiesStarted /\ bodiesStarted \subseteq Settled
  /\ \A m \in bodiesStarted \ evaluationBodyCompleted :
       \/ \E i \in 1..Len(transactions) :
            transactions[i].running /\ m = At(transactions[i], Depth(transactions[i]))
       \/ m \in Errored /\ ~Held(m)

OutcomeInv ==
  /\ \A m \in Modules : evaluationStatus[m] = "evaluating" => Held(m)
  /\ \A m \in Evaluated : m \in Settled /\ Requests(m) \subseteq Evaluated
  /\ \A m \in Errored :
       /\ m \in Settled /\ Component(m) \subseteq Errored
       /\ deferredDependents[m] = {}
       /\ \E e \in Errored : e = evaluationCompletion[m] /\ ~Held(e) /\ Reaches(m, e)

WaitInv ==
  /\ \A x \in Modules : \A d \in deferredDependents[x] : d \in Settled /\ Reaches(d, x)
  /\ \A wait \in waited :
       \/ wait[2] \in Evaluated
       \/ wait[2] \in Errored /\ Component(wait[1]) \subseteq Errored
       \/ wait[1] \in deferredDependents[wait[2]]

EvalTypeOK ==
  /\ evaluationStatus \in [Modules -> {"unevaluated", "evaluating", "evaluated", "errored"}]
  /\ evaluationCompletion \in [Modules -> Modules \cup {NoModule}]
  /\ deferredDependents \in [Modules -> SUBSET Modules]
  /\ waited \in SUBSET (Modules \X Modules)
  /\ transactions \in Seq(TransactionRecord)
  /\ hostErrors \in 0..MaxHostErrors

EvalInv == EvalTypeOK /\ StackOfCalls /\ BodyInv /\ OutcomeInv /\ WaitInv

-----------------------------------------------------------------------------
(* What no link takes back *)

LEMMA SettledRecords ==
  ASSUME LinkInv
  PROVE  /\ Settled \subseteq Modules /\ Settled \subseteq Linked
         /\ \A m \in Settled : /\ Members(m) = Component(m) /\ Requests(m) \subseteq Settled
                               /\ Component(m) \subseteq Settled /\ m \in Component(m)
<1>1. LinkTypeOK /\ LinkedInv
  BY DEF LinkInv
<1>2. Settled \subseteq Linked /\ Linked \subseteq Modules
  BY DEF Settled, Linked
<1>3. \A m \in Settled : Requests(m) \subseteq Settled
  BY <1>1 DEF LinkedInv, Settled
<1>4. \A m \in Settled : Members(m) = Component(m)
  BY <1>1, <1>2 DEF LinkedInv, Exact, Members
<1>5. ASSUME NEW m \in Settled PROVE Component(m) \subseteq Settled /\ m \in Component(m)
  <2>1. m \in Modules /\ Settled \in SUBSET Modules
    BY <1>2
  <2>2. m \in Component(m)
    BY <1>1, <2>1, ReachSelf DEF Component
  <2> QED BY <1>1, <1>3, <2>1, <2>2, ReachClosed DEF Component
<1> QED BY <1>2, <1>3, <1>4, <1>5

\* Evaluation goes by a graph and components that stay as they are.
Stays == /\ UNCHANGED <<requested, source>>
         /\ Settled \subseteq Settled'
         /\ \A m \in Settled : Members(m)' = Members(m)

LEMMA LinksStay ==
  ASSUME LinkInv, \/ \E m \in Modules : LinkModuleGraph(m)
                  \/ LinkStep
                  \/ UNCHANGED <<source, linkVars>>
  PROVE  Stays
<1>1. /\ LinkTypeOK /\ RecordInv /\ FrameInv /\ StackInv
  BY DEF LinkInv
<1>2. CASE UNCHANGED <<source, linkVars>>
  BY <1>2 DEF Stays, source, linkVars, sccVars, Settled, Linked, Linking, Members
<1>3. CASE \E m \in Modules : LinkModuleGraph(m)
  BY <1>3 DEF LinkModuleGraph, Stays, source, sccVars, Settled, Linked, Linking, Members
<1>4. CASE EnterLink
  <2>1. Linking /\ status[current] = "unlinked" /\ current \in Modules
    <3>1. PICK k : k = Len(linkPending)
      OBVIOUS
    <3>2. Linking /\ ~frame.entered
      BY <1>4 DEF EnterLink
    <3>3. k \in Nat \ {0} /\ frame = linkPending[k] /\ current = Rec(k) /\ current \in Modules
      BY <1>1, <3>1, <3>2, TopLink
    <3>4. k \in 1..Len(linkPending) /\ ~Active(k)
      BY <3>1, <3>2, <3>3 DEF Active
    <3> QED BY <1>1, <3>2, <3>3, <3>4 DEF FrameInv
  <2>2. /\ linkRecords' = linkRecords \cup {current}
        /\ status' = [status EXCEPT ![current] = "linking"]
        /\ UNCHANGED <<requested, source, evaluationSccMembers>>
    BY <1>4 DEF EnterLink, source, sccVars
  <2>3. \A m \in Settled : m # current /\ m \in Modules /\ m \in Linked /\ m \notin linkRecords
    BY <2>1 DEF Settled, Linked
  <2>4. \A m \in Settled : m \in Linked' /\ m \notin linkRecords'
    BY <1>1, <2>2, <2>3 DEF LinkTypeOK, Linked
  <2> QED BY <2>2, <2>4 DEF Stays, Settled, Members
<1>5. CASE LinkDependency
  <2>1. UNCHANGED <<requested, source, status, linkRecords, evaluationSccMembers>> /\ Linking
    BY <1>5 DEF LinkDependency, Descend, Visiting, source, sccVars
  <2> QED BY <2>1 DEF Stays, Settled, Linked, Members
<1>6. CASE FinishRecord
  <2>1. PICK c : c = current
    OBVIOUS
  <2>2. c \in Modules /\ Leaving(c) \subseteq Open
    BY <1>1, <1>6, <2>1, TopIsOpen DEF FinishRecord, Leaving, Above, Open
  <2>3. /\ status' = [m \in Modules |-> IF m \in Leaving(c) THEN "linked" ELSE status[m]]
        /\ evaluationSccMembers' =
             [m \in Modules |-> IF m \in Leaving(c) THEN Leaving(c) ELSE evaluationSccMembers[m]]
        /\ UNCHANGED <<requested, source, linkRecords>> /\ Linking
    BY <1>1, <1>6, <2>1, <2>2, FinishEffect DEF FinishRecord, Visiting, source
  <2>4. \A m \in Settled : /\ m \in Modules /\ m \in Linked /\ m \notin linkRecords
                           /\ m \notin Leaving(c)
    BY <2>2, <2>3 DEF Settled, Linked, Open
  <2>5. \A m \in Settled : m \in Linked' /\ m \notin linkRecords'
    BY <2>3, <2>4 DEF Linked
  <2> QED BY <2>3, <2>4, <2>5 DEF Stays, Settled, Members
<1>7. CASE LinkFails
  <2>1. PICK gone : gone = linkRecords
    OBVIOUS
  <2>2. /\ status' = [m \in Modules |-> IF m \in gone THEN "unlinked" ELSE status[m]]
        /\ evaluationSccMembers' =
             [m \in Modules |-> IF m \in gone THEN {} ELSE evaluationSccMembers[m]]
        /\ linkPending' = <<>> /\ UNCHANGED <<requested, source>> /\ Linking
    BY <1>7, <2>1 DEF LinkFails, RolledBack, source, Visiting
  <2>3. \A m \in Settled : m \in Modules /\ m \in Linked /\ m \notin gone
    BY <2>1, <2>2 DEF Settled, Linked
  <2>4. \A m \in Settled : m \in Linked'
    BY <2>2, <2>3 DEF Linked
  <2> QED BY <2>2, <2>3, <2>4 DEF Stays, Settled, Members, Linking
<1> QED BY <1>2, <1>3, <1>4, <1>5, <1>6, <1>7 DEF LinkStep

LEMMA EvaluationStays ==
  ASSUME LinkInv, UNCHANGED <<source, linkVars>>
  PROVE  Stays /\ Settled' = Settled /\ (Linking' <=> Linking) /\ \A m : Members(m)' = Members(m)
BY LinksStay DEF source, linkVars, sccVars, Settled, Linked, Linking, Members

-----------------------------------------------------------------------------
(* Evaluations inside one another *)

LEMMA TopCall ==
  ASSUME LinkInv, EvalInv, transactions # <<>>, NEW k, k = Len(transactions),
         NEW t, t = Transaction
  PROVE  /\ k \in Nat \ {0} /\ k \in 1..k /\ t = transactions[k] /\ t \in TransactionRecord
         /\ \A i \in 1..(k - 1) : i \in 1..k /\ i < k /\ i # k
         /\ \A i \in 1..k : i = k \/ i \in 1..(k - 1)
         /\ TransactionInv(t) /\ Depth(t) \in Nat \ {0} /\ Depth(t) \in 1..Depth(t)
         /\ t.pending \in Seq(FrameRecord) /\ t.active \subseteq Modules /\ t.completed \subseteq Modules
         /\ t.running \in BOOLEAN
         /\ Top = t.pending[Depth(t)] /\ Module = At(t, Depth(t)) /\ Top \in FrameRecord
         /\ Module \in Modules /\ Module \in Settled
         /\ \A j \in 1..Depth(t) : /\ t.pending[j] \in FrameRecord /\ At(t, j) \in Modules
                                   /\ Visited(t, j) \in Nat
<1>1. transactions \in Seq(TransactionRecord) /\ StackOfCalls
  BY DEF EvalInv, EvalTypeOK
<1>2. k \in Nat \ {0}
  BY <1>1, LenProperties, EmptySeq
<1>3. /\ k \in 1..k /\ t = transactions[k]
      /\ \A i \in 1..(k - 1) : i \in 1..k /\ i < k /\ i # k
      /\ \A i \in 1..k : i = k \/ i \in 1..(k - 1)
  BY <1>2 DEF Transaction, Last
<1>4. t \in TransactionRecord
  BY <1>1, <1>3, ElementOfSeq
<1>5. TransactionInv(t) /\ Depth(t) # 0
  BY <1>1, <1>3 DEF StackOfCalls, Calls
<1>6. /\ t.pending \in Seq(FrameRecord) /\ t.active \subseteq Modules
      /\ t.completed \subseteq Modules /\ t.running \in BOOLEAN
  BY <1>4 DEF TransactionRecord
<1>7. Depth(t) \in Nat \ {0} /\ Depth(t) \in 1..Depth(t)
  <2>1. Depth(t) \in Nat
    BY <1>6, LenProperties DEF Depth
  <2> QED BY <1>5, <2>1
<1>8. \A j \in 1..Depth(t) : t.pending[j] \in FrameRecord
  BY <1>6, ElementOfSeq DEF Depth
<1>9. \A j \in 1..Depth(t) : At(t, j) \in Modules /\ Visited(t, j) \in Nat
  BY <1>8 DEF FrameRecord, At, Visited
<1>10. Top = t.pending[Depth(t)] /\ Module = At(t, Depth(t))
  BY DEF Top, Module, Last, Depth, At
<1>11. Module \in Settled /\ Module \in Modules /\ Top \in FrameRecord
  BY <1>5, <1>7, <1>8, <1>9, <1>10 DEF TransactionInv, Traversal
<1> QED BY <1>2, <1>3, <1>4, <1>5, <1>6, <1>7, <1>8, <1>9, <1>10, <1>11

\* What the steps of others leave of an evaluation, and what is left to show of a
\* step of its own.
LEMMA TransactionKept ==
  ASSUME NEW t, NEW E, Traversal(t), Holds(t), Resolves(t, E), E \subseteq Evaluated',
         Stays, InFlight(t)', RunsTop(t)'
  PROVE  TransactionInv(t)'
<1>1. Traversal(t)'
  BY DEF Traversal, Stays, At, Visited, Entered, Depth, Reaches
<1>2. \A j \in 1..Depth(t) : At(t, j) \in Settled
  BY DEF Traversal
<1>3. \A j \in 1..Depth(t) : Members(At(t, j))' = Members(At(t, j))
  BY <1>2 DEF Stays
<1>4. Holds(t)'
  <2>1. /\ t.active \subseteq Settled' /\ t.completed \subseteq t.active
        /\ \A j \in 1..Depth(t) : Entered(t, j) => At(t, j) \in t.active \ t.completed
        /\ \A i, j \in 1..Depth(t) :
             Entered(t, i) /\ Entered(t, j) /\ At(t, i) = At(t, j) => i = j
        /\ \A m \in t.active : m \in t.completed \/ \E j \in 1..Depth(t) : Entered(t, j) /\ At(t, j) = m
    BY DEF Holds, Stays
  <2>2. \A m \in t.active : \E j \in 1..Depth(t) : Entered(t, j) /\ m \in Members(At(t, j))'
    BY <1>3 DEF Holds
  <2>3. (At(t, 1)' = At(t, 1)) /\ (\A j : At(t, j)' = At(t, j) /\ (Entered(t, j)' <=> Entered(t, j)))
        /\ Depth(t)' = Depth(t)
    BY DEF At, Entered, Depth
  <2> QED BY <2>1, <2>2, <2>3 DEF Holds
<1>5. Resolves(t, Evaluated)'
  <2>1. \A m \in Settled : \A n : Resolved(t, E, m, n) => Resolved(t, Evaluated, m, n)'
    BY DEF Stays, Resolved
  <2>2. t.completed \subseteq Settled
    BY DEF Holds
  <2>3. \A m \in t.completed : \A n \in Requests(m)' : Resolved(t, Evaluated, m, n)'
    BY <2>1, <2>2, SameGraph DEF Resolves, Stays
  <2>4. ASSUME NEW j \in 1..Depth(t), NEW m \in Modules, NEW n \in Modules,
               NEW q \in 1..Visited(t, j),
               Entered(t, j), m = At(t, j), n = requested'[m][q]
        PROVE  Resolved(t, Evaluated, m, n)' \/ (q = Visited(t, j) /\ j < Depth(t))
    <3>1. requested' = requested /\ m \in Settled
      BY <1>2, <2>4 DEF Stays
    <3>2. Resolved(t, E, m, n) \/ (q = Visited(t, j) /\ j < Depth(t))
      BY <2>4, <3>1 DEF Resolves
    <3> QED BY <2>1, <3>1, <3>2
  <2>5. /\ \A j : At(t, j)' = At(t, j) /\ (Entered(t, j)' <=> Entered(t, j)) /\ Visited(t, j)' = Visited(t, j)
        /\ Depth(t)' = Depth(t)
    BY DEF At, Entered, Visited, Depth
  <2> QED BY <2>3, <2>4, <2>5 DEF Resolves
<1> QED BY <1>1, <1>4, <1>5 DEF TransactionInv

\* The innermost evaluation returns.
LEMMA Returns ==
  ASSUME LinkInv, EvalInv, transactions # <<>>, NEW k, k = Len(transactions), Return,
         \A i \in 1..(k - 1) : \A t : t = transactions[i] => TransactionInv(t)'
  PROVE  /\ transactions' \in Seq(TransactionRecord) /\ Len(transactions') = k - 1
         /\ \A i \in 1..(k - 1) : transactions'[i] = transactions[i]
         /\ StackOfCalls'
         /\ \A m : Held(m)' <=> \E i \in 1..(k - 1) : m \in transactions[i].active
<1>1. /\ transactions \in Seq(TransactionRecord) /\ StackOfCalls /\ k \in Nat \ {0}
      /\ \A i \in 1..(k - 1) : i \in 1..k /\ i < k
  BY TopCall DEF EvalInv, EvalTypeOK
<1>2. /\ transactions' \in Seq(TransactionRecord) /\ Len(transactions') = k - 1
      /\ \A i \in 1..(k - 1) : transactions'[i] = transactions[i]
  BY <1>1, FrontLast DEF Return
<1>3. ASSUME NEW t \in Calls' PROVE TransactionInv(t)' /\ Depth(t)' # 0
  <2>1. PICK i \in 1..(k - 1) : t = transactions[i]
    BY <1>2 DEF Calls
  <2>2. Depth(t) # 0
    BY <1>1, <2>1 DEF StackOfCalls, Calls
  <2> QED BY <2>1, <2>2 DEF Depth
<1>4. \A i \in 1..(k - 1) : transactions'[i].running
  BY <1>1, <1>2 DEF StackOfCalls
<1>5. \A i, j \in 1..(k - 1) : i # j => transactions'[i].active \cap transactions'[j].active = {}
  BY <1>1, <1>2 DEF StackOfCalls
<1>6. StackOfCalls'
  BY <1>2, <1>3, <1>4, <1>5 DEF StackOfCalls
<1>7. \A m : Held(m)' <=> \E i \in 1..(k - 1) : m \in transactions[i].active
  BY <1>2 DEF Held
<1> QED BY <1>2, <1>6, <1>7

\* The evaluations that the innermost one is nested in.
LEMMA OthersKept ==
  ASSUME LinkInv, EvalInv, transactions # <<>>, NEW k, k = Len(transactions),
         NEW s, s = Transaction, Stays, Evaluated \subseteq Evaluated',
         \A m \in Modules \ s.active : evaluationStatus[m] \in {"evaluating", "errored"} =>
                                       evaluationStatus'[m] \in {"evaluating", "errored"},
         \A m \in bodiesStarted \ evaluationBodyCompleted :
           (s.running => m # Module) => m \in bodiesStarted' \ evaluationBodyCompleted'
  PROVE  \A i \in 1..(k - 1) : \A t : t = transactions[i] => TransactionInv(t)'
<1>1. /\ StackOfCalls /\ TransactionInv(s) /\ s.active \subseteq Modules /\ k \in 1..k
      /\ \A i \in 1..(k - 1) : i \in 1..k /\ i < k /\ i # k
      /\ s = transactions[k] /\ Module = At(s, Depth(s)) /\ Depth(s) \in 1..Depth(s)
  BY TopCall DEF EvalInv
<1>2. s.running => Module \in s.active
  BY <1>1 DEF TransactionInv, Traversal, Holds
<1> SUFFICES ASSUME NEW i \in 1..(k - 1), NEW t, t = transactions[i] PROVE TransactionInv(t)'
  OBVIOUS
<1>3. /\ TransactionInv(t) /\ t.running /\ t.active \cap s.active = {} /\ Depth(t) # 0
  BY <1>1 DEF StackOfCalls, Calls
<1>4. transactions \in Seq(TransactionRecord) /\ i \in 1..Len(transactions)
  BY <1>1 DEF EvalInv, EvalTypeOK
<1>5. t \in TransactionRecord
  BY <1>4, ElementOfSeq
<1>6. t.active \subseteq Modules /\ Depth(t) \in Nat
  BY <1>5, LenProperties DEF TransactionRecord, Depth
<1>7. InFlight(t)'
  BY <1>3, <1>6 DEF TransactionInv, InFlight
<1>8. Depth(t) \in 1..Depth(t)
  BY <1>3, <1>6
<1>9. At(t, Depth(t)) \in t.active
  BY <1>3, <1>8 DEF TransactionInv, Traversal, Holds
<1>10. RunsTop(t)'
  <2>1. At(t, Depth(t)) \in bodiesStarted \ evaluationBodyCompleted
    BY <1>3 DEF TransactionInv, RunsTop
  <2>2. s.running => At(t, Depth(t)) # Module
    BY <1>2, <1>3, <1>9
  <2>3. At(t, Depth(t)) \in bodiesStarted' \ evaluationBodyCompleted'
    BY <2>1, <2>2
  <2> QED BY <2>3 DEF RunsTop, At, Depth
<1> QED BY <1>3, <1>7, <1>10, TransactionKept DEF TransactionInv

\* The innermost evaluation goes on as s, or returns.
LEMMA Proceeded ==
  ASSUME LinkInv, EvalInv, transactions # <<>>, ~Linking', NEW k, k = Len(transactions),
         NEW s \in TransactionRecord, Proceed(s), TransactionInv(s)',
         \A i \in 1..(k - 1) : s.active \cap transactions[i].active = {},
         \A i \in 1..(k - 1) : \A t : t = transactions[i] => TransactionInv(t)'
  PROVE  /\ transactions' \in Seq(TransactionRecord) /\ StackOfCalls'
         /\ \A i \in 1..(k - 1) : i \in 1..Len(transactions') /\ transactions'[i] = transactions[i]
         /\ s.pending # <<>> => k \in 1..Len(transactions') /\ transactions'[k] = s
         /\ \A i \in 1..Len(transactions') : i \in 1..(k - 1) \/ (i = k /\ transactions'[i] = s)
         /\ \A m : Held(m)' <=> m \in s.active \/ \E i \in 1..(k - 1) : m \in transactions[i].active
<1>1. /\ transactions \in Seq(TransactionRecord) /\ StackOfCalls /\ k \in Nat \ {0}
      /\ \A i \in 1..(k - 1) : i \in 1..k /\ i < k
      /\ \A i \in 1..k : i = k \/ i \in 1..(k - 1)
  BY TopCall DEF EvalInv, EvalTypeOK
<1>2. CASE s.pending = <<>>
  <2>1. Return
    BY <1>2 DEF Proceed, Return
  <2>2. /\ transactions' \in Seq(TransactionRecord) /\ Len(transactions') = k - 1 /\ StackOfCalls'
        /\ \A i \in 1..(k - 1) : transactions'[i] = transactions[i]
        /\ \A m : Held(m)' <=> \E i \in 1..(k - 1) : m \in transactions[i].active
    BY <2>1, Returns
  <2>3. s.active = {}
    <3>1. Len(s.pending) = 0
      BY <1>2
    <3>2. \A j : ~(j \in 1..Len(s.pending))
      BY <3>1
    <3> QED BY <3>2 DEF TransactionInv, Holds, Depth
  <2> QED BY <1>2, <2>2, <2>3
<1>3. CASE s.pending # <<>>
  <2>1. /\ transactions' \in Seq(TransactionRecord) /\ Len(transactions') = k
        /\ transactions'[k] = s /\ \A i \in 1..(k - 1) : transactions'[i] = transactions[i]
    <3>1. transactions' = Append(Front(transactions), s)
      BY <1>3 DEF Proceed
    <3>2. PICK f : f = Front(transactions)
      OBVIOUS
    <3>3. /\ Front(transactions) \in Seq(TransactionRecord) /\ Len(Front(transactions)) = k - 1
          /\ \A i \in 1..(k - 1) : Front(transactions)[i] = transactions[i]
      BY <1>1, FrontLast, ZenonT(30)
    <3>4. /\ f \in Seq(TransactionRecord) /\ Len(f) = k - 1
          /\ \A i \in 1..(k - 1) : f[i] = transactions[i]
      BY <3>2, <3>3
    <3> QED BY <1>1, <3>1, <3>2, <3>4, AppendProperties
  <2>2. ASSUME NEW t \in Calls' PROVE TransactionInv(t)' /\ Depth(t)' # 0
    <3>1. t = s \/ \E i \in 1..(k - 1) : t = transactions[i]
      BY <1>1, <2>1 DEF Calls
    <3>2. CASE t = s
      <4>1. Len(s.pending) # 0
        BY <1>3, EmptySeq DEF TransactionRecord
      <4> QED BY <3>2, <4>1 DEF Depth
    <3>3. ASSUME NEW i \in 1..(k - 1), t = transactions[i] PROVE TransactionInv(t)' /\ Depth(t)' # 0
      <4>1. Depth(t) # 0
        BY <1>1, <3>3 DEF StackOfCalls, Calls
      <4> QED BY <3>3, <4>1 DEF Depth
    <3> QED BY <3>1, <3>2, <3>3
  <2>3. \A i \in 1..(k - 1) : transactions'[i].running
    BY <1>1, <2>1 DEF StackOfCalls
  <2>4. \A i \in 1..k : i < k \/ Linking' => transactions'[i].running
    BY <1>1, <2>3
  <2>5. \A i, j \in 1..(k - 1) : i # j => transactions'[i].active \cap transactions'[j].active = {}
    BY <1>1, <2>1 DEF StackOfCalls
  <2>6. \A i, j \in 1..k : i # j => transactions'[i].active \cap transactions'[j].active = {}
    <3> SUFFICES ASSUME NEW i \in 1..k, NEW j \in 1..k, i # j
                 PROVE  transactions'[i].active \cap transactions'[j].active = {}
      OBVIOUS
    <3>1. CASE i = k
      BY <1>1, <2>1, <3>1
    <3>2. CASE j = k
      BY <1>1, <2>1, <3>2
    <3> QED BY <1>1, <2>5, <3>1, <3>2
  <2>7. StackOfCalls'
    BY <2>1, <2>2, <2>4, <2>6 DEF StackOfCalls
  <2>8. ASSUME NEW m
        PROVE  Held(m)' <=> m \in s.active \/ \E i \in 1..(k - 1) : m \in transactions[i].active
    <3>1. k \in 1..k
      BY <1>1
    <3>2. Held(m)' <=> \E i \in 1..k : m \in transactions'[i].active
      BY <2>1 DEF Held
    <3> QED BY <1>1, <2>1, <3>1, <3>2
  <2> QED BY <1>1, <1>3, <2>1, <2>7, <2>8
<1> QED BY <1>2, <1>3

-----------------------------------------------------------------------------
(* The frames of one evaluation *)

LEMMA CallType ==
  ASSUME NEW t \in TransactionRecord, Depth(t) # 0, NEW d, d = Depth(t)
  PROVE  /\ d \in Nat \ {0} /\ d \in 1..d /\ t.pending # <<>>
         /\ t.pending \in Seq(FrameRecord) /\ t.running \in BOOLEAN
         /\ t.active \subseteq Modules /\ t.completed \subseteq Modules
         /\ \A j \in 1..d : At(t, j) \in Modules /\ Visited(t, j) \in Nat
         /\ \A j \in 1..d : j = d \/ j \in 1..(d - 1)
         /\ \A j \in 1..(d - 1) : j \in 1..d /\ j < d /\ j # d
<1>1. /\ t.pending \in Seq(FrameRecord) /\ t.running \in BOOLEAN
      /\ t.active \subseteq Modules /\ t.completed \subseteq Modules
  BY DEF TransactionRecord
<1>2. d \in Nat /\ d # 0
  BY <1>1, LenProperties DEF Depth
<1>3. t.pending # <<>>
  BY EmptySeq DEF Depth
<1>4. \A j \in 1..d : t.pending[j] \in FrameRecord
  BY <1>1, ElementOfSeq DEF Depth
<1>5. \A j \in 1..d : At(t, j) \in Modules /\ Visited(t, j) \in Nat
  BY <1>4 DEF FrameRecord, At, Visited
<1>6. /\ d \in 1..d
      /\ \A j \in 1..d : j = d \/ j \in 1..(d - 1)
      /\ \A j \in 1..(d - 1) : j \in 1..d /\ j < d /\ j # d
  BY <1>2
<1> QED BY <1>1, <1>2, <1>3, <1>5, <1>6

\* s has the frames of t below frame n.
Below(s, t, n) ==
  /\ \A j \in 1..n : At(s, j) = At(t, j) /\ Visited(s, j) = Visited(t, j)
  /\ \A j \in 1..n : Entered(s, j) <=> Entered(t, j)

LEMMA BelowEqual ==
  ASSUME NEW s, NEW t, NEW n \in Nat, n <= Depth(s), n <= Depth(t),
         Depth(s) \in Nat, Depth(t) \in Nat, \A j \in 1..n : s.pending[j] = t.pending[j]
  PROVE  Below(s, t, n)
<1>1. \A j \in 1..n : j \in 1..Depth(s) /\ j \in 1..Depth(t)
  OBVIOUS
<1> QED BY <1>1 DEF Below, At, Visited, Entered, Depth

\* The last frame is done.
LEMMA Popped ==
  ASSUME NEW t \in TransactionRecord, Depth(t) # 0, NEW d, d = Depth(t),
         NEW s, s.pending = Front(t.pending)
  PROVE  s.pending \in Seq(FrameRecord) /\ Depth(s) = d - 1 /\ Below(s, t, d - 1)
<1>1. d \in Nat \ {0} /\ t.pending # <<>> /\ t.pending \in Seq(FrameRecord)
  BY CallType
<1>2. /\ s.pending \in Seq(FrameRecord) /\ Len(s.pending) = d - 1
      /\ \A j \in 1..(d - 1) : s.pending[j] = t.pending[j]
  BY <1>1, FrontLast DEF Depth
<1>3. Depth(s) = d - 1 /\ d - 1 \in Nat /\ d - 1 <= d
  BY <1>1, <1>2 DEF Depth
<1>4. Below(s, t, d - 1)
  BY <1>1, <1>2, <1>3, BelowEqual
<1> QED BY <1>2, <1>3, <1>4

LEMMA PoppedTraversal ==
  ASSUME NEW t \in TransactionRecord, Depth(t) # 0, NEW d, d = Depth(t),
         NEW s, s.pending = Front(t.pending), ~s.running, Traversal(t)
  PROVE  Traversal(s)
<1>1. /\ d \in Nat \ {0} /\ \A j \in 1..(d - 1) : j \in 1..d /\ j < d
  BY CallType
<1>2. Depth(s) = d - 1 /\ Below(s, t, d - 1)
  BY Popped
<1>3. ASSUME NEW j \in 1..(d - 1)
      PROVE  /\ At(s, j) \in Settled /\ Visited(s, j) <= Len(requested[At(s, j)])
             /\ ~Entered(s, j) => Visited(s, j) = 0
             /\ j < d - 1 => /\ Entered(s, j) /\ Visited(s, j) >= 1
                             /\ requested[At(s, j)][Visited(s, j)] = At(s, j + 1)
  <2>1. j \in 1..d /\ j < d /\ At(s, j) = At(t, j) /\ Visited(s, j) = Visited(t, j)
        /\ (Entered(s, j) <=> Entered(t, j))
    BY <1>1, <1>2 DEF Below
  <2>2. j < d - 1 => At(s, j + 1) = At(t, j + 1)
    <3>1. j < d - 1 => j + 1 \in 1..(d - 1)
      BY <1>1
    <3> QED BY <1>2, <3>1 DEF Below
  <2> QED BY <2>1, <2>2 DEF Traversal
<1>4. \A i, j \in 1..(d - 1) : i < j => Reaches(At(s, i), At(s, j))
  BY <1>1, <1>2 DEF Below, Traversal
<1> QED BY <1>2, <1>3, <1>4 DEF Traversal

\* Modules of one component.
LEMMA InComponent ==
  ASSUME LinkTypeOK, NEW m \in Modules, NEW n \in Component(m)
  PROVE  /\ n \in Modules /\ Component(n) = Component(m) /\ m \in Component(n)
         /\ Reaches(m, n) /\ Reaches(n, m)
<1>1. n \in Modules /\ Reaches(m, n) /\ Reaches(n, m)
  BY DEF Component
<1>2. \A q \in Modules : q \in Component(n) <=> q \in Component(m)
  <2> TAKE q \in Modules
  <2>1. q \in Component(n) => q \in Component(m)
    BY <1>1, ReachTrans DEF Component
  <2>2. q \in Component(m) => q \in Component(n)
    BY <1>1, ReachTrans DEF Component
  <2> QED BY <2>1, <2>2
<1>3. Component(n) \subseteq Modules /\ Component(m) \subseteq Modules
  BY DEF Component
<1>4. m \in Component(n)
  BY <1>1 DEF Component
<1> QED BY <1>1, <1>2, <1>3, <1>4

\* The request that the frame below stands at is done with.
LEMMA PoppedResolves ==
  ASSUME NEW t \in TransactionRecord, Depth(t) # 0, NEW d, d = Depth(t),
         NEW s, s.pending = Front(t.pending), NEW E, NEW F, Traversal(t), Resolves(t, E),
         \A m \in Modules : \A n : Resolved(t, E, m, n) => Resolved(s, F, m, n),
         \A m \in s.completed : \A n \in Requests(m) : Resolved(s, F, m, n),
         \A j \in 1..(d - 1) : j = d - 1 => Resolved(s, F, At(t, j), At(t, d))
  PROVE  Resolves(s, F)
<1>1. /\ d \in Nat \ {0} /\ \A j \in 1..(d - 1) : j \in 1..d /\ j < d
      /\ \A j \in 1..d : At(t, j) \in Modules /\ Visited(t, j) \in Nat
  BY CallType
<1>2. Depth(s) = d - 1 /\ Below(s, t, d - 1)
  BY Popped
<1>3. ASSUME NEW j \in 1..Depth(s), NEW m \in Modules, NEW n \in Modules,
             NEW q \in 1..Visited(s, j),
             Entered(s, j), m = At(s, j), n = requested[m][q]
      PROVE  Resolved(s, F, m, n) \/ (q = Visited(s, j) /\ j < Depth(s))
  <2>1. j \in 1..(d - 1) /\ j \in 1..d /\ j < d
    BY <1>1, <1>2
  <2>2. Entered(t, j) /\ m = At(t, j) /\ Visited(s, j) = Visited(t, j)
    BY <1>2, <1>3, <2>1 DEF Below
  <2>3. Resolved(t, E, m, n) \/ q = Visited(t, j)
    BY <1>3, <2>1, <2>2 DEF Resolves
  <2>4. CASE Resolved(t, E, m, n)
    BY <2>4
  <2>5. CASE q = Visited(t, j) /\ j = d - 1
    <3>1. j + 1 = d /\ n = At(t, j + 1)
      BY <1>1, <1>3, <2>1, <2>2, <2>5 DEF Traversal
    <3> QED BY <2>1, <2>2, <2>5, <3>1
  <2>6. j = d - 1 \/ j < d - 1
    BY <1>1, <2>1
  <2> QED BY <1>2, <2>2, <2>3, <2>4, <2>5, <2>6
<1> QED BY <1>3 DEF Resolves

\* What is in the component of a frame that was entered, and requested by the last
\* frame, is in the component of the last frame.
LEMMA SameCycle ==
  ASSUME LinkInv, NEW t \in TransactionRecord, Depth(t) # 0, NEW d, d = Depth(t), Traversal(t),
         NEW i \in 1..(d - 1), At(t, d) \in Members(At(t, i)),
         NEW j \in 1..(d - 1), j = d - 1
  PROVE  At(t, d) \in Members(At(t, j))
<1>1. /\ d \in Nat \ {0} /\ d \in 1..d /\ \A n \in 1..(d - 1) : n \in 1..d /\ n < d
      /\ \A n \in 1..d : At(t, n) \in Modules
  BY CallType
<1>2. LinkTypeOK /\ \A n \in 1..d : At(t, n) \in Settled
  BY DEF Traversal, LinkInv
<1>3. Members(At(t, i)) = Component(At(t, i)) /\ Members(At(t, j)) = Component(At(t, j))
  BY <1>1, <1>2, SettledRecords
<1>4. Reaches(At(t, d), At(t, i)) /\ Reaches(At(t, j), At(t, d))
  BY <1>1, <1>3 DEF Component, Traversal
<1>5. Reaches(At(t, i), At(t, j))
  <2>1. i = j \/ i < j
    BY <1>1
  <2> QED BY <1>1, <1>2, <2>1, ReachSelf DEF Traversal
<1>6. Reaches(At(t, d), At(t, j))
  BY <1>1, <1>2, <1>4, <1>5, ReachTrans
<1> QED BY <1>1, <1>3, <1>4, <1>6 DEF Component

\* A frame that was not entered is passed.
LEMMA Passed ==
  ASSUME LinkInv, NEW t \in TransactionRecord, Depth(t) # 0, NEW d, d = Depth(t),
         Traversal(t), Holds(t), Resolves(t, Evaluated), ~Entered(t, d),
         At(t, d) \in Evaluated \/ At(t, d) \in t.active,
         NEW s, s.pending = Front(t.pending), ~s.running,
         s.active = t.active, s.completed = t.completed
  PROVE  Traversal(s) /\ Holds(s) /\ Resolves(s, Evaluated)
<1>1. /\ d \in Nat \ {0} /\ d \in 1..d /\ \A n \in 1..(d - 1) : n \in 1..d /\ n < d
      /\ \A n \in 1..d : n = d \/ n \in 1..(d - 1)
  BY CallType
<1>2. Depth(s) = d - 1 /\ Below(s, t, d - 1)
  BY Popped
<1>3. Traversal(s)
  BY PoppedTraversal
<1>4. \A m \in t.active : \E j \in 1..(d - 1) : Entered(t, j) /\ m \in Members(At(t, j))
  BY <1>1 DEF Holds
<1>5. Holds(s)
  <2>1. \A j \in 1..(d - 1) : Entered(s, j) => At(s, j) \in s.active \ s.completed
    BY <1>1, <1>2 DEF Holds, Below
  <2>2. \A i, j \in 1..(d - 1) : Entered(s, i) /\ Entered(s, j) /\ At(s, i) = At(s, j) => i = j
    BY <1>1, <1>2 DEF Holds, Below
  <2>3. \A m \in s.active : m \in s.completed \/ \E j \in 1..(d - 1) : Entered(s, j) /\ At(s, j) = m
    <3> SUFFICES ASSUME NEW m \in s.active, m \notin s.completed
                 PROVE  \E j \in 1..(d - 1) : Entered(s, j) /\ At(s, j) = m
      OBVIOUS
    <3>1. PICK j \in 1..d : Entered(t, j) /\ At(t, j) = m
      BY DEF Holds
    <3>2. j \in 1..(d - 1)
      BY <1>1, <3>1
    <3> QED BY <1>2, <3>1, <3>2 DEF Below
  <2>4. \A m \in s.active : \E j \in 1..(d - 1) : Entered(s, j) /\ m \in Members(At(s, j))
    BY <1>2, <1>4 DEF Below
  <2> QED BY <1>2, <2>1, <2>2, <2>3, <2>4 DEF Holds
<1>6. ASSUME NEW j \in 1..(d - 1), j = d - 1 PROVE Resolved(s, Evaluated, At(t, j), At(t, d))
  <2>1. CASE At(t, d) \in t.active
    <3>1. PICK i \in 1..(d - 1) : At(t, d) \in Members(At(t, i))
      BY <1>4, <2>1
    <3>2. At(t, d) \in Members(At(t, j))
      BY <1>6, <3>1, SameCycle
    <3> QED BY <2>1, <3>2 DEF Resolved
  <2> QED BY <2>1 DEF Resolved
<1>7. Resolves(s, Evaluated)
  <2>1. \A m \in Modules : \A n : Resolved(t, Evaluated, m, n) => Resolved(s, Evaluated, m, n)
    BY DEF Resolved
  <2>2. \A m \in s.completed : \A n \in Requests(m) : Resolved(s, Evaluated, m, n)
    BY DEF Resolves, Resolved
  <2> QED BY <1>6, <2>1, <2>2, PoppedResolves
<1> QED BY <1>3, <1>5, <1>7

\* The record of the last frame is entered.
LEMMA EnteredFrame ==
  ASSUME LinkInv, NEW t \in TransactionRecord, Depth(t) # 0, NEW d, d = Depth(t), NEW E,
         Traversal(t), Holds(t), Resolves(t, E), ~Entered(t, d), At(t, d) \notin t.active,
         NEW s, s.pending = Append(Front(t.pending), [t.pending[d] EXCEPT !.entered = TRUE]),
         ~s.running, s.active = t.active \cup {At(t, d)}, s.completed = t.completed
  PROVE  /\ s.pending \in Seq(FrameRecord) /\ Depth(s) # 0
         /\ Traversal(s) /\ Holds(s) /\ Resolves(s, E)
<1>1. /\ d \in Nat \ {0} /\ d \in 1..d /\ \A n \in 1..(d - 1) : n \in 1..d /\ n < d
      /\ \A n \in 1..d : n = d \/ n \in 1..(d - 1)
      /\ t.pending \in Seq(FrameRecord) /\ t.pending # <<>>
      /\ \A n \in 1..d : At(t, n) \in Modules
  BY CallType
<1>2. PICK top : top = [t.pending[d] EXCEPT !.entered = TRUE]
  OBVIOUS
<1>3. PICK front : front = Front(t.pending)
  OBVIOUS
<1>4. /\ top \in FrameRecord /\ top.entered /\ top.record = At(t, d)
      /\ top.dependencyIndex = Visited(t, d)
  <2>1. t.pending[d] \in FrameRecord
    BY <1>1, ElementOfSeq DEF Depth
  <2> QED BY <1>2, <2>1 DEF FrameRecord, At, Visited
<1>5. /\ s.pending \in Seq(FrameRecord) /\ Depth(s) = d /\ s.pending[d] = top
      /\ \A j \in 1..(d - 1) : s.pending[j] = t.pending[j]
  <2>1. /\ Front(t.pending) \in Seq(FrameRecord) /\ Len(Front(t.pending)) = d - 1
        /\ \A j \in 1..(d - 1) : Front(t.pending)[j] = t.pending[j]
    BY <1>1, FrontLast DEF Depth
  <2>2. /\ front \in Seq(FrameRecord) /\ Len(front) = d - 1
        /\ \A j \in 1..(d - 1) : front[j] = t.pending[j]
    BY <1>3, <2>1
  <2> QED BY <1>1, <1>2, <1>3, <1>4, <2>2, AppendProperties DEF Depth
<1>6. Below(s, t, d - 1)
  <2>1. PICK c \in Nat : c = d - 1
    BY <1>1
  <2>2. /\ c <= Depth(s) /\ c <= Depth(t) /\ Depth(s) \in Nat /\ Depth(t) \in Nat
        /\ \A j \in 1..c : s.pending[j] = t.pending[j]
    <3>1. Depth(s) = d /\ Depth(t) = d /\ d \in Nat /\ c <= d
      BY <1>1, <1>5, <2>1
    <3>2. \A j \in 1..c : s.pending[j] = t.pending[j]
      BY <1>5, <2>1
    <3> QED BY <3>1, <3>2
  <2>3. Below(s, t, c)
    BY <2>2, BelowEqual
  <2> QED BY <2>1, <2>3
<1>7. /\ Entered(s, d) /\ At(s, d) = At(t, d) /\ Visited(s, d) = Visited(t, d) /\ Visited(t, d) = 0
  <2>1. Visited(t, d) = 0
    BY <1>1 DEF Traversal
  <2> QED BY <1>1, <1>4, <1>5, <2>1 DEF Entered, At, Visited, Depth
<1>8. \A j \in 1..d : At(s, j) = At(t, j) /\ Visited(s, j) = Visited(t, j)
  BY <1>1, <1>6, <1>7 DEF Below
<1>9. \A j \in 1..d : Entered(s, j) <=> Entered(t, j) \/ j = d
  BY <1>1, <1>6, <1>7 DEF Below
<1>10. \A j \in 1..(d - 1) : Entered(t, j) /\ j + 1 \in 1..d
  BY <1>1 DEF Traversal
<1>11. Traversal(s)
  <2>1. ASSUME NEW j \in 1..d
        PROVE  /\ At(s, j) \in Settled /\ Visited(s, j) <= Len(requested[At(s, j)])
               /\ ~Entered(s, j) => Visited(s, j) = 0
               /\ j < d => /\ Entered(s, j) /\ Visited(s, j) >= 1
                           /\ requested[At(s, j)][Visited(s, j)] = At(s, j + 1)
    <3>1. /\ At(s, j) \in Settled /\ Visited(s, j) <= Len(requested[At(s, j)])
          /\ ~Entered(s, j) => Visited(s, j) = 0
      BY <1>8, <1>9 DEF Traversal
    <3>2. ASSUME j < d
          PROVE  /\ Entered(s, j) /\ Visited(s, j) >= 1
                 /\ requested[At(s, j)][Visited(s, j)] = At(s, j + 1)
      <4>1. j \in 1..(d - 1)
        BY <1>1, <3>2
      <4> QED BY <1>8, <1>9, <1>10, <3>2, <4>1 DEF Traversal
    <3> QED BY <3>1, <3>2
  <2>2. \A i, j \in 1..d : i < j => Reaches(At(s, i), At(s, j))
    BY <1>8 DEF Traversal
  <2> QED BY <1>5, <2>1, <2>2 DEF Traversal
<1>12. Holds(s)
  <2>1. At(t, d) \in Settled
    BY <1>1 DEF Traversal
  <2>2. s.active \subseteq Settled /\ s.completed \subseteq s.active
    BY <2>1 DEF Holds
  <2>3. \A j \in 1..d : Entered(s, j) => At(s, j) \in s.active \ s.completed
    BY <1>8, <1>9 DEF Holds
  <2>4. \A i, j \in 1..d : Entered(s, i) /\ Entered(s, j) /\ At(s, i) = At(s, j) => i = j
    <3> SUFFICES ASSUME NEW i \in 1..d, NEW j \in 1..d, Entered(s, i), Entered(s, j),
                        At(s, i) = At(s, j)
                 PROVE  i = j
      OBVIOUS
    <3>1. At(t, i) = At(t, j) /\ (Entered(t, i) \/ i = d) /\ (Entered(t, j) \/ j = d)
      BY <1>8, <1>9
    <3>2. \A n \in 1..d : Entered(t, n) => At(t, n) # At(t, d)
      BY DEF Holds
    <3> QED BY <3>1, <3>2 DEF Holds
  <2>5. ASSUME NEW m \in s.active
        PROVE  /\ m \in s.completed \/ \E j \in 1..d : Entered(s, j) /\ At(s, j) = m
               /\ \E j \in 1..d : Entered(s, j) /\ m \in Members(At(s, j))
    <3>1. CASE m \in t.active
      <4>1. m \in t.completed \/ \E j \in 1..d : Entered(t, j) /\ At(t, j) = m
        BY <3>1 DEF Holds
      <4>2. \E j \in 1..d : Entered(t, j) /\ m \in Members(At(t, j))
        BY <3>1 DEF Holds
      <4> QED BY <1>8, <1>9, <4>1, <4>2
    <3>2. CASE m = At(t, d)
      <4>1. m \in Members(m)
        BY <2>1, <3>2, SettledRecords
      <4>2. m = At(s, d)
        BY <1>7, <3>2
      <4> QED BY <1>1, <1>7, <4>1, <4>2
    <3> QED BY <3>1, <3>2
  <2> QED BY <1>5, <2>2, <2>3, <2>4, <2>5 DEF Holds
<1>13. Resolves(s, E)
  <2>1. \A m, n : Resolved(t, E, m, n) => Resolved(s, E, m, n)
    BY DEF Resolved
  <2>2. \A m \in s.completed : \A n \in Requests(m) : Resolved(s, E, m, n)
    BY <2>1 DEF Resolves
  <2>3. ASSUME NEW j \in 1..d, NEW m \in Modules, NEW n \in Modules, NEW q \in 1..Visited(s, j),
               Entered(s, j), m = At(s, j), n = requested[m][q]
        PROVE  Resolved(s, E, m, n) \/ (q = Visited(s, j) /\ j < d)
    <3>1. j # d
      BY <1>7, <2>3
    <3>2. Entered(t, j) /\ m = At(t, j) /\ Visited(s, j) = Visited(t, j)
      BY <1>8, <1>9, <2>3, <3>1
    <3> QED BY <2>1, <2>3, <3>2 DEF Resolves
  <2> QED BY <1>5, <2>2, <2>3 DEF Resolves
<1> QED BY <1>1, <1>5, <1>11, <1>12, <1>13

\* The last frame comes to its next request.
LEMMA RequestedFrame ==
  ASSUME LinkInv, NEW t \in TransactionRecord, Depth(t) # 0, NEW d, d = Depth(t), NEW E,
         Traversal(t), Holds(t), Resolves(t, E), Entered(t, d),
         Visited(t, d) < Len(requested[At(t, d)]),
         NEW v, v = Visited(t, d) + 1, NEW n, n = requested[At(t, d)][v],
         NEW s, s.pending = Append(Append(Front(t.pending),
                                          [t.pending[d] EXCEPT !.dependencyIndex = v]), Frame(n)),
         ~s.running, s.active = t.active, s.completed = t.completed
  PROVE  /\ s.pending \in Seq(FrameRecord) /\ Depth(s) # 0
         /\ Traversal(s) /\ Holds(s) /\ Resolves(s, E)
<1>1. /\ d \in Nat \ {0} /\ d \in 1..d /\ \A i \in 1..(d - 1) : i \in 1..d /\ i < d
      /\ \A i \in 1..d : i = d \/ i \in 1..(d - 1)
      /\ t.pending \in Seq(FrameRecord) /\ t.pending # <<>>
      /\ \A i \in 1..d : At(t, i) \in Modules /\ Visited(t, i) \in Nat
  BY CallType
<1>2. LinkTypeOK /\ At(t, d) \in Settled
  BY <1>1 DEF LinkInv, Traversal
<1>3. /\ v \in Nat \ {0} /\ v \in 1..Len(requested[At(t, d)]) /\ n \in Requests(At(t, d))
      /\ n \in Modules /\ n \in Settled
  <2>1. v \in Nat \ {0} /\ v \in 1..Len(requested[At(t, d)])
    BY <1>1, <1>2, GraphType
  <2>2. n \in Requests(At(t, d))
    BY <1>1, <1>2, <2>1, GraphType
  <2> QED BY <1>1, <1>2, <2>1, <2>2, GraphType, SettledRecords
<1>4. PICK visited : visited = [t.pending[d] EXCEPT !.dependencyIndex = v]
  OBVIOUS
<1>5. PICK last : last = Frame(n)
  OBVIOUS
<1>6. PICK e \in Nat : e = d + 1
  BY <1>1
<1>7. /\ visited \in FrameRecord /\ visited.record = At(t, d) /\ visited.dependencyIndex = v
      /\ visited.entered
  <2>1. t.pending[d] \in FrameRecord
    BY <1>1, ElementOfSeq DEF Depth
  <2> QED BY <1>3, <1>4, <2>1 DEF FrameRecord, At, Entered
<1>8. last \in FrameRecord /\ last.record = n /\ last.dependencyIndex = 0 /\ ~last.entered
  BY <1>3, <1>5 DEF Frame, FrameRecord
<1>9. /\ s.pending \in Seq(FrameRecord) /\ Depth(s) = e
      /\ s.pending[d] = visited /\ s.pending[e] = last
      /\ \A j \in 1..(d - 1) : s.pending[j] = t.pending[j]
  <2>1. PICK front : front = Front(t.pending)
    OBVIOUS
  <2>2. /\ Front(t.pending) \in Seq(FrameRecord) /\ Len(Front(t.pending)) = d - 1
        /\ \A j \in 1..(d - 1) : Front(t.pending)[j] = t.pending[j]
    BY <1>1, FrontLast DEF Depth
  <2>3. PICK p : p = Append(front, visited)
    OBVIOUS
  <2>4. /\ p \in Seq(FrameRecord) /\ Len(p) = d /\ p[d] = visited
        /\ \A j \in 1..(d - 1) : p[j] = t.pending[j]
    BY <1>1, <1>7, <2>1, <2>2, <2>3, AppendProperties
  <2>5. s.pending = Append(p, last)
    BY <1>4, <1>5, <2>1, <2>3
  <2>6. /\ s.pending \in Seq(FrameRecord) /\ Len(s.pending) = e /\ s.pending[e] = last
        /\ \A j \in 1..d : s.pending[j] = p[j]
    <3>1. /\ Append(p, last) \in Seq(FrameRecord) /\ Len(Append(p, last)) = Len(p) + 1
          /\ Append(p, last)[Len(p) + 1] = last
          /\ \A j \in 1..Len(p) : Append(p, last)[j] = p[j]
      BY <1>8, <2>4, AppendProperties
    <3>2. Len(p) = d /\ Len(p) + 1 = e
      BY <1>6, <2>4
    <3> QED BY <2>5, <3>1, <3>2
  <2> QED BY <1>1, <2>4, <2>6 DEF Depth
<1>10. /\ d \in 1..e /\ e \in 1..e
       /\ \A j \in 1..e : j = e \/ j = d \/ j \in 1..(d - 1)
       /\ \A j \in 1..(d - 1) : j \in 1..e /\ j < e /\ j # d /\ j + 1 # e /\ j + 1 \in 1..d
       /\ d < e /\ ~(e < e) /\ e \notin 1..d
  <2>1. /\ d \in 1..e /\ e \in 1..e /\ d < e /\ ~(e < e) /\ e \notin 1..d
    BY <1>1, <1>6
  <2>2. \A j \in 1..e : j = e \/ j = d \/ j \in 1..(d - 1)
    BY <1>1, <1>6
  <2>3. ASSUME NEW j \in 1..(d - 1)
        PROVE  j \in 1..e /\ j < e /\ j # d /\ j + 1 # e /\ j + 1 \in 1..d
    <3>1. d \in Nat /\ j \in Nat /\ 1 <= j /\ j <= d - 1
      BY <1>1
    <3> QED BY <1>6, <3>1
  <2> QED BY <2>1, <2>2, <2>3
<1>11. Below(s, t, d - 1)
  <2>1. PICK c \in Nat : c = d - 1
    BY <1>1
  <2>2. /\ c <= Depth(s) /\ c <= Depth(t) /\ Depth(s) \in Nat /\ Depth(t) \in Nat
        /\ \A j \in 1..c : s.pending[j] = t.pending[j]
    <3>1. Depth(s) = e /\ Depth(t) = d /\ d \in Nat /\ c <= d /\ c <= e
      BY <1>1, <1>6, <1>9, <2>1
    <3>2. \A j \in 1..c : s.pending[j] = t.pending[j]
      BY <1>9, <2>1
    <3> QED BY <3>1, <3>2
  <2>3. Below(s, t, c)
    BY <2>2, BelowEqual
  <2> QED BY <2>1, <2>3
<1>12. /\ Entered(s, d) /\ At(s, d) = At(t, d) /\ Visited(s, d) = v
       /\ ~Entered(s, e) /\ At(s, e) = n /\ Visited(s, e) = 0
  BY <1>7, <1>8, <1>9, <1>10 DEF Entered, At, Visited, Depth
<1>13. \A j \in 1..d : At(s, j) = At(t, j)
  BY <1>1, <1>11, <1>12 DEF Below
<1>14. \A j \in 1..d : Entered(s, j) <=> Entered(t, j)
  BY <1>1, <1>11, <1>12 DEF Below
<1>15. Traversal(s)
  <2>1. ASSUME NEW j \in 1..(d - 1)
        PROVE  /\ At(s, j) \in Settled /\ Visited(s, j) <= Len(requested[At(s, j)])
               /\ Entered(s, j) /\ Visited(s, j) >= 1
               /\ requested[At(s, j)][Visited(s, j)] = At(s, j + 1)
    <3>1. At(s, j) = At(t, j) /\ At(s, j + 1) = At(t, j + 1) /\ Visited(s, j) = Visited(t, j)
      BY <1>1, <1>10, <1>11, <1>13 DEF Below
    <3> QED BY <1>1, <1>14, <3>1 DEF Traversal
  <2>2. /\ At(s, d) \in Settled /\ Visited(s, d) <= Len(requested[At(s, d)])
        /\ Entered(s, d) /\ Visited(s, d) >= 1
        /\ requested[At(s, d)][Visited(s, d)] = At(s, d + 1)
    BY <1>2, <1>3, <1>6, <1>12
  <2>3. 0 <= Len(requested[n])
    BY <1>2, <1>3, GraphType
  <2>4. ASSUME NEW j \in 1..e
        PROVE  /\ At(s, j) \in Settled /\ Visited(s, j) <= Len(requested[At(s, j)])
               /\ ~Entered(s, j) => Visited(s, j) = 0
               /\ j < e => /\ Entered(s, j) /\ Visited(s, j) >= 1
                           /\ requested[At(s, j)][Visited(s, j)] = At(s, j + 1)
    BY <1>3, <1>10, <1>12, <2>1, <2>2, <2>3
  <2>5. ASSUME NEW i \in 1..e, NEW j \in 1..e, i < j PROVE Reaches(At(s, i), At(s, j))
    <3>1. i \in 1..d /\ At(s, i) = At(t, i) /\ At(t, i) \in Modules
      <4>1. i \in 1..d
        BY <1>1, <1>6, <2>5
      <4> QED BY <1>1, <1>13, <4>1
    <3>2. CASE j = e
      <4>1. Reaches(At(t, i), At(t, d))
        <5>1. i = d \/ i < d
          BY <1>1, <3>1
        <5> QED BY <1>1, <1>2, <3>1, <5>1, ReachSelf DEF Traversal
      <4>2. Reaches(At(t, d), n)
        BY <1>1, <1>2, <1>3, ReachEdge
      <4> QED BY <1>2, <1>12, <3>1, <3>2, <4>1, <4>2, ReachTrans
    <3>3. CASE j # e
      <4>1. j \in 1..d
        BY <1>1, <1>6, <3>3
      <4> QED BY <1>13, <2>5, <3>1, <4>1 DEF Traversal
    <3> QED BY <3>2, <3>3
  <2> QED BY <1>9, <2>4, <2>5 DEF Traversal
<1>16. Holds(s)
  <2>1. \A j \in 1..e : Entered(s, j) => j \in 1..d /\ Entered(t, j) /\ At(s, j) = At(t, j)
    BY <1>1, <1>10, <1>12, <1>13, <1>14
  <2>2. \A j \in 1..d : Entered(t, j) => j \in 1..e /\ Entered(s, j) /\ At(s, j) = At(t, j)
    BY <1>1, <1>10, <1>13, <1>14
  <2>3. s.active \subseteq Settled /\ s.completed \subseteq s.active
    BY DEF Holds
  <2>4. \A j \in 1..e : Entered(s, j) => At(s, j) \in s.active \ s.completed
    BY <2>1 DEF Holds
  <2>5. \A i, j \in 1..e : Entered(s, i) /\ Entered(s, j) /\ At(s, i) = At(s, j) => i = j
    BY <2>1 DEF Holds
  <2>6. \A m \in s.active : m \in s.completed \/ \E j \in 1..e : Entered(s, j) /\ At(s, j) = m
    <3> SUFFICES ASSUME NEW m \in s.active, m \notin s.completed
                 PROVE  \E j \in 1..e : Entered(s, j) /\ At(s, j) = m
      OBVIOUS
    <3>1. PICK j \in 1..d : Entered(t, j) /\ At(t, j) = m
      BY DEF Holds
    <3> QED BY <2>2, <3>1
  <2>7. \A m \in s.active : \E j \in 1..e : Entered(s, j) /\ m \in Members(At(s, j))
    <3> SUFFICES ASSUME NEW m \in s.active
                 PROVE  \E j \in 1..e : Entered(s, j) /\ m \in Members(At(s, j))
      OBVIOUS
    <3>1. PICK j \in 1..d : Entered(t, j) /\ m \in Members(At(t, j))
      BY DEF Holds
    <3>2. j \in 1..e /\ Entered(s, j) /\ At(s, j) = At(t, j)
      BY <2>2, <3>1
    <3> QED BY <3>1, <3>2
  <2> QED BY <1>9, <2>3, <2>4, <2>5, <2>6, <2>7 DEF Holds
<1>17. Resolves(s, E)
  <2>1. \A m, i : Resolved(s, E, m, i) <=> Resolved(t, E, m, i)
    BY DEF Resolved
  <2>2. \A m \in s.completed : \A i \in Requests(m) : Resolved(s, E, m, i)
    BY <2>1 DEF Resolves
  <2>3. ASSUME NEW j \in 1..e, NEW m \in Modules, NEW i \in Modules, NEW q \in 1..Visited(s, j),
               Entered(s, j), m = At(s, j), i = requested[m][q]
        PROVE  Resolved(s, E, m, i) \/ (q = Visited(s, j) /\ j < e)
    <3>1. CASE j = d
      <4>1. m = At(t, d) /\ q \in 1..v
        BY <1>12, <2>3, <3>1
      <4>2. q = v \/ q \in 1..Visited(t, d)
        BY <1>1, <4>1
      <4>3. q \in 1..Visited(t, d) => Resolved(t, E, m, i)
        BY <1>1, <2>3, <4>1 DEF Resolves
      <4> QED BY <1>10, <1>12, <2>1, <3>1, <4>2, <4>3
    <3>2. CASE j \in 1..(d - 1)
      <4>1. /\ m = At(t, j) /\ Visited(s, j) = Visited(t, j) /\ Entered(t, j) /\ j \in 1..d /\ j < e
        BY <1>1, <1>10, <1>11, <2>3, <3>2 DEF Below
      <4>2. q \in 1..Visited(t, j)
        BY <2>3, <4>1
      <4>3. Resolved(t, E, m, i) \/ q = Visited(t, j)
        BY <2>3, <4>1, <4>2 DEF Resolves
      <4> QED BY <2>1, <4>1, <4>3
    <3> QED BY <1>10, <1>12, <2>3, <3>1, <3>2
  <2> QED BY <1>9, <2>2, <2>3 DEF Resolves
<1> QED BY <1>1, <1>6, <1>9, <1>15, <1>16, <1>17

-----------------------------------------------------------------------------
(* A record completes *)

\* The last frame has visited all requests of its record, which is c.
Finishing(t, d, c) ==
  /\ Depth(t) # 0 /\ d = Depth(t) /\ c = At(t, d)
  /\ Traversal(t) /\ Holds(t) /\ Resolves(t, Evaluated)
  /\ Entered(t, d) /\ Visited(t, d) = Len(requested[c])

LEMMA AllResolved ==
  ASSUME LinkInv, NEW t \in TransactionRecord, NEW d, NEW c, Finishing(t, d, c)
  PROVE  /\ c \in Modules /\ c \in Settled /\ c \in t.active \ t.completed
         /\ Members(c) = Component(c) /\ c \in Members(c) /\ Members(c) \subseteq Modules
         /\ Members(c) \subseteq Settled
         /\ \A m \in t.completed \cup {c} : \A n \in Requests(m) : Resolved(t, Evaluated, m, n)
<1>1. /\ d \in Nat \ {0} /\ d \in 1..d /\ c \in Modules /\ ~(d < d)
  <2>1. Depth(t) # 0 /\ d = Depth(t)
    BY DEF Finishing
  <2>2. d \in Nat \ {0} /\ d \in 1..d /\ \A j \in 1..d : At(t, j) \in Modules
    BY <2>1, CallType
  <2> QED BY <2>2 DEF Finishing
<1>2. LinkTypeOK /\ c \in Settled /\ c \in t.active \ t.completed
  BY <1>1 DEF LinkInv, Finishing, Traversal, Holds
<1>3. /\ Members(c) = Component(c) /\ c \in Members(c) /\ Members(c) \subseteq Modules
      /\ Members(c) \subseteq Settled
  BY <1>2, SettledRecords DEF Component
<1>4. ASSUME NEW n \in Requests(c) PROVE Resolved(t, Evaluated, c, n)
  <2>1. n \in Modules /\ \E q \in 1..Len(requested[c]) : n = requested[c][q]
    <3>1. /\ Requests(c) = {requested[c][q] : q \in 1..Len(requested[c])}
          /\ Requests(c) \subseteq Modules
      BY <1>1, <1>2, GraphType
    <3> QED BY <3>1
  <2> QED BY <1>1, <1>4, <2>1 DEF Finishing, Resolves
<1>5. \A m \in t.completed : \A n \in Requests(m) : Resolved(t, Evaluated, m, n)
  BY DEF Finishing, Resolves
<1> QED BY <1>1, <1>2, <1>3, <1>4, <1>5

\* While members of the component are left, so is the frame of one of them.
LEMMA NotDone ==
  ASSUME LinkInv, OutcomeInv, NEW t \in TransactionRecord, NEW d, NEW c, Finishing(t, d, c),
         InFlight(t), ~(Members(c) \subseteq t.completed \cup {c})
  PROVE  \E j \in 1..(d - 1) : Entered(t, j) /\ At(t, j) \in Members(c)
<1> SUFFICES ASSUME \A j \in 1..(d - 1) : Entered(t, j) => At(t, j) \notin Members(c)
             PROVE  Members(c) \subseteq t.completed \cup {c}
  OBVIOUS
<1>1. LinkTypeOK /\ c \in t.active
      /\ c \in Modules /\ Members(c) = Component(c) /\ c \in Members(c)
  BY AllResolved DEF LinkInv
<1>2. \A j \in 1..d : j = d \/ j \in 1..(d - 1)
  BY CallType DEF Finishing
<1>3. \A m \in t.active : m \in Members(c) => m \in t.completed \cup {c}
  <2> SUFFICES ASSUME NEW m \in t.active, m \in Members(c), m \notin t.completed PROVE m = c
    OBVIOUS
  <2>1. PICK j \in 1..d : Entered(t, j) /\ At(t, j) = m
    BY DEF Finishing, Holds
  <2>2. j = d
    BY <1>2, <2>1
  <2> QED BY <2>1, <2>2 DEF Finishing
<1>4. c \notin Evaluated
  BY <1>1 DEF InFlight, Evaluated
<1>5. \A n \in Evaluated : ~Reaches(n, c)
  <2>1. Evaluated \in SUBSET Modules /\ \A m \in Evaluated : Requests(m) \subseteq Evaluated
    BY DEF Evaluated, OutcomeInv
  <2> QED BY <1>1, <1>4, <2>1, ReachClosed
<1>6. PICK S : S = ((t.completed \cup {c}) \cap Members(c)) \cup {n \in Modules : ~Reaches(n, c)}
  OBVIOUS
<1>7. S \in SUBSET Modules
  BY <1>1, <1>6 DEF Component
<1>8. ASSUME NEW m \in S PROVE Requests(m) \subseteq S
  <2>1. Requests(m) \subseteq Modules
    BY <1>1, <1>7, <1>8, GraphType
  <2>2. CASE m \in (t.completed \cup {c}) \cap Members(c)
    <3> SUFFICES ASSUME NEW n \in Requests(m) PROVE n \in S
      OBVIOUS
    <3>1. Resolved(t, Evaluated, m, n)
      BY <2>2, AllResolved
    <3>2. CASE n \in Evaluated
      BY <1>5, <1>6, <2>1, <3>2
    <3>3. CASE n \in t.active /\ n \in Members(m)
      <4>1. Members(m) = Members(c)
        <5>1. m \in Settled
          BY <2>2, AllResolved DEF Finishing, Holds
        <5> QED BY <1>1, <2>2, <5>1, SettledRecords, InComponent
      <4> QED BY <1>3, <1>6, <3>3, <4>1
    <3> QED BY <3>1, <3>2, <3>3 DEF Resolved
  <2>3. CASE ~Reaches(m, c)
    <3>1. \A n \in Requests(m) : ~Reaches(n, c)
      BY <1>1, <1>7, <1>8, <2>3, ReachEdge, ReachTrans
    <3> QED BY <1>6, <2>1, <3>1
  <2> QED BY <1>6, <2>2, <2>3
<1>9. ASSUME NEW n \in Members(c) PROVE n \in t.completed \cup {c}
  <2>1. Reaches(c, n) /\ Reaches(n, c) /\ n \in Modules
    BY <1>1, <1>9 DEF Component
  <2>2. c \in S
    BY <1>1, <1>6
  <2>3. n \in S
    BY <1>1, <1>7, <1>8, <2>1, <2>2, ReachClosed
  <2> QED BY <1>6, <2>1, <2>3
<1> QED BY <1>9

\* A member completes, and others are left.
LEMMA CompletedKept ==
  ASSUME LinkInv, OutcomeInv, NEW t \in TransactionRecord, NEW d, NEW c, Finishing(t, d, c),
         InFlight(t), ~(Members(c) \subseteq t.completed \cup {c}),
         NEW s, s.pending = Front(t.pending), ~s.running,
         s.active = t.active, s.completed = t.completed \cup {c}
  PROVE  Traversal(s) /\ Holds(s) /\ Resolves(s, Evaluated)
<1>1. /\ d \in Nat \ {0} /\ d \in 1..d /\ \A n \in 1..(d - 1) : n \in 1..d /\ n < d /\ n # d
      /\ \A n \in 1..d : n = d \/ n \in 1..(d - 1)
      /\ \A n \in 1..d : At(t, n) \in Modules
  BY CallType DEF Finishing
<1>2. Depth(t) # 0 /\ d = Depth(t) /\ c = At(t, d) /\ Entered(t, d)
      /\ Traversal(t) /\ Holds(t) /\ Resolves(t, Evaluated)
  BY DEF Finishing
<1>3. Depth(s) = d - 1 /\ Below(s, t, d - 1)
  BY <1>2, Popped
<1>4. Traversal(s)
  BY <1>2, PoppedTraversal
<1>5. /\ c \in Modules /\ c \in t.active \ t.completed /\ c \in Settled
      /\ Members(c) = Component(c)
      /\ \A m \in t.completed \cup {c} : \A n \in Requests(m) : Resolved(t, Evaluated, m, n)
  BY AllResolved
<1>6. PICK i \in 1..(d - 1) : Entered(t, i) /\ At(t, i) \in Members(c)
  BY NotDone
<1>7. LinkTypeOK /\ At(t, i) \in Settled /\ i \in 1..d
  BY <1>1, <1>2 DEF LinkInv, Traversal
<1>8. Members(At(t, i)) = Members(c) /\ c \in Members(At(t, i))
  <2>1. Component(At(t, i)) = Component(c) /\ c \in Component(At(t, i))
    BY <1>5, <1>6, <1>7, InComponent
  <2> QED BY <1>5, <1>7, <2>1, SettledRecords
<1>9. Holds(s)
  <2>1. s.active \subseteq Settled /\ s.completed \subseteq s.active
    BY <1>2, <1>5 DEF Holds
  <2>2. ASSUME NEW j \in 1..(d - 1), Entered(s, j) PROVE At(s, j) \in s.active \ s.completed
    <3>1. j \in 1..d /\ j # d /\ Entered(t, j) /\ At(s, j) = At(t, j)
      BY <1>1, <1>3, <2>2 DEF Below
    <3> QED BY <1>1, <1>2, <3>1 DEF Holds
  <2>3. \A i0, j \in 1..(d - 1) : Entered(s, i0) /\ Entered(s, j) /\ At(s, i0) = At(s, j) => i0 = j
    BY <1>1, <1>2, <1>3 DEF Holds, Below
  <2>4. \A m \in s.active : m \in s.completed \/ \E j \in 1..(d - 1) : Entered(s, j) /\ At(s, j) = m
    <3> SUFFICES ASSUME NEW m \in s.active, m \notin s.completed
                 PROVE  \E j \in 1..(d - 1) : Entered(s, j) /\ At(s, j) = m
      OBVIOUS
    <3>1. PICK j \in 1..d : Entered(t, j) /\ At(t, j) = m
      BY <1>2 DEF Holds
    <3>2. j \in 1..(d - 1)
      BY <1>1, <1>2, <3>1
    <3> QED BY <1>3, <3>1, <3>2 DEF Below
  <2>5. \A m \in s.active : \E j \in 1..(d - 1) : Entered(s, j) /\ m \in Members(At(s, j))
    <3> SUFFICES ASSUME NEW m \in s.active
                 PROVE  \E j \in 1..(d - 1) : Entered(t, j) /\ m \in Members(At(t, j))
      BY <1>3 DEF Below
    <3>1. PICK j \in 1..d : Entered(t, j) /\ m \in Members(At(t, j))
      BY <1>2 DEF Holds
    <3> QED BY <1>1, <1>2, <1>6, <1>8, <3>1
  <2> QED BY <1>3, <2>1, <2>2, <2>3, <2>4, <2>5 DEF Holds
<1>10. Resolves(s, Evaluated)
  <2>1. \A m \in Modules : \A n : Resolved(t, Evaluated, m, n) => Resolved(s, Evaluated, m, n)
    BY DEF Resolved
  <2>2. s.completed \subseteq Modules
    BY <1>5 DEF TransactionRecord
  <2>3. \A m \in s.completed : \A n \in Requests(m) : Resolved(s, Evaluated, m, n)
    BY <1>5, <2>1, <2>2
  <2>4. ASSUME NEW j \in 1..(d - 1), j = d - 1 PROVE Resolved(s, Evaluated, At(t, j), At(t, d))
    <3>1. At(t, d) \in Members(At(t, j))
      BY <1>2, <1>8, <2>4, SameCycle
    <3> QED BY <1>2, <1>5, <3>1 DEF Resolved
  <2> QED BY <1>2, <2>1, <2>3, <2>4, PoppedResolves
<1> QED BY <1>4, <1>9, <1>10

\* The last member completes.
LEMMA CommittedKept ==
  ASSUME LinkInv, OutcomeInv, NEW t \in TransactionRecord, NEW d, NEW c, Finishing(t, d, c),
         Members(c) \subseteq t.completed \cup {c},
         NEW s, s.pending = Front(t.pending), ~s.running,
         s.active = t.active \ Members(c), s.completed = (t.completed \cup {c}) \ Members(c)
  PROVE  /\ Traversal(s) /\ Holds(s) /\ Resolves(s, Evaluated \cup Members(c))
         /\ Members(c) \subseteq t.active
         /\ \A m \in Members(c) : Requests(m) \subseteq Evaluated \cup Members(c)
<1>1. /\ d \in Nat \ {0} /\ d \in 1..d /\ \A n \in 1..(d - 1) : n \in 1..d /\ n < d /\ n # d
      /\ \A n \in 1..d : n = d \/ n \in 1..(d - 1)
      /\ \A n \in 1..d : At(t, n) \in Modules
  BY CallType DEF Finishing
<1>2. Depth(t) # 0 /\ d = Depth(t) /\ c = At(t, d) /\ Entered(t, d)
      /\ Traversal(t) /\ Holds(t) /\ Resolves(t, Evaluated)
  BY DEF Finishing
<1>3. Depth(s) = d - 1 /\ Below(s, t, d - 1)
  BY <1>2, Popped
<1>4. Traversal(s)
  BY <1>2, PoppedTraversal
<1>5. /\ c \in Modules /\ c \in t.active \ t.completed /\ c \in Settled
      /\ Members(c) = Component(c) /\ c \in Members(c)
      /\ \A m \in t.completed \cup {c} : \A n \in Requests(m) : Resolved(t, Evaluated, m, n)
  BY AllResolved
<1>6. Members(c) \subseteq t.active
  BY <1>2, <1>5 DEF Holds
<1>7. PICK F : F = Evaluated \cup Members(c)
  OBVIOUS
<1>8. \A m, n : Resolved(t, Evaluated, m, n) => Resolved(s, F, m, n)
  BY <1>7 DEF Resolved
<1>9. ASSUME NEW m \in Members(c) PROVE Requests(m) \subseteq F
  <2> SUFFICES ASSUME NEW n \in Requests(m) PROVE n \in F
    OBVIOUS
  <2>1. LinkTypeOK /\ m \in Settled
    BY <1>2, <1>6, <1>9 DEF Holds, LinkInv
  <2>2. Members(m) = Members(c)
    BY <1>5, <1>9, <2>1, SettledRecords, InComponent
  <2>3. Resolved(t, Evaluated, m, n)
    BY <1>5, <1>9
  <2> QED BY <1>7, <2>2, <2>3 DEF Resolved
<1>10. \A j \in 1..(d - 1) : Entered(t, j) => At(t, j) \in t.active \ (t.completed \cup {c})
  BY <1>1, <1>2 DEF Holds
<1>11. Holds(s)
  <2>1. s.active \subseteq Settled /\ s.completed \subseteq s.active
    BY <1>2, <1>5 DEF Holds
  <2>2. \A j \in 1..(d - 1) : Entered(s, j) => At(s, j) \in s.active \ s.completed
    BY <1>3, <1>10 DEF Below
  <2>3. \A i0, j \in 1..(d - 1) : Entered(s, i0) /\ Entered(s, j) /\ At(s, i0) = At(s, j) => i0 = j
    BY <1>1, <1>2, <1>3 DEF Holds, Below
  <2>4. \A m \in s.active : m \in s.completed \/ \E j \in 1..(d - 1) : Entered(s, j) /\ At(s, j) = m
    <3> SUFFICES ASSUME NEW m \in s.active, m \notin s.completed
                 PROVE  \E j \in 1..(d - 1) : Entered(s, j) /\ At(s, j) = m
      OBVIOUS
    <3>1. m \in t.active /\ m \notin t.completed /\ m # c
      BY <1>5
    <3>2. PICK j \in 1..d : Entered(t, j) /\ At(t, j) = m
      BY <1>2, <3>1 DEF Holds
    <3>3. j \in 1..(d - 1)
      BY <1>1, <1>2, <3>1, <3>2
    <3> QED BY <1>3, <3>2, <3>3 DEF Below
  <2>5. \A m \in s.active : \E j \in 1..(d - 1) : Entered(s, j) /\ m \in Members(At(s, j))
    <3> SUFFICES ASSUME NEW m \in s.active
                 PROVE  \E j \in 1..(d - 1) : Entered(t, j) /\ m \in Members(At(t, j))
      BY <1>3 DEF Below
    <3>1. PICK j \in 1..d : Entered(t, j) /\ m \in Members(At(t, j))
      BY <1>2 DEF Holds
    <3>2. j # d
      BY <1>2, <3>1
    <3> QED BY <1>1, <3>1, <3>2
  <2> QED BY <1>3, <2>1, <2>2, <2>3, <2>4, <2>5 DEF Holds
<1>12. Resolves(s, F)
  <2>1. \A m \in s.completed : \A n \in Requests(m) : Resolved(s, F, m, n)
    BY <1>5, <1>8
  <2>2. ASSUME NEW j \in 1..(d - 1), j = d - 1 PROVE Resolved(s, F, At(t, j), At(t, d))
    BY <1>2, <1>5, <1>7 DEF Resolved
  <2> QED BY <1>2, <1>8, <2>1, <2>2, PoppedResolves
<1> QED BY <1>4, <1>6, <1>7, <1>9, <1>11, <1>12

\* An error of a member came from a module that it depends on, and that would be one of
\* those that are committed, or evaluated.
LEMMA NoneErrored ==
  ASSUME LinkInv, OutcomeInv, NEW C \in SUBSET Modules, \A m \in C : Held(m),
         \A m \in C : Requests(m) \subseteq Evaluated \cup C
  PROVE  C \cap Errored = {}
<1> SUFFICES ASSUME NEW m \in C, m \in Errored PROVE FALSE
  OBVIOUS
<1>1. PICK e \in Errored : ~Held(e) /\ Reaches(m, e)
  BY DEF OutcomeInv
<1>2. PICK S : S = Evaluated \cup C
  OBVIOUS
<1>3. S \in SUBSET Modules /\ \A n \in S : Requests(n) \subseteq S
  BY <1>2 DEF OutcomeInv, Evaluated
<1>4. e \in S
  BY <1>1, <1>2, <1>3, ReachClosed DEF LinkInv
<1> QED BY <1>1, <1>2, <1>4 DEF Evaluated, Errored

-----------------------------------------------------------------------------
(* What fails with a module *)

CascadeClosed(S) ==
  /\ EnteredComponents \subseteq S
  /\ \A m \in S, d \in Modules : d \in deferredDependents[m] => Members(d) \subseteq S

LEMMA LeastCascade ==
  ASSUME EnteredComponents \subseteq Modules, \A m \in Modules : Members(m) \subseteq Modules
  PROVE  /\ Cascade \in SUBSET Modules /\ CascadeClosed(Cascade)
         /\ \A S \in SUBSET Modules : CascadeClosed(S) => Cascade \subseteq S
<1>1. PICK closed : closed = {S \in SUBSET Modules : CascadeClosed(S)}
  OBVIOUS
<1>2. Cascade = CHOOSE S \in closed : \A other \in closed : S \subseteq other
  BY <1>1 DEF Cascade, CascadeClosed
<1>3. PICK I : I = {m \in Modules : \A S \in closed : m \in S}
  OBVIOUS
<1>4. I \in closed
  <2>1. EnteredComponents \subseteq I
    BY <1>1, <1>3 DEF CascadeClosed
  <2>2. ASSUME NEW m \in I, NEW d \in Modules, d \in deferredDependents[m] PROVE Members(d) \subseteq I
    <3>1. \A S \in closed : Members(d) \subseteq S
      BY <1>1, <1>3, <2>2 DEF CascadeClosed
    <3> QED BY <1>3, <3>1
  <2>3. CascadeClosed(I)
    BY <2>1, <2>2 DEF CascadeClosed
  <2> QED BY <1>1, <1>3, <2>3
<1>5. \A other \in closed : I \subseteq other
  BY <1>3
<1>6. Cascade \in closed /\ \A other \in closed : Cascade \subseteq other
  BY <1>2, <1>4, <1>5
<1> QED BY <1>1, <1>6

LEMMA CascadeFacts ==
  ASSUME LinkInv, EvalInv, transactions # <<>>, NEW t, t = Transaction
  PROVE  /\ Cascade \subseteq Settled /\ t.active \subseteq Cascade
         /\ \A m \in Cascade : Component(m) \subseteq Cascade /\ Reaches(m, Module)
         /\ \A m \in Cascade : \A x \in deferredDependents[m] : Component(x) \subseteq Cascade
<1>1. PICK k : k = Len(transactions)
  OBVIOUS
<1>2. PICK d : d = Depth(t)
  OBVIOUS
<1>3. /\ t \in TransactionRecord /\ Traversal(t) /\ Holds(t) /\ d \in Nat \ {0} /\ d \in 1..d
      /\ Module = At(t, d) /\ Module \in Modules /\ \A j \in 1..d : At(t, j) \in Modules
  BY <1>1, <1>2, TopCall DEF TransactionInv
<1>4. LinkTypeOK /\ \A x \in Modules : \A w \in deferredDependents[x] : w \in Settled /\ Reaches(w, x)
  BY DEF LinkInv, EvalInv, WaitInv
<1>5. \A j \in 1..d : At(t, j) \in Settled
  BY <1>2, <1>3 DEF Traversal
<1>6. EnteredComponents = {m \in Modules : \E j \in 1..d : Entered(t, j) /\ m \in Component(At(t, j))}
  <2>1. DOMAIN t.pending = 1..d
    BY <1>2, <1>3, LenProperties DEF TransactionRecord, Depth
  <2>2. Range(t.pending) = {t.pending[j] : j \in 1..d}
    BY <2>1 DEF Range
  <2>3. \A m : m \in EnteredComponents <=>
              \E j \in 1..d : t.pending[j].entered /\ m \in Members(t.pending[j].record)
    BY <2>2 DEF EnteredComponents
  <2>4. \A j \in 1..d : Members(At(t, j)) = Component(At(t, j))
    BY <1>5, SettledRecords
  <2>5. \A m : m \in EnteredComponents <=> \E j \in 1..d : Entered(t, j) /\ m \in Component(At(t, j))
    BY <1>2, <2>3, <2>4 DEF Entered, At, Depth
  <2>6. \A j \in 1..d : Component(At(t, j)) \subseteq Modules
    BY DEF Component
  <2> QED BY <2>5, <2>6
<1>7. Settled \in SUBSET Modules /\ \A m \in Settled : Component(m) \subseteq Settled
  BY SettledRecords
<1>8. EnteredComponents \subseteq Modules /\ \A m \in Modules : Members(m) \subseteq Modules
  BY <1>4, <1>6 DEF LinkTypeOK, Members
<1>9. /\ Cascade \in SUBSET Modules /\ CascadeClosed(Cascade)
      /\ \A S \in SUBSET Modules : CascadeClosed(S) => Cascade \subseteq S
  BY <1>8, LeastCascade
<1>10. \A m \in Modules : \A x \in deferredDependents[m] :
         x \in Modules /\ x \in Settled /\ Members(x) = Component(x) /\ Reaches(x, m)
  BY <1>4, <1>7, SettledRecords
<1>11. CascadeClosed(Settled)
  <2>1. EnteredComponents \subseteq Settled
    BY <1>5, <1>6, <1>7
  <2>2. \A m \in Settled, x \in Modules : x \in deferredDependents[m] => Members(x) \subseteq Settled
    BY <1>7, <1>10
  <2> QED BY <2>1, <2>2 DEF CascadeClosed
<1>12. Cascade \subseteq Settled
  BY <1>7, <1>9, <1>11
<1>13. EnteredComponents \subseteq Cascade
  BY <1>9 DEF CascadeClosed
<1>14. t.active \subseteq Cascade
  <2> SUFFICES ASSUME NEW m \in t.active PROVE m \in EnteredComponents
    BY <1>13
  <2>1. PICK j \in 1..d : Entered(t, j) /\ m \in Members(At(t, j))
    BY <1>2, <1>3 DEF Holds
  <2>2. m \in Component(At(t, j))
    BY <1>5, <2>1, SettledRecords
  <2> QED BY <1>6, <2>1, <2>2 DEF Component
<1>15. \A m \in Cascade : \A x \in deferredDependents[m] : Component(x) \subseteq Cascade
  BY <1>9, <1>10 DEF CascadeClosed
<1>16. \A m \in Cascade : Component(m) \subseteq Cascade
  <2>1. PICK S : S = {m \in Cascade : Component(m) \subseteq Cascade}
    OBVIOUS
  <2>2. ASSUME NEW n \in Modules, NEW m \in Component(n), Component(n) \subseteq Cascade
        PROVE  m \in S
    <3>1. Component(m) = Component(n) /\ m \in Cascade
      BY <1>4, <2>2, InComponent
    <3> QED BY <2>1, <2>2, <3>1
  <2>3. EnteredComponents \subseteq S
    <3> SUFFICES ASSUME NEW m \in EnteredComponents PROVE m \in S
      OBVIOUS
    <3>1. PICK j \in 1..d : Entered(t, j) /\ m \in Component(At(t, j))
      BY <1>6
    <3>2. Component(At(t, j)) \subseteq EnteredComponents
      BY <1>6, <3>1 DEF Component
    <3> QED BY <1>3, <1>13, <2>2, <3>1, <3>2
  <2>4. \A m \in S, x \in Modules : x \in deferredDependents[m] => Members(x) \subseteq S
    <3> SUFFICES ASSUME NEW m \in S, NEW x \in Modules, x \in deferredDependents[m],
                        NEW y \in Members(x)
                 PROVE  y \in S
      OBVIOUS
    <3>1. m \in Cascade /\ m \in Modules
      BY <1>9, <2>1
    <3>2. y \in Component(x) /\ Component(x) \subseteq Cascade
      BY <1>10, <1>15, <3>1
    <3> QED BY <2>2, <3>2
  <2>5. CascadeClosed(S)
    BY <2>3, <2>4 DEF CascadeClosed
  <2>6. S \in SUBSET Modules
    BY <1>9, <2>1
  <2> QED BY <1>9, <2>1, <2>5, <2>6
<1>17. \A m \in Cascade : Reaches(m, Module)
  <2>1. PICK S : S = {m \in Modules : Reaches(m, Module)}
    OBVIOUS
  <2>2. EnteredComponents \subseteq S
    <3> SUFFICES ASSUME NEW m \in EnteredComponents PROVE m \in S
      OBVIOUS
    <3>1. PICK j \in 1..d : m \in Component(At(t, j))
      BY <1>6
    <3>2. Reaches(m, At(t, j)) /\ m \in Modules
      BY <3>1 DEF Component
    <3>3. Reaches(At(t, j), Module)
      <4>1. j = d \/ j < d
        BY <1>3
      <4>2. Reaches(Module, Module)
        BY <1>3, <1>4, ReachSelf
      <4> QED BY <1>2, <1>3, <4>1, <4>2 DEF Traversal
    <3> QED BY <1>4, <2>1, <3>2, <3>3, ReachTrans
  <2>3. \A m \in S, x \in Modules : x \in deferredDependents[m] => Members(x) \subseteq S
    <3> SUFFICES ASSUME NEW m \in S, NEW x \in Modules, x \in deferredDependents[m],
                        NEW y \in Members(x)
                 PROVE  y \in S
      OBVIOUS
    <3>1. m \in Modules /\ Reaches(m, Module)
      BY <2>1
    <3>2. Reaches(x, m) /\ y \in Component(x)
      BY <1>10, <3>1
    <3>3. y \in Modules /\ Reaches(y, x)
      BY <3>2 DEF Component
    <3>4. Reaches(y, m)
      BY <1>4, <3>2, <3>3, ReachTrans
    <3>5. Reaches(y, Module)
      BY <1>4, <3>1, <3>3, <3>4, ReachTrans
    <3> QED BY <2>1, <3>3, <3>5
  <2>4. CascadeClosed(S) /\ S \in SUBSET Modules
    BY <2>1, <2>2, <2>3 DEF CascadeClosed
  <2> QED BY <1>9, <2>1, <2>4
<1> QED BY <1>12, <1>14, <1>15, <1>16, <1>17

-----------------------------------------------------------------------------
(* Steps *)

LEMMA OutcomesKept ==
  ASSUME LinkInv, OutcomeInv, WaitInv, Stays, UNCHANGED outcomeVars, \A m : Held(m)' <=> Held(m)
  PROVE  OutcomeInv' /\ WaitInv' /\ Evaluated' = Evaluated /\ Errored' = Errored
<1>1. /\ \A m, n : Reaches(m, n)' <=> Reaches(m, n)
      /\ \A m : Requests(m)' = Requests(m) /\ Component(m)' = Component(m)
  BY SameGraph DEF Stays
<1>2. /\ Evaluated' = Evaluated /\ Errored' = Errored /\ Settled \subseteq Settled'
      /\ UNCHANGED <<evaluationStatus, evaluationCompletion, deferredDependents, waited>>
  BY DEF outcomeVars, Evaluated, Errored, Stays
<1>3. OutcomeInv'
  BY <1>1, <1>2 DEF OutcomeInv
<1>4. WaitInv'
  BY <1>1, <1>2 DEF WaitInv
<1> QED BY <1>2, <1>3, <1>4

LEMMA BodiesKept ==
  ASSUME BodyInv, Stays, UNCHANGED <<bodiesStarted, repeated, evaluationBodyCompleted>>,
         Errored \subseteq Errored', \A m : Held(m)' => Held(m),
         \A i \in 1..Len(transactions) : transactions[i].running =>
           \E j \in 1..Len(transactions') : transactions'[j] = transactions[i]
  PROVE  BodyInv'
<1>1. /\ repeated' = {} /\ evaluationBodyCompleted' \subseteq bodiesStarted'
      /\ bodiesStarted' \subseteq Settled'
  BY DEF BodyInv, Stays
<1>2. ASSUME NEW m \in bodiesStarted' \ evaluationBodyCompleted'
      PROVE  \/ \E i \in 1..Len(transactions') :
                  transactions'[i].running /\ m = At(transactions'[i], Depth(transactions'[i]))
             \/ m \in Errored' /\ ~Held(m)'
  <2>1. \/ \E i \in 1..Len(transactions) :
             transactions[i].running /\ m = At(transactions[i], Depth(transactions[i]))
        \/ m \in Errored /\ ~Held(m)
    BY <1>2 DEF BodyInv
  <2>2. CASE m \in Errored /\ ~Held(m)
    BY <2>2
  <2>3. ASSUME NEW i \in 1..Len(transactions), transactions[i].running,
               m = At(transactions[i], Depth(transactions[i]))
        PROVE  \E j \in 1..Len(transactions') :
                  transactions'[j].running /\ m = At(transactions'[j], Depth(transactions'[j]))
    BY <2>3
  <2> QED BY <2>1, <2>2, <2>3
<1>3. \A m \in bodiesStarted' \ evaluationBodyCompleted' :
        \/ \E i \in 1..Len(transactions') :
             transactions'[i].running /\ m = At(transactions'[i], Depth(transactions'[i]))
        \/ m \in Errored' /\ ~Held(m)'
  BY <1>2
<1> QED BY <1>1, <1>3 DEF BodyInv, At, Depth

\* A link, or nothing, happens.
LEMMA LinkKeepsEvaluation ==
  ASSUME LinkInv, EvalInv, Stays, UNCHANGED evalVars,
         Linking' => \A i \in 1..Len(transactions) : transactions[i].running
  PROVE  EvalInv'
<1>1. /\ EvalTypeOK /\ StackOfCalls /\ BodyInv /\ OutcomeInv /\ WaitInv
      /\ UNCHANGED <<outcomeVars, bodyVars, transactions>>
  BY DEF EvalInv, evalVars
<1>2. \A m : Held(m)' <=> Held(m)
  BY <1>1 DEF Held
<1>3. OutcomeInv' /\ WaitInv' /\ Evaluated' = Evaluated /\ Errored' = Errored
  BY <1>1, <1>2, OutcomesKept
<1>4. BodyInv'
  BY <1>1, <1>2, <1>3, BodiesKept DEF bodyVars
<1>5. EvalTypeOK'
  BY <1>1 DEF EvalTypeOK, outcomeVars, bodyVars, TransactionRecord, FrameRecord
<1>6. ASSUME NEW t \in Calls PROVE TransactionInv(t)' /\ Depth(t)' # 0
  <2>1. TransactionInv(t) /\ Depth(t) # 0
    BY <1>1 DEF StackOfCalls
  <2>2. InFlight(t)' /\ RunsTop(t)'
    BY <1>1, <2>1 DEF TransactionInv, InFlight, RunsTop, At, Depth, outcomeVars, bodyVars
  <2> QED BY <1>3, <2>1, <2>2, TransactionKept DEF TransactionInv, Depth
<1>7. Calls' = Calls
  BY <1>1 DEF Calls
<1>8. StackOfCalls'
  BY <1>1, <1>6, <1>7 DEF StackOfCalls
<1> QED BY <1>3, <1>4, <1>5, <1>8 DEF EvalInv

\* The innermost evaluation goes on as s, and nothing else changes.
LEMMA QuietStep ==
  ASSUME LinkInv, EvalInv, Traverses, UNCHANGED <<source, linkVars, outcomeVars, bodyVars>>,
         NEW t, t = Transaction, NEW s \in TransactionRecord, Proceed(s),
         Traversal(s), Holds(s), Resolves(s, Evaluated), ~s.running, s.active = t.active
  PROVE  EvalInv'
<1>1. PICK k : k = Len(transactions)
  OBVIOUS
<1>2. /\ transactions # <<>> /\ ~Linking /\ ~t.running /\ UNCHANGED <<source, linkVars>>
      /\ EvalTypeOK /\ StackOfCalls /\ BodyInv /\ OutcomeInv /\ WaitInv
  BY DEF Traverses, Evaluating, EvalInv
<1>3. Stays /\ ~Linking' /\ Evaluated' = Evaluated
  <2>1. Stays /\ ~Linking'
    BY <1>2, EvaluationStays
  <2> QED BY <2>1 DEF Evaluated, outcomeVars
<1>4. /\ k \in 1..k /\ t = transactions[k] /\ TransactionInv(t) /\ t.active \subseteq Modules
      /\ \A i \in 1..(k - 1) : i \in 1..k /\ i # k
      /\ \A i \in 1..k : i = k \/ i \in 1..(k - 1)
  BY <1>1, <1>2, TopCall
<1>5. TransactionInv(s)'
  <2>1. InFlight(s)'
    BY <1>4 DEF TransactionInv, InFlight, outcomeVars
  <2>2. RunsTop(s)'
    BY DEF RunsTop
  <2> QED BY <1>3, <2>1, <2>2, TransactionKept
<1>6. \A i \in 1..(k - 1) : \A x : x = transactions[i] => TransactionInv(x)'
  BY <1>1, <1>2, <1>3, OthersKept DEF outcomeVars, bodyVars
<1>7. \A i \in 1..(k - 1) : s.active \cap transactions[i].active = {}
  BY <1>1, <1>2, <1>4 DEF StackOfCalls
<1>8. /\ transactions' \in Seq(TransactionRecord) /\ StackOfCalls'
      /\ \A i \in 1..(k - 1) : i \in 1..Len(transactions') /\ transactions'[i] = transactions[i]
      /\ \A m : Held(m)' <=> m \in s.active \/ \E i \in 1..(k - 1) : m \in transactions[i].active
  BY <1>1, <1>2, <1>3, <1>5, <1>6, <1>7, Proceeded
<1>9. \A m : Held(m)' <=> Held(m)
  BY <1>1, <1>4, <1>8 DEF Held
<1>10. OutcomeInv' /\ WaitInv' /\ Evaluated' = Evaluated /\ Errored' = Errored
  BY <1>2, <1>3, <1>9, OutcomesKept
<1>11. BodyInv'
  <2>1. \A i \in 1..Len(transactions) : transactions[i].running =>
          \E j \in 1..Len(transactions') : transactions'[j] = transactions[i]
    BY <1>1, <1>2, <1>4, <1>8
  <2> QED BY <1>2, <1>3, <1>9, <1>10, <2>1, BodiesKept DEF bodyVars
<1>12. EvalTypeOK'
  BY <1>2, <1>8 DEF EvalTypeOK, outcomeVars, bodyVars, TransactionRecord, FrameRecord
<1> QED BY <1>8, <1>10, <1>11, <1>12 DEF EvalInv

\* A frame is passed whose record is evaluated, or held by this evaluation.
LEMMA PassKept ==
  ASSUME LinkInv, EvalInv, Traverses, ~Top.entered, NEW t, t = Transaction, Pass(t),
         evaluationStatus[Module] = "evaluated" \/ Module \in t.active,
         UNCHANGED <<source, linkVars, bodyVars>>
  PROVE  EvalInv'
<1>1. PICK k : k = Len(transactions)
  OBVIOUS
<1>2. PICK d : d = Depth(t)
  OBVIOUS
<1>3. transactions # <<>> /\ ~t.running
  BY DEF Traverses, Evaluating
<1>4. /\ t \in TransactionRecord /\ TransactionInv(t) /\ d \in Nat \ {0} /\ d \in 1..d
      /\ Module = At(t, d) /\ Module \in Modules /\ Top = t.pending[d]
  BY <1>1, <1>2, <1>3, TopCall
<1>5. PICK s : s = [t EXCEPT !.pending = Front(@)]
  OBVIOUS
<1>6. /\ s.pending = Front(t.pending) /\ s.running = t.running
      /\ s.active = t.active /\ s.completed = t.completed
  BY <1>4, <1>5 DEF TransactionRecord
<1>7. s \in TransactionRecord
  <2>1. s.pending \in Seq(FrameRecord)
    BY <1>2, <1>4, <1>6, Popped
  <2> QED BY <1>4, <1>5, <1>6, <2>1 DEF TransactionRecord
<1>8. Traversal(s) /\ Holds(s) /\ Resolves(s, Evaluated)
  <2>1. ~Entered(t, d)
    BY <1>4 DEF Entered
  <2>2. At(t, d) \in Evaluated \/ At(t, d) \in t.active
    BY <1>4 DEF Evaluated
  <2>3. Depth(t) # 0 /\ ~s.running
    BY <1>2, <1>3, <1>4, <1>6
  <2> QED BY <1>2, <1>4, <1>6, <2>1, <2>2, <2>3, Passed DEF TransactionInv
<1>9. Proceed(s) /\ UNCHANGED outcomeVars
  BY <1>5 DEF Pass
<1> QED BY <1>3, <1>6, <1>7, <1>8, <1>9, QuietStep

LEMMA VisitRequestKept ==
  ASSUME LinkInv, EvalInv, VisitRequest
  PROVE  EvalInv'
<1>1. PICK k : k = Len(transactions)
  OBVIOUS
<1>2. PICK t : t = Transaction
  OBVIOUS
<1>3. PICK d : d = Depth(t)
  OBVIOUS
<1>4. transactions # <<>> /\ ~t.running /\ Traverses
  BY <1>2 DEF VisitRequest, Traverses, Evaluating
<1>5. /\ t \in TransactionRecord /\ TransactionInv(t) /\ d \in Nat \ {0} /\ d \in 1..d
      /\ Module = At(t, d) /\ Module \in Modules /\ Top = t.pending[d] /\ Visited(t, d) \in Nat
      /\ Top \in FrameRecord
  BY <1>1, <1>2, <1>3, <1>4, TopCall
<1>6. PICK v : v = Visited(t, d) + 1
  OBVIOUS
<1>7. PICK n : n = requested[At(t, d)][v]
  OBVIOUS
<1>8. PICK visited : visited = [t.pending[d] EXCEPT !.dependencyIndex = v]
  OBVIOUS
<1>9. PICK s : s = [t EXCEPT !.pending = Append(Append(Front(@), visited), Frame(n))]
  OBVIOUS
<1>10. /\ s.pending = Append(Append(Front(t.pending), visited), Frame(n))
       /\ s.running = t.running /\ s.active = t.active /\ s.completed = t.completed
  BY <1>5, <1>9 DEF TransactionRecord
<1>11. visited = [Top EXCEPT !.dependencyIndex = @ + 1] /\ visited.dependencyIndex = v
  BY <1>5, <1>6, <1>8 DEF Visited, FrameRecord
<1>12. Proceed(s) /\ UNCHANGED <<source, linkVars, outcomeVars, bodyVars>>
  BY <1>2, <1>5, <1>7, <1>9, <1>11 DEF VisitRequest
<1>13. /\ s.pending \in Seq(FrameRecord) /\ Depth(s) # 0
       /\ Traversal(s) /\ Holds(s) /\ Resolves(s, Evaluated)
  <2>1. Entered(t, d) /\ Visited(t, d) < Len(requested[At(t, d)])
    BY <1>3, <1>5 DEF VisitRequest, HasRequest, Entered, Visited, Depth
  <2>2. Depth(t) # 0 /\ ~s.running
    BY <1>3, <1>4, <1>5, <1>10
  <2>3. s.pending = Append(Append(Front(t.pending), [t.pending[d] EXCEPT !.dependencyIndex = v]),
                           Frame(n))
    BY <1>8, <1>10
  <2> QED BY <1>3, <1>5, <1>6, <1>7, <1>10, <2>1, <2>2, <2>3, RequestedFrame, ZenonT(30) DEF TransactionInv
<1>14. s \in TransactionRecord
  BY <1>5, <1>9, <1>10, <1>13 DEF TransactionRecord
<1> QED BY <1>2, <1>4, <1>10, <1>12, <1>13, <1>14, QuietStep

LEMMA EvaluateModuleKept ==
  ASSUME LinkInv, EvalInv, NEW m \in Modules, EvaluateModule(m)
  PROVE  EvalInv'
<1>1. PICK k : k = Len(transactions)
  OBVIOUS
<1>2. PICK s : s = NewTransaction(m)
  OBVIOUS
<1>3. /\ MayCall /\ m \in Linked /\ transactions' = Append(transactions, s)
      /\ UNCHANGED <<source, linkVars, outcomeVars, bodyVars>>
  BY <1>2 DEF EvaluateModule
<1>4. /\ EvalTypeOK /\ StackOfCalls /\ BodyInv /\ OutcomeInv /\ WaitInv
      /\ transactions \in Seq(TransactionRecord) /\ ~Linking /\ k \in Nat
  BY <1>1, <1>3, LenProperties DEF EvalInv, EvalTypeOK, MayCall
<1>5. PICK f : f = Frame(m)
  OBVIOUS
<1>6. /\ s.pending = <<f>> /\ s.active = {} /\ s.completed = {} /\ ~s.running
      /\ s \in TransactionRecord
  <2>1. f \in FrameRecord
    BY <1>5 DEF Frame, FrameRecord
  <2>2. <<f>> \in Seq(FrameRecord)
    BY <2>1
  <2> QED BY <1>2, <1>5, <2>2 DEF NewTransaction, TransactionRecord
<1>7. /\ Depth(s) = 1 /\ At(s, 1) = m /\ Visited(s, 1) = 0 /\ ~Entered(s, 1)
  BY <1>5, <1>6 DEF Depth, At, Visited, Entered, Frame
<1>8. Stays /\ ~Linking' /\ Evaluated' = Evaluated /\ Errored' = Errored /\ m \in Settled
  <2>1. Stays /\ ~Linking'
    BY <1>3, <1>4, EvaluationStays
  <2> QED BY <1>3, <1>4, <2>1 DEF Evaluated, Errored, Settled, outcomeVars
<1>9. TransactionInv(s)'
  <2>1. LinkTypeOK
    BY DEF LinkInv
  <2>2. \A j \in 1..Depth(s) : j = 1
    BY <1>7
  <2>3. Traversal(s)
    <3>1. 0 <= Len(requested[m])
      BY <2>1, GraphType
    <3>2. \A j \in 1..Depth(s) :
            /\ At(s, j) \in Settled /\ Visited(s, j) <= Len(requested[At(s, j)])
            /\ ~Entered(s, j) => Visited(s, j) = 0
            /\ ~(j < Depth(s))
      BY <1>7, <1>8, <2>2, <3>1
    <3>3. \A i, j \in 1..Depth(s) : ~(i < j)
      BY <1>7, <2>2
    <3> QED BY <1>6, <3>2, <3>3 DEF Traversal
  <2>4. Holds(s)
    BY <1>6, <1>7, <2>2 DEF Holds
  <2>5. Resolves(s, Evaluated)
    BY <1>6, <1>7, <2>2 DEF Resolves
  <2>6. InFlight(s)' /\ RunsTop(s)'
    BY <1>6 DEF InFlight, RunsTop
  <2> QED BY <1>8, <2>3, <2>4, <2>5, <2>6, TransactionKept
<1>10. PICK n \in Nat : n = k + 1
  BY <1>4
<1>11. /\ transactions' \in Seq(TransactionRecord) /\ Len(transactions') = n
       /\ transactions'[n] = s /\ \A i \in 1..k : transactions'[i] = transactions[i]
       /\ n \in 1..n /\ \A i \in 1..k : i \in 1..n /\ i < n
       /\ \A i \in 1..n : i = n \/ i \in 1..k
  BY <1>1, <1>3, <1>4, <1>6, <1>10, AppendProperties
<1>12. ASSUME NEW t \in Calls' PROVE TransactionInv(t)' /\ Depth(t)' # 0
  <2>1. t = s \/ t \in Calls
    BY <1>1, <1>11 DEF Calls
  <2>2. CASE t = s
    BY <1>7, <1>9, <2>2 DEF Depth
  <2>3. CASE t \in Calls
    <3>1. TransactionInv(t) /\ Depth(t) # 0
      BY <1>4, <2>3 DEF StackOfCalls
    <3>2. InFlight(t)' /\ RunsTop(t)'
      BY <1>3, <3>1 DEF TransactionInv, InFlight, RunsTop, At, Depth, outcomeVars, bodyVars
    <3> QED BY <1>8, <3>1, <3>2, TransactionKept DEF TransactionInv, Depth
  <2> QED BY <2>1, <2>2, <2>3
<1>13. \A i \in 1..k : transactions[i].running
  <2> TAKE i \in 1..k
  <2>1. i = k \/ i < k
    BY <1>4
  <2>2. CASE i < k
    BY <1>1, <1>4, <2>2 DEF StackOfCalls
  <2>3. CASE i = k
    <3>1. transactions # <<>>
      BY <1>1, <1>4, <2>3
    <3>2. Transaction = transactions[k]
      BY <1>1, <3>1, TopCall
    <3> QED BY <1>3, <2>3, <3>1, <3>2 DEF MayCall, RunsBody
  <2> QED BY <2>1, <2>2, <2>3
<1>14. \A i \in 1..n : i < n \/ Linking' => transactions'[i].running
  BY <1>8, <1>11, <1>13
<1>15. \A i, j \in 1..n : i # j => transactions'[i].active \cap transactions'[j].active = {}
  <2>1. \A i, j \in 1..k : i # j => transactions'[i].active \cap transactions'[j].active = {}
    BY <1>1, <1>4, <1>11 DEF StackOfCalls
  <2>2. transactions'[n].active = {}
    BY <1>6, <1>11
  <2> QED BY <1>11, <2>1, <2>2
<1>16. StackOfCalls'
  BY <1>11, <1>12, <1>14, <1>15 DEF StackOfCalls
<1>17. \A m0 : Held(m0)' <=> Held(m0)
  <2> TAKE m0
  <2>1. Held(m0)' <=> \E i \in 1..n : m0 \in transactions'[i].active
    BY <1>11 DEF Held
  <2>2. Held(m0) <=> \E i \in 1..k : m0 \in transactions[i].active
    BY <1>1 DEF Held
  <2> QED BY <1>6, <1>11, <2>1, <2>2
<1>18. OutcomeInv' /\ WaitInv'
  BY <1>3, <1>4, <1>8, <1>17, OutcomesKept
<1>19. BodyInv'
  <2>1. \A i \in 1..Len(transactions) : transactions[i].running =>
          \E j \in 1..Len(transactions') : transactions'[j] = transactions[i]
    BY <1>1, <1>11
  <2> QED BY <1>3, <1>4, <1>8, <1>17, <2>1, BodiesKept DEF bodyVars
<1>20. EvalTypeOK'
  BY <1>3, <1>4, <1>11 DEF EvalTypeOK, outcomeVars, bodyVars, TransactionRecord, FrameRecord
<1> QED BY <1>16, <1>18, <1>19, <1>20 DEF EvalInv

\* A record is entered.
LEMMA EnterUnevaluatedKept ==
  ASSUME LinkInv, EvalInv, Traverses, ~Top.entered, NEW t, t = Transaction,
         evaluationStatus[Module] = "unevaluated",
         evaluationStatus' = [evaluationStatus EXCEPT ![Module] = "evaluating"],
         Proceed([t EXCEPT !.pending = Append(Front(@), [Top EXCEPT !.entered = TRUE]),
                           !.active = @ \cup {Module}]),
         UNCHANGED <<evaluationCompletion, deferredDependents, waited>>,
         UNCHANGED <<source, linkVars, bodyVars>>
  PROVE  EvalInv'
<1>1. PICK k : k = Len(transactions)
  OBVIOUS
<1>2. PICK d : d = Depth(t)
  OBVIOUS
<1>3. /\ transactions # <<>> /\ ~t.running /\ ~Linking /\ EvalTypeOK
      /\ StackOfCalls /\ BodyInv /\ OutcomeInv /\ WaitInv
  BY DEF Traverses, Evaluating, EvalInv
<1>4. /\ t \in TransactionRecord /\ TransactionInv(t) /\ d \in Nat \ {0} /\ d \in 1..d
      /\ Module = At(t, d) /\ Module \in Modules /\ Top = t.pending[d]
      /\ k \in 1..k /\ t = transactions[k] /\ t.active \subseteq Modules
      /\ \A i \in 1..(k - 1) : i \in 1..k /\ i # k
      /\ \A i \in 1..k : i = k \/ i \in 1..(k - 1)
  BY <1>1, <1>2, <1>3, TopCall
<1>5. PICK c \in Modules : c = Module
  BY <1>4
<1>6. PICK s : s = [t EXCEPT !.pending = Append(Front(@), [Top EXCEPT !.entered = TRUE]),
                             !.active = @ \cup {Module}]
  OBVIOUS
<1>7. /\ s.pending = Append(Front(t.pending), [t.pending[d] EXCEPT !.entered = TRUE])
      /\ s.running = t.running /\ s.active = t.active \cup {c} /\ s.completed = t.completed
  BY <1>4, <1>5, <1>6 DEF TransactionRecord
<1>8. /\ Stays /\ ~Linking' /\ Evaluated' = Evaluated /\ Errored' = Errored
      /\ evaluationStatus[c] = "unevaluated"
      /\ \A m \in Modules : m # c => evaluationStatus'[m] = evaluationStatus[m]
      /\ evaluationStatus'[c] = "evaluating"
  <2>1. Stays /\ ~Linking'
    BY <1>3, EvaluationStays
  <2> QED BY <1>3, <1>5, <2>1 DEF Evaluated, Errored, EvalTypeOK
<1>9. c \notin t.active
  BY <1>4, <1>8 DEF TransactionInv, InFlight
<1>10. /\ s.pending \in Seq(FrameRecord) /\ Depth(s) # 0
       /\ Traversal(s) /\ Holds(s) /\ Resolves(s, Evaluated)
  <2>1. ~Entered(t, d) /\ Depth(t) # 0 /\ ~s.running /\ c = At(t, d)
    BY <1>2, <1>3, <1>4, <1>5, <1>7 DEF Entered
  <2> QED BY <1>2, <1>4, <1>7, <1>9, <2>1, EnteredFrame DEF TransactionInv
<1>11. s \in TransactionRecord
  BY <1>4, <1>5, <1>6, <1>7, <1>10 DEF TransactionRecord
<1>12. TransactionInv(s)'
  <2>1. InFlight(s)'
    BY <1>4, <1>7, <1>8 DEF TransactionInv, InFlight
  <2>2. RunsTop(s)'
    BY <1>3, <1>7 DEF RunsTop
  <2> QED BY <1>8, <1>10, <2>1, <2>2, TransactionKept
<1>13. \A i \in 1..(k - 1) : \A x : x = transactions[i] => TransactionInv(x)'
  BY <1>1, <1>3, <1>8, OthersKept DEF bodyVars
<1>14. ASSUME NEW i \in 1..(k - 1) PROVE s.active \cap transactions[i].active = {}
  <2>1. transactions[i] \in Calls /\ t.active \cap transactions[i].active = {}
    BY <1>1, <1>3, <1>4 DEF StackOfCalls, Calls
  <2>2. c \notin transactions[i].active
    BY <1>3, <1>8, <2>1 DEF StackOfCalls, TransactionInv, InFlight
  <2> QED BY <1>7, <2>1, <2>2
<1>15. /\ transactions' \in Seq(TransactionRecord) /\ StackOfCalls'
       /\ \A i \in 1..(k - 1) : i \in 1..Len(transactions') /\ transactions'[i] = transactions[i]
       /\ \A m : Held(m)' <=> m \in s.active \/ \E i \in 1..(k - 1) : m \in transactions[i].active
  <2>1. Proceed(s)
    BY <1>6
  <2> QED BY <1>1, <1>3, <1>8, <1>11, <1>12, <1>13, <1>14, <2>1, Proceeded
<1>16. \A m : Held(m)' <=> m = c \/ Held(m)
  BY <1>1, <1>4, <1>7, <1>15 DEF Held
<1>17. /\ \A m, n : Reaches(m, n)' <=> Reaches(m, n)
       /\ \A m : Requests(m)' = Requests(m) /\ Component(m)' = Component(m)
       /\ Settled \subseteq Settled'
  BY <1>8, SameGraph DEF Stays
<1>18. OutcomeInv'
  <2>1. \A m \in Modules : evaluationStatus'[m] = "evaluating" => Held(m)'
    BY <1>3, <1>8, <1>16 DEF OutcomeInv
  <2>2. \A m \in Evaluated' : m \in Settled' /\ Requests(m)' \subseteq Evaluated'
    BY <1>3, <1>8, <1>17 DEF OutcomeInv
  <2>3. \A m \in Errored : m # c
    BY <1>8 DEF Errored
  <2>4. ASSUME NEW m \in Errored'
        PROVE  /\ m \in Settled' /\ Component(m)' \subseteq Errored'
               /\ deferredDependents'[m] = {}
               /\ \E e \in Errored' : e = evaluationCompletion'[m] /\ ~Held(e)' /\ Reaches(m, e)'
    <3>1. PICK e \in Errored : e = evaluationCompletion[m] /\ ~Held(e) /\ Reaches(m, e)
      BY <1>3, <1>8, <2>4 DEF OutcomeInv
    <3>2. ~Held(e)' /\ Reaches(m, e)'
      BY <1>16, <1>17, <2>3, <3>1
    <3>3. evaluationCompletion'[m] = e /\ deferredDependents'[m] = {}
      BY <1>3, <1>8, <2>4, <3>1 DEF OutcomeInv
    <3>4. m \in Settled' /\ Component(m)' \subseteq Errored'
      BY <1>3, <1>8, <1>17, <2>4 DEF OutcomeInv
    <3> QED BY <1>8, <3>1, <3>2, <3>3, <3>4
  <2> QED BY <2>1, <2>2, <2>4 DEF OutcomeInv
<1>19. WaitInv'
  BY <1>3, <1>8, <1>17 DEF WaitInv
<1>20. BodyInv'
  <2>1. \A i \in 1..Len(transactions) : transactions[i].running =>
          \E j \in 1..Len(transactions') : transactions'[j] = transactions[i]
    BY <1>1, <1>3, <1>4, <1>15
  <2>2. ASSUME NEW m \in bodiesStarted' \ evaluationBodyCompleted'
        PROVE  \/ \E i \in 1..Len(transactions') :
                    transactions'[i].running /\ m = At(transactions'[i], Depth(transactions'[i]))
               \/ m \in Errored' /\ ~Held(m)'
    <3>1. \/ \E i \in 1..Len(transactions) :
               transactions[i].running /\ m = At(transactions[i], Depth(transactions[i]))
          \/ m \in Errored /\ ~Held(m)
      BY <1>3, <2>2 DEF BodyInv, bodyVars
    <3>2. m \in Errored => m # c
      BY <1>8 DEF Errored
    <3> QED BY <1>8, <1>16, <2>1, <3>1, <3>2
  <2> QED BY <1>3, <1>8, <1>17, <2>2 DEF BodyInv, bodyVars, At, Depth
<1>21. EvalTypeOK'
  <2>1. evaluationStatus' \in [Modules -> {"unevaluated", "evaluating", "evaluated", "errored"}]
    BY <1>3, <1>5 DEF EvalTypeOK
  <2>2. /\ evaluationCompletion' \in [Modules -> Modules \cup {NoModule}]
        /\ deferredDependents' \in [Modules -> SUBSET Modules]
        /\ waited' \in SUBSET (Modules \X Modules) /\ hostErrors' \in 0..MaxHostErrors
    BY <1>3 DEF EvalTypeOK, bodyVars
  <2> QED BY <1>15, <2>1, <2>2 DEF EvalTypeOK, TransactionRecord, FrameRecord
<1> QED BY <1>15, <1>18, <1>19, <1>20, <1>21 DEF EvalInv

LEMMA StartBodyKept ==
  ASSUME LinkInv, EvalInv, StartBody
  PROVE  EvalInv'
<1>1. PICK k : k = Len(transactions)
  OBVIOUS
<1>2. PICK t : t = Transaction
  OBVIOUS
<1>3. PICK d : d = Depth(t)
  OBVIOUS
<1>4. /\ transactions # <<>> /\ ~t.running /\ ~Linking /\ EvalTypeOK
      /\ StackOfCalls /\ BodyInv /\ OutcomeInv /\ WaitInv
      /\ Top.entered /\ ~HasRequest /\ ~HasRun(Module)
      /\ UNCHANGED <<source, linkVars, outcomeVars, evaluationBodyCompleted, hostErrors>>
  BY <1>2 DEF StartBody, Traverses, Evaluating, EvalInv
<1>5. /\ t \in TransactionRecord /\ TransactionInv(t) /\ d \in Nat \ {0} /\ d \in 1..d
      /\ Module = At(t, d) /\ Module \in Modules /\ Module \in Settled /\ Top = t.pending[d]
      /\ k \in 1..k /\ t = transactions[k] /\ t.active \subseteq Modules /\ Visited(t, d) \in Nat
      /\ \A i \in 1..(k - 1) : i \in 1..k /\ i # k
      /\ \A i \in 1..k : i = k \/ i \in 1..(k - 1)
  BY <1>1, <1>2, <1>3, <1>4, TopCall
<1>6. PICK c \in Modules : c = Module
  BY <1>5
<1>7. /\ Entered(t, d) /\ Visited(t, d) = Len(requested[c]) /\ c = At(t, d) /\ c \in t.active
  <2>1. Entered(t, d) /\ c = At(t, d)
    BY <1>3, <1>4, <1>5, <1>6 DEF Entered, Depth
  <2>2. Visited(t, d) <= Len(requested[c]) /\ Len(requested[c]) \in Nat
    <3>1. Len(requested[c]) \in Nat
      BY <1>6, GraphType DEF LinkInv
    <3> QED BY <1>3, <1>5, <2>1, <3>1 DEF TransactionInv, Traversal
  <2>3. ~(Visited(t, d) < Len(requested[c]))
    BY <1>4, <1>5, <1>6 DEF HasRequest, Visited
  <2> QED BY <1>3, <1>5, <2>1, <2>2, <2>3 DEF TransactionInv, Holds
<1>8. PICK s : s = [t EXCEPT !.running = TRUE]
  OBVIOUS
<1>9. /\ s \in TransactionRecord /\ s.pending = t.pending /\ s.running
      /\ s.active = t.active /\ s.completed = t.completed
  BY <1>5, <1>8 DEF TransactionRecord
<1>10. c \notin bodiesStarted
  <2> SUFFICES ASSUME c \in bodiesStarted PROVE FALSE
    OBVIOUS
  <2>1. c \in bodiesStarted \ evaluationBodyCompleted
    BY <1>4, <1>6 DEF HasRun
  <2>2. Held(c)
    BY <1>1, <1>5, <1>7 DEF Held
  <2>3. PICK i \in 1..k :
          transactions[i].running /\ c = At(transactions[i], Depth(transactions[i]))
    BY <1>1, <1>4, <2>1, <2>2 DEF BodyInv
  <2>4. PICK x : x = transactions[i]
    OBVIOUS
  <2>5. x \in Calls /\ x.running /\ c = At(x, Depth(x)) /\ i # k
    BY <1>1, <1>4, <1>5, <2>3, <2>4 DEF Calls
  <2>6. c \in x.active
    <3>1. transactions \in Seq(TransactionRecord) /\ i \in 1..Len(transactions)
      BY <1>1, <1>4 DEF EvalTypeOK
    <3>2. x \in TransactionRecord
      BY <2>4, <3>1, ElementOfSeq
    <3>3. TransactionInv(x) /\ Depth(x) # 0
      BY <1>4, <2>5 DEF StackOfCalls
    <3>4. Depth(x) \in 1..Depth(x)
      BY <3>2, <3>3, CallType
    <3> QED BY <2>5, <3>3, <3>4 DEF TransactionInv, Traversal, Holds
  <2> QED BY <1>1, <1>4, <1>5, <1>7, <2>4, <2>5, <2>6 DEF StackOfCalls
<1>11. /\ bodiesStarted' = bodiesStarted \cup {c} /\ repeated' = {}
       /\ UNCHANGED evaluationBodyCompleted /\ c \notin evaluationBodyCompleted
  BY <1>4, <1>6, <1>10 DEF StartBody, BodyInv, HasRun
<1>12. Stays /\ ~Linking' /\ Evaluated' = Evaluated
  <2>1. Stays /\ ~Linking'
    BY <1>4, EvaluationStays
  <2> QED BY <1>4, <2>1 DEF Evaluated, outcomeVars
<1>13. \A j : At(s, j) = At(t, j) /\ Visited(s, j) = Visited(t, j) /\ (Entered(s, j) <=> Entered(t, j))
  BY <1>9 DEF At, Visited, Entered
<1>14. Depth(s) = d
  BY <1>3, <1>9 DEF Depth
<1>15. Traversal(s) /\ Holds(s) /\ Resolves(s, Evaluated)
  <2>1. Traversal(s)
    BY <1>3, <1>5, <1>7, <1>13, <1>14 DEF TransactionInv, Traversal
  <2>2. Holds(s)
    BY <1>3, <1>5, <1>9, <1>13, <1>14 DEF TransactionInv, Holds
  <2>3. \A m, n : Resolved(s, Evaluated, m, n) <=> Resolved(t, Evaluated, m, n)
    BY <1>9 DEF Resolved
  <2>4. Resolves(s, Evaluated)
    BY <1>3, <1>5, <1>9, <1>13, <1>14, <2>3 DEF TransactionInv, Resolves
  <2> QED BY <2>1, <2>2, <2>4
<1>16. TransactionInv(s)'
  <2>1. InFlight(s)'
    BY <1>4, <1>5, <1>9 DEF TransactionInv, InFlight, outcomeVars
  <2>2. At(s, Depth(s)) \in bodiesStarted' \ evaluationBodyCompleted'
    BY <1>7, <1>11, <1>13, <1>14
  <2>3. RunsTop(s)'
    BY <2>2 DEF RunsTop, At, Depth
  <2> QED BY <1>12, <1>15, <2>1, <2>3, TransactionKept
<1>17. \A i \in 1..(k - 1) : \A x : x = transactions[i] => TransactionInv(x)'
  BY <1>1, <1>2, <1>4, <1>11, <1>12, OthersKept DEF outcomeVars
<1>18. \A i \in 1..(k - 1) : s.active \cap transactions[i].active = {}
  BY <1>1, <1>4, <1>5, <1>9 DEF StackOfCalls
<1>19. /\ transactions' \in Seq(TransactionRecord) /\ StackOfCalls'
       /\ \A i \in 1..(k - 1) : i \in 1..Len(transactions') /\ transactions'[i] = transactions[i]
       /\ k \in 1..Len(transactions') /\ transactions'[k] = s
       /\ \A m : Held(m)' <=> m \in s.active \/ \E i \in 1..(k - 1) : m \in transactions[i].active
  <2>1. Proceed(s)
    BY <1>2, <1>8 DEF StartBody
  <2>2. s.pending # <<>>
    BY <1>3, <1>5, <1>9, CallType
  <2> QED BY <1>1, <1>4, <1>9, <1>12, <1>16, <1>17, <1>18, <2>1, <2>2, Proceeded, SMTT(30)
<1>20. \A m : Held(m)' <=> Held(m)
  BY <1>1, <1>5, <1>9, <1>19 DEF Held
<1>21. OutcomeInv' /\ WaitInv' /\ Errored' = Errored
  BY <1>4, <1>12, <1>20, OutcomesKept
<1>22. BodyInv'
  <2>1. c = At(transactions'[k], Depth(transactions'[k])) /\ transactions'[k].running
    BY <1>7, <1>9, <1>13, <1>14, <1>19
  <2>2. ASSUME NEW m \in bodiesStarted' \ evaluationBodyCompleted'
        PROVE  \/ \E i \in 1..Len(transactions') :
                    transactions'[i].running /\ m = At(transactions'[i], Depth(transactions'[i]))
               \/ m \in Errored' /\ ~Held(m)'
    <3>1. CASE m = c
      BY <1>19, <2>1, <3>1
    <3>2. CASE m # c
      <4>1. m \in bodiesStarted \ evaluationBodyCompleted
        BY <1>11, <2>2, <3>2
      <4>2. \/ \E i \in 1..k :
                 transactions[i].running /\ m = At(transactions[i], Depth(transactions[i]))
            \/ m \in Errored /\ ~Held(m)
        BY <1>1, <1>4, <4>1 DEF BodyInv
      <4>3. ASSUME NEW i \in 1..k, transactions[i].running,
                   m = At(transactions[i], Depth(transactions[i]))
            PROVE  \E j \in 1..Len(transactions') :
                     transactions'[j].running /\ m = At(transactions'[j], Depth(transactions'[j]))
        <5>1. i \in 1..(k - 1)
          BY <1>4, <1>5, <4>3
        <5> QED BY <1>19, <4>3, <5>1
      <4> QED BY <1>20, <1>21, <4>2, <4>3
    <3> QED BY <3>1, <3>2
  <2>3. c \in Settled' /\ bodiesStarted \subseteq Settled' /\ evaluationBodyCompleted \subseteq bodiesStarted
    BY <1>4, <1>5, <1>6, <1>12 DEF BodyInv, Stays
  <2> QED BY <1>11, <2>2, <2>3 DEF BodyInv, At, Depth
<1>23. EvalTypeOK'
  BY <1>4, <1>19 DEF EvalTypeOK, outcomeVars, TransactionRecord, FrameRecord
<1> QED BY <1>19, <1>21, <1>22, <1>23 DEF EvalInv

\* What completing the record on top does: nothing to others, or the whole component is
\* evaluated.
LEMMA CompleteEffect ==
  ASSUME LinkInv, EvalInv, transactions # <<>>, Complete, NEW t, t = Transaction,
         NEW d, d = Depth(t), Entered(t, d), Visited(t, d) = Len(requested[Module])
  PROVE  \E C \in {{}, Members(Module)}, s \in TransactionRecord :
           /\ C \subseteq t.active /\ C \cap Errored = {}
           /\ \A m \in C : Requests(m) \subseteq Evaluated \cup C
           /\ evaluationStatus' =
                [m \in Modules |-> IF m \in C THEN "evaluated" ELSE evaluationStatus[m]]
           /\ deferredDependents' = [m \in Modules |-> IF m \in C THEN {} ELSE deferredDependents[m]]
           /\ UNCHANGED <<evaluationCompletion, waited>>
           /\ Proceed(s) /\ ~s.running /\ s.active = t.active \ C
           /\ Traversal(s) /\ Holds(s) /\ Resolves(s, Evaluated \cup C)
<1>1. PICK k : k = Len(transactions)
  OBVIOUS
<1>2. PICK c : c = Module
  OBVIOUS
<1>3. /\ t \in TransactionRecord /\ TransactionInv(t) /\ d \in Nat \ {0} /\ c = At(t, d)
      /\ k \in 1..k /\ t = transactions[k] /\ t.active \subseteq Modules
      /\ t.completed \subseteq Modules /\ OutcomeInv /\ c \in Modules
  BY <1>1, <1>2, TopCall DEF EvalInv
<1>4. Finishing(t, d, c) /\ InFlight(t)
  BY <1>2, <1>3 DEF Finishing, TransactionInv
<1>5. PICK C : C = IF Members(c) \subseteq t.completed \cup {c} THEN Members(c) ELSE {}
  OBVIOUS
<1>6. PICK s : s = [t EXCEPT !.pending = Front(@), !.running = FALSE,
                             !.active = @ \ C, !.completed = (t.completed \cup {c}) \ C]
  OBVIOUS
<1>7. /\ s.pending = Front(t.pending) /\ s.running = FALSE
      /\ s.active = t.active \ C /\ s.completed = (t.completed \cup {c}) \ C
  BY <1>3, <1>6 DEF TransactionRecord
<1>8. /\ evaluationStatus' =
            [m \in Modules |-> IF m \in C THEN "evaluated" ELSE evaluationStatus[m]]
      /\ deferredDependents' = [m \in Modules |-> IF m \in C THEN {} ELSE deferredDependents[m]]
      /\ UNCHANGED <<evaluationCompletion, waited>> /\ Proceed(s)
  BY <1>2, <1>5, <1>6 DEF Complete
<1>9. s \in TransactionRecord
  <2>1. s.pending \in Seq(FrameRecord)
    BY <1>3, <1>4, <1>7, Popped DEF Finishing
  <2> QED BY <1>3, <1>6, <1>7, <2>1 DEF TransactionRecord
<1>10. CASE Members(c) \subseteq t.completed \cup {c}
  <2>1. /\ s.active = t.active \ Members(c) /\ s.completed = (t.completed \cup {c}) \ Members(c)
        /\ ~s.running /\ s.pending = Front(t.pending) /\ C = Members(c)
    BY <1>5, <1>7, <1>10
  <2>2. /\ Traversal(s) /\ Holds(s) /\ Resolves(s, Evaluated \cup C)
        /\ C \subseteq t.active
        /\ \A m \in C : Requests(m) \subseteq Evaluated \cup C
    BY <1>3, <1>4, <1>10, <2>1, CommittedKept
  <2>3. C \cap Errored = {}
    <3>1. \A m \in C : Held(m)
      BY <1>1, <1>3, <2>2 DEF Held
    <3>2. C \in SUBSET Modules
      BY <1>3, <2>2
    <3> QED BY <1>3, <2>2, <3>1, <3>2, NoneErrored
  <2> QED BY <1>2, <1>7, <1>8, <1>9, <2>1, <2>2, <2>3
<1>11. CASE ~(Members(c) \subseteq t.completed \cup {c})
  <2>1. /\ s.active = t.active /\ s.completed = t.completed \cup {c}
        /\ ~s.running /\ s.pending = Front(t.pending) /\ C = {}
    BY <1>5, <1>7, <1>11
  <2>2. Traversal(s) /\ Holds(s) /\ Resolves(s, Evaluated)
    BY <1>3, <1>4, <1>11, <2>1, CompletedKept
  <2>3. Resolves(s, Evaluated \cup C)
    <3>1. Evaluated \cup C = Evaluated
      BY <2>1
    <3> QED BY <2>2, <3>1
  <2> QED BY <1>2, <1>7, <1>8, <1>9, <2>1, <2>2, <2>3
<1> QED BY <1>10, <1>11

LEMMA CompleteKept ==
  ASSUME LinkInv, EvalInv, Evaluating, Complete, NEW t, t = Transaction,
         NEW d, d = Depth(t), Entered(t, d), Visited(t, d) = Len(requested[Module]),
         UNCHANGED <<source, linkVars, bodiesStarted, repeated, hostErrors>>,
         t.running => evaluationBodyCompleted' = evaluationBodyCompleted \cup {Module},
         ~t.running => evaluationBodyCompleted' = evaluationBodyCompleted
  PROVE  EvalInv'
<1>1. PICK k : k = Len(transactions)
  OBVIOUS
<1>2. PICK c : c = Module
  OBVIOUS
<1>3. transactions # <<>> /\ ~Linking
  BY DEF Evaluating
<1>4. /\ t \in TransactionRecord /\ TransactionInv(t) /\ d \in Nat \ {0} /\ c = At(t, d)
      /\ k \in 1..k /\ t = transactions[k] /\ t.active \subseteq Modules /\ c \in Modules
      /\ \A i \in 1..(k - 1) : i \in 1..k /\ i # k
      /\ \A i \in 1..k : i = k \/ i \in 1..(k - 1)
      /\ EvalTypeOK /\ StackOfCalls /\ BodyInv /\ OutcomeInv /\ WaitInv
  BY <1>1, <1>2, <1>3, TopCall DEF EvalInv
<1>5. PICK C \in {{}, Members(Module)}, s \in TransactionRecord :
        /\ C \subseteq t.active /\ C \cap Errored = {}
        /\ \A m \in C : Requests(m) \subseteq Evaluated \cup C
        /\ evaluationStatus' =
             [m \in Modules |-> IF m \in C THEN "evaluated" ELSE evaluationStatus[m]]
        /\ deferredDependents' = [m \in Modules |-> IF m \in C THEN {} ELSE deferredDependents[m]]
        /\ UNCHANGED <<evaluationCompletion, waited>>
        /\ Proceed(s) /\ ~s.running /\ s.active = t.active \ C
        /\ Traversal(s) /\ Holds(s) /\ Resolves(s, Evaluated \cup C)
  BY <1>3, CompleteEffect
<1>6. /\ \A m \in C : evaluationStatus'[m] = "evaluated" /\ deferredDependents'[m] = {}
      /\ \A m \in Modules : m \notin C => /\ evaluationStatus'[m] = evaluationStatus[m]
                                          /\ deferredDependents'[m] = deferredDependents[m]
  BY <1>4, <1>5
<1>7. Evaluated' = Evaluated \cup C /\ Errored' = Errored
  BY <1>4, <1>5, <1>6 DEF Evaluated, Errored
<1>8. Stays /\ ~Linking'
  BY <1>3, EvaluationStays
<1>9. TransactionInv(s)'
  <2>1. InFlight(s)'
    BY <1>4, <1>5, <1>6 DEF TransactionInv, InFlight
  <2>2. RunsTop(s)'
    BY <1>5 DEF RunsTop
  <2> QED BY <1>5, <1>7, <1>8, <2>1, <2>2, TransactionKept
<1>10. t.running => c \in bodiesStarted \ evaluationBodyCompleted
  BY <1>4 DEF TransactionInv, RunsTop
<1>11. \A i \in 1..(k - 1) : \A x : x = transactions[i] => TransactionInv(x)'
  <2>1. \A m \in Modules \ t.active : evaluationStatus'[m] = evaluationStatus[m]
    BY <1>5, <1>6
  <2>2. \A m \in bodiesStarted \ evaluationBodyCompleted :
          (t.running => m # Module) => m \in bodiesStarted' \ evaluationBodyCompleted'
    OBVIOUS
  <2>3. Evaluated \subseteq Evaluated'
    BY <1>7
  <2> QED BY <1>1, <1>3, <1>8, <2>1, <2>2, <2>3, OthersKept
<1>12. \A i \in 1..(k - 1) : t.active \cap transactions[i].active = {}
  BY <1>1, <1>4 DEF StackOfCalls
<1>13. /\ transactions' \in Seq(TransactionRecord) /\ StackOfCalls'
       /\ \A i \in 1..(k - 1) : i \in 1..Len(transactions') /\ transactions'[i] = transactions[i]
       /\ \A m : Held(m)' <=> m \in s.active \/ \E i \in 1..(k - 1) : m \in transactions[i].active
  <2>1. \A i \in 1..(k - 1) : s.active \cap transactions[i].active = {}
    BY <1>5, <1>12
  <2> QED BY <1>1, <1>3, <1>5, <1>8, <1>9, <1>11, <2>1, Proceeded
<1>14. \A m : Held(m)' <=> Held(m) /\ m \notin C
  <2> TAKE m
  <2>1. Held(m) <=> m \in t.active \/ \E i \in 1..(k - 1) : m \in transactions[i].active
    BY <1>1, <1>4 DEF Held
  <2>2. \A i \in 1..(k - 1) : m \in C => m \notin transactions[i].active
    BY <1>5, <1>12
  <2> QED BY <1>5, <1>13, <2>1, <2>2
<1>15. /\ \A m, n : Reaches(m, n)' <=> Reaches(m, n)
       /\ \A m : Requests(m)' = Requests(m) /\ Component(m)' = Component(m)
       /\ Settled \subseteq Settled'
  BY <1>8, SameGraph DEF Stays
<1>16. OutcomeInv'
  <2>1. \A m \in Modules : evaluationStatus'[m] = "evaluating" => Held(m)'
    BY <1>4, <1>6, <1>14 DEF OutcomeInv
  <2>2. ASSUME NEW m \in Evaluated' PROVE m \in Settled' /\ Requests(m)' \subseteq Evaluated'
    <3>1. CASE m \in C
      BY <1>4, <1>5, <1>7, <1>15, <3>1 DEF TransactionInv, Holds
    <3>2. CASE m \in Evaluated
      BY <1>4, <1>7, <1>15, <3>2 DEF OutcomeInv
    <3> QED BY <1>7, <2>2, <3>1, <3>2
  <2>3. ASSUME NEW m \in Errored'
        PROVE  /\ m \in Settled' /\ Component(m)' \subseteq Errored'
               /\ deferredDependents'[m] = {}
               /\ \E e \in Errored' : e = evaluationCompletion'[m] /\ ~Held(e)' /\ Reaches(m, e)'
    <3>1. m \in Errored /\ m \in Modules /\ m \notin C
      BY <1>5, <1>7, <2>3 DEF Errored
    <3>2. PICK e \in Errored : e = evaluationCompletion[m] /\ ~Held(e) /\ Reaches(m, e)
      BY <1>4, <3>1 DEF OutcomeInv
    <3>3. ~Held(e)' /\ Reaches(m, e)' /\ evaluationCompletion'[m] = e
      BY <1>5, <1>14, <1>15, <3>2
    <3>4. m \in Settled' /\ Component(m)' \subseteq Errored' /\ deferredDependents'[m] = {}
      BY <1>4, <1>6, <1>7, <1>15, <3>1 DEF OutcomeInv
    <3> QED BY <1>7, <3>2, <3>3, <3>4
  <2> QED BY <2>1, <2>2, <2>3 DEF OutcomeInv
<1>17. WaitInv'
  <2>1. \A x \in Modules : \A w \in deferredDependents'[x] : w \in Settled' /\ Reaches(w, x)'
    BY <1>4, <1>6, <1>15 DEF WaitInv
  <2>2. ASSUME NEW wait \in waited'
        PROVE  \/ wait[2] \in Evaluated'
               \/ wait[2] \in Errored' /\ Component(wait[1])' \subseteq Errored'
               \/ wait[1] \in deferredDependents'[wait[2]]
    <3>1. /\ wait \in waited /\ wait[2] \in Modules
      BY <1>4, <1>5, <2>2 DEF EvalTypeOK
    <3>2. \/ wait[2] \in Evaluated
          \/ wait[2] \in Errored /\ Component(wait[1]) \subseteq Errored
          \/ wait[1] \in deferredDependents[wait[2]]
      BY <1>4, <3>1 DEF WaitInv
    <3> QED BY <1>6, <1>7, <1>15, <3>1, <3>2
  <2>3. \A wait \in waited' : \A n : n = wait[1] => Component(n)' = Component(n)
    BY <1>15
  <2> QED BY <2>1, <2>2, <2>3 DEF WaitInv, Component
<1>18. BodyInv'
  <2>1. ASSUME NEW m \in bodiesStarted' \ evaluationBodyCompleted'
        PROVE  \/ \E i \in 1..Len(transactions') :
                    transactions'[i].running /\ m = At(transactions'[i], Depth(transactions'[i]))
               \/ m \in Errored' /\ ~Held(m)'
    <3>1. m \in bodiesStarted \ evaluationBodyCompleted /\ (t.running => m # c)
      BY <1>2, <2>1
    <3>2. \/ \E i \in 1..k :
               transactions[i].running /\ m = At(transactions[i], Depth(transactions[i]))
          \/ m \in Errored /\ ~Held(m)
      BY <1>1, <1>4, <3>1 DEF BodyInv
    <3>3. ASSUME NEW i \in 1..k, transactions[i].running,
                 m = At(transactions[i], Depth(transactions[i]))
          PROVE  \E j \in 1..Len(transactions') :
                   transactions'[j].running /\ m = At(transactions'[j], Depth(transactions'[j]))
      <4>1. i # k
        BY <1>4, <3>1, <3>3
      <4>2. i \in 1..(k - 1)
        BY <1>4, <4>1
      <4> QED BY <1>13, <3>3, <4>2
    <3> QED BY <1>7, <1>14, <3>2, <3>3
  <2>2. /\ repeated' = {} /\ evaluationBodyCompleted' \subseteq bodiesStarted'
        /\ bodiesStarted' \subseteq Settled'
    BY <1>2, <1>4, <1>10, <1>15 DEF BodyInv
  <2> QED BY <2>1, <2>2 DEF BodyInv, At, Depth
<1>19. EvalTypeOK'
  <2>1. evaluationStatus' \in [Modules -> {"unevaluated", "evaluating", "evaluated", "errored"}]
    BY <1>4, <1>5 DEF EvalTypeOK
  <2>2. deferredDependents' \in [Modules -> SUBSET Modules]
    BY <1>4, <1>5 DEF EvalTypeOK
  <2>3. /\ evaluationCompletion' \in [Modules -> Modules \cup {NoModule}]
        /\ waited' \in SUBSET (Modules \X Modules) /\ hostErrors' \in 0..MaxHostErrors
    BY <1>4, <1>5 DEF EvalTypeOK
  <2> QED BY <1>13, <2>1, <2>2, <2>3 DEF EvalTypeOK, TransactionRecord, FrameRecord
<1> QED BY <1>13, <1>16, <1>17, <1>18, <1>19 DEF EvalInv

\* A step that throws, the module whose body threw, and why it does.
Throws(t, thrower) ==
  /\ Throw(thrower)
  /\ \/ t.running /\ thrower = Module
     \/ ~t.running /\ Module \in Errored /\ thrower = evaluationCompletion[Module]

\* Whole components fail that depend on the thrower; with them whoever waits for one.
LEMMA ThrowEffect ==
  ASSUME LinkInv, EvalInv, transactions # <<>>, NEW t, t = Transaction,
         NEW thrower, Throws(t, thrower)
  PROVE  \E U \in SUBSET Modules :
           /\ U \subseteq Settled /\ U \cap Evaluated = {} /\ U \cap Errored = {}
           /\ t.active \subseteq U \cup Errored /\ thrower \in U \cup Errored
           /\ \A m \in U : Component(m) \subseteq U /\ Reaches(m, thrower)
           /\ thrower \in t.active \/ ~Held(thrower)
           /\ evaluationStatus' = [m \in Modules |-> IF m \in U THEN "errored" ELSE evaluationStatus[m]]
           /\ evaluationCompletion' =
                [m \in Modules |-> IF m \in U THEN thrower ELSE evaluationCompletion[m]]
           /\ deferredDependents' \in [Modules -> SUBSET Modules]
           /\ \A m \in U : deferredDependents'[m] = {}
           /\ \A m \in Modules : deferredDependents'[m] \in {deferredDependents[m], {}}
           /\ \A x \in Modules : \A w \in deferredDependents[x] :
                \/ x \in Evaluated
                \/ x \in U \cup Errored /\ Component(w) \subseteq U \cup Errored
                \/ w \in deferredDependents'[x]
           /\ Return /\ UNCHANGED waited
<1>1. PICK k : k = Len(transactions)
  OBVIOUS
<1>2. PICK c : c = Module
  OBVIOUS
<1>3. PICK d : d = Depth(t)
  OBVIOUS
<1>4. /\ t \in TransactionRecord /\ TransactionInv(t) /\ k \in 1..k /\ t = transactions[k]
      /\ c \in Modules /\ t.active \subseteq Modules /\ d \in 1..d /\ c = At(t, d)
      /\ EvalTypeOK /\ OutcomeInv /\ WaitInv /\ LinkTypeOK
  BY <1>1, <1>2, <1>3, TopCall DEF EvalInv, LinkInv
<1>5. PICK K : K = Cascade
  OBVIOUS
<1>6. /\ K \subseteq Settled /\ t.active \subseteq K
      /\ \A m \in K : Component(m) \subseteq K /\ Reaches(m, c)
      /\ \A m \in K : \A x \in deferredDependents[m] : Component(x) \subseteq K
  BY <1>2, <1>5, CascadeFacts
<1>7. PICK U : U = {m \in K : evaluationStatus[m] \in {"unevaluated", "evaluating"}}
  OBVIOUS
<1>8. /\ evaluationStatus' = [m \in Modules |-> IF m \in U THEN "errored" ELSE evaluationStatus[m]]
      /\ evaluationCompletion' =
           [m \in Modules |-> IF m \in U THEN thrower ELSE evaluationCompletion[m]]
      /\ deferredDependents' = [m \in Modules |-> IF m \in K THEN {} ELSE deferredDependents[m]]
      /\ Return /\ UNCHANGED waited
  BY <1>5, <1>7 DEF Throws, Throw
<1>9. /\ U \in SUBSET Modules /\ U \subseteq Settled
      /\ U \cap Evaluated = {} /\ U \cap Errored = {}
  BY <1>6, <1>7, SettledRecords DEF Evaluated, Errored
<1>10. \A m \in K : m \in Modules /\ (m \in U \/ m \in Evaluated \/ m \in Errored)
  BY <1>4, <1>6, <1>7, SettledRecords DEF Evaluated, Errored, EvalTypeOK
<1>11. Evaluated \in SUBSET Modules /\ \A m \in Evaluated : Requests(m) \subseteq Evaluated
  BY <1>4 DEF OutcomeInv, Evaluated
<1>12. \A m \in Evaluated : \A n : Reaches(m, n) => n \in Evaluated
  BY <1>4, <1>11, ReachClosed
<1>13. t.active \subseteq U \cup Errored
  <2>1. \A m \in t.active : m \notin Evaluated
    BY <1>4 DEF TransactionInv, InFlight, Evaluated
  <2> QED BY <1>6, <1>10, <2>1
<1>14. /\ thrower \in U \cup Errored /\ Reaches(c, thrower)
       /\ thrower \in t.active \/ ~Held(thrower)
  <2>1. CASE t.running /\ thrower = c
    <3>1. c \in t.active
      BY <1>3, <1>4, <2>1 DEF TransactionInv, Traversal, Holds
    <3>2. Reaches(c, c)
      BY <1>4, ReachSelf
    <3> QED BY <1>13, <2>1, <3>1, <3>2
  <2>2. CASE c \in Errored /\ thrower = evaluationCompletion[c]
    BY <1>4, <2>2 DEF OutcomeInv
  <2> QED BY <1>2, <2>1, <2>2 DEF Throws
<1>15. ASSUME NEW m \in U PROVE Component(m) \subseteq U /\ Reaches(m, thrower)
  <2>1. m \in K /\ m \in Modules /\ m \notin Evaluated /\ m \notin Errored
    BY <1>7, <1>9
  <2>2. Reaches(m, thrower)
    BY <1>4, <1>6, <1>14, <2>1, ReachTrans
  <2>3. ASSUME NEW n \in Component(m) PROVE n \in U
    <3>1. n \in K /\ Reaches(n, m) /\ m \in Component(n)
      BY <1>4, <1>6, <2>1, InComponent
    <3>2. n \notin Evaluated
      BY <1>12, <2>1, <3>1
    <3>3. n \notin Errored
      BY <1>4, <2>1, <3>1 DEF OutcomeInv
    <3> QED BY <1>10, <3>1, <3>2, <3>3
  <2> QED BY <2>2, <2>3
<1>16. /\ deferredDependents' \in [Modules -> SUBSET Modules]
       /\ \A m \in U : deferredDependents'[m] = {}
       /\ \A m \in Modules : deferredDependents'[m] \in {deferredDependents[m], {}}
  BY <1>4, <1>7, <1>8, <1>9 DEF EvalTypeOK
<1>17. ASSUME NEW x \in Modules, NEW w \in deferredDependents[x]
       PROVE  \/ x \in Evaluated
              \/ x \in U \cup Errored /\ Component(w) \subseteq U \cup Errored
              \/ w \in deferredDependents'[x]
  <2>1. CASE x \notin K
    BY <1>8, <2>1
  <2>2. CASE x \in K /\ x \notin Evaluated
    <3>1. x \in U \cup Errored /\ Component(w) \subseteq K
      BY <1>6, <1>10, <2>2
    <3>2. Reaches(w, x) /\ w \in Modules
      BY <1>4 DEF WaitInv, EvalTypeOK
    <3>3. ASSUME NEW n \in Component(w) PROVE n \in U \cup Errored
      <4>1. n \in Modules /\ Reaches(n, x)
        BY <1>4, <3>2, InComponent, ReachTrans
      <4>2. n \notin Evaluated
        BY <1>12, <2>2, <4>1
      <4> QED BY <1>10, <3>1, <4>2
    <3> QED BY <3>1, <3>3
  <2> QED BY <2>1, <2>2
<1> QED BY <1>8, <1>9, <1>13, <1>14, <1>15, <1>16, <1>17

LEMMA ThrowKept ==
  ASSUME LinkInv, EvalInv, Evaluating, NEW t, t = Transaction, NEW thrower, Throws(t, thrower),
         UNCHANGED <<source, linkVars, bodyVars>>
  PROVE  EvalInv'
<1>1. PICK k : k = Len(transactions)
  OBVIOUS
<1>2. transactions # <<>> /\ ~Linking
  BY DEF Evaluating
<1>3. /\ t \in TransactionRecord /\ TransactionInv(t)
      /\ k \in 1..k /\ t = transactions[k] /\ t.active \subseteq Modules
      /\ Module = At(t, Depth(t))
      /\ \A i \in 1..(k - 1) : i \in 1..k /\ i # k
      /\ \A i \in 1..k : i = k \/ i \in 1..(k - 1)
      /\ EvalTypeOK /\ StackOfCalls /\ BodyInv /\ OutcomeInv /\ WaitInv
  BY <1>1, <1>2, TopCall DEF EvalInv
<1>4. PICK U \in SUBSET Modules :
        /\ U \subseteq Settled /\ U \cap Evaluated = {} /\ U \cap Errored = {}
        /\ t.active \subseteq U \cup Errored /\ thrower \in U \cup Errored
        /\ \A m \in U : Component(m) \subseteq U /\ Reaches(m, thrower)
        /\ thrower \in t.active \/ ~Held(thrower)
        /\ evaluationStatus' = [m \in Modules |-> IF m \in U THEN "errored" ELSE evaluationStatus[m]]
        /\ evaluationCompletion' =
             [m \in Modules |-> IF m \in U THEN thrower ELSE evaluationCompletion[m]]
        /\ deferredDependents' \in [Modules -> SUBSET Modules]
        /\ \A m \in U : deferredDependents'[m] = {}
        /\ \A m \in Modules : deferredDependents'[m] \in {deferredDependents[m], {}}
        /\ \A x \in Modules : \A w \in deferredDependents[x] :
             \/ x \in Evaluated
             \/ x \in U \cup Errored /\ Component(w) \subseteq U \cup Errored
             \/ w \in deferredDependents'[x]
        /\ Return /\ UNCHANGED waited
  BY <1>2, ThrowEffect
<1>5. /\ \A m \in U : evaluationStatus'[m] = "errored" /\ evaluationCompletion'[m] = thrower
      /\ \A m \in Modules : m \notin U => /\ evaluationStatus'[m] = evaluationStatus[m]
                                          /\ evaluationCompletion'[m] = evaluationCompletion[m]
  BY <1>4
<1>6. Evaluated' = Evaluated /\ Errored' = Errored \cup U
  BY <1>4, <1>5 DEF Evaluated, Errored
<1>7. Stays
  BY EvaluationStays
<1>8. \A i \in 1..(k - 1) : \A x : x = transactions[i] => TransactionInv(x)'
  <2>1. \A m \in Modules \ t.active : evaluationStatus[m] \in {"evaluating", "errored"} =>
                                      evaluationStatus'[m] \in {"evaluating", "errored"}
    BY <1>5
  <2>2. Evaluated \subseteq Evaluated'
    BY <1>6
  <2> QED BY <1>1, <1>2, <1>7, <2>1, <2>2, OthersKept DEF bodyVars
<1>9. \A i \in 1..(k - 1) : t.active \cap transactions[i].active = {}
  BY <1>1, <1>3 DEF StackOfCalls
<1>10. /\ transactions' \in Seq(TransactionRecord) /\ StackOfCalls' /\ Len(transactions') = k - 1
       /\ \A i \in 1..(k - 1) : transactions'[i] = transactions[i]
       /\ \A m : Held(m)' <=> \E i \in 1..(k - 1) : m \in transactions[i].active
  BY <1>1, <1>2, <1>4, <1>8, Returns
<1>11. \A m : Held(m)' <=> Held(m) /\ m \notin t.active
  <2> TAKE m
  <2>1. Held(m) <=> m \in t.active \/ \E i \in 1..(k - 1) : m \in transactions[i].active
    BY <1>1, <1>3 DEF Held
  <2> QED BY <1>9, <1>10, <2>1
<1>12. /\ \A m, n : Reaches(m, n)' <=> Reaches(m, n)
       /\ \A m : Requests(m)' = Requests(m) /\ Component(m)' = Component(m)
       /\ Settled \subseteq Settled'
  BY <1>7, SameGraph DEF Stays
<1>13. OutcomeInv'
  <2>1. ASSUME NEW m \in Modules, evaluationStatus'[m] = "evaluating" PROVE Held(m)'
    <3>1. evaluationStatus[m] = "evaluating" /\ m \notin U /\ m \notin Errored
      BY <1>5, <2>1 DEF Errored
    <3> QED BY <1>3, <1>4, <1>11, <3>1 DEF OutcomeInv
  <2>2. \A m \in Evaluated' : m \in Settled' /\ Requests(m)' \subseteq Evaluated'
    BY <1>3, <1>6, <1>12 DEF OutcomeInv
  <2>3. ASSUME NEW m \in Errored'
        PROVE  /\ m \in Settled' /\ Component(m)' \subseteq Errored'
               /\ deferredDependents'[m] = {}
               /\ \E e \in Errored' : e = evaluationCompletion'[m] /\ ~Held(e)' /\ Reaches(m, e)'
    <3>1. CASE m \in U
      <4>1. thrower \in Errored' /\ ~Held(thrower)' /\ Reaches(m, thrower)'
        BY <1>4, <1>6, <1>11, <1>12, <3>1
      <4> QED BY <1>4, <1>5, <1>6, <1>12, <3>1, <4>1
    <3>2. CASE m \in Errored
      <4>1. m \in Modules /\ m \notin U
        BY <1>4, <3>2 DEF Errored
      <4>2. PICK e \in Errored : e = evaluationCompletion[m] /\ ~Held(e) /\ Reaches(m, e)
        BY <1>3, <3>2 DEF OutcomeInv
      <4>3. e \in Errored' /\ ~Held(e)' /\ Reaches(m, e)' /\ evaluationCompletion'[m] = e
        BY <1>5, <1>6, <1>11, <1>12, <4>1, <4>2
      <4>4. deferredDependents'[m] = {}
        BY <1>3, <1>4, <3>2, <4>1 DEF OutcomeInv
      <4>5. m \in Settled' /\ Component(m)' \subseteq Errored'
        BY <1>3, <1>6, <1>12, <3>2 DEF OutcomeInv
      <4> QED BY <4>3, <4>4, <4>5
    <3> QED BY <1>6, <2>3, <3>1, <3>2
  <2> QED BY <2>1, <2>2, <2>3 DEF OutcomeInv
<1>14. WaitInv'
  <2>1. \A x \in Modules : \A w \in deferredDependents'[x] : w \in Settled' /\ Reaches(w, x)'
    BY <1>3, <1>4, <1>12 DEF WaitInv
  <2>2. ASSUME NEW wait \in waited'
        PROVE  \/ wait[2] \in Evaluated'
               \/ wait[2] \in Errored' /\ Component(wait[1]) \subseteq Errored'
               \/ wait[1] \in deferredDependents'[wait[2]]
    <3>1. wait \in waited /\ wait[2] \in Modules
      BY <1>3, <1>4, <2>2 DEF EvalTypeOK
    <3>2. PICK w : w = wait[1]
      OBVIOUS
    <3>3. PICK x \in Modules : x = wait[2]
      BY <3>1
    <3>4. \/ x \in Evaluated
          \/ x \in Errored /\ Component(w) \subseteq Errored
          \/ w \in deferredDependents[x]
      BY <1>3, <3>1, <3>2, <3>3 DEF WaitInv
    <3>5. \/ x \in Evaluated'
          \/ x \in Errored' /\ Component(w) \subseteq Errored'
          \/ w \in deferredDependents'[x]
      BY <1>4, <1>6, <3>4
    <3> QED BY <3>2, <3>3, <3>5
  <2>3. \A wait \in waited' :
          \/ wait[2] \in Evaluated'
          \/ wait[2] \in Errored' /\ \A n : n = wait[1] => Component(n)' \subseteq Errored'
          \/ wait[1] \in deferredDependents'[wait[2]]
    BY <1>12, <2>2
  <2> QED BY <2>1, <2>3 DEF WaitInv, Component
<1>15. BodyInv'
  <2>1. ASSUME NEW m \in bodiesStarted' \ evaluationBodyCompleted'
        PROVE  \/ \E i \in 1..Len(transactions') :
                    transactions'[i].running /\ m = At(transactions'[i], Depth(transactions'[i]))
               \/ m \in Errored' /\ ~Held(m)'
    <3>1. \/ \E i \in 1..k :
               transactions[i].running /\ m = At(transactions[i], Depth(transactions[i]))
          \/ m \in Errored /\ ~Held(m)
      BY <1>1, <1>3, <2>1 DEF BodyInv, bodyVars
    <3>2. ASSUME NEW i \in 1..k, transactions[i].running,
                 m = At(transactions[i], Depth(transactions[i]))
          PROVE  \/ \E j \in 1..Len(transactions') :
                      transactions'[j].running /\ m = At(transactions'[j], Depth(transactions'[j]))
                 \/ m \in Errored' /\ ~Held(m)'
      <4>1. CASE i = k
        <5>1. t.running /\ m = thrower
          BY <1>3, <3>2, <4>1 DEF Throws
        <5> QED BY <1>4, <1>6, <1>11, <5>1
      <4>2. CASE i # k
        <5>1. i \in 1..(k - 1)
          BY <1>3, <4>2
        <5> QED BY <1>10, <3>2, <5>1
      <4> QED BY <4>1, <4>2
    <3> QED BY <1>6, <1>11, <3>1, <3>2
  <2>2. /\ repeated' = {} /\ evaluationBodyCompleted' \subseteq bodiesStarted'
        /\ bodiesStarted' \subseteq Settled'
    BY <1>3, <1>12 DEF BodyInv, bodyVars
  <2> QED BY <2>1, <2>2 DEF BodyInv, At, Depth
<1>16. EvalTypeOK'
  <2>1. thrower \in Modules
    BY <1>4 DEF Errored
  <2>2. evaluationStatus' \in [Modules -> {"unevaluated", "evaluating", "evaluated", "errored"}]
    BY <1>3, <1>4 DEF EvalTypeOK
  <2>3. evaluationCompletion' \in [Modules -> Modules \cup {NoModule}]
    BY <1>3, <1>4, <2>1 DEF EvalTypeOK
  <2>4. waited' \in SUBSET (Modules \X Modules) /\ hostErrors' \in 0..MaxHostErrors
    BY <1>3, <1>4 DEF EvalTypeOK, bodyVars
  <2> QED BY <1>4, <1>10, <2>2, <2>3, <2>4 DEF EvalTypeOK, TransactionRecord, FrameRecord
<1> QED BY <1>10, <1>13, <1>14, <1>15, <1>16 DEF EvalInv

\* What an evaluation is deferred on is evaluated by one that it is nested in.
Defers(t) ==
  /\ ~t.running /\ evaluationStatus[Module] = "evaluating"
  /\ deferredDependents' = [deferredDependents EXCEPT ![Module] = @ \cup t.active]
  /\ waited' = waited \cup (t.active \X {Module})
  /\ UNCHANGED <<bodiesStarted, hostErrors>>

Abandons(t) ==
  /\ t.running /\ UNCHANGED <<deferredDependents, waited>>
  /\ bodiesStarted' = bodiesStarted \ {Module}
  /\ hostErrors < MaxHostErrors /\ hostErrors' = hostErrors + 1

\* What an evaluation has entered reaches the record on top.
LEMMA ActiveReach ==
  ASSUME LinkInv, EvalInv, transactions # <<>>, NEW t, t = Transaction, NEW m \in t.active
  PROVE  m \in Settled /\ Reaches(m, Module)
BY CascadeFacts

LEMMA AbortKept ==
  ASSUME LinkInv, EvalInv, Evaluating, NEW t, t = Transaction, evaluationStatus' = Aborted, Return,
         UNCHANGED <<source, linkVars, evaluationCompletion, repeated, evaluationBodyCompleted>>,
         Defers(t) \/ Abandons(t)
  PROVE  EvalInv'
<1>1. PICK k : k = Len(transactions)
  OBVIOUS
<1>2. transactions # <<>>
  BY DEF Evaluating
<1>3. PICK c : c = Module
  OBVIOUS
<1>4. /\ t \in TransactionRecord /\ TransactionInv(t)
      /\ k \in 1..k /\ t = transactions[k] /\ t.active \subseteq Modules
      /\ c = At(t, Depth(t)) /\ c \in Modules
      /\ \A i \in 1..(k - 1) : i \in 1..k /\ i # k
      /\ \A i \in 1..k : i = k \/ i \in 1..(k - 1)
      /\ EvalTypeOK /\ StackOfCalls /\ BodyInv /\ OutcomeInv /\ WaitInv
  BY <1>1, <1>2, <1>3, TopCall DEF EvalInv
<1>5. \A m \in Modules : evaluationStatus'[m] =
        IF m \in t.active /\ evaluationStatus[m] = "evaluating" THEN "unevaluated"
                                                              ELSE evaluationStatus[m]
  BY DEF Aborted
<1>6. Evaluated' = Evaluated /\ Errored' = Errored
  BY <1>5 DEF Evaluated, Errored
<1>7. Stays
  BY EvaluationStays
<1>8. \A i \in 1..(k - 1) : \A x : x = transactions[i] => TransactionInv(x)'
  <2>1. \A m \in Modules \ t.active : evaluationStatus'[m] = evaluationStatus[m]
    BY <1>5
  <2>2. \A m \in bodiesStarted \ evaluationBodyCompleted :
          (t.running => m # Module) => m \in bodiesStarted' \ evaluationBodyCompleted'
    BY DEF Defers, Abandons
  <2>3. Evaluated \subseteq Evaluated'
    BY <1>6
  <2> QED BY <1>1, <1>2, <1>7, <2>1, <2>2, <2>3, OthersKept
<1>9. \A i \in 1..(k - 1) : t.active \cap transactions[i].active = {}
  BY <1>1, <1>4 DEF StackOfCalls
<1>10. /\ transactions' \in Seq(TransactionRecord) /\ StackOfCalls' /\ Len(transactions') = k - 1
       /\ \A i \in 1..(k - 1) : transactions'[i] = transactions[i]
       /\ \A m : Held(m)' <=> \E i \in 1..(k - 1) : m \in transactions[i].active
  BY <1>1, <1>2, <1>8, Returns
<1>11. \A m : Held(m)' <=> Held(m) /\ m \notin t.active
  <2> TAKE m
  <2>1. Held(m) <=> m \in t.active \/ \E i \in 1..(k - 1) : m \in transactions[i].active
    BY <1>1, <1>4 DEF Held
  <2> QED BY <1>9, <1>10, <2>1
<1>12. /\ \A m, n : Reaches(m, n)' <=> Reaches(m, n)
       /\ \A m : Requests(m)' = Requests(m) /\ Component(m)' = Component(m)
       /\ Settled \subseteq Settled'
  BY <1>7, SameGraph DEF Stays
<1>13. \/ UNCHANGED <<deferredDependents, waited>>
       \/ /\ c \notin Errored
          /\ deferredDependents' = [deferredDependents EXCEPT ![c] = @ \cup t.active]
          /\ waited' = waited \cup (t.active \X {c})
  BY <1>3 DEF Defers, Abandons, Errored
<1>14. \A x \in Modules : /\ deferredDependents[x] \subseteq deferredDependents'[x]
                          /\ deferredDependents'[x] \subseteq deferredDependents[x] \cup t.active
                          /\ x \in Errored \/ x # c => deferredDependents'[x] = deferredDependents[x]
  BY <1>4, <1>13 DEF EvalTypeOK
<1>15. OutcomeInv'
  <2>1. \A m \in Modules : evaluationStatus'[m] = "evaluating" => Held(m)'
    BY <1>4, <1>5, <1>11 DEF OutcomeInv
  <2>2. \A m \in Evaluated' : m \in Settled' /\ Requests(m)' \subseteq Evaluated'
    BY <1>4, <1>6, <1>12 DEF OutcomeInv
  <2>3. ASSUME NEW m \in Errored'
        PROVE  /\ m \in Settled' /\ Component(m)' \subseteq Errored'
               /\ deferredDependents'[m] = {}
               /\ \E e \in Errored' : e = evaluationCompletion'[m] /\ ~Held(e)' /\ Reaches(m, e)'
    <3>1. m \in Errored /\ m \in Modules
      BY <1>6, <2>3 DEF Errored
    <3>2. PICK e \in Errored : e = evaluationCompletion[m] /\ ~Held(e) /\ Reaches(m, e)
      BY <1>4, <3>1 DEF OutcomeInv
    <3>3. e \in Errored' /\ ~Held(e)' /\ Reaches(m, e)' /\ evaluationCompletion'[m] = e
      BY <1>6, <1>11, <1>12, <3>2
    <3>4. m \in Settled' /\ Component(m)' \subseteq Errored' /\ deferredDependents'[m] = {}
      BY <1>4, <1>6, <1>12, <1>14, <3>1 DEF OutcomeInv
    <3> QED BY <3>3, <3>4
  <2> QED BY <2>1, <2>2, <2>3 DEF OutcomeInv
<1>16. WaitInv'
  <2>1. ASSUME NEW x \in Modules, NEW w \in deferredDependents'[x]
        PROVE  w \in Settled' /\ Reaches(w, x)'
    <3>1. CASE w \in deferredDependents[x]
      BY <1>4, <1>12, <3>1 DEF WaitInv
    <3>2. CASE w \in t.active /\ x = c
      BY <1>2, <1>3, <1>12, <3>2, ActiveReach
    <3> QED BY <1>14, <2>1, <3>1, <3>2
  <2>2. ASSUME NEW wait \in waited'
        PROVE  \/ wait[2] \in Evaluated'
               \/ wait[2] \in Errored' /\ Component(wait[1]) \subseteq Errored'
               \/ wait[1] \in deferredDependents'[wait[2]]
    <3>1. CASE wait \in waited
      <4>1. wait[2] \in Modules
        BY <1>4, <3>1 DEF EvalTypeOK
      <4> QED BY <1>4, <1>6, <1>14, <3>1, <4>1 DEF WaitInv
    <3>2. CASE wait \notin waited
      <4>1. /\ deferredDependents' = [deferredDependents EXCEPT ![c] = @ \cup t.active]
            /\ wait \in t.active \X {c}
        BY <1>13, <2>2, <3>2
      <4>2. wait[1] \in t.active /\ wait[2] = c /\ deferredDependents'[c] = deferredDependents[c] \cup t.active
        BY <1>4, <4>1 DEF EvalTypeOK
      <4> QED BY <4>2
    <3> QED BY <3>1, <3>2
  <2>3. \A wait \in waited' :
          \/ wait[2] \in Evaluated'
          \/ wait[2] \in Errored' /\ \A n : n = wait[1] => Component(n)' \subseteq Errored'
          \/ wait[1] \in deferredDependents'[wait[2]]
    BY <1>12, <2>2
  <2> QED BY <2>1, <2>3 DEF WaitInv, Component
<1>17. BodyInv'
  <2>1. ASSUME NEW m \in bodiesStarted' \ evaluationBodyCompleted'
        PROVE  \/ \E i \in 1..Len(transactions') :
                    transactions'[i].running /\ m = At(transactions'[i], Depth(transactions'[i]))
               \/ m \in Errored' /\ ~Held(m)'
    <3>1. m \in bodiesStarted \ evaluationBodyCompleted /\ (t.running => m # c)
      BY <1>3, <2>1 DEF Defers, Abandons
    <3>2. \/ \E i \in 1..k :
               transactions[i].running /\ m = At(transactions[i], Depth(transactions[i]))
          \/ m \in Errored /\ ~Held(m)
      BY <1>1, <1>4, <3>1 DEF BodyInv
    <3>3. ASSUME NEW i \in 1..k, transactions[i].running,
                 m = At(transactions[i], Depth(transactions[i]))
          PROVE  \E j \in 1..Len(transactions') :
                   transactions'[j].running /\ m = At(transactions'[j], Depth(transactions'[j]))
      <4>1. i # k
        BY <1>4, <3>1, <3>3
      <4>2. i \in 1..(k - 1)
        BY <1>4, <4>1
      <4> QED BY <1>10, <3>3, <4>2
    <3> QED BY <1>6, <1>11, <3>2, <3>3
  <2>2. t.running => c \notin evaluationBodyCompleted
    BY <1>4 DEF TransactionInv, RunsTop
  <2>3. /\ repeated' = {} /\ evaluationBodyCompleted' \subseteq bodiesStarted'
        /\ bodiesStarted' \subseteq Settled'
    BY <1>3, <1>4, <1>12, <2>2 DEF BodyInv, Defers, Abandons
  <2> QED BY <2>1, <2>3 DEF BodyInv, At, Depth
<1>18. EvalTypeOK'
  <2>1. evaluationStatus' \in [Modules -> {"unevaluated", "evaluating", "evaluated", "errored"}]
    BY <1>4 DEF EvalTypeOK, Aborted
  <2>2. deferredDependents' \in [Modules -> SUBSET Modules] /\ waited' \in SUBSET (Modules \X Modules)
    BY <1>4, <1>13 DEF EvalTypeOK
  <2>3. hostErrors' \in 0..MaxHostErrors
    BY <1>4, DepthAssumption DEF EvalTypeOK, Defers, Abandons
  <2> QED BY <1>4, <1>10, <2>1, <2>2, <2>3 DEF EvalTypeOK, TransactionRecord, FrameRecord
<1> QED BY <1>10, <1>15, <1>16, <1>17, <1>18 DEF EvalInv

\* A record whose requests are all visited.
LEMMA VisitedAll ==
  ASSUME LinkInv, EvalInv, transactions # <<>>, NEW t, t = Transaction, NEW d, d = Depth(t),
         t.running \/ (Top.entered /\ ~HasRequest)
  PROVE  Entered(t, d) /\ Visited(t, d) = Len(requested[Module])
<1>1. PICK k : k = Len(transactions)
  OBVIOUS
<1>2. /\ TransactionInv(t) /\ d \in Nat \ {0} /\ d \in 1..d
      /\ Module = At(t, d) /\ Module \in Modules /\ Top = t.pending[d] /\ Visited(t, d) \in Nat
  BY <1>1, TopCall
<1>3. CASE t.running
  BY <1>2, <1>3 DEF TransactionInv, Traversal
<1>4. CASE Top.entered /\ ~HasRequest
  <2>1. Entered(t, d)
    BY <1>2, <1>4 DEF Entered, Depth
  <2>2. Len(requested[Module]) \in Nat
    BY <1>2, GraphType DEF LinkInv
  <2>3. Visited(t, d) <= Len(requested[Module])
    BY <1>2 DEF TransactionInv, Traversal
  <2>4. ~(Visited(t, d) < Len(requested[Module]))
    BY <1>2, <1>4 DEF HasRequest, Visited
  <2> QED BY <1>2, <2>1, <2>2, <2>3, <2>4
<1> QED BY <1>3, <1>4

LEMMA EvalInvInit == ASSUME Init PROVE EvalInv
<1>1. /\ evaluationStatus = [m \in Modules |-> "unevaluated"]
      /\ evaluationCompletion = [m \in Modules |-> NoModule]
      /\ deferredDependents = [m \in Modules |-> {}] /\ waited = {}
      /\ evaluationBodyCompleted = {} /\ bodiesStarted = {} /\ repeated = {}
      /\ hostErrors = 0 /\ transactions = <<>> /\ linkPending = <<>>
  BY DEF Init, LinkInit
<1>2. Evaluated = {} /\ Errored = {} /\ Len(transactions) = 0 /\ ~Linking
  BY <1>1 DEF Evaluated, Errored, Linking
<1>3. EvalTypeOK
  BY <1>1, DepthAssumption DEF EvalTypeOK
<1>4. StackOfCalls
  BY <1>2 DEF StackOfCalls, Calls
<1>5. BodyInv
  BY <1>1 DEF BodyInv
<1>6. OutcomeInv
  BY <1>1, <1>2 DEF OutcomeInv
<1>7. WaitInv
  BY <1>1 DEF WaitInv
<1> QED BY <1>3, <1>4, <1>5, <1>6, <1>7 DEF EvalInv

LEMMA EnterKept == ASSUME LinkInv, EvalInv, Enter PROVE EvalInv'
<1>1. PICK t : t = Transaction
  OBVIOUS
<1>2. PICK c : c = Module
  OBVIOUS
<1>3. /\ Traverses /\ ~Top.entered /\ UNCHANGED <<source, linkVars, bodyVars>>
      /\ Evaluating /\ ~t.running /\ c \in Modules
  <2>1. Traverses /\ ~Top.entered /\ UNCHANGED <<source, linkVars, bodyVars>>
    BY DEF Enter
  <2>2. Evaluating /\ ~t.running /\ transactions # <<>>
    BY <1>1, <2>1 DEF Traverses, Evaluating
  <2> QED BY <1>2, <2>1, <2>2, TopCall
<1>4. CASE evaluationStatus[Module] = "evaluated" /\ Pass(t)
  BY <1>1, <1>3, <1>4, PassKept
<1>5. CASE evaluationStatus[Module] = "errored" /\ Throw(evaluationCompletion[Module])
  <2>1. PICK thrower : thrower = evaluationCompletion[Module]
    OBVIOUS
  <2>2. Throws(t, thrower)
    BY <1>2, <1>3, <1>5, <2>1 DEF Throws, Errored
  <2> QED BY <1>1, <1>3, <2>2, ThrowKept
<1>6. CASE evaluationStatus[Module] = "evaluating" /\ IsBackEdge(Module) /\ Pass(t)
  BY <1>1, <1>3, <1>6, PassKept DEF IsBackEdge
<1>7. CASE /\ evaluationStatus[Module] = "evaluating" /\ ~IsBackEdge(Module)
           /\ deferredDependents' = [deferredDependents EXCEPT ![Module] = @ \cup t.active]
           /\ waited' = waited \cup (t.active \X {Module})
           /\ evaluationStatus' = Aborted
           /\ Return
           /\ UNCHANGED evaluationCompletion
  <2>1. Defers(t)
    BY <1>3, <1>7 DEF Defers, bodyVars
  <2> QED BY <1>1, <1>3, <1>7, <2>1, AbortKept DEF bodyVars
<1>8. CASE /\ evaluationStatus[Module] = "unevaluated"
           /\ evaluationStatus' = [evaluationStatus EXCEPT ![Module] = "evaluating"]
           /\ Proceed([t EXCEPT !.pending = Append(Front(@), [Top EXCEPT !.entered = TRUE]),
                                !.active = @ \cup {Module}])
           /\ UNCHANGED <<evaluationCompletion, deferredDependents, waited>>
  BY <1>1, <1>3, <1>8, EnterUnevaluatedKept
<1> QED BY <1>1, <1>4, <1>5, <1>6, <1>7, <1>8 DEF Enter

LEMMA BodyEndsKept ==
  ASSUME LinkInv, EvalInv, SkipBody \/ BodyReturns \/ BodyThrows \/ BodyAborts
  PROVE  EvalInv'
<1>1. PICK t : t = Transaction
  OBVIOUS
<1>2. PICK d : d = Depth(t)
  OBVIOUS
<1>3. CASE SkipBody
  <2>1. /\ Evaluating /\ ~t.running /\ Complete /\ Top.entered /\ ~HasRequest /\ transactions # <<>>
        /\ UNCHANGED <<source, linkVars, bodyVars>>
    BY <1>1, <1>3 DEF SkipBody, Traverses, Evaluating
  <2>2. Entered(t, d) /\ Visited(t, d) = Len(requested[Module])
    BY <1>1, <1>2, <2>1, VisitedAll
  <2> QED BY <1>1, <1>2, <2>1, <2>2, CompleteKept DEF bodyVars
<1>4. CASE BodyReturns
  <2>1. /\ Evaluating /\ t.running /\ Complete /\ transactions # <<>>
        /\ evaluationBodyCompleted' = evaluationBodyCompleted \cup {Module}
        /\ UNCHANGED <<source, linkVars, bodiesStarted, repeated, hostErrors>>
    BY <1>1, <1>4 DEF BodyReturns, RunsBody, Evaluating
  <2>2. Entered(t, d) /\ Visited(t, d) = Len(requested[Module])
    BY <1>1, <1>2, <2>1, VisitedAll
  <2> QED BY <1>1, <1>2, <2>1, <2>2, CompleteKept
<1>5. CASE BodyThrows
  <2>1. Evaluating /\ t.running /\ Throw(Module) /\ UNCHANGED <<source, linkVars, bodyVars>>
    BY <1>1, <1>5 DEF BodyThrows, RunsBody
  <2>2. PICK thrower : thrower = Module
    OBVIOUS
  <2>3. Throws(t, thrower)
    BY <2>1, <2>2 DEF Throws
  <2> QED BY <1>1, <2>1, <2>3, ThrowKept
<1>6. CASE BodyAborts
  <2>1. /\ Evaluating /\ t.running /\ evaluationStatus' = Aborted /\ Return
        /\ UNCHANGED <<source, linkVars, evaluationCompletion, repeated, evaluationBodyCompleted>>
        /\ Abandons(t)
    BY <1>1, <1>6 DEF BodyAborts, RunsBody, Abandons
  <2> QED BY <1>1, <2>1, AbortKept
<1> QED BY <1>3, <1>4, <1>5, <1>6

LEMMA EvalInvNext == ASSUME LinkInv, EvalInv, [Next]_vars PROVE EvalInv'
<1>1. StackOfCalls
  BY DEF EvalInv
<1>2. ASSUME NEW m \in Modules, Link(m) PROVE EvalInv'
  <2>1. MayCall /\ LinkModuleGraph(m) /\ UNCHANGED evalVars
    BY <1>2 DEF Link
  <2>2. Stays
    BY <2>1, LinksStay
  <2>3. \A i \in 1..Len(transactions) : transactions[i].running
    <3> TAKE i \in 1..Len(transactions)
    <3>1. PICK k : k = Len(transactions)
      OBVIOUS
    <3>2. transactions # <<>>
      OBVIOUS
    <3>3. k \in Nat \ {0} /\ Transaction = transactions[k]
      BY <3>1, <3>2, TopCall
    <3>4. Transaction.running
      BY <2>1, <3>2 DEF MayCall, RunsBody
    <3>5. i = k \/ i < k
      BY <3>1, <3>3
    <3> QED BY <1>1, <3>1, <3>3, <3>4, <3>5 DEF StackOfCalls
  <2> QED BY <2>1, <2>2, <2>3, LinkKeepsEvaluation
<1>3. CASE LinkProceeds
  <2>1. LinkStep /\ UNCHANGED evalVars
    BY <1>3 DEF LinkProceeds
  <2>2. Stays
    BY <2>1, LinksStay
  <2>3. Linking
    BY <2>1 DEF LinkStep, EnterLink, LinkDependency, FinishRecord, LinkFails, Visiting
  <2>4. \A i \in 1..Len(transactions) : transactions[i].running
    BY <1>1, <2>3 DEF StackOfCalls
  <2> QED BY <2>1, <2>2, <2>4, LinkKeepsEvaluation
<1>4. CASE UNCHANGED vars
  <2>1. UNCHANGED <<source, linkVars>> /\ UNCHANGED evalVars
    BY <1>4 DEF vars
  <2>2. Stays /\ (Linking' <=> Linking)
    BY <2>1, EvaluationStays
  <2>3. Linking' => \A i \in 1..Len(transactions) : transactions[i].running
    BY <1>1, <2>2 DEF StackOfCalls
  <2> QED BY <2>1, <2>2, <2>3, LinkKeepsEvaluation
<1>5. ASSUME NEW m \in Modules, EvaluateModule(m) PROVE EvalInv'
  BY <1>5, EvaluateModuleKept
<1> QED BY <1>2, <1>3, <1>4, <1>5, EnterKept, VisitRequestKept, StartBodyKept, BodyEndsKept DEF Next

LEMMA EvalInvHolds == Spec => [](LinkInv /\ EvalInv)
<1>1. Init => LinkInv /\ EvalInv
  BY LinkInvInit, EvalInvInit
<1>2. LinkInv /\ EvalInv /\ [Next]_vars => (LinkInv /\ EvalInv)'
  BY LinkInvNext, EvalInvNext
<1> QED BY <1>1, <1>2, PTL DEF Spec

-----------------------------------------------------------------------------
(* What modules may rely on *)

\* The variables of links and evaluations keep their types.
THEOREM Typing == Spec => []TypeOK
<1>1. ASSUME LinkInv, EvalInv PROVE TypeOK
  <2>1. /\ LinkTypeOK /\ EvalTypeOK
        /\ evaluationBodyCompleted \subseteq bodiesStarted /\ bodiesStarted \subseteq Settled
        /\ repeated = {}
    BY <1>1 DEF LinkInv, EvalInv, BodyInv
  <2>2. bodiesStarted \subseteq Linked
    BY <1>1, <2>1, SettledRecords
  <2> QED BY <2>1, <2>2 DEF TypeOK, EvalTypeOK, TransactionRecord, FrameRecord
<1> QED BY <1>1, EvalInvHolds, PTL

\* The body of a module is begun once, however often evaluations of it are deferred,
\* abandoned or taken up again from inside others, unless an error of the host ended it.
THEOREM BodiesBeginOnce == Spec => []BodiesRunOnce
<1>1. EvalInv => BodiesRunOnce
  BY DEF EvalInv, BodyInv, BodiesRunOnce
<1> QED BY <1>1, EvalInvHolds, PTL

\* A module is under evaluation only while a call of evaluateModule() that has not
\* returned holds it, whichever way that call ends.
THEOREM NothingStaysEvaluating == Spec => []NothingIsLeftEvaluating
<1>1. EvalInv => NothingIsLeftEvaluating
  BY DEF EvalInv, OutcomeInv, Held, NothingIsLeftEvaluating
<1> QED BY <1>1, EvalInvHolds, PTL

LEMMA RequestsCameFirst == ASSUME LinkInv, EvalInv PROVE DependenciesRunFirst
<1> SUFFICES ASSUME NEW i \in 1..Len(transactions), transactions[i].running,
                    NEW m, m = Last(transactions[i].pending).record,
                    NEW n \in Requests(m) \ Component(m)
             PROVE  evaluationStatus[n] = "evaluated"
  BY DEF DependenciesRunFirst
<1>1. PICK t : t = transactions[i]
  OBVIOUS
<1>2. PICK d : d = Depth(t)
  OBVIOUS
<1>3. /\ transactions \in Seq(TransactionRecord) /\ TransactionInv(t) /\ Depth(t) # 0
  BY <1>1 DEF EvalInv, EvalTypeOK, StackOfCalls, Calls
<1>4. t \in TransactionRecord
  BY <1>1, <1>3, ElementOfSeq
<1>5. /\ d \in 1..d /\ ~(d < d) /\ d \in Nat /\ \A j \in 1..d : At(t, j) \in Modules
  BY <1>2, <1>3, <1>4, CallType
<1>6. m = At(t, d) /\ m \in Modules /\ m \in Settled
  BY <1>1, <1>2, <1>3, <1>5 DEF Last, At, Depth, TransactionInv, Traversal
<1>7. Entered(t, d) /\ Visited(t, d) = Len(requested[m])
  BY <1>1, <1>2, <1>3, <1>6 DEF TransactionInv, Traversal
<1>8. PICK q \in 1..Len(requested[m]) : n = requested[m][q]
  <2>1. Requests(m) = {requested[m][q] : q \in 1..Len(requested[m])}
    BY <1>6, GraphType DEF LinkInv
  <2> QED BY <2>1
<1>9. n \in Modules
  BY <1>6, GraphType DEF LinkInv
<1>10. Resolved(t, Evaluated, m, n)
  BY <1>2, <1>3, <1>5, <1>6, <1>7, <1>8, <1>9 DEF TransactionInv, Resolves
<1>11. Members(m) = Component(m)
  BY <1>6, SettledRecords
<1> QED BY <1>10, <1>11 DEF Resolved, Evaluated

LEMMA WaitersWereTold == ASSUME EvalInv PROVE WaitersFailTogether
<1> SUFFICES ASSUME NEW wait \in waited, evaluationStatus[wait[2]] = "errored",
                    NEW m \in Component(wait[1])
             PROVE  evaluationStatus[m] = "errored"
  BY DEF WaitersFailTogether
<1>1. wait[2] \in Modules /\ WaitInv /\ OutcomeInv
  BY DEF EvalInv, EvalTypeOK
<1>2. wait[2] \in Errored /\ wait[2] \notin Evaluated
  BY <1>1 DEF Errored, Evaluated
<1>3. deferredDependents[wait[2]] = {}
  BY <1>1, <1>2 DEF OutcomeInv
<1>4. Component(wait[1]) \subseteq Errored
  BY <1>1, <1>2, <1>3 DEF WaitInv
<1> QED BY <1>4 DEF Errored

\* When a body runs, all that its module requests outside its component is evaluated; and
\* whoever was deferred on a module fails with it, with all of its component.
THEOREM OutcomesReachDependents == Spec => []OutcomesAreShared
<1>1. LinkInv /\ EvalInv => OutcomesAreShared
  BY RequestsCameFirst, WaitersWereTold DEF OutcomesAreShared
<1> QED BY <1>1, EvalInvHolds, PTL

-----------------------------------------------------------------------------
(* The outcomes others see *)

Outcome == [m \in Modules |->
  CASE evaluationStatus[m] = "evaluated" -> [kind |-> "normal"]
    [] evaluationStatus[m] = "errored"   -> [kind |-> "thrown", by |-> evaluationCompletion[m]]
    [] OTHER                             -> [kind |-> "none"]]

LEMMA OutcomeIs ==
  ASSUME NEW m \in Modules
  PROVE  /\ m \in Evaluated <=> Outcome[m] = Commits!Normal
         /\ m \in Errored => Outcome[m] = Commits!Thrown(evaluationCompletion[m])
         /\ m \notin Evaluated /\ m \notin Errored => Outcome[m] = Commits!None
         /\ m \in Errored => m \notin Evaluated
<1>1. CASE evaluationStatus[m] = "evaluated"
  BY <1>1 DEF Outcome, Evaluated, Errored, Commits!Normal
<1>2. CASE evaluationStatus[m] = "errored"
  <2>1. Outcome[m] = [kind |-> "thrown", by |-> evaluationCompletion[m]]
    BY <1>2 DEF Outcome
  <2>2. Outcome[m].kind = "thrown"
    BY <2>1
  <2>3. Outcome[m] # [kind |-> "normal"]
    BY <2>2
  <2> QED BY <1>2, <2>1, <2>3 DEF Evaluated, Errored, Commits!Normal, Commits!Thrown
<1>3. CASE evaluationStatus[m] # "evaluated" /\ evaluationStatus[m] # "errored"
  <2>1. Outcome[m] = [kind |-> "none"]
    BY <1>3 DEF Outcome
  <2>2. [kind |-> "none"].kind # [kind |-> "normal"].kind
    OBVIOUS
  <2>3. Outcome[m] # [kind |-> "normal"]
    BY <2>1, <2>2
  <2> QED BY <1>3, <2>1, <2>3 DEF Evaluated, Errored, Commits!Normal, Commits!None
<1> QED BY <1>1, <1>2, <1>3

LEMMA SameOutcomes ==
  ASSUME \A m \in Modules :
           \/ evaluationStatus'[m] = evaluationStatus[m] /\ evaluationCompletion'[m] = evaluationCompletion[m]
           \/ /\ evaluationStatus[m] \in {"unevaluated", "evaluating"}
              /\ evaluationStatus'[m] \in {"unevaluated", "evaluating"},
         UNCHANGED source
  PROVE  UNCHANGED Commits!vars
<1>1. requested' = requested
  BY DEF source
<1>2. Outcome' = Outcome
  BY DEF Outcome
<1> QED BY <1>1, <1>2 DEF Commits!vars, Outcome

LEMMA CommitIsAllowed ==
  ASSUME LinkInv, OutcomeInv, NEW C \in SUBSET Modules, C # {},
         C \cap Evaluated = {}, C \cap Errored = {},
         \A m \in C : C = Component(m) /\ Requests(m) \subseteq Evaluated \cup C,
         evaluationStatus' = [m \in Modules |-> IF m \in C THEN "evaluated" ELSE evaluationStatus[m]],
         UNCHANGED <<source, evaluationCompletion>>
  PROVE  Commits!Commit(C)
<1>1. C \subseteq Commits!Undecided
  <2>1. \A m \in C : Outcome[m] = Commits!None
    BY OutcomeIs
  <2> QED BY <2>1 DEF Commits!Undecided, Outcome
<1>2. Commits!Together(C)
  BY DEF Commits!Together, Commits!Reaches, Component, Reaches
<1>3. ASSUME NEW m \in C, NEW n \in Modules, Reaches(m, n), ~Reaches(n, m)
      PROVE  Outcome[n] = Commits!Normal
  <2>1. PICK S : S = Evaluated \cup C
    OBVIOUS
  <2>2. S \in SUBSET Modules /\ \A x \in S : Requests(x) \subseteq S
    BY <2>1 DEF OutcomeInv, Evaluated
  <2>3. n \in S
    BY <1>3, <2>1, <2>2, ReachClosed DEF LinkInv
  <2>4. n \notin C
    BY <1>3 DEF Component
  <2> QED BY <2>1, <2>3, <2>4, OutcomeIs
<1>4. \A m \in C, n \in Modules :
        Reaches(m, n) => IF Reaches(n, m) THEN n \in C ELSE Outcome[n] = Commits!Normal
  BY <1>3 DEF Component
<1>5. Outcome' = [m \in Modules |-> IF m \in C THEN Commits!Normal ELSE Outcome[m]]
  BY DEF Outcome, Commits!Normal
<1>6. requested' = requested
  BY DEF source
<1> QED BY <1>1, <1>2, <1>4, <1>5, <1>6 DEF Commits!Commit, Commits!Reaches, Reaches, Outcome

LEMMA FailIsAllowed ==
  ASSUME LinkInv, OutcomeInv, NEW U \in SUBSET Modules, U # {},
         U \cap Evaluated = {}, U \cap Errored = {},
         NEW thrower \in U \cup Errored,
         \A m \in U : Component(m) \subseteq U /\ Reaches(m, thrower),
         evaluationStatus' = [m \in Modules |-> IF m \in U THEN "errored" ELSE evaluationStatus[m]],
         evaluationCompletion' =
           [m \in Modules |-> IF m \in U THEN thrower ELSE evaluationCompletion[m]],
         UNCHANGED source
  PROVE  thrower \in Modules /\ Commits!Fail(U, thrower)
<1>1. U \subseteq Commits!Undecided
  <2>1. \A m \in U : Outcome[m] = Commits!None
    BY OutcomeIs
  <2> QED BY <2>1 DEF Commits!Undecided, Outcome
<1>2. Commits!Together(U)
  BY DEF Commits!Together, Commits!Reaches, Component, Reaches
<1>3. Outcome' = [m \in Modules |-> IF m \in U THEN Commits!Thrown(thrower) ELSE Outcome[m]]
  BY DEF Outcome, Commits!Thrown
<1>4. thrower \in Modules /\ evaluationStatus'[thrower] = "errored"
  BY DEF Errored
<1>5. Outcome'[thrower].kind = "thrown"
  <2>1. Outcome'[thrower] = [kind |-> "thrown", by |-> evaluationCompletion'[thrower]]
    BY <1>4 DEF Outcome
  <2> QED BY <2>1
<1>6. requested' = requested
  BY DEF source
<1> QED BY <1>1, <1>2, <1>3, <1>4, <1>5, <1>6 DEF Commits!Fail, Commits!Reaches, Reaches, Outcome

LEMMA CompleteCommits ==
  ASSUME LinkInv, EvalInv, Evaluating, Complete, NEW t, t = Transaction,
         NEW d, d = Depth(t), Entered(t, d), Visited(t, d) = Len(requested[Module]),
         UNCHANGED source
  PROVE  Commits!Next \/ UNCHANGED Commits!vars
<1>1. PICK k : k = Len(transactions)
  OBVIOUS
<1>2. transactions # <<>>
  BY DEF Evaluating
<1>3. TransactionInv(t) /\ t.active \subseteq Modules /\ OutcomeInv /\ Module \in Settled
  BY <1>1, <1>2, TopCall DEF EvalInv
<1>4. PICK C \in {{}, Members(Module)} :
        /\ C \subseteq t.active /\ C \cap Errored = {}
        /\ \A m \in C : Requests(m) \subseteq Evaluated \cup C
        /\ evaluationStatus' =
             [m \in Modules |-> IF m \in C THEN "evaluated" ELSE evaluationStatus[m]]
        /\ UNCHANGED evaluationCompletion
  BY <1>2, CompleteEffect
<1>5. C \cap Evaluated = {}
  BY <1>3, <1>4 DEF TransactionInv, InFlight, Evaluated
<1>6. CASE C = {}
  BY <1>4, <1>6, SameOutcomes
<1>7. CASE C # {}
  <2>1. C = Component(Module) /\ Module \in Modules
    BY <1>3, <1>4, <1>7, SettledRecords
  <2>2. \A m \in C : Component(m) = C
    BY <2>1, InComponent DEF LinkInv
  <2>3. Commits!Commit(C) /\ C \in SUBSET Modules
    BY <1>3, <1>4, <1>5, <1>7, <2>2, CommitIsAllowed
  <2> QED BY <2>3 DEF Commits!Next
<1> QED BY <1>6, <1>7

LEMMA ThrowFails ==
  ASSUME LinkInv, EvalInv, Evaluating, NEW t, t = Transaction, NEW thrower, Throws(t, thrower),
         UNCHANGED source
  PROVE  Commits!Next \/ UNCHANGED Commits!vars
<1>1. transactions # <<>> /\ OutcomeInv
  BY DEF Evaluating, EvalInv
<1>2. PICK U \in SUBSET Modules :
        /\ U \cap Evaluated = {} /\ U \cap Errored = {}
        /\ thrower \in U \cup Errored
        /\ \A m \in U : Component(m) \subseteq U /\ Reaches(m, thrower)
        /\ evaluationStatus' = [m \in Modules |-> IF m \in U THEN "errored" ELSE evaluationStatus[m]]
        /\ evaluationCompletion' =
             [m \in Modules |-> IF m \in U THEN thrower ELSE evaluationCompletion[m]]
  BY <1>1, ThrowEffect
<1>3. CASE U = {}
  <2>1. \A m \in Modules : /\ evaluationStatus'[m] = evaluationStatus[m]
                           /\ evaluationCompletion'[m] = evaluationCompletion[m]
    BY <1>2, <1>3
  <2> QED BY <2>1, SameOutcomes
<1>4. CASE U # {}
  <2>1. thrower \in Modules /\ Commits!Fail(U, thrower)
    BY <1>1, <1>2, <1>4, FailIsAllowed
  <2> QED BY <2>1 DEF Commits!Next
<1> QED BY <1>3, <1>4

LEMMA StepsCommit ==
  ASSUME LinkInv, EvalInv, [Next]_vars
  PROVE  Commits!Next \/ UNCHANGED Commits!vars
<1>1. PICK t : t = Transaction
  OBVIOUS
<1>2. PICK d : d = Depth(t)
  OBVIOUS
<1>3. EvalTypeOK
  BY DEF EvalInv
<1>4. CASE UNCHANGED <<source, outcomeVars>>
  BY <1>4, SameOutcomes DEF outcomeVars
<1>5. ASSUME UNCHANGED <<source, evaluationCompletion>>, evaluationStatus' = Aborted
      PROVE  UNCHANGED Commits!vars
  <2>1. \A m \in Modules :
          \/ evaluationStatus'[m] = evaluationStatus[m]
          \/ evaluationStatus[m] = "evaluating" /\ evaluationStatus'[m] = "unevaluated"
    BY <1>5 DEF Aborted
  <2> QED BY <1>5, <2>1, SameOutcomes
<1>6. ASSUME NEW m \in Modules, Link(m) PROVE UNCHANGED <<source, outcomeVars>>
  BY <1>6 DEF Link, LinkModuleGraph, evalVars
<1>7. ASSUME LinkProceeds PROVE UNCHANGED <<source, outcomeVars>>
  BY <1>7 DEF LinkProceeds, LinkStep, EnterLink, LinkDependency, Descend, FinishRecord, LinkFails,
              evalVars, source
<1>8. CASE VisitRequest \/ StartBody \/ \E m \in Modules : EvaluateModule(m)
  BY <1>4, <1>8 DEF VisitRequest, StartBody, EvaluateModule
<1>9. CASE Enter
  <2>1. Evaluating /\ ~t.running /\ UNCHANGED source /\ Module \in Modules
    <3>1. transactions # <<>> /\ Evaluating /\ ~t.running /\ UNCHANGED source
      BY <1>1, <1>9 DEF Enter, Traverses, Evaluating
    <3> QED BY <1>1, <3>1, TopCall
  <2>2. CASE UNCHANGED outcomeVars
    BY <1>4, <2>1, <2>2
  <2>3. CASE evaluationStatus[Module] = "errored" /\ Throw(evaluationCompletion[Module])
    <3>1. PICK thrower : thrower = evaluationCompletion[Module]
      OBVIOUS
    <3>2. Throws(t, thrower)
      BY <2>1, <2>3, <3>1 DEF Throws, Errored
    <3> QED BY <1>1, <2>1, <3>2, ThrowFails
  <2>4. CASE evaluationStatus' = Aborted /\ UNCHANGED evaluationCompletion
    BY <1>5, <2>1, <2>4
  <2>5. CASE /\ evaluationStatus[Module] = "unevaluated" /\ UNCHANGED evaluationCompletion
             /\ evaluationStatus' = [evaluationStatus EXCEPT ![Module] = "evaluating"]
    <3>1. PICK c \in Modules : c = Module
      BY <2>1
    <3>2. \A m \in Modules :
            \/ evaluationStatus'[m] = evaluationStatus[m]
            \/ evaluationStatus[m] = "unevaluated" /\ evaluationStatus'[m] = "evaluating"
      BY <1>3, <2>5, <3>1 DEF EvalTypeOK
    <3> QED BY <2>1, <2>5, <3>2, SameOutcomes
  <2> QED BY <1>1, <1>9, <2>2, <2>3, <2>4, <2>5 DEF Enter, Pass
<1>10. CASE SkipBody
  <2>1. Evaluating /\ Complete /\ Top.entered /\ ~HasRequest /\ transactions # <<>> /\ UNCHANGED source
    BY <1>10 DEF SkipBody, Traverses, Evaluating
  <2>2. Entered(t, d) /\ Visited(t, d) = Len(requested[Module])
    BY <1>1, <1>2, <2>1, VisitedAll
  <2> QED BY <1>1, <1>2, <2>1, <2>2, CompleteCommits
<1>11. CASE BodyReturns
  <2>1. Evaluating /\ t.running /\ Complete /\ transactions # <<>> /\ UNCHANGED source
    BY <1>1, <1>11 DEF BodyReturns, RunsBody, Evaluating
  <2>2. Entered(t, d) /\ Visited(t, d) = Len(requested[Module])
    BY <1>1, <1>2, <2>1, VisitedAll
  <2> QED BY <1>1, <1>2, <2>1, <2>2, CompleteCommits
<1>12. CASE BodyThrows
  <2>1. Evaluating /\ t.running /\ Throw(Module) /\ UNCHANGED source
    BY <1>1, <1>12 DEF BodyThrows, RunsBody
  <2>2. PICK thrower : thrower = Module
    OBVIOUS
  <2>3. Throws(t, thrower)
    BY <2>1, <2>2 DEF Throws
  <2> QED BY <1>1, <2>1, <2>3, ThrowFails
<1>13. CASE BodyAborts
  BY <1>5, <1>13 DEF BodyAborts
<1>14. CASE UNCHANGED vars
  BY <1>4, <1>14 DEF vars, evalVars
<1>15. CASE LinkProceeds \/ \E m \in Modules : Link(m)
  BY <1>4, <1>6, <1>7, <1>15
<1> QED BY <1>8, <1>9, <1>10, <1>11, <1>12, <1>13, <1>14, <1>15 DEF Next

\* Evaluation implements ModuleCommits: components get their outcome together and for
\* good, a normal one when all that they depend on has one, an error only from a module
\* that they depend on.
THEOREM CommitsAreKept == Spec => ImplementsModuleCommits
<1>1. Init => Commits!Init
  <2> SUFFICES ASSUME Init PROVE Commits!Init
    OBVIOUS
  <2>1. LinkTypeOK
    BY LinkInvInit DEF Init, LinkInv
  <2>2. Dependencies[requested] \in [Modules -> SUBSET Modules]
    BY <2>1 DEF LinkTypeOK, Dependencies
  <2>3. \A m, n, q \in Modules : Reaches(m, n) /\ Reaches(n, q) => Reaches(m, q)
    BY <2>1, ReachTrans
  <2>4. Outcome = [m \in Modules |-> Commits!None]
    BY DEF Init, Outcome, Commits!None
  <2> QED BY <2>2, <2>3, <2>4 DEF Commits!Init, Commits!Reaches, Reaches, Outcome
<1>2. LinkInv /\ EvalInv /\ [Next]_vars => [Commits!Next]_(Commits!vars)
  BY StepsCommit
<1> QED BY <1>1, <1>2, EvalInvHolds, PTL DEF Spec, ImplementsModuleCommits, Commits!Spec
=============================================================================
