------------------------- MODULE ModuleLoaderProofs -------------------------
(***************************************************************************)
(* What TLAPS proves of ModuleLoader for any set of modules, any request   *)
(* graphs (cycles included), any number of overlapping root calls and any  *)
(* number of failures: a graph that counts as complete is closed; the      *)
(* failure ledger (its queues ordered, halved, trimmed, compacted and      *)
(* released) holds exactly what active traversals can observe; and a       *)
(* failure wave survives every later retry.                                *)
(***************************************************************************)
EXTENDS ModuleLoader, SequenceLemmas, FiniteSetTheorems

\* The types of all but the failure queues.
Typed ==
  /\ requested \in Graphs /\ requested \in [Modules -> Seq(Modules)]
  /\ records \subseteq Modules /\ loadedRequests \subseteq records
  /\ roots \in Seq(RootRecord)
  /\ graphs \in Seq(GraphRecord)
  /\ requests \in [Modules -> RequestRecord]
  /\ awaits = [activity \in Activities |-> awaits[activity]]
  /\ errors \in 0..MaxErrors

\* Every traversal was begun by a root call of its own, so it is an activity.
Acquirers == {r \in 1..Len(roots) : roots[r].step = "acquiring"}
Counted == Len(roots) <= MaxRoots /\ Len(graphs) <= Cardinality(Acquirers)

\* A root waits for its own graph, and has got it only when it is complete.
RootsOK ==
  \A r \in 1..Len(roots) :
    \/ /\ awaits[Root(r)] = Resolution(roots[r].target, NoModule)
       /\ roots[r].step = "resolving"
    \/ /\ awaits[Root(r)] = GraphOf(roots[r].target)
       /\ roots[r].step = "acquiring"
    \/ awaits[Root(r)].kind = "error"
    \/ /\ awaits[Root(r)] = Ok
       /\ roots[r].step = "acquiring" => roots[r].target \in completedGraphs

\* A traversal g that awaits `await` has the requests of all it discovered but,
\* perhaps, of the module it visits; and what they request is discovered or
\* still to be looked at.
TraversalOK(g, await, loaded, request) ==
  /\ g.root \in g.discovered /\ g.visiting \in g.discovered
  /\ \/ await = Ok /\ g.visiting \in loaded
     \/ await.kind = "error"
     \/ await = RequestsOf(g.visiting)
  /\ \A m \in g.discovered \ {g.visiting} :
       /\ m \in loaded
       /\ \A i \in 1..Len(request[m]) :
            request[m][i] \in g.discovered \/ \E k \in 1..Len(g.todo) : g.todo[k] = request[m][i]
GraphsOK ==
  \A s \in 1..Len(graphs) :
    graphs[s].active => TraversalOK(graphs[s], awaits[Graph(s)], loadedRequests, requested)

\* An acquisition that goes on has the module's record.
RequestOK(m) ==
  LET phase == requests[m].phase
      await == awaits[Request(m)]
  IN
  /\ phase \in {"none", "closing"} => await = Idle
  /\ phase = "source" => await = Source(m) \/ await.kind = "error" \/ (await = Ok /\ m \in records)
  /\ phase \in {"resolving", "child"} =>
       m \in records /\ (await.kind \in {"resolve", "load", "error"} \/ await = Ok)
  /\ await.kind = "error" => await.error \in Nat
RequestsOK == \A m \in Modules : RequestOK(m)

\* The first half of CompletedGraphsAreClosed, element by element.
Closed ==
  \A m \in completedGraphs :
    /\ m \in loadedRequests
    /\ \A i \in 1..Len(requested[m]) : requested[m][i] \in completedGraphs

ClosureInv == Typed /\ Counted /\ RootsOK /\ GraphsOK /\ RequestsOK /\ Closed

-----------------------------------------------------------------------------
(* What the activities wait for *)

LEMMA Kinds ==
  /\ Idle.kind = "idle" /\ Ok.kind = "ok"
  /\ \A e : Error(e).kind = "error" /\ Error(e).error = e
  /\ \A m, referrer : Resolution(m, referrer).kind = "resolve"
  /\ \A m : Source(m).kind = "load"
  /\ \A m : RequestsOf(m).kind = "requests" /\ RequestsOf(m).module = m
  /\ \A m : GraphOf(m).kind = "graph" /\ GraphOf(m).module = m
BY DEF Idle, Ok, Error, Resolution, Source, RequestsOf, GraphOf

LEMMA ActivitiesDiffer ==
  /\ \A r, s : Root(r) = Root(s) => r = s
  /\ \A r, s : Graph(r) = Graph(s) => r = s
  /\ \A r, s : Request(r) = Request(s) => r = s
  /\ \A r, s : Root(r) # Graph(s) /\ Root(r) # Request(s) /\ Graph(r) # Request(s)
BY DEF Root, Graph, Request

LEMMA ActivitiesHere ==
  ASSUME Typed, Counted
  PROVE  /\ Len(roots) \in Nat /\ Len(graphs) \in Nat
         /\ \A r \in 1..Len(roots) : Root(r) \in Activities
         /\ \A s \in 1..Len(graphs) : Graph(s) \in Activities
         /\ \A m \in Modules : Request(m) \in Activities
         /\ IsFiniteSet(Acquirers) /\ Cardinality(Acquirers) \in Nat
         /\ Len(graphs) <= Cardinality(Acquirers) /\ Cardinality(Acquirers) <= Len(roots)
<1>1. Len(roots) \in Nat /\ Len(graphs) \in Nat
  BY LenProperties DEF Typed
<1>2. IsFiniteSet(1..Len(roots)) /\ Cardinality(1..Len(roots)) = Len(roots)
  <2>1. 1 \in Int /\ Len(roots) \in Int
    BY <1>1
  <2>2. /\ IsFiniteSet(1..Len(roots))
        /\ Cardinality(1..Len(roots)) = IF 1 > Len(roots) THEN 0 ELSE Len(roots) - 1 + 1
    BY <2>1, FS_Interval
  <2> QED BY <1>1, <2>2
<1>3. Acquirers \subseteq 1..Len(roots)
  BY DEF Acquirers
<1>4. /\ IsFiniteSet(Acquirers) /\ Cardinality(Acquirers) \in Nat
      /\ Cardinality(Acquirers) <= Len(roots)
  BY <1>2, <1>3, FS_Subset, FS_CardinalityType
<1>5. Len(graphs) <= MaxRoots /\ Len(roots) <= MaxRoots /\ MaxRoots \in Nat
  BY <1>1, <1>4, BoundAssumption DEF Counted
<1>6. \A r \in 1..Len(roots) : Root(r) \in Activities
  BY <1>1, <1>5 DEF Activities
<1>7. \A s \in 1..Len(graphs) : Graph(s) \in Activities
  BY <1>1, <1>5 DEF Activities
<1> QED BY <1>1, <1>4, <1>6, <1>7 DEF Activities, Counted

\* Settling a Promise changes what awaits it, and nothing else.
LEMMA Delivery ==
  ASSUME NEW what, NEW outcome, awaits' = Deliver(what, outcome)
  PROVE  /\ awaits' = [activity \in Activities |-> awaits'[activity]]
         /\ \A activity \in Activities :
              awaits'[activity] = IF awaits[activity] = what THEN outcome ELSE awaits[activity]
BY DEF Deliver

LEMMA DeliveryBut ==
  ASSUME NEW what, NEW outcome, NEW x \in Activities, NEW value,
         awaits' = [Deliver(what, outcome) EXCEPT ![x] = value]
  PROVE  /\ awaits' = [activity \in Activities |-> awaits'[activity]]
         /\ awaits'[x] = value
         /\ \A activity \in Activities \ {x} :
              awaits'[activity] = IF awaits[activity] = what THEN outcome ELSE awaits[activity]
BY DEF Deliver

LEMMA OneAwait ==
  ASSUME Typed, NEW x \in Activities, NEW value, awaits' = [awaits EXCEPT ![x] = value]
  PROVE  /\ awaits' = [activity \in Activities |-> awaits'[activity]]
         /\ awaits'[x] = value
         /\ \A activity \in Activities \ {x} : awaits'[activity] = awaits[activity]
BY DEF Typed

\* A settlement that is not of the requests of the module that a traversal
\* visits passes it by.
LEMMA TraversalPassedBy ==
  ASSUME NEW g, NEW await, NEW loaded, NEW request, TraversalOK(g, await, loaded, request),
         NEW what, what.kind \in {"resolve", "load", "graph"}
  PROVE  await # what
BY Kinds DEF TraversalOK

\* More modules acquired leave a traversal as it was; so does what is noted of
\* its failures.
LEMMA TraversalKept ==
  ASSUME NEW g, NEW await, NEW loaded, NEW request, TraversalOK(g, await, loaded, request),
         NEW loaded2, loaded \subseteq loaded2,
         NEW g2, g2.root = g.root, g2.visiting = g.visiting, g2.discovered = g.discovered,
         g2.todo = g.todo
  PROVE  TraversalOK(g2, await, loaded2, request)
BY DEF TraversalOK

-----------------------------------------------------------------------------
(* The host settles a resolution or a load *)

LEMMA HostSettles ==
  ASSUME ClosureInv, NEW what, what.kind \in {"resolve", "load"},
         NEW outcome, outcome = Ok \/ (outcome.kind = "error" /\ outcome.error \in Nat),
         awaits' = Deliver(what, outcome),
         UNCHANGED <<requested, loadedRequests, completedGraphs, roots, graphs, requests>>,
         records \subseteq records', records' \subseteq Modules, errors' \in 0..MaxErrors,
         \A m \in Modules : what = Source(m) /\ outcome = Ok => m \in records'
  PROVE  ClosureInv'
<1> USE Kinds
<1>1. Typed /\ Counted /\ RootsOK /\ GraphsOK /\ RequestsOK /\ Closed
  BY DEF ClosureInv
<1>2. /\ \A r \in 1..Len(roots) : Root(r) \in Activities
      /\ \A s \in 1..Len(graphs) : Graph(s) \in Activities
      /\ \A m \in Modules : Request(m) \in Activities
  BY <1>1, ActivitiesHere
<1>3. /\ awaits' = [activity \in Activities |-> awaits'[activity]]
      /\ \A activity \in Activities :
           awaits'[activity] = IF awaits[activity] = what THEN outcome ELSE awaits[activity]
  BY Delivery
<1>4. Typed'
  BY <1>1, <1>3 DEF Typed
<1>5. Counted' /\ Closed'
  BY <1>1 DEF Counted, Acquirers, Closed
<1>6. RootsOK'
  <2> SUFFICES ASSUME NEW r \in 1..Len(roots)
               PROVE  \/ /\ awaits'[Root(r)] = Resolution(roots[r].target, NoModule)
                         /\ roots[r].step = "resolving"
                      \/ /\ awaits'[Root(r)] = GraphOf(roots[r].target)
                         /\ roots[r].step = "acquiring"
                      \/ awaits'[Root(r)].kind = "error"
                      \/ /\ awaits'[Root(r)] = Ok
                         /\ roots[r].step = "acquiring" => roots[r].target \in completedGraphs
    BY DEF RootsOK
  <2>1. awaits'[Root(r)] = IF awaits[Root(r)] = what THEN outcome ELSE awaits[Root(r)]
    BY <1>2, <1>3
  <2>2. CASE awaits[Root(r)] = what
    <3>1. roots[r].step = "resolving"
      BY <1>1, <2>2 DEF RootsOK
    <3> QED BY <2>1, <2>2, <3>1
  <2>3. CASE awaits[Root(r)] # what
    BY <1>1, <2>1, <2>3 DEF RootsOK
  <2> QED BY <2>2, <2>3
<1>7. GraphsOK'
  <2> SUFFICES ASSUME NEW s \in 1..Len(graphs), graphs[s].active
               PROVE  TraversalOK(graphs[s], awaits'[Graph(s)], loadedRequests, requested)
    BY DEF GraphsOK
  <2>1. TraversalOK(graphs[s], awaits[Graph(s)], loadedRequests, requested)
    BY <1>1 DEF GraphsOK
  <2>2. awaits[Graph(s)] # what
    BY <2>1, TraversalPassedBy
  <2> QED BY <1>2, <1>3, <2>1, <2>2
<1>8. RequestsOK'
  <2> SUFFICES ASSUME NEW m \in Modules PROVE RequestOK(m)'
    BY DEF RequestsOK
  <2>1. RequestOK(m)
    BY <1>1 DEF RequestsOK
  <2>2. awaits'[Request(m)] = IF awaits[Request(m)] = what THEN outcome ELSE awaits[Request(m)]
    BY <1>2, <1>3
  <2>3. requests[m].phase \in {"none", "source", "resolving", "child", "closing"}
    BY <1>1 DEF Typed, RequestRecord
  <2>4. CASE awaits[Request(m)] # what
    BY <2>1, <2>2, <2>4 DEF RequestOK
  <2>5. CASE awaits[Request(m)] = what
    <3>1. awaits'[Request(m)] = outcome
      BY <2>2, <2>5
    <3>2. requests[m].phase \in {"source", "resolving", "child"}
      BY <2>1, <2>3, <2>5 DEF RequestOK
    <3>3. CASE requests[m].phase = "source"
      <4>1. what = Source(m)
        BY <2>1, <2>5, <3>3 DEF RequestOK
      <4> QED BY <3>1, <3>3, <4>1 DEF RequestOK
    <3>4. CASE requests[m].phase \in {"resolving", "child"}
      <4>1. m \in records'
        BY <2>1, <3>4 DEF RequestOK
      <4> QED BY <3>1, <3>4, <4>1 DEF RequestOK
    <3> QED BY <3>2, <3>3, <3>4
  <2> QED BY <2>4, <2>5
<1> QED BY <1>4, <1>5, <1>6, <1>7, <1>8 DEF ClosureInv

LEMMA ResolveStep ==
  ASSUME ClosureInv, NEW m, NEW referrer, ResolveSettles(m, referrer)
  PROVE  ClosureInv'
<1>1. UNCHANGED <<requested, records, loadedRequests, completedGraphs, roots, graphs, requests>>
  BY DEF ResolveSettles, cacheVars
<1>2. Resolution(m, referrer).kind = "resolve" /\ errors \in 0..MaxErrors /\ records \subseteq Modules
      /\ \A n : Resolution(m, referrer) # Source(n)
  BY Kinds DEF ClosureInv, Typed
<1>3. PICK what : what = Resolution(m, referrer)
  OBVIOUS
<1>4. CASE awaits' = Deliver(Resolution(m, referrer), Ok) /\ UNCHANGED errors
  BY <1>1, <1>2, <1>3, <1>4, HostSettles
<1>5. CASE /\ errors < MaxErrors /\ errors' = errors + 1
           /\ awaits' = Deliver(Resolution(m, referrer), Error(errors + 1))
  <2>1. Error(errors + 1).kind = "error" /\ Error(errors + 1).error \in Nat /\ errors' \in 0..MaxErrors
    BY <1>2, <1>5, Kinds, BoundAssumption
  <2> QED BY <1>1, <1>2, <1>3, <1>5, <2>1, HostSettles
<1> QED BY <1>4, <1>5 DEF ResolveSettles

LEMMA LoadStep ==
  ASSUME ClosureInv, NEW m \in Modules, LoadSettles(m)
  PROVE  ClosureInv'
<1>1. UNCHANGED <<requested, loadedRequests, completedGraphs, roots, graphs, requests>>
  BY DEF LoadSettles
<1>2. Source(m).kind = "load" /\ errors \in 0..MaxErrors /\ records \subseteq Modules
      /\ \A n : Source(m) = Source(n) => n = m
      /\ \A e : Error(e) # Ok
  BY Kinds DEF ClosureInv, Typed, Source
<1>3. PICK what : what = Source(m)
  OBVIOUS
<1>4. CASE records' = records \cup {m} /\ awaits' = Deliver(Source(m), Ok) /\ UNCHANGED errors
  BY <1>1, <1>2, <1>3, <1>4, HostSettles
<1>5. CASE /\ errors < MaxErrors /\ errors' = errors + 1
           /\ awaits' = Deliver(Source(m), Error(errors + 1))
           /\ UNCHANGED records
  <2>1. Error(errors + 1).kind = "error" /\ Error(errors + 1).error \in Nat /\ errors' \in 0..MaxErrors
    BY <1>2, <1>5, Kinds, BoundAssumption
  <2>2. PICK outcome : outcome = Error(errors + 1)
    OBVIOUS
  <2> QED BY <1>1, <1>2, <1>3, <1>5, <2>1, <2>2, HostSettles
<1> QED BY <1>4, <1>5 DEF LoadSettles

-----------------------------------------------------------------------------
(* Roots *)

LEMMA CallStep ==
  ASSUME ClosureInv, NEW m \in Modules, NEW insideItsLoad \in BOOLEAN, CallRoot(m, insideItsLoad)
  PROVE  ClosureInv'
<1> USE Kinds
<1>1. Typed /\ Counted /\ RootsOK /\ GraphsOK /\ RequestsOK /\ Closed
  BY DEF ClosureInv
<1>2. PICK root : root = [target |-> m, insideItsLoad |-> insideItsLoad, step |-> "resolving"]
  OBVIOUS
<1>3. PICK n : n = Len(roots) + 1
  OBVIOUS
<1>4. /\ roots' = Append(roots, root) /\ Len(roots) < MaxRoots
      /\ awaits' = [awaits EXCEPT ![Root(n)] = Resolution(m, NoModule)]
      /\ UNCHANGED <<requested, records, loadedRequests, completedGraphs, graphs, requests, errors>>
  BY <1>2, <1>3 DEF CallRoot, cacheVars
<1>5. root \in RootRecord /\ root.target = m /\ root.step = "resolving"
  BY <1>2 DEF RootRecord
<1>6. /\ Len(roots) \in Nat /\ n \in Nat
      /\ \A r \in 1..Len(roots) : Root(r) \in Activities
      /\ \A s \in 1..Len(graphs) : Graph(s) \in Activities
      /\ \A x \in Modules : Request(x) \in Activities
  BY <1>1, <1>3, ActivitiesHere
<1>7. /\ roots' \in Seq(RootRecord) /\ Len(roots') = n
      /\ \A r \in 1..Len(roots) : roots'[r] = roots[r]
      /\ roots'[n] = root
  BY <1>1, <1>3, <1>4, <1>5, AppendProperties DEF Typed
<1>8. n <= MaxRoots /\ Root(n) \in Activities
  <2>1. n \in 1..MaxRoots
    BY <1>3, <1>4, <1>6, BoundAssumption
  <2> QED BY <2>1 DEF Activities
<1>9. /\ awaits' = [activity \in Activities |-> awaits'[activity]]
      /\ awaits'[Root(n)] = Resolution(m, NoModule)
      /\ \A activity \in Activities \ {Root(n)} : awaits'[activity] = awaits[activity]
  BY <1>1, <1>4, <1>8, OneAwait
<1>10. Typed'
  BY <1>1, <1>4, <1>7, <1>9 DEF Typed
<1>11. Counted'
  <2>1. Acquirers' = Acquirers
    BY <1>3, <1>5, <1>6, <1>7 DEF Acquirers
  <2> QED BY <1>1, <1>4, <1>7, <1>8, <2>1 DEF Counted
<1>12. RootsOK'
  <2> SUFFICES ASSUME NEW r \in 1..n
               PROVE  \/ /\ awaits'[Root(r)] = Resolution(roots'[r].target, NoModule)
                         /\ roots'[r].step = "resolving"
                      \/ /\ awaits'[Root(r)] = GraphOf(roots'[r].target)
                         /\ roots'[r].step = "acquiring"
                      \/ awaits'[Root(r)].kind = "error"
                      \/ /\ awaits'[Root(r)] = Ok
                         /\ roots'[r].step = "acquiring" => roots'[r].target \in completedGraphs'
    BY <1>7 DEF RootsOK
  <2>1. CASE r = n
    BY <1>5, <1>7, <1>9, <2>1
  <2>2. CASE r \in 1..Len(roots)
    <3>1. r # n
      BY <1>3, <1>6, <2>2
    <3>2. awaits'[Root(r)] = awaits[Root(r)] /\ roots'[r] = roots[r]
      BY <1>6, <1>7, <1>9, <2>2, <3>1, ActivitiesDiffer
    <3> QED BY <1>1, <1>4, <2>2, <3>2 DEF RootsOK
  <2> QED BY <1>3, <1>6, <2>1, <2>2
<1>13. GraphsOK'
  <2>1. ASSUME NEW s \in 1..Len(graphs) PROVE awaits'[Graph(s)] = awaits[Graph(s)]
    <3>1. Graph(s) \in Activities \ {Root(n)}
      BY <1>6, ActivitiesDiffer
    <3> QED BY <1>9, <3>1
  <2> QED BY <1>1, <1>4, <2>1 DEF GraphsOK
<1>14. RequestsOK'
  <2>1. \A x \in Modules : awaits'[Request(x)] = awaits[Request(x)]
    BY <1>6, <1>9, ActivitiesDiffer, ZenonT(30)
  <2> QED BY <1>1, <1>4, <2>1 DEF RequestsOK, RequestOK
<1>15. Closed'
  BY <1>1, <1>4 DEF Closed
<1> QED BY <1>10, <1>11, <1>12, <1>13, <1>14, <1>15 DEF ClosureInv

\* What a traversal gets when it asks for the requests of m.
LEMMA Acquisition ==
  ASSUME Typed, Counted, RequestsOK, NEW m \in Modules, NEW s, Graph(s) \in Activities,
         NEW before, before = [activity \in Activities |-> before[activity]],
         \A x \in Modules : before[Request(x)] = awaits[Request(x)],
         AcquireRequests(m, s, before), records' = records
  PROVE  /\ awaits' = [activity \in Activities |-> awaits'[activity]]
         /\ \A x \in Activities : x # Graph(s) /\ (\A y \in Modules : x # Request(y))
              => awaits'[x] = before[x]
         /\ \/ awaits'[Graph(s)] = Ok /\ m \in loadedRequests
            \/ awaits'[Graph(s)].kind = "error"
            \/ awaits'[Graph(s)] = RequestsOf(m)
         /\ requests' \in [Modules -> RequestRecord]
         /\ RequestsOK'
<1> USE Kinds
<1>1. /\ Request(m) \in Activities /\ \A x \in Modules : Request(x) \in Activities
      /\ \A x : Request(x) # Graph(s)
      /\ \A x : Request(x) = Request(m) => x = m
  BY ActivitiesHere, ActivitiesDiffer
<1>2. ASSUME NEW outcome, awaits' = [before EXCEPT ![Graph(s)] = outcome], UNCHANGED requests,
             \/ outcome = Ok /\ m \in loadedRequests
             \/ outcome.kind = "error"
             \/ outcome = RequestsOf(m)
      PROVE  /\ awaits' = [activity \in Activities |-> awaits'[activity]]
             /\ \A x \in Activities : x # Graph(s) => awaits'[x] = before[x]
             /\ \/ awaits'[Graph(s)] = Ok /\ m \in loadedRequests
                \/ awaits'[Graph(s)].kind = "error"
                \/ awaits'[Graph(s)] = RequestsOf(m)
             /\ requests' \in [Modules -> RequestRecord]
             /\ RequestsOK'
  <2>1. /\ awaits' = [activity \in Activities |-> awaits'[activity]]
        /\ awaits'[Graph(s)] = outcome
        /\ \A x \in Activities : x # Graph(s) => awaits'[x] = before[x]
    BY <1>2
  <2>2. \A x \in Modules : awaits'[Request(x)] = awaits[Request(x)]
    BY <1>1, <2>1
  <2>3. RequestsOK'
    BY <1>2, <2>2 DEF RequestsOK, RequestOK
  <2>4. requests' \in [Modules -> RequestRecord]
    BY <1>2 DEF Typed
  <2> QED BY <1>2, <2>1, <2>3, <2>4
<1>3. CASE \E outcome \in Remembered(m, s) :
             awaits' = [before EXCEPT ![Graph(s)] = Error(outcome.error)] /\ UNCHANGED requests
  BY <1>2, <1>3
<1>4. CASE RequestsLoaded(m) /\ awaits' = [before EXCEPT ![Graph(s)] = Ok] /\ UNCHANGED requests
  BY <1>2, <1>4 DEF RequestsLoaded
<1>5. CASE awaits' = [before EXCEPT ![Graph(s)] = RequestsOf(m)] /\ UNCHANGED requests
  BY <1>2, <1>5
<1>6. CASE /\ requests[m].phase = "none"
           /\ requests' = [requests EXCEPT ![m] = [phase |-> "source", next |-> 0, error |-> 0]]
           /\ awaits' = [before EXCEPT ![Graph(s)] = RequestsOf(m), ![Request(m)] = SourceOf(m)]
  <2>1. /\ awaits' = [activity \in Activities |-> awaits'[activity]]
        /\ awaits'[Graph(s)] = RequestsOf(m)
        /\ awaits'[Request(m)] = SourceOf(m)
        /\ \A x \in Activities : x # Graph(s) /\ x # Request(m) => awaits'[x] = before[x]
    BY <1>1, <1>6
  <2>2. requests' \in [Modules -> RequestRecord]
    BY <1>6 DEF Typed, RequestRecord
  <2>3. RequestsOK'
    <3> SUFFICES ASSUME NEW x \in Modules PROVE RequestOK(x)'
      BY DEF RequestsOK
    <3>1. CASE x = m
      <4>1. requests'[x].phase = "source"
        BY <1>6, <3>1 DEF Typed
      <4>2. awaits'[Request(x)] = Source(x) \/ (awaits'[Request(x)] = Ok /\ x \in records')
        BY <2>1, <3>1 DEF SourceOf
      <4> QED BY <4>1, <4>2 DEF RequestOK
    <3>2. CASE x # m
      <4>1. requests'[x] = requests[x] /\ awaits'[Request(x)] = awaits[Request(x)]
        BY <1>1, <1>6, <2>1, <3>2 DEF Typed
      <4>2. RequestOK(x)
        BY DEF RequestsOK
      <4> QED BY <4>1, <4>2 DEF RequestOK
    <3> QED BY <3>1, <3>2
  <2> QED BY <2>1, <2>2, <2>3
<1> QED BY <1>3, <1>4, <1>5, <1>6 DEF AcquireRequests

\* The root call r goes on to acquire its graph.
LEMMA RootMovesOn ==
  ASSUME Typed, Counted, NEW r \in 1..Len(roots), roots[r].step = "resolving",
         roots' = [roots EXCEPT ![r].step = "acquiring"]
  PROVE  /\ roots' \in Seq(RootRecord) /\ Len(roots') = Len(roots)
         /\ roots'[r].step = "acquiring" /\ roots'[r].target = roots[r].target
         /\ roots[r].target \in Modules
         /\ \A x \in 1..Len(roots) : x # r => roots'[x] = roots[x]
         /\ Cardinality(Acquirers') = Cardinality(Acquirers) + 1
         /\ Cardinality(Acquirers') <= MaxRoots
<1>1. PICK root : root = [roots[r] EXCEPT !.step = "acquiring"]
  OBVIOUS
<1>2. Len(roots) \in Nat /\ roots \in Seq(RootRecord) /\ roots[r] \in RootRecord
  BY ActivitiesHere, ElementOfSeq DEF Typed
<1>3. root \in RootRecord /\ root.step = "acquiring" /\ root.target = roots[r].target
      /\ roots[r].target \in Modules
  BY <1>1, <1>2 DEF RootRecord
<1>4. roots' = [roots EXCEPT ![r] = root]
  BY <1>1
<1>5. /\ roots' \in Seq(RootRecord) /\ Len(roots') = Len(roots)
      /\ \A x \in 1..Len(roots) : roots'[x] = IF x = r THEN root ELSE roots[x]
  BY <1>2, <1>3, <1>4, ExceptSeq
<1>6. Acquirers' = Acquirers \cup {r} /\ r \notin Acquirers
  BY <1>3, <1>5 DEF Acquirers
<1>7. /\ IsFiniteSet(Acquirers) /\ Cardinality(Acquirers) \in Nat
  BY ActivitiesHere
<1>8. Cardinality(Acquirers') = Cardinality(Acquirers) + 1
  BY <1>6, <1>7, FS_AddElement
<1>9. Cardinality(Acquirers') <= MaxRoots
  <2>1. IsFiniteSet(1..Len(roots)) /\ Cardinality(1..Len(roots)) = Len(roots)
    <3>1. 1 \in Int /\ Len(roots) \in Int
      BY <1>2
    <3>2. /\ IsFiniteSet(1..Len(roots))
          /\ Cardinality(1..Len(roots)) = IF 1 > Len(roots) THEN 0 ELSE Len(roots) - 1 + 1
      BY <3>1, FS_Interval
    <3> QED BY <1>2, <3>2
  <2>2. Acquirers' \subseteq 1..Len(roots)
    BY <1>5 DEF Acquirers
  <2>3. Cardinality(Acquirers') <= Len(roots)
    BY <2>1, <2>2, FS_Subset
  <2>4. Cardinality(Acquirers') \in Nat /\ Len(roots) <= MaxRoots /\ MaxRoots \in Nat
    BY <1>7, <1>8, BoundAssumption DEF Counted
  <2> QED BY <1>2, <2>3, <2>4
<1> QED BY <1>3, <1>5, <1>8, <1>9

\* A root that moves on and gets `await` leaves the other roots as they were.
LEMMA RootsAfter ==
  ASSUME Typed, Counted, RootsOK, NEW r \in 1..Len(roots), roots[r].step = "resolving",
         roots' = [roots EXCEPT ![r].step = "acquiring"],
         completedGraphs' = completedGraphs,
         \A x \in 1..Len(roots) : x # r => awaits'[Root(x)] = awaits[Root(x)],
         \/ awaits'[Root(r)] = GraphOf(roots[r].target)
         \/ awaits'[Root(r)].kind = "error"
         \/ awaits'[Root(r)] = Ok /\ roots[r].target \in completedGraphs
  PROVE  RootsOK'
<1>1. /\ Len(roots') = Len(roots)
      /\ roots'[r].step = "acquiring" /\ roots'[r].target = roots[r].target
      /\ \A x \in 1..Len(roots) : x # r => roots'[x] = roots[x]
  BY RootMovesOn
<1> SUFFICES ASSUME NEW x \in 1..Len(roots)
             PROVE  \/ /\ awaits'[Root(x)] = Resolution(roots'[x].target, NoModule)
                       /\ roots'[x].step = "resolving"
                    \/ /\ awaits'[Root(x)] = GraphOf(roots'[x].target)
                       /\ roots'[x].step = "acquiring"
                    \/ awaits'[Root(x)].kind = "error"
                    \/ /\ awaits'[Root(x)] = Ok
                       /\ roots'[x].step = "acquiring" => roots'[x].target \in completedGraphs'
  BY <1>1 DEF RootsOK
<1>2. CASE x = r
  BY <1>1, <1>2
<1>3. CASE x # r
  BY <1>1, <1>3 DEF RootsOK
<1> QED BY <1>2, <1>3

LEMMA RootStep ==
  ASSUME ClosureInv, NEW r \in 1..Len(roots), RootResumes(r)
  PROVE  ClosureInv'
<1> USE Kinds
<1> DEFINE m == roots[r].target
           s == Len(graphs) + 1
<1>1. Typed /\ Counted /\ RootsOK /\ GraphsOK /\ RequestsOK /\ Closed
  BY DEF ClosureInv
<1>2. /\ roots[r].step = "resolving" /\ roots' = [roots EXCEPT ![r].step = "acquiring"]
      /\ UNCHANGED <<requested, records, loadedRequests, completedGraphs, errors>>
  BY DEF RootResumes, cacheVars
<1>3. /\ roots' \in Seq(RootRecord) /\ Len(roots') = Len(roots)
      /\ m \in Modules
      /\ Cardinality(Acquirers') = Cardinality(Acquirers) + 1
      /\ Cardinality(Acquirers') <= MaxRoots
  BY <1>1, <1>2, RootMovesOn
<1>4. /\ Len(roots) \in Nat /\ Len(graphs) \in Nat
      /\ \A x \in 1..Len(roots) : Root(x) \in Activities
      /\ \A x \in 1..Len(graphs) : Graph(x) \in Activities
      /\ \A x \in Modules : Request(x) \in Activities
      /\ Cardinality(Acquirers) \in Nat
      /\ Len(graphs) <= Cardinality(Acquirers)
  BY <1>1, ActivitiesHere
<1>5. Closed'
  BY <1>1, <1>2 DEF Closed
<1>6. ASSUME NEW outcome, awaits' = [awaits EXCEPT ![Root(r)] = outcome],
             UNCHANGED <<graphs, requests>>,
             \/ outcome = GraphOf(m)
             \/ outcome.kind = "error"
             \/ outcome = Ok /\ m \in completedGraphs
      PROVE  ClosureInv'
  <2>1. /\ awaits' = [activity \in Activities |-> awaits'[activity]]
        /\ awaits'[Root(r)] = outcome
        /\ \A activity \in Activities \ {Root(r)} : awaits'[activity] = awaits[activity]
    BY <1>1, <1>4, <1>6, OneAwait
  <2>2. Typed'
    BY <1>1, <1>2, <1>3, <1>6, <2>1 DEF Typed
  <2>3. Counted'
    BY <1>1, <1>3, <1>4, <1>6 DEF Counted
  <2>4. RootsOK'
    <3>1. \A x \in 1..Len(roots) : x # r => awaits'[Root(x)] = awaits[Root(x)]
      BY <1>4, <2>1, ActivitiesDiffer
    <3> QED BY <1>1, <1>2, <1>6, <2>1, <3>1, RootsAfter, ZenonT(30)
  <2>5. GraphsOK'
    <3>1. \A x \in 1..Len(graphs) : awaits'[Graph(x)] = awaits[Graph(x)]
      BY <1>4, <2>1, ActivitiesDiffer, ZenonT(30)
    <3> QED BY <1>1, <1>2, <1>6, <3>1 DEF GraphsOK
  <2>6. RequestsOK'
    <3>1. \A x \in Modules : awaits'[Request(x)] = awaits[Request(x)]
      BY <1>4, <2>1, ActivitiesDiffer
    <3> QED BY <1>1, <1>2, <1>6, <3>1 DEF RequestsOK, RequestOK
  <2> QED BY <1>5, <2>2, <2>3, <2>4, <2>5, <2>6 DEF ClosureInv
<1>7. ASSUME NEW g, g = [root |-> m, active |-> TRUE, requestFailures |-> {},
                         discovered |-> {m}, visiting |-> m, todo |-> <<>>,
                         failedMeanwhile |-> {}],
             graphs' = Append(graphs, g),
             AcquireRequests(m, s, [awaits EXCEPT ![Root(r)] = GraphOf(m)])
      PROVE  ClosureInv'
  <2>1. PICK before : before = [awaits EXCEPT ![Root(r)] = GraphOf(m)]
    OBVIOUS
  <2>2. /\ before = [activity \in Activities |-> before[activity]]
        /\ before[Root(r)] = GraphOf(m)
        /\ \A activity \in Activities \ {Root(r)} : before[activity] = awaits[activity]
    BY <1>1, <1>4, <2>1 DEF Typed
  <2>3. s \in 1..MaxRoots /\ Graph(s) \in Activities
    <3>1. s \in 1..MaxRoots
      BY <1>3, <1>4, BoundAssumption
    <3> QED BY <3>1 DEF Activities
  <2>4. ASSUME NEW x \in Modules PROVE before[Request(x)] = awaits[Request(x)]
    <3>1. Request(x) \in Activities /\ Request(x) # Root(r)
      BY <1>4, ActivitiesDiffer
    <3> QED BY <2>2, <3>1
  <2>5. /\ awaits' = [activity \in Activities |-> awaits'[activity]]
        /\ \A x \in Activities : x # Graph(s) /\ (\A y \in Modules : x # Request(y))
             => awaits'[x] = before[x]
        /\ \/ awaits'[Graph(s)] = Ok /\ m \in loadedRequests
           \/ awaits'[Graph(s)].kind = "error"
           \/ awaits'[Graph(s)] = RequestsOf(m)
        /\ requests' \in [Modules -> RequestRecord]
        /\ RequestsOK'
    <3> HIDE DEF m, s
    <3>1. AcquireRequests(m, s, before) /\ records' = records
      BY <1>2, <1>7, <2>1
    <3> QED BY <1>1, <1>3, <2>2, <2>3, <2>4, <3>1, Acquisition, SMTT(30)
  <2>6. g \in GraphRecord
    <3>1. <<>> \in Seq(Modules)
      BY EmptySeq
    <3> QED BY <1>3, <1>7, <3>1 DEF GraphRecord
  <2>7. /\ graphs' \in Seq(GraphRecord) /\ Len(graphs') = s
        /\ \A x \in 1..Len(graphs) : graphs'[x] = graphs[x]
        /\ graphs'[s] = g
    BY <1>1, <1>7, <2>6, AppendProperties DEF Typed
  <2>8. Typed'
    BY <1>1, <1>2, <1>3, <2>5, <2>7 DEF Typed
  <2>9. Counted'
    BY <1>1, <1>3, <1>4, <2>7 DEF Counted
  <2>10. /\ \A x \in 1..Len(roots) : awaits'[Root(x)] = before[Root(x)]
         /\ \A x \in 1..Len(graphs) : awaits'[Graph(x)] = awaits[Graph(x)]
    <3>1. ASSUME NEW x \in 1..Len(roots) PROVE awaits'[Root(x)] = before[Root(x)]
      <4>1. Root(x) \in Activities /\ Root(x) # Graph(s) /\ \A y : Root(x) # Request(y)
        BY <1>4, ActivitiesDiffer, ZenonT(30)
      <4> QED BY <2>5, <4>1
    <3>2. ASSUME NEW x \in 1..Len(graphs) PROVE awaits'[Graph(x)] = awaits[Graph(x)]
      <4>1. x # s
        BY <1>4
      <4>2. Graph(x) \in Activities /\ Graph(x) # Graph(s) /\ Graph(x) # Root(r)
            /\ \A y : Graph(x) # Request(y)
        BY <1>4, <4>1, ActivitiesDiffer, ZenonT(30)
      <4> QED BY <2>2, <2>5, <4>2
    <3> QED BY <3>1, <3>2
  <2>11. RootsOK'
    <3>1. ASSUME NEW x \in 1..Len(roots), x # r PROVE awaits'[Root(x)] = awaits[Root(x)]
      <4>1. Root(x) \in Activities /\ Root(x) # Root(r)
        BY <1>4, <3>1, ActivitiesDiffer
      <4> QED BY <2>2, <2>10, <4>1
    <3> QED BY <1>1, <1>2, <2>2, <2>10, <3>1, RootsAfter, ZenonT(30)
  <2>12. GraphsOK'
    <3> SUFFICES ASSUME NEW x \in 1..s, graphs'[x].active
                 PROVE  TraversalOK(graphs'[x], awaits'[Graph(x)], loadedRequests, requested)
      BY <1>2, <2>7 DEF GraphsOK
    <3>1. CASE x = s
      BY <1>7, <2>5, <2>7, <3>1 DEF TraversalOK
    <3>2. CASE x \in 1..Len(graphs)
      BY <1>1, <2>7, <2>10, <3>2 DEF GraphsOK
    <3> QED BY <1>4, <3>1, <3>2
  <2> QED BY <1>5, <2>5, <2>8, <2>9, <2>11, <2>12 DEF ClosureInv
<1>8. \/ awaits' = [awaits EXCEPT ![Root(r)] = Error(Reentered)] /\ UNCHANGED <<graphs, requests>>
      \/ /\ m \in completedGraphs
         /\ awaits' = [awaits EXCEPT ![Root(r)] = Ok] /\ UNCHANGED <<graphs, requests>>
      \/ awaits' = [awaits EXCEPT ![Root(r)] = GraphOf(m)] /\ UNCHANGED <<graphs, requests>>
      \/ /\ graphs' = Append(graphs, [root |-> m, active |-> TRUE, requestFailures |-> {},
                                      discovered |-> {m}, visiting |-> m, todo |-> <<>>,
                                      failedMeanwhile |-> {}])
         /\ AcquireRequests(m, s, [awaits EXCEPT ![Root(r)] = GraphOf(m)])
  BY DEF RootResumes
<1> QED BY <1>6, <1>7, <1>8

-----------------------------------------------------------------------------
(* Traversals *)

\* The three steps of a traversal change its own record only.
LEMMA OneTraversal ==
  ASSUME Typed, NEW s \in 1..Len(graphs), NEW g \in GraphRecord, graphs' = [graphs EXCEPT ![s] = g]
  PROVE  /\ graphs' \in Seq(GraphRecord) /\ Len(graphs') = Len(graphs)
         /\ graphs'[s] = g /\ \A x \in 1..Len(graphs) : x # s => graphs'[x] = graphs[x]
<1>1. graphs \in Seq(GraphRecord)
  BY DEF Typed
<1>2. /\ graphs' \in Seq(GraphRecord) /\ Len(graphs') = Len(graphs)
      /\ \A x \in 1..Len(graphs) : graphs'[x] = IF x = s THEN g ELSE graphs[x]
  BY <1>1, ExceptSeq
<1> QED BY <1>2

\* No acquisition of requests waits for a graph, or for the requests of a module.
LEMMA RequestsWaitForHost ==
  ASSUME Typed, RequestsOK, NEW m \in Modules
  PROVE  awaits[Request(m)].kind \in {"idle", "ok", "error", "resolve", "load"}
<1> USE Kinds
<1>1. requests[m].phase \in {"none", "source", "resolving", "child", "closing"}
  BY DEF Typed, RequestRecord
<1>2. RequestOK(m)
  BY DEF RequestsOK
<1> QED BY <1>1, <1>2 DEF RequestOK

LEMMA EndStep ==
  ASSUME ClosureInv, NEW s \in activeGraphSequences,
         NEW outcome, outcome = Ok \/ outcome.kind = "error", EndGraph(s, outcome),
         UNCHANGED <<requested, records, loadedRequests, roots, requests, errors>>,
         Closed', completedGraphs \subseteq completedGraphs',
         outcome = Ok => graphs[s].root \in completedGraphs'
  PROVE  ClosureInv'
<1> USE Kinds
<1>1. Typed /\ Counted /\ RootsOK /\ GraphsOK /\ RequestsOK
  BY DEF ClosureInv
<1>2. /\ \A x \in 1..Len(roots) : Root(x) \in Activities
      /\ \A x \in 1..Len(graphs) : Graph(x) \in Activities
      /\ \A x \in Modules : Request(x) \in Activities
  BY <1>1, ActivitiesHere
<1>3. s \in 1..Len(graphs) /\ graphs[s] \in GraphRecord
  BY <1>1, ElementOfSeq DEF activeGraphSequences, Typed
<1>4. PICK g : g = [graphs[s] EXCEPT !.active = FALSE, !.requestFailures = {},
                                     !.visiting = IF outcome = Ok THEN NoModule ELSE @]
  OBVIOUS
<1>5. g \in GraphRecord /\ ~g.active
  BY <1>3, <1>4 DEF GraphRecord
<1>6. graphs' = [graphs EXCEPT ![s] = g]
  BY <1>4 DEF EndGraph
<1>7. /\ graphs' \in Seq(GraphRecord) /\ Len(graphs') = Len(graphs)
      /\ graphs'[s] = g /\ \A x \in 1..Len(graphs) : x # s => graphs'[x] = graphs[x]
  BY <1>1, <1>3, <1>5, <1>6, OneTraversal
<1>8. PICK what : what = GraphOf(graphs[s].root)
  OBVIOUS
<1>9. awaits' = [Deliver(what, outcome) EXCEPT ![Graph(s)] = Idle]
  BY <1>8 DEF EndGraph
<1>10. /\ awaits' = [activity \in Activities |-> awaits'[activity]]
       /\ \A activity \in Activities \ {Graph(s)} :
            awaits'[activity] = IF awaits[activity] = what THEN outcome ELSE awaits[activity]
  BY <1>2, <1>3, <1>9, DeliveryBut
<1>11. Typed'
  BY <1>1, <1>7, <1>10 DEF Typed
<1>12. Counted'
  BY <1>1, <1>7 DEF Counted, Acquirers
<1>13. RootsOK'
  <2> SUFFICES ASSUME NEW r \in 1..Len(roots)
               PROVE  \/ /\ awaits'[Root(r)] = Resolution(roots[r].target, NoModule)
                         /\ roots[r].step = "resolving"
                      \/ /\ awaits'[Root(r)] = GraphOf(roots[r].target)
                         /\ roots[r].step = "acquiring"
                      \/ awaits'[Root(r)].kind = "error"
                      \/ /\ awaits'[Root(r)] = Ok
                         /\ roots[r].step = "acquiring" => roots[r].target \in completedGraphs'
    BY DEF RootsOK
  <2>1. Root(r) \in Activities /\ Root(r) # Graph(s)
    BY <1>2, ActivitiesDiffer, ZenonT(30)
  <2>2. awaits'[Root(r)] = IF awaits[Root(r)] = what THEN outcome ELSE awaits[Root(r)]
    BY <1>10, <2>1
  <2>3. CASE awaits[Root(r)] = what
    <3>1. what.kind = "graph" /\ what.module = graphs[s].root
      BY <1>8
    <3>2. awaits[Root(r)] = GraphOf(roots[r].target)
      BY <1>1, <2>3, <3>1 DEF RootsOK
    <3>3. roots[r].target = graphs[s].root
      BY <2>3, <3>1, <3>2
    <3> QED BY <2>2, <2>3, <3>3
  <2>4. CASE awaits[Root(r)] # what
    BY <1>1, <2>2, <2>4 DEF RootsOK
  <2> QED BY <2>3, <2>4
<1>14. GraphsOK'
  <2> SUFFICES ASSUME NEW x \in 1..Len(graphs), graphs'[x].active
               PROVE  TraversalOK(graphs'[x], awaits'[Graph(x)], loadedRequests, requested)
    BY <1>7 DEF GraphsOK
  <2>1. x # s /\ graphs'[x] = graphs[x]
    BY <1>5, <1>7
  <2>2. Graph(x) \in Activities /\ Graph(x) # Graph(s)
    BY <1>2, <2>1, ActivitiesDiffer
  <2>3. TraversalOK(graphs[x], awaits[Graph(x)], loadedRequests, requested)
    BY <1>1, <2>1 DEF GraphsOK
  <2>4. what.kind = "graph"
    BY <1>8
  <2>5. awaits[Graph(x)] # what
    BY <2>3, <2>4, TraversalPassedBy
  <2> QED BY <1>10, <2>1, <2>2, <2>3, <2>5
<1>15. RequestsOK'
  <2>1. ASSUME NEW m \in Modules PROVE awaits'[Request(m)] = awaits[Request(m)]
    <3>1. awaits[Request(m)] # what
      BY <1>1, <1>8, RequestsWaitForHost
    <3>2. Request(m) \in Activities /\ Request(m) # Graph(s)
      BY <1>2, ActivitiesDiffer
    <3> QED BY <1>10, <3>1, <3>2
  <2> QED BY <1>1, <2>1 DEF RequestsOK, RequestOK
<1> QED BY <1>11, <1>12, <1>13, <1>14, <1>15 DEF ClosureInv

LEMMA FailStep ==
  ASSUME ClosureInv, NEW s, GraphFails(s)
  PROVE  ClosureInv'
<1>1. s \in activeGraphSequences /\ awaits[Graph(s)].kind = "error"
  BY DEF GraphFails, HasFailed
<1>2. /\ EndGraph(s, awaits[Graph(s)])
      /\ UNCHANGED <<requested, records, loadedRequests, roots, requests, errors>>
      /\ completedGraphs' = completedGraphs
  BY DEF GraphFails, cacheVars
<1>3. Closed'
  BY <1>2 DEF ClosureInv, Closed
<1>4. awaits[Graph(s)] # Ok
  BY <1>1, Kinds
<1>5. PICK outcome : outcome = awaits[Graph(s)]
  OBVIOUS
<1> QED BY <1>1, <1>2, <1>3, <1>4, <1>5, EndStep

\* What lies ahead of a traversal: the requests of the module it visits, then
\* what it had to look at before.
LEMMA AheadProperties ==
  ASSUME Typed, NEW s \in 1..Len(graphs), graphs[s].visiting \in Modules
  PROVE  /\ Ahead(graphs[s]) \in Seq(Modules)
         /\ \A i \in 1..Len(requested[graphs[s].visiting]) :
              \E k \in 1..Len(Ahead(graphs[s])) :
                Ahead(graphs[s])[k] = requested[graphs[s].visiting][i]
         /\ \A i \in 1..Len(graphs[s].todo) :
              \E k \in 1..Len(Ahead(graphs[s])) : Ahead(graphs[s])[k] = graphs[s].todo[i]
<1>1. graphs[s] \in GraphRecord
  BY ElementOfSeq DEF Typed
<1>2. PICK front \in Seq(Modules) : front = requested[graphs[s].visiting]
  BY DEF Typed
<1>3. PICK rear \in Seq(Modules) : rear = graphs[s].todo
  BY <1>1 DEF GraphRecord
<1>4. PICK ahead : ahead = front \o rear
  OBVIOUS
<1>5. /\ ahead \in Seq(Modules) /\ Len(ahead) = Len(front) + Len(rear)
      /\ \A i \in 1..(Len(front) + Len(rear)) :
           ahead[i] = IF i <= Len(front) THEN front[i] ELSE rear[i - Len(front)]
  BY <1>4, ConcatProperties
<1>6. Len(front) \in Nat /\ Len(rear) \in Nat
  BY LenProperties
<1>7. ASSUME NEW i \in 1..Len(front) PROVE \E k \in 1..Len(ahead) : ahead[k] = front[i]
  BY <1>5, <1>6
<1>8. ASSUME NEW i \in 1..Len(rear) PROVE \E k \in 1..Len(ahead) : ahead[k] = rear[i]
  <2>1. i + Len(front) \in 1..Len(ahead) /\ ahead[i + Len(front)] = rear[i]
    BY <1>5, <1>6, SMTT(30)
  <2> QED BY <2>1
<1>9. Ahead(graphs[s]) = ahead
  BY <1>2, <1>3, <1>4 DEF Ahead
<1> QED BY <1>2, <1>3, <1>5, <1>7, <1>8, <1>9

LEMMA VisitStep ==
  ASSUME ClosureInv, NEW s, GraphResumes(s)
  PROVE  ClosureInv'
<1> USE Kinds
<1> DEFINE graph == graphs[s]
           ahead == Ahead(graphs[s])
<1>1. Typed /\ Counted /\ RootsOK /\ GraphsOK /\ RequestsOK /\ Closed
  BY DEF ClosureInv
<1>2. /\ s \in activeGraphSequences /\ awaits[Graph(s)] = Ok
      /\ UNCHANGED <<requested, records, loadedRequests, roots, errors>>
  BY DEF GraphResumes, MayGoOn
<1>3. s \in 1..Len(graphs) /\ graph \in GraphRecord /\ graph.active
  BY <1>1, <1>2, ElementOfSeq DEF activeGraphSequences, Typed
<1>4. TraversalOK(graph, awaits[Graph(s)], loadedRequests, requested)
  BY <1>1, <1>3 DEF GraphsOK
<1>5. /\ graph.root \in graph.discovered /\ graph.visiting \in graph.discovered
      /\ graph.discovered \subseteq Modules
      /\ \A m \in graph.discovered : m \in loadedRequests
      /\ \A m \in graph.discovered \ {graph.visiting} :
           \A i \in 1..Len(requested[m]) :
             \/ requested[m][i] \in graph.discovered
             \/ \E k \in 1..Len(graph.todo) : graph.todo[k] = requested[m][i]
  BY <1>2, <1>3, <1>4 DEF TraversalOK, GraphRecord
\* All that the discovered modules request is discovered or lies ahead.
<1>6. /\ ahead \in Seq(Modules) /\ Len(ahead) \in Nat
      /\ \A m \in graph.discovered : \A i \in 1..Len(requested[m]) :
           \/ requested[m][i] \in graph.discovered
           \/ \E k \in 1..Len(ahead) : ahead[k] = requested[m][i]
  <2>1. /\ ahead \in Seq(Modules)
        /\ \A i \in 1..Len(requested[graph.visiting]) :
             \E k \in 1..Len(ahead) : ahead[k] = requested[graph.visiting][i]
        /\ \A i \in 1..Len(graph.todo) : \E k \in 1..Len(ahead) : ahead[k] = graph.todo[i]
    BY <1>1, <1>3, <1>5, AheadProperties
  <2>2. ASSUME NEW m \in graph.discovered, NEW i \in 1..Len(requested[m])
        PROVE  \/ requested[m][i] \in graph.discovered
               \/ \E k \in 1..Len(ahead) : ahead[k] = requested[m][i]
    <3>1. CASE m = graph.visiting
      BY <2>1, <3>1
    <3>2. CASE m # graph.visiting
      BY <1>5, <2>1, <3>2
    <3> QED BY <3>1, <3>2
  <2> QED BY <2>1, <2>2, LenProperties
<1>7. ASSUME NEW i \in New(graph), \A j \in New(graph) : i <= j,
             graphs' = [graphs EXCEPT ![s].visiting = ahead[i],
                                      ![s].todo = SubSeq(ahead, i + 1, Len(ahead)),
                                      ![s].discovered = @ \cup {ahead[i]}],
             AcquireRequests(ahead[i], s, awaits), UNCHANGED completedGraphs
      PROVE  ClosureInv'
  <2>1. /\ i \in 1..Len(ahead) /\ ahead[i] \notin graph.discovered /\ ahead[i] \in Modules
        /\ \A k \in 1..Len(ahead) : k < i => ahead[k] \in graph.discovered
    BY <1>6, <1>7, ElementOfSeq DEF New
  <2>2. PICK m \in Modules : m = ahead[i]
    BY <2>1
  <2>3. PICK rest : rest = SubSeq(ahead, i + 1, Len(ahead))
    OBVIOUS
  <2>4. /\ rest \in Seq(Modules) /\ Len(rest) = Len(ahead) - i
        /\ \A k \in 1..(Len(ahead) - i) : rest[k] = ahead[i + k]
    <3>1. i + 1 \in Nat \ {0} /\ i + 1 <= Len(ahead) + 1 /\ Len(ahead) \in Nat
      BY <1>6, <2>1
    <3>2. /\ rest \in Seq(Modules) /\ Len(rest) = Len(ahead) - (i + 1) + 1
          /\ \A k \in 1..(Len(ahead) - (i + 1) + 1) : rest[k] = ahead[(i + 1) + k - 1]
      BY <1>6, <2>3, <3>1, SliceProperties
    <3> QED BY <1>6, <2>1, <3>2
  <2>5. PICK g : g = [graph EXCEPT !.visiting = m, !.todo = rest, !.discovered = @ \cup {m}]
    OBVIOUS
  <2>6. /\ g \in GraphRecord /\ g.root = graph.root /\ g.visiting = m /\ g.todo = rest
        /\ g.discovered = graph.discovered \cup {m}
    BY <1>3, <2>4, <2>5 DEF GraphRecord
  <2>7. graphs' = [graphs EXCEPT ![s] = g]
    BY <1>7, <2>2, <2>3, <2>5
  <2>8. /\ graphs' \in Seq(GraphRecord) /\ Len(graphs') = Len(graphs)
        /\ graphs'[s] = g /\ \A x \in 1..Len(graphs) : x # s => graphs'[x] = graphs[x]
    BY <1>1, <1>3, <2>6, <2>7, OneTraversal
  <2>9. /\ \A x \in 1..Len(roots) : Root(x) \in Activities
        /\ \A x \in 1..Len(graphs) : Graph(x) \in Activities
    BY <1>1, ActivitiesHere
  <2>10. /\ awaits' = [activity \in Activities |-> awaits'[activity]]
         /\ \A x \in Activities : x # Graph(s) /\ (\A y \in Modules : x # Request(y))
              => awaits'[x] = awaits[x]
         /\ \/ awaits'[Graph(s)] = Ok /\ m \in loadedRequests
            \/ awaits'[Graph(s)].kind = "error"
            \/ awaits'[Graph(s)] = RequestsOf(m)
         /\ requests' \in [Modules -> RequestRecord]
         /\ RequestsOK'
    <3>1. AcquireRequests(m, s, awaits) /\ records' = records /\ Graph(s) \in Activities
      BY <1>2, <1>3, <1>7, <2>2, <2>9
    <3>2. awaits = [activity \in Activities |-> awaits[activity]]
      BY <1>1 DEF Typed
    <3> QED BY <1>1, <3>1, <3>2, Acquisition
  <2>11. Typed'
    BY <1>1, <1>2, <2>8, <2>10 DEF Typed
  <2>12. Counted'
    BY <1>1, <1>2, <2>8 DEF Counted, Acquirers
  <2>13. RootsOK'
    <3>1. ASSUME NEW x \in 1..Len(roots) PROVE awaits'[Root(x)] = awaits[Root(x)]
      <4>1. Root(x) \in Activities /\ Root(x) # Graph(s) /\ \A y : Root(x) # Request(y)
        BY <2>9, ActivitiesDiffer
      <4> QED BY <2>10, <4>1
    <3> QED BY <1>1, <1>2, <1>7, <3>1 DEF RootsOK
  <2>14. ASSUME NEW n \in g.discovered \ {m}, NEW j \in 1..Len(requested[n])
         PROVE  \/ requested[n][j] \in g.discovered
                \/ \E k \in 1..Len(rest) : rest[k] = requested[n][j]
    <3>1. CASE requested[n][j] \in graph.discovered
      BY <2>6, <3>1
    <3>2. CASE \E k \in 1..Len(ahead) : ahead[k] = requested[n][j]
      <4>1. PICK k \in 1..Len(ahead) : ahead[k] = requested[n][j]
        BY <3>2
      <4>2. CASE k < i
        BY <2>1, <2>6, <4>1, <4>2
      <4>3. CASE k = i
        BY <2>2, <2>6, <4>1, <4>3
      <4>4. CASE k > i
        <5>1. k - i \in 1..Len(rest) /\ k - i \in 1..(Len(ahead) - i) /\ i + (k - i) = k
          BY <1>6, <2>1, <2>4, <4>4
        <5>2. rest[k - i] = requested[n][j]
          BY <2>4, <4>1, <5>1
        <5> QED BY <5>1, <5>2
      <4> QED BY <1>6, <2>1, <4>2, <4>3, <4>4
    <3> QED BY <1>6, <2>6, <3>1, <3>2
  <2>15. TraversalOK(g, awaits'[Graph(s)], loadedRequests, requested)
    <3>1. \A n \in g.discovered \ {m} : n \in loadedRequests
      BY <1>5, <2>6
    <3>2. g.root \in g.discovered /\ g.visiting \in g.discovered
      BY <1>5, <2>6
    <3> QED BY <2>6, <2>10, <2>14, <3>1, <3>2 DEF TraversalOK
  <2>16. GraphsOK'
    <3> SUFFICES ASSUME NEW x \in 1..Len(graphs), graphs'[x].active
                 PROVE  TraversalOK(graphs'[x], awaits'[Graph(x)], loadedRequests, requested)
      BY <1>2, <2>8 DEF GraphsOK
    <3>1. CASE x = s
      BY <2>8, <2>15, <3>1
    <3>2. CASE x # s
      <4>1. Graph(x) \in Activities /\ Graph(x) # Graph(s) /\ \A y : Graph(x) # Request(y)
        BY <2>9, <3>2, ActivitiesDiffer
      <4>2. awaits'[Graph(x)] = awaits[Graph(x)] /\ graphs'[x] = graphs[x]
        BY <2>8, <2>10, <3>2, <4>1
      <4> QED BY <1>1, <4>2 DEF GraphsOK
    <3> QED BY <3>1, <3>2
  <2>17. Closed'
    BY <1>1, <1>2, <1>7 DEF Closed
  <2> QED BY <2>10, <2>11, <2>12, <2>13, <2>16, <2>17 DEF ClosureInv
<1>8. ASSUME New(graph) = {}, completedGraphs' = completedGraphs \cup graph.discovered,
             EndGraph(s, Ok), UNCHANGED requests
      PROVE  ClosureInv'
  <2>1. \A k \in 1..Len(ahead) : ahead[k] \in graph.discovered
    BY <1>8 DEF New
  <2>2. \A m \in graph.discovered : \A i \in 1..Len(requested[m]) :
          requested[m][i] \in graph.discovered
    BY <1>6, <2>1
  <2>3. Closed'
    <3> SUFFICES ASSUME NEW m \in completedGraphs \cup graph.discovered
                 PROVE  /\ m \in loadedRequests
                        /\ \A i \in 1..Len(requested[m]) : requested[m][i] \in completedGraphs'
      BY <1>2, <1>8 DEF Closed
    <3>1. CASE m \in completedGraphs
      BY <1>1, <1>8, <3>1 DEF Closed
    <3>2. CASE m \in graph.discovered
      BY <1>5, <1>8, <2>2, <3>2
    <3> QED BY <3>1, <3>2
  <2>4. graph.root \in completedGraphs' /\ completedGraphs \subseteq completedGraphs'
    BY <1>5, <1>8
  <2>5. PICK outcome : outcome = Ok
    OBVIOUS
  <2> HIDE DEF graph, ahead
  <2> QED BY <1>2, <1>8, <2>3, <2>4, <2>5, EndStep DEF graph
<1> QED BY <1>7, <1>8 DEF GraphResumes

-----------------------------------------------------------------------------
(* Acquisition of the requests of a module *)

\* A step of the acquisition of m that concerns nobody else.
LEMMA RequestMovesOn ==
  ASSUME ClosureInv, NEW m \in Modules, NEW await,
         awaits' = [awaits EXCEPT ![Request(m)] = await],
         UNCHANGED <<requested, records, loadedRequests, completedGraphs, roots, errors>>,
         requests' \in [Modules -> RequestRecord],
         \A x \in Modules : x # m => requests'[x] = requests[x],
         RequestOK(m)',
         graphs' \in Seq(GraphRecord), Len(graphs') = Len(graphs),
         \A s \in 1..Len(graphs) :
           /\ graphs'[s].active = graphs[s].active /\ graphs'[s].root = graphs[s].root
           /\ graphs'[s].visiting = graphs[s].visiting /\ graphs'[s].todo = graphs[s].todo
           /\ graphs'[s].discovered = graphs[s].discovered
  PROVE  ClosureInv'
<1>1. Typed /\ Counted /\ RootsOK /\ GraphsOK /\ RequestsOK /\ Closed
  BY DEF ClosureInv
<1>2. /\ \A x \in 1..Len(roots) : Root(x) \in Activities
      /\ \A x \in 1..Len(graphs) : Graph(x) \in Activities
      /\ \A x \in Modules : Request(x) \in Activities
  BY <1>1, ActivitiesHere
<1>3. /\ awaits' = [activity \in Activities |-> awaits'[activity]]
      /\ \A activity \in Activities \ {Request(m)} : awaits'[activity] = awaits[activity]
  BY <1>1, <1>2, OneAwait
<1>4. Typed'
  BY <1>1, <1>3 DEF Typed
<1>5. Counted' /\ Closed'
  BY <1>1 DEF Counted, Acquirers, Closed
<1>6. RootsOK'
  <2>1. ASSUME NEW x \in 1..Len(roots) PROVE awaits'[Root(x)] = awaits[Root(x)]
    <3>1. Root(x) \in Activities /\ Root(x) # Request(m)
      BY <1>2, ActivitiesDiffer
    <3> QED BY <1>3, <3>1
  <2> QED BY <1>1, <2>1 DEF RootsOK
<1>7. GraphsOK'
  <2> SUFFICES ASSUME NEW x \in 1..Len(graphs), graphs'[x].active
               PROVE  TraversalOK(graphs'[x], awaits'[Graph(x)], loadedRequests, requested)
    BY DEF GraphsOK
  <2>1. Graph(x) \in Activities /\ Graph(x) # Request(m)
    BY <1>2, ActivitiesDiffer
  <2>2. TraversalOK(graphs[x], awaits[Graph(x)], loadedRequests, requested)
    BY <1>1 DEF GraphsOK
  <2>3. TraversalOK(graphs'[x], awaits[Graph(x)], loadedRequests, requested)
    BY <2>2, TraversalKept
  <2> QED BY <1>3, <2>1, <2>3
<1>8. RequestsOK'
  <2> SUFFICES ASSUME NEW x \in Modules, x # m PROVE RequestOK(x)'
    BY DEF RequestsOK
  <2>1. Request(x) \in Activities /\ Request(x) # Request(m)
    BY <1>2, ActivitiesDiffer
  <2>2. requests'[x] = requests[x] /\ awaits'[Request(x)] = awaits[Request(x)]
    BY <1>3, <2>1
  <2> QED BY <1>1, <2>2 DEF RequestsOK, RequestOK
<1> QED BY <1>4, <1>5, <1>6, <1>7, <1>8 DEF ClosureInv

\* The acquisition of m ends: whoever waits for its requests is told.
LEMMA RequestEnds ==
  ASSUME ClosureInv, NEW m \in Modules, NEW outcome,
         \/ outcome = Ok /\ m \in loadedRequests'
         \/ outcome.kind = "error",
         awaits' = [Deliver(RequestsOf(m), outcome) EXCEPT ![Request(m)] = Idle],
         UNCHANGED <<requested, records, completedGraphs, roots, errors>>,
         loadedRequests \subseteq loadedRequests', loadedRequests' \subseteq records,
         requests' = [requests EXCEPT ![m].phase = "none"],
         graphs' \in Seq(GraphRecord), Len(graphs') = Len(graphs),
         \A s \in 1..Len(graphs) :
           /\ graphs'[s].active = graphs[s].active /\ graphs'[s].root = graphs[s].root
           /\ graphs'[s].visiting = graphs[s].visiting /\ graphs'[s].todo = graphs[s].todo
           /\ graphs'[s].discovered = graphs[s].discovered
  PROVE  ClosureInv'
<1> USE Kinds
<1>1. Typed /\ Counted /\ RootsOK /\ GraphsOK /\ RequestsOK /\ Closed
  BY DEF ClosureInv
<1>2. /\ \A x \in 1..Len(roots) : Root(x) \in Activities
      /\ \A x \in 1..Len(graphs) : Graph(x) \in Activities
      /\ \A x \in Modules : Request(x) \in Activities
  BY <1>1, ActivitiesHere
<1>3. PICK what : what = RequestsOf(m)
  OBVIOUS
<1>4. what.kind = "requests" /\ what.module = m
  BY <1>3
<1>5. awaits' = [Deliver(what, outcome) EXCEPT ![Request(m)] = Idle]
  BY <1>3
<1>6. /\ awaits' = [activity \in Activities |-> awaits'[activity]]
      /\ awaits'[Request(m)] = Idle
      /\ \A activity \in Activities \ {Request(m)} :
           awaits'[activity] = IF awaits[activity] = what THEN outcome ELSE awaits[activity]
  <2>1. PICK x \in Activities : x = Request(m)
    BY <1>2
  <2>2. PICK value : value = Idle
    OBVIOUS
  <2>3. awaits' = [Deliver(what, outcome) EXCEPT ![x] = value]
    BY <1>5, <2>1, <2>2
  <2>4. /\ awaits' = [activity \in Activities |-> awaits'[activity]]
        /\ awaits'[x] = value
        /\ \A activity \in Activities \ {x} :
             awaits'[activity] = IF awaits[activity] = what THEN outcome ELSE awaits[activity]
    BY ONLY <2>3, x \in Activities, DeliveryBut
  <2> QED BY <2>1, <2>2, <2>4
<1>7. /\ requests' \in [Modules -> RequestRecord] /\ requests'[m].phase = "none"
      /\ \A x \in Modules : x # m => requests'[x] = requests[x]
  <2>1. requests \in [Modules -> RequestRecord]
    BY <1>1 DEF Typed
  <2>2. [requests[m] EXCEPT !.phase = "none"] \in RequestRecord
    BY <2>1 DEF RequestRecord
  <2>3. requests' = [requests EXCEPT ![m] = [requests[m] EXCEPT !.phase = "none"]]
    OBVIOUS
  <2>4. [requests[m] EXCEPT !.phase = "none"].phase = "none"
    BY <2>1 DEF RequestRecord
  <2> QED BY <2>1, <2>2, <2>3, <2>4
<1>8. Typed'
  BY <1>1, <1>6, <1>7 DEF Typed
<1>9. Counted'
  BY <1>1 DEF Counted, Acquirers
<1>10. Closed'
  BY <1>1 DEF Closed
<1>11. RootsOK'
  <2>1. ASSUME NEW x \in 1..Len(roots) PROVE awaits'[Root(x)] = awaits[Root(x)]
    <3>1. Root(x) \in Activities /\ Root(x) # Request(m)
      BY <1>2, ActivitiesDiffer
    <3>2. awaits[Root(x)] # what
      BY <1>1, <1>4 DEF RootsOK
    <3> QED BY <1>6, <3>1, <3>2
  <2> QED BY <1>1, <2>1 DEF RootsOK
<1>12. GraphsOK'
  <2> SUFFICES ASSUME NEW x \in 1..Len(graphs), graphs'[x].active
               PROVE  TraversalOK(graphs'[x], awaits'[Graph(x)], loadedRequests', requested)
    BY DEF GraphsOK
  <2>1. Graph(x) \in Activities /\ Graph(x) # Request(m)
    BY <1>2, ActivitiesDiffer
  <2>2. TraversalOK(graphs[x], awaits[Graph(x)], loadedRequests, requested)
    BY <1>1 DEF GraphsOK
  <2>3. TraversalOK(graphs'[x], awaits[Graph(x)], loadedRequests', requested)
    BY <2>2, TraversalKept
  <2>4. awaits'[Graph(x)] = IF awaits[Graph(x)] = what THEN outcome ELSE awaits[Graph(x)]
    BY <1>6, <2>1
  <2>5. CASE awaits[Graph(x)] = what
    <3>1. graphs'[x].visiting = m
      BY <1>4, <2>3, <2>5 DEF TraversalOK
    <3> QED BY <2>3, <2>4, <2>5, <3>1 DEF TraversalOK
  <2>6. CASE awaits[Graph(x)] # what
    BY <2>3, <2>4, <2>6
  <2> QED BY <2>5, <2>6
<1>13. RequestsOK'
  <2> SUFFICES ASSUME NEW x \in Modules PROVE RequestOK(x)'
    BY DEF RequestsOK
  <2>1. CASE x = m
    BY <1>6, <1>7, <2>1 DEF RequestOK
  <2>2. CASE x # m
    <3>1. Request(x) \in Activities /\ Request(x) # Request(m)
      BY <1>2, <2>2, ActivitiesDiffer
    <3>2. awaits[Request(x)] # what
      BY <1>1, <1>4, RequestsWaitForHost
    <3>3. requests'[x] = requests[x] /\ awaits'[Request(x)] = awaits[Request(x)]
      BY <1>6, <1>7, <2>2, <3>1, <3>2
    <3> QED BY <1>1, <3>3, ZenonT(30) DEF RequestsOK, RequestOK
  <2> QED BY <2>1, <2>2
<1> QED BY <1>8, <1>9, <1>10, <1>11, <1>12, <1>13 DEF ClosureInv

LEMMA RequestStep ==
  ASSUME ClosureInv, NEW m \in Modules, RequestResumes(m)
  PROVE  ClosureInv'
<1> USE Kinds
<1>1. Typed /\ RequestsOK /\ requests \in [Modules -> RequestRecord] /\ RequestOK(m)
  BY DEF ClosureInv, Typed, RequestsOK
<1>2. /\ awaits[Request(m)] = Ok
      /\ UNCHANGED <<requested, records, completedGraphs, roots, graphs, errors>>
  BY DEF RequestResumes, MayGoOn
<1>3. /\ graphs' \in Seq(GraphRecord) /\ Len(graphs') = Len(graphs)
      /\ \A s \in 1..Len(graphs) :
           /\ graphs'[s].active = graphs[s].active /\ graphs'[s].root = graphs[s].root
           /\ graphs'[s].visiting = graphs[s].visiting /\ graphs'[s].todo = graphs[s].todo
           /\ graphs'[s].discovered = graphs[s].discovered
  BY <1>1, <1>2 DEF Typed
<1>4. requests[m].phase \in {"source", "resolving", "child"} => m \in records
  BY <1>1, <1>2 DEF RequestOK
<1>5. Request(m) \in Activities
  BY ActivitiesHere DEF ClosureInv
<1>6. CASE /\ requests[m].phase = "resolving"
           /\ requests' = [requests EXCEPT ![m].phase = "child"]
           /\ awaits' = [awaits EXCEPT ![Request(m)] = SourceOf(requested[m][requests[m].next])]
           /\ UNCHANGED loadedRequests
  <2>1. PICK q : q = [requests[m] EXCEPT !.phase = "child"]
    OBVIOUS
  <2>2. q \in RequestRecord /\ q.phase = "child" /\ requests' = [requests EXCEPT ![m] = q]
    BY <1>1, <1>6, <2>1 DEF RequestRecord
  <2>3. /\ requests' \in [Modules -> RequestRecord] /\ requests'[m].phase = "child"
        /\ \A x \in Modules : x # m => requests'[x] = requests[x]
    BY <1>1, <2>2
  <2>4. PICK await : await = SourceOf(requested[m][requests[m].next])
    OBVIOUS
  <2>5. await = Ok \/ await.kind = "load"
    BY <2>4 DEF SourceOf
  <2>6. awaits'[Request(m)] = await
    BY <1>1, <1>5, <1>6, <2>4 DEF Typed
  <2>7. RequestOK(m)'
    BY <1>2, <1>4, <1>6, <2>3, <2>5, <2>6 DEF RequestOK
  <2> QED BY <1>2, <1>3, <1>6, <2>3, <2>4, <2>7, RequestMovesOn
<1>7. CASE /\ requests[m].phase \in {"source", "child"}
           /\ requests' = [requests EXCEPT ![m].phase = "resolving", ![m].next = @ + 1]
           /\ awaits' = [awaits EXCEPT ![Request(m)]
                           = Resolution(requested[m][requests[m].next + 1], m)]
           /\ UNCHANGED loadedRequests
  <2>1. PICK q : q = [requests[m] EXCEPT !.phase = "resolving", !.next = @ + 1]
    OBVIOUS
  <2>2. q \in RequestRecord /\ q.phase = "resolving" /\ requests' = [requests EXCEPT ![m] = q]
    BY <1>1, <1>7, <2>1 DEF RequestRecord
  <2>3. /\ requests' \in [Modules -> RequestRecord] /\ requests'[m].phase = "resolving"
        /\ \A x \in Modules : x # m => requests'[x] = requests[x]
    BY <1>1, <2>2
  <2>4. PICK await : await = Resolution(requested[m][requests[m].next + 1], m)
    OBVIOUS
  <2>5. await.kind = "resolve"
    BY <2>4
  <2>6. awaits'[Request(m)] = await
    BY <1>1, <1>5, <1>7, <2>4 DEF Typed
  <2>7. RequestOK(m)'
    BY <1>2, <1>4, <1>7, <2>3, <2>5, <2>6 DEF RequestOK
  <2> QED BY <1>2, <1>3, <1>7, <2>3, <2>4, <2>7, RequestMovesOn
<1>8. CASE /\ requests[m].phase \in {"source", "child"}
           /\ requests' = [requests EXCEPT ![m].phase = "none"]
           /\ loadedRequests' = loadedRequests \cup {m}
           /\ awaits' = [Deliver(RequestsOf(m), Ok) EXCEPT ![Request(m)] = Idle]
  <2>1. /\ m \in loadedRequests' /\ loadedRequests \subseteq loadedRequests'
        /\ loadedRequests' \subseteq records
    BY <1>1, <1>4, <1>8 DEF Typed
  <2>2. PICK outcome : outcome = Ok
    OBVIOUS
  <2> QED BY <1>2, <1>3, <1>8, <2>1, <2>2, RequestEnds
<1> QED BY <1>6, <1>7, <1>8 DEF RequestResumes

\* What is noted of failures leaves the traversals where they are.
LEMMA NotedTypes ==
  ASSUME Typed, NEW m \in Modules, NEW error \in Nat, NEW traversals,
         NEW noted, noted = Noted(m, error, traversals)
  PROVE  /\ noted \in Seq(GraphRecord) /\ Len(noted) = Len(graphs)
         /\ \A s \in 1..Len(graphs) :
              /\ noted[s] \in GraphRecord
              /\ noted[s].active = graphs[s].active /\ noted[s].root = graphs[s].root
              /\ noted[s].visiting = graphs[s].visiting /\ noted[s].todo = graphs[s].todo
              /\ noted[s].discovered = graphs[s].discovered
              /\ noted[s].requestFailures = graphs[s].requestFailures
<1>1. graphs \in Seq(GraphRecord) /\ Len(graphs) \in Nat
  BY LenProperties DEF Typed
<1>2. ASSUME NEW s \in 1..Len(graphs)
      PROVE  /\ noted[s] \in GraphRecord
             /\ noted[s].active = graphs[s].active /\ noted[s].root = graphs[s].root
             /\ noted[s].visiting = graphs[s].visiting /\ noted[s].todo = graphs[s].todo
             /\ noted[s].discovered = graphs[s].discovered
             /\ noted[s].requestFailures = graphs[s].requestFailures
  <2>1. graphs[s] \in GraphRecord
    BY <1>1, ElementOfSeq
  <2>2. noted[s] = graphs[s] \/ noted[s] = [graphs[s] EXCEPT !.failedMeanwhile = @ \cup {<<m, error>>}]
    BY DEF Noted
  <2>3. [graphs[s] EXCEPT !.failedMeanwhile = @ \cup {<<m, error>>}] \in GraphRecord
    BY <2>1 DEF GraphRecord
  <2> QED BY <2>1, <2>2, <2>3 DEF GraphRecord
<1>3. noted \in [1..Len(graphs) -> GraphRecord]
  BY <1>2 DEF Noted
<1>4. noted \in Seq(GraphRecord) /\ Len(noted) = Len(graphs)
  BY <1>1, <1>3, SeqDef, LenProperties
<1> QED BY <1>2, <1>4

LEMMA RequestFailStep ==
  ASSUME ClosureInv, NEW m \in Modules, RequestFails(m)
  PROVE  ClosureInv'
<1> USE Kinds
<1>1. Typed /\ RequestOK(m) /\ Request(m) \in Activities
  BY ActivitiesHere DEF ClosureInv, RequestsOK
<1>2. PICK error : error = awaits[Request(m)].error
  OBVIOUS
<1>3. error \in Nat
  BY <1>1, <1>2 DEF RequestFails, HasFailed, RequestOK
<1>4. PICK noted : noted = Noted(m, error, activeGraphSequences)
  OBVIOUS
<1>5. PICK wave : wave = {s \in activeGraphSequences : s > requestFailures[m].throughSequence}
  OBVIOUS
<1>6. /\ noted \in Seq(GraphRecord) /\ Len(noted) = Len(graphs)
      /\ \A s \in 1..Len(graphs) :
           /\ noted[s] \in GraphRecord
           /\ noted[s].active = graphs[s].active /\ noted[s].root = graphs[s].root
           /\ noted[s].visiting = graphs[s].visiting /\ noted[s].todo = graphs[s].todo
           /\ noted[s].discovered = graphs[s].discovered
  BY <1>1, <1>3, <1>4, NotedTypes
<1>7. /\ graphs' = [s \in 1..Len(graphs) |->
            IF s \in wave THEN [noted[s] EXCEPT !.requestFailures = @ \cup {<<m, error>>}]
            ELSE noted[s]]
      /\ requests' = [requests EXCEPT ![m].phase = "closing", ![m].error = error]
      /\ awaits' = [awaits EXCEPT ![Request(m)] = Idle]
      /\ UNCHANGED <<requested, records, loadedRequests, completedGraphs, roots, errors>>
  BY <1>2, <1>4, <1>5 DEF RequestFails, cacheVars
<1>8. ASSUME NEW s \in 1..Len(graphs)
      PROVE  /\ graphs'[s] \in GraphRecord
             /\ graphs'[s].active = graphs[s].active /\ graphs'[s].root = graphs[s].root
             /\ graphs'[s].visiting = graphs[s].visiting /\ graphs'[s].todo = graphs[s].todo
             /\ graphs'[s].discovered = graphs[s].discovered
  <2>1. noted[s] \in GraphRecord
    BY <1>6
  <2>2. \/ graphs'[s] = noted[s]
        \/ graphs'[s] = [noted[s] EXCEPT !.requestFailures = @ \cup {<<m, error>>}]
    BY <1>7
  <2>3. PICK failures : failures = noted[s].requestFailures \cup {<<m, error>>}
    OBVIOUS
  <2>4. failures \in SUBSET (Modules \X Nat)
    BY <1>3, <2>1, <2>3 DEF GraphRecord
  <2>5. [noted[s] EXCEPT !.requestFailures = failures] \in GraphRecord
    BY <2>1, <2>4 DEF GraphRecord
  <2>6. \/ graphs'[s] = noted[s]
        \/ graphs'[s] = [noted[s] EXCEPT !.requestFailures = failures]
    BY <2>2, <2>3
  <2> QED BY <1>6, <2>1, <2>5, <2>6, ZenonT(30) DEF GraphRecord
<1>9. graphs' \in Seq(GraphRecord) /\ Len(graphs') = Len(graphs)
  <2>1. Len(graphs) \in Nat
    BY <1>1, LenProperties DEF Typed
  <2>2. graphs' \in [1..Len(graphs) -> GraphRecord]
    BY <1>7, <1>8
  <2> QED BY <2>1, <2>2, SeqDef, LenProperties
<1>10. PICK q : q = [requests[m] EXCEPT !.phase = "closing", !.error = error]
  OBVIOUS
<1>11. q \in RequestRecord /\ q.phase = "closing" /\ requests' = [requests EXCEPT ![m] = q]
  BY <1>1, <1>3, <1>7, <1>10, ZenonT(30) DEF Typed, RequestRecord
<1>12. /\ requests' \in [Modules -> RequestRecord] /\ requests'[m].phase = "closing"
       /\ \A x \in Modules : x # m => requests'[x] = requests[x]
  BY <1>1, <1>11 DEF Typed
<1>13. RequestOK(m)'
  <2>1. awaits'[Request(m)] = Idle
    BY <1>1, <1>7 DEF Typed
  <2> QED BY <1>12, <2>1 DEF RequestOK
<1>14. PICK await : await = Idle
  OBVIOUS
<1> QED BY <1>7, <1>8, <1>9, <1>12, <1>13, <1>14, RequestMovesOn

LEMMA RequestCloseStep ==
  ASSUME ClosureInv, NEW m \in Modules, RequestCloses(m)
  PROVE  ClosureInv'
<1> USE Kinds
<1>1. Typed /\ RequestOK(m) /\ Request(m) \in Activities
  BY ActivitiesHere DEF ClosureInv, RequestsOK
<1>2. PICK error : error = requests[m].error
  OBVIOUS
<1>3. error \in Nat
  BY <1>1, <1>2 DEF Typed, RequestRecord
<1>4. /\ requests[m].phase = "closing"
      /\ requests' = [requests EXCEPT ![m].phase = "none"]
      /\ awaits' = Deliver(RequestsOf(m), Error(error))
      /\ graphs' = Noted(m, error, {s \in activeGraphSequences : awaits[Graph(s)] = RequestsOf(m)})
      /\ UNCHANGED <<requested, records, loadedRequests, completedGraphs, roots, errors>>
  BY <1>2 DEF RequestCloses, cacheVars
<1>5. PICK traversals : traversals = {s \in activeGraphSequences : awaits[Graph(s)] = RequestsOf(m)}
  OBVIOUS
<1>6. /\ graphs' \in Seq(GraphRecord) /\ Len(graphs') = Len(graphs)
      /\ \A s \in 1..Len(graphs) :
           /\ graphs'[s].active = graphs[s].active /\ graphs'[s].root = graphs[s].root
           /\ graphs'[s].visiting = graphs[s].visiting /\ graphs'[s].todo = graphs[s].todo
           /\ graphs'[s].discovered = graphs[s].discovered
  BY <1>1, <1>3, <1>4, <1>5, NotedTypes
<1>7. awaits[Request(m)] = Idle
  BY <1>1, <1>4 DEF RequestOK
<1>8. awaits' = [Deliver(RequestsOf(m), Error(error)) EXCEPT ![Request(m)] = Idle]
  <2>1. Deliver(RequestsOf(m), Error(error))[Request(m)] = Idle
    BY <1>1, <1>7 DEF Deliver
  <2> QED BY <1>4, <2>1 DEF Deliver
<1>9. PICK outcome : outcome = Error(error)
  OBVIOUS
<1>10. loadedRequests' \subseteq records /\ loadedRequests \subseteq loadedRequests'
  BY <1>1, <1>4 DEF Typed
<1>11. outcome.kind = "error"
  BY <1>9
<1> QED BY <1>4, <1>6, <1>8, <1>9, <1>10, <1>11, RequestEnds

-----------------------------------------------------------------------------
LEMMA ClosureInit == Init => ClosureInv
<1> SUFFICES ASSUME Init PROVE ClosureInv
  OBVIOUS
<1>1. requested \in Graphs /\ requested \in [Modules -> Seq(Modules)]
  BY GraphAssumption DEF Init
<1>2. roots \in Seq(RootRecord) /\ graphs \in Seq(GraphRecord) /\ Len(roots) = 0 /\ Len(graphs) = 0
  BY EmptySeq DEF Init
<1>3. requests \in [Modules -> RequestRecord]
  BY DEF Init, RequestRecord
<1>4. Typed
  BY <1>1, <1>2, <1>3, BoundAssumption DEF Init, Typed
<1>5. Counted
  <2>1. Acquirers = {}
    BY <1>2 DEF Acquirers
  <2> QED BY <1>2, <2>1, FS_EmptySet, BoundAssumption DEF Counted
<1>6. RequestsOK
  <2>1. \A m \in Modules : Request(m) \in Activities
    BY DEF Activities
  <2>2. \A m \in Modules : awaits[Request(m)] = Idle /\ requests[m].phase = "none"
    BY <2>1 DEF Init
  <2> QED BY <2>2, Kinds DEF RequestsOK, RequestOK
<1>7. RootsOK /\ GraphsOK /\ Closed
  BY <1>2 DEF Init, RootsOK, GraphsOK, Closed
<1> QED BY <1>4, <1>5, <1>6, <1>7 DEF ClosureInv

LEMMA ClosureStep == ClosureInv /\ [Next]_vars => ClosureInv'
<1> SUFFICES ASSUME ClosureInv, [Next]_vars PROVE ClosureInv'
  OBVIOUS
<1>1. CASE Progress
  BY <1>1, ResolveStep, LoadStep, RequestStep, RequestFailStep, RequestCloseStep,
     RootStep, VisitStep, FailStep DEF Progress
<1>2. ASSUME NEW m \in Modules, NEW insideItsLoad \in BOOLEAN, CallRoot(m, insideItsLoad)
      PROVE  ClosureInv'
  BY <1>2, CallStep
<1>3. CASE UNCHANGED vars
  BY <1>3 DEF vars, cacheVars, ClosureInv, Typed, Counted, Acquirers, RootsOK, GraphsOK,
              RequestsOK, RequestOK, Closed
<1> QED BY <1>1, <1>2, <1>3 DEF Next

\* Whichever overlapping, cyclic or failing traversals acquired it, a graph that
\* counts as complete has all it reaches, and a root call that got its graph got
\* a complete one: linking never meets an edge without its requests.
THEOREM CompleteGraphsAreClosed == Spec => []CompletedGraphsAreClosed
<1>1. ClosureInv => CompletedGraphsAreClosed
  <2> SUFFICES ASSUME ClosureInv PROVE CompletedGraphsAreClosed
    OBVIOUS
  <2>1. ASSUME NEW m \in completedGraphs
        PROVE  m \in loadedRequests /\ Range(requested[m]) \subseteq completedGraphs
    <3>1. m \in Modules /\ requested[m] \in Seq(Modules)
      BY DEF ClosureInv, Closed, Typed
    <3>2. DOMAIN requested[m] = 1..Len(requested[m])
      BY <3>1, LenProperties
    <3> QED BY <3>2 DEF ClosureInv, Closed, Range
  <2>2. ASSUME NEW r \in 1..Len(roots), Acquired(r)
        PROVE  roots[r].target \in completedGraphs
    <3>1. roots[r].step = "acquiring" /\ awaits[Root(r)] = Ok
      BY <2>2 DEF Acquired
    <3> QED BY <3>1, Kinds DEF ClosureInv, RootsOK
  <2> QED BY <2>1, <2>2 DEF CompletedGraphsAreClosed
<1> QED BY <1>1, ClosureInit, ClosureStep, PTL DEF Spec

\* Every variable keeps its type: a module whose requests count as acquired has
\* its record, also while other traversals fail or acquire it again.
THEOREM Typing == Spec => []TypeOK
<1>1. ClosureInv => TypeOK
  BY DEF ClosureInv, Closed, Typed, TypeOK
<1> QED BY <1>1, ClosureInit, ClosureStep, PTL DEF Spec

-----------------------------------------------------------------------------
(* The failure queues *)

\* The function behind RetainedOutcomes().
KeptFrom(s, f, n) ==
  f = [i \in 0..n |-> IF i = 0 THEN <<>>
                      ELSE IF s[i].retained THEN Append(f[i - 1], s[i]) ELSE f[i - 1]]

LEMMA KeptExists ==
  ASSUME NEW s, NEW n \in Nat
  PROVE  \E f : KeptFrom(s, f, n)
<1> DEFINE P == {k \in Nat : \E f : KeptFrom(s, f, k)}
<1>1. 0 \in P
  <2>1. KeptFrom(s, [i \in 0..0 |-> <<>>], 0)
    BY DEF KeptFrom
  <2> QED BY <2>1
<1>2. ASSUME NEW k \in Nat, k \in P PROVE k + 1 \in P
  <2>1. PICK f : KeptFrom(s, f, k)
    BY <1>2
  <2> DEFINE g == [i \in 0..(k + 1) |->
                     IF i = k + 1
                       THEN IF s[k + 1].retained THEN Append(f[k], s[k + 1]) ELSE f[k]
                       ELSE f[i]]
  <2>2. \A i \in 0..k : f[i] = IF i = 0 THEN <<>>
                               ELSE IF s[i].retained THEN Append(f[i - 1], s[i]) ELSE f[i - 1]
    BY <2>1 DEF KeptFrom
  <2>3. \A i \in 0..(k + 1) : g[i] = IF i = k + 1
                       THEN IF s[k + 1].retained THEN Append(f[k], s[k + 1]) ELSE f[k]
                       ELSE f[i]
    OBVIOUS
  <2>4. g = [i \in 0..(k + 1) |-> g[i]]
    OBVIOUS
  <2> HIDE DEF g
  <2>5. ASSUME NEW i \in 0..(k + 1)
        PROVE  g[i] = IF i = 0 THEN <<>>
                      ELSE IF s[i].retained THEN Append(g[i - 1], s[i]) ELSE g[i - 1]
    <3>1. CASE i = k + 1
      <4>1. g[i - 1] = f[k] /\ i # 0 /\ i - 1 = k
        BY <2>3, <3>1
      <4> QED BY <2>3, <3>1, <4>1
    <3>2. CASE i # k + 1
      <4>1. i \in 0..k /\ (i # 0 => i - 1 \in 0..k)
        BY <3>2
      <4>2. g[i] = f[i] /\ (i # 0 => g[i - 1] = f[i - 1])
        BY <2>3, <4>1
      <4> QED BY <2>2, <4>1, <4>2
    <3> QED BY <3>1, <3>2
  <2>6. KeptFrom(s, g, k + 1)
    BY <2>5, <2>4 DEF KeptFrom
  <2> QED BY <2>6
<1>3. n \in P
  <2> HIDE DEF P
  <2> QED BY <1>1, <1>2, NatInd
<1> QED BY <1>3

\* The positions, in order, of what the first n of the outcomes leave.
Kept(s, n, t, h) ==
  /\ h \in [1..Len(t) -> 1..n]
  /\ \A k \in 1..Len(t) : t[k] = s[h[k]] /\ s[h[k]].retained
  /\ \A k, l \in 1..Len(t) : k < l => h[k] < h[l]
  /\ \A i \in 1..n : s[i].retained => \E k \in 1..Len(t) : h[k] = i

LEMMA KeptOutcomes ==
  ASSUME NEW S, NEW s \in Seq(S)
  PROVE  /\ RetainedOutcomes(s) \in Seq(S)
         /\ \E h : Kept(s, Len(s), RetainedOutcomes(s), h)
<1> DEFINE f == CHOOSE g : KeptFrom(s, g, Len(s))
<1>1. Len(s) \in Nat /\ \A i \in 1..Len(s) : s[i] \in S
  BY LenProperties, ElementOfSeq
<1>2. KeptFrom(s, f, Len(s))
  BY <1>1, KeptExists
<1>3. RetainedOutcomes(s) = f[Len(s)]
  BY DEF RetainedOutcomes, KeptFrom
<1>4. \A i \in 0..Len(s) : f[i] = IF i = 0 THEN <<>>
                             ELSE IF s[i].retained THEN Append(f[i - 1], s[i]) ELSE f[i - 1]
  <2> HIDE DEF f
  <2> QED BY <1>2 DEF KeptFrom
<1> HIDE DEF f
<1> DEFINE Good(n) == f[n] \in Seq(S) /\ \E h : Kept(s, n, f[n], h)
           P == {n \in Nat : n <= Len(s) => Good(n)}
<1>5. 0 \in P
  <2>1. f[0] = <<>>
    BY <1>1, <1>4
  <2>2. <<>> \in Seq(S) /\ Len(<<>>) = 0
    BY EmptySeq
  <2>3. Kept(s, 0, <<>>, [k \in 1..0 |-> 0])
    BY <2>2 DEF Kept
  <2> QED BY <2>1, <2>2, <2>3
<1>6. ASSUME NEW n \in Nat, n \in P PROVE n + 1 \in P
  <2> SUFFICES ASSUME n + 1 <= Len(s) PROVE Good(n + 1)
    OBVIOUS
  <2>1. f[n] \in Seq(S) /\ \E h : Kept(s, n, f[n], h)
    BY <1>1, <1>6
  <2>2. PICK h : Kept(s, n, f[n], h)
    BY <2>1
  <2>3. PICK t : t = f[n]
    OBVIOUS
  <2>4. Len(t) \in Nat /\ t \in Seq(S)
    BY <2>1, <2>3, LenProperties
  <2>5. n + 1 \in 1..Len(s) /\ n + 1 \in 0..Len(s) /\ (n + 1) - 1 = n /\ n + 1 # 0 /\ s[n + 1] \in S
    BY <1>1
  <2>6. CASE ~s[n + 1].retained
    <3>1. f[n + 1] = t
      BY <1>4, <2>3, <2>5, <2>6
    <3>2. Kept(s, n + 1, t, h)
      BY <2>2, <2>3, <2>4, <2>6 DEF Kept
    <3> QED BY <2>4, <3>1, <3>2
  <2>7. CASE s[n + 1].retained
    <3>1. PICK u : u = Append(t, s[n + 1])
      OBVIOUS
    <3>2. f[n + 1] = u
      BY <1>4, <2>3, <2>5, <2>7, <3>1
    <3>3. /\ u \in Seq(S) /\ Len(u) = Len(t) + 1 /\ u[Len(t) + 1] = s[n + 1]
          /\ \A k \in 1..Len(t) : u[k] = t[k]
      BY <2>4, <2>5, <3>1, AppendProperties
    <3> DEFINE g == [k \in 1..Len(u) |-> IF k = Len(t) + 1 THEN n + 1 ELSE h[k]]
    <3>4. \A k \in 1..Len(t) : h[k] \in 1..n /\ t[k] = s[h[k]] /\ s[h[k]].retained
      BY <2>2, <2>3, <2>4 DEF Kept
    <3>5. \A k, l \in 1..Len(t) : k < l => h[k] < h[l]
      BY <2>2, <2>3 DEF Kept
    <3>6. \A i \in 1..n : s[i].retained => \E k \in 1..Len(t) : h[k] = i
      BY <2>2, <2>3 DEF Kept
    <3>7. g \in [1..Len(u) -> 1..(n + 1)]
      BY <2>4, <3>3, <3>4
    <3>8. g[Len(t) + 1] = n + 1 /\ \A k \in 1..Len(t) : g[k] = h[k]
      BY <2>4, <3>3
    <3> HIDE DEF g
    <3>9. \A k \in 1..Len(u) : u[k] = s[g[k]] /\ s[g[k]].retained
      BY <2>4, <2>7, <3>3, <3>4, <3>8
    <3>10. \A k, l \in 1..Len(u) : k < l => g[k] < g[l]
      <4> SUFFICES ASSUME NEW k \in 1..Len(u), NEW l \in 1..Len(u), k < l PROVE g[k] < g[l]
        OBVIOUS
      <4>1. k \in 1..Len(t) /\ (l \in 1..Len(t) \/ l = Len(t) + 1)
        BY <2>4, <3>3
      <4>2. g[k] = h[k] /\ h[k] \in 1..n
        BY <3>4, <3>8, <4>1
      <4>3. CASE l \in 1..Len(t)
        BY <3>5, <3>8, <4>1, <4>2, <4>3
      <4>4. CASE l = Len(t) + 1
        BY <3>8, <4>2, <4>4
      <4> QED BY <4>1, <4>3, <4>4
    <3>11. \A i \in 1..(n + 1) : s[i].retained => \E k \in 1..Len(u) : g[k] = i
      <4> SUFFICES ASSUME NEW i \in 1..(n + 1), s[i].retained
                   PROVE  \E k \in 1..Len(u) : g[k] = i
        OBVIOUS
      <4>1. Len(t) + 1 \in 1..Len(u) /\ 1..Len(t) \subseteq 1..Len(u)
        BY <2>4, <3>3
      <4>2. CASE i = n + 1
        BY <3>8, <4>1, <4>2
      <4>3. CASE i # n + 1
        <5>1. PICK k \in 1..Len(t) : h[k] = i
          BY <3>6, <4>3
        <5> QED BY <3>8, <4>1, <5>1
      <4> QED BY <4>2, <4>3
    <3>12. Kept(s, n + 1, u, g)
      BY <3>7, <3>9, <3>10, <3>11 DEF Kept
    <3> QED BY <3>2, <3>3, <3>12
  <2> QED BY <2>6, <2>7
<1>7. Len(s) \in P
  <2> HIDE DEF P
  <2> QED BY <1>1, <1>5, <1>6, NatInd
<1> QED BY <1>1, <1>3, <1>7

RetainedOf(q) == {i \in 1..Len(q.outcomes) : q.outcomes[i].retained}
Covers(outcome, s) == outcome.previousThrough < s /\ s <= outcome.through
CoveredBy(outcome, traversals) == {s \in traversals : Covers(outcome, s)}

\* The intervals are disjoint and in order, and so are the errors.
Ordered(q) ==
  /\ \A i \in 1..Len(q.outcomes) :
       /\ q.outcomes[i].previousThrough < q.outcomes[i].through
       /\ q.outcomes[i].through <= q.throughSequence
  /\ \A i, j \in 1..Len(q.outcomes) : i < j =>
       /\ q.outcomes[i].through <= q.outcomes[j].previousThrough
       /\ q.outcomes[i].error < q.outcomes[j].error

\* The counts agree with the queue.
Balanced(q) ==
  /\ q \in Queue /\ q.storage = Len(q.outcomes)
  /\ q.retainedCount = Cardinality(RetainedOf(q))
  /\ q.staleCount = Len(q.outcomes) - q.retainedCount

\* What is retained is held by the traversals it covers, and covers all up to
\* the last failure; `held` pairs traversals with the errors they hold.
Observed(q, traversals, held) ==
  /\ \A i \in RetainedOf(q) :
       /\ CoveredBy(q.outcomes[i], traversals) # {}
       /\ q.outcomes[i].activeCount = Cardinality(CoveredBy(q.outcomes[i], traversals))
       /\ \A s \in traversals : Covers(q.outcomes[i], s) <=> <<s, q.outcomes[i].error>> \in held
  /\ \A s \in traversals : s <= q.throughSequence => \E i \in RetainedOf(q) : Covers(q.outcomes[i], s)
  /\ \A h \in held : \E i \in RetainedOf(q) : q.outcomes[i].error = h[2]

QueueOK(q, traversals, held) ==
  Ordered(q) /\ Balanced(q) /\ Observed(q, traversals, held) /\ (RetainedOf(q) = {} => q = NoQueue)

Outcome == [error: Nat, previousThrough: Nat, through: Nat, activeCount: Int, retained: BOOLEAN]

LEMMA QueueTypes ==
  ASSUME NEW q \in Queue
  PROVE  /\ q.outcomes \in Seq(Outcome) /\ Len(q.outcomes) \in Nat
         /\ q.throughSequence \in Nat /\ q.retainedCount \in Int /\ q.staleCount \in Int /\ q.storage \in Int
         /\ \A i \in 1..Len(q.outcomes) :
              /\ q.outcomes[i] \in Outcome
              /\ q.outcomes[i].error \in Nat /\ q.outcomes[i].previousThrough \in Nat
              /\ q.outcomes[i].through \in Nat /\ q.outcomes[i].activeCount \in Int
              /\ q.outcomes[i].retained \in BOOLEAN
         /\ IsFiniteSet(RetainedOf(q)) /\ Cardinality(RetainedOf(q)) \in Nat
<1>1. /\ q.outcomes \in Seq(Outcome) /\ Len(q.outcomes) \in Nat
      /\ q.throughSequence \in Nat /\ q.retainedCount \in Int /\ q.staleCount \in Int /\ q.storage \in Int
  BY LenProperties DEF Queue, Outcome
<1>2. \A i \in 1..Len(q.outcomes) : q.outcomes[i] \in Outcome
  BY <1>1, ElementOfSeq
<1>3. IsFiniteSet(1..Len(q.outcomes))
  <2>1. 1 \in Int /\ Len(q.outcomes) \in Int
    BY <1>1
  <2> QED BY <2>1, FS_Interval
<1>4. RetainedOf(q) \in SUBSET (1..Len(q.outcomes))
  BY DEF RetainedOf
<1>5. IsFiniteSet(RetainedOf(q))
  BY <1>3, <1>4, FS_Subset
<1>6. Cardinality(RetainedOf(q)) \in Nat
  BY <1>5, FS_CardinalityType
<1> QED BY <1>1, <1>2, <1>5, <1>6 DEF Outcome

\* A queue that lost outcomes, none of them retained.
Thinned(q, t, h) ==
  /\ t \in Queue /\ t.throughSequence = q.throughSequence /\ t.retainedCount = q.retainedCount
  /\ t.storage = q.storage - (Len(q.outcomes) - Len(t.outcomes))
  /\ t.staleCount = q.staleCount - (Len(q.outcomes) - Len(t.outcomes))
  /\ h \in [1..Len(t.outcomes) -> 1..Len(q.outcomes)]
  /\ \A k \in 1..Len(t.outcomes) : t.outcomes[k] = q.outcomes[h[k]]
  /\ \A k, l \in 1..Len(t.outcomes) : k < l => h[k] < h[l]
  /\ \A i \in 1..Len(q.outcomes) : q.outcomes[i].retained => \E k \in 1..Len(t.outcomes) : h[k] = i

LEMMA ThinnedRetained ==
  ASSUME NEW q \in Queue, NEW t, NEW h, Thinned(q, t, h)
  PROVE  /\ \A k \in RetainedOf(t) : h[k] \in RetainedOf(q) /\ t.outcomes[k] = q.outcomes[h[k]]
         /\ \A i \in RetainedOf(q) : \E k \in RetainedOf(t) : h[k] = i /\ t.outcomes[k] = q.outcomes[i]
         /\ Cardinality(RetainedOf(t)) = Cardinality(RetainedOf(q))
<1>1. \A k \in RetainedOf(t) : h[k] \in RetainedOf(q) /\ t.outcomes[k] = q.outcomes[h[k]]
  BY DEF Thinned, RetainedOf
<1>2. \A i \in RetainedOf(q) : \E k \in RetainedOf(t) : h[k] = i /\ t.outcomes[k] = q.outcomes[i]
  <2> SUFFICES ASSUME NEW i \in RetainedOf(q)
               PROVE  \E k \in RetainedOf(t) : h[k] = i /\ t.outcomes[k] = q.outcomes[i]
    OBVIOUS
  <2>1. PICK k \in 1..Len(t.outcomes) : h[k] = i
    BY DEF Thinned, RetainedOf
  <2>2. t.outcomes[k] = q.outcomes[i]
    BY <2>1 DEF Thinned
  <2>3. k \in RetainedOf(t)
    BY <2>1, <2>2 DEF RetainedOf
  <2> QED BY <2>1, <2>2, <2>3
<1>3. t \in Queue /\ Len(t.outcomes) \in Nat /\ IsFiniteSet(RetainedOf(t))
  BY QueueTypes DEF Thinned
<1> DEFINE g == [k \in RetainedOf(t) |-> h[k]]
<1>4. g \in [RetainedOf(t) -> RetainedOf(q)] /\ \A k \in RetainedOf(t) : g[k] = h[k]
  BY <1>1
<1> HIDE DEF g
<1>5. \A k, l \in RetainedOf(t) : g[k] = g[l] => k = l
  <2> SUFFICES ASSUME NEW k \in RetainedOf(t), NEW l \in RetainedOf(t), g[k] = g[l], k # l PROVE FALSE
    OBVIOUS
  <2>1. k \in 1..Len(t.outcomes) /\ l \in 1..Len(t.outcomes) /\ h[k] = h[l]
    BY <1>4 DEF RetainedOf
  <2>2. h[k] \in Int /\ h[l] \in Int /\ (k < l \/ l < k)
    BY <1>3, <2>1 DEF Thinned
  <2>3. (k < l => h[k] < h[l]) /\ (l < k => h[l] < h[k])
    BY <2>1 DEF Thinned
  <2> QED BY <2>1, <2>2, <2>3
<1>6. \A i \in RetainedOf(q) : \E k \in RetainedOf(t) : g[k] = i
  BY <1>2, <1>4
<1>7. ExistsBijection(RetainedOf(t), RetainedOf(q))
  BY <1>4, <1>5, <1>6 DEF ExistsBijection, Bijection, Injection, Surjection, IsInjective
<1>8. Cardinality(RetainedOf(t)) = Cardinality(RetainedOf(q))
  BY <1>3, <1>7, FS_Bijection
<1> QED BY <1>1, <1>2, <1>8

LEMMA ThinnedOK ==
  ASSUME NEW q, NEW t, NEW h, NEW traversals, NEW held,
         Ordered(q), Balanced(q), Observed(q, traversals, held), Thinned(q, t, h)
  PROVE  /\ Ordered(t) /\ Balanced(t) /\ Observed(t, traversals, held)
         /\ RetainedOf(q) # {} => RetainedOf(t) # {}
<1>1. q \in Queue /\ t \in Queue
  BY DEF Balanced, Thinned
<1>2. /\ \A k \in RetainedOf(t) : h[k] \in RetainedOf(q) /\ t.outcomes[k] = q.outcomes[h[k]]
      /\ \A i \in RetainedOf(q) : \E k \in RetainedOf(t) : h[k] = i /\ t.outcomes[k] = q.outcomes[i]
      /\ Cardinality(RetainedOf(t)) = Cardinality(RetainedOf(q))
  BY <1>1, ThinnedRetained
<1>3. /\ t.throughSequence = q.throughSequence /\ t.retainedCount = q.retainedCount
      /\ t.storage = q.storage - (Len(q.outcomes) - Len(t.outcomes))
      /\ t.staleCount = q.staleCount - (Len(q.outcomes) - Len(t.outcomes))
  BY DEF Thinned
<1>4. \A k \in 1..Len(t.outcomes) : h[k] \in 1..Len(q.outcomes) /\ t.outcomes[k] = q.outcomes[h[k]]
  BY DEF Thinned
<1>5. \A k, l \in 1..Len(t.outcomes) : k < l => h[k] < h[l]
  BY DEF Thinned
<1>6. Ordered(t)
  BY <1>3, <1>4, <1>5 DEF Ordered
<1>7. Balanced(t)
  <2>1. Len(q.outcomes) \in Nat /\ Len(t.outcomes) \in Nat /\ q.retainedCount \in Int
    BY <1>1, QueueTypes
  <2>2. /\ q.storage = Len(q.outcomes) /\ q.retainedCount = Cardinality(RetainedOf(q))
        /\ q.staleCount = Len(q.outcomes) - q.retainedCount
    BY DEF Balanced
  <2>3. t.storage = Len(t.outcomes)
    BY <1>3, <2>1, <2>2
  <2>4. t.retainedCount = Cardinality(RetainedOf(t))
    BY <1>2, <1>3, <2>2
  <2>5. t.staleCount = Len(t.outcomes) - t.retainedCount
    <3>1. \A a, b \in Nat : \A c \in Int : (a - c) - (a - b) = b - c
      OBVIOUS
    <3>2. (Len(q.outcomes) - q.retainedCount) - (Len(q.outcomes) - Len(t.outcomes))
            = Len(t.outcomes) - q.retainedCount
      BY <2>1, <3>1, Zenon
    <3>3. t.staleCount = (Len(q.outcomes) - q.retainedCount) - (Len(q.outcomes) - Len(t.outcomes))
      BY <1>3, <2>2
    <3> QED BY <1>3, <3>2, <3>3, Zenon
  <2> QED BY <1>1, <2>3, <2>4, <2>5 DEF Balanced
<1>8. Observed(t, traversals, held)
  <2>1. ASSUME NEW k \in RetainedOf(t)
        PROVE  /\ CoveredBy(t.outcomes[k], traversals) # {}
               /\ t.outcomes[k].activeCount = Cardinality(CoveredBy(t.outcomes[k], traversals))
               /\ \A s \in traversals : Covers(t.outcomes[k], s) <=> <<s, t.outcomes[k].error>> \in held
    BY <1>2 DEF Observed
  <2>2. ASSUME NEW s \in traversals, s <= t.throughSequence
        PROVE  \E k \in RetainedOf(t) : Covers(t.outcomes[k], s)
    <3>1. PICK i \in RetainedOf(q) : Covers(q.outcomes[i], s)
      BY <1>3, <2>2 DEF Observed
    <3> QED BY <1>2, <3>1
  <2>3. ASSUME NEW x \in held PROVE \E k \in RetainedOf(t) : t.outcomes[k].error = x[2]
    <3>1. PICK i \in RetainedOf(q) : q.outcomes[i].error = x[2]
      BY DEF Observed
    <3> QED BY <1>2, <3>1
  <2> QED BY <2>1, <2>2, <2>3 DEF Observed
<1> QED BY <1>2, <1>6, <1>7, <1>8

LEMMA LastRetained ==
  ASSUME NEW q \in Queue, RetainedOf(q) # {}
  PROVE  \E i \in 1..Len(q.outcomes) :
           /\ q.outcomes[i].retained
           /\ \A j \in (i + 1)..Len(q.outcomes) : ~q.outcomes[j].retained
<1>1. Len(q.outcomes) \in Nat
  BY QueueTypes
<1> DEFINE Less == OpToRel(<, Nat)
           Back == {Len(q.outcomes) - i : i \in RetainedOf(q)}
<1>2. Back \in SUBSET Nat /\ Back # {}
  <2>1. \A i \in RetainedOf(q) : Len(q.outcomes) - i \in Nat
    BY <1>1 DEF RetainedOf
  <2> QED BY <2>1
<1>3. IsWellFoundedOn(Less, Nat)
  BY NatLessThanWellFounded
<1>4. PICK x \in Back : \A y \in Back : ~(<<y, x>> \in Less)
  <2> HIDE DEF Less, Back
  <2> QED BY <1>2, <1>3, WFMin
<1>5. PICK i \in RetainedOf(q) : x = Len(q.outcomes) - i
  OBVIOUS
<1>6. i \in 1..Len(q.outcomes) /\ q.outcomes[i].retained
  BY DEF RetainedOf
<1>7. ASSUME NEW j \in (i + 1)..Len(q.outcomes), q.outcomes[j].retained PROVE FALSE
  <2>1. j \in RetainedOf(q) /\ Len(q.outcomes) - j \in Back /\ Len(q.outcomes) - j < x
    BY <1>1, <1>5, <1>6, <1>7 DEF RetainedOf
  <2>2. <<Len(q.outcomes) - j, x>> \in Less
    BY <1>2, <2>1 DEF OpToRel
  <2> QED BY <1>4, <2>1, <2>2
<1> QED BY <1>6, <1>7

LEMMA TrimmedThins ==
  ASSUME NEW q \in Queue, RetainedOf(q) # {}
  PROVE  \E h : Thinned(q, Trimmed(q), h)
<1> DEFINE Ends(i) == /\ q.outcomes[i].retained
                      /\ \A j \in (i + 1)..Len(q.outcomes) : ~q.outcomes[j].retained
<1>1. PICK last : last = CHOOSE i \in 1..Len(q.outcomes) : Ends(i)
  OBVIOUS
<1>2. last \in 1..Len(q.outcomes) /\ Ends(last)
  BY <1>1, LastRetained
<1>3. PICK t : t = Trimmed(q)
  OBVIOUS
<1>4. PICK rest : rest = SubSeq(q.outcomes, 1, last)
  OBVIOUS
<1>5. t = [q EXCEPT !.outcomes = rest, !.storage = @ - (Len(q.outcomes) - last),
                    !.staleCount = @ - (Len(q.outcomes) - last)]
  BY <1>1, <1>3, <1>4 DEF Trimmed
<1>6. /\ q.outcomes \in Seq(Outcome) /\ Len(q.outcomes) \in Nat /\ last \in Nat /\ last <= Len(q.outcomes)
      /\ q.storage \in Int /\ q.staleCount \in Int
      /\ \A i \in 1..last : q.outcomes[i] \in Outcome
  BY <1>2, QueueTypes
<1>7. /\ rest \in Seq(Outcome) /\ Len(rest) = last
      /\ \A k \in 1..last : rest[k] = q.outcomes[k]
  <2>1. 1 \in Int /\ last \in Int
    BY <1>6
  <2>2. /\ rest \in Seq(Outcome) /\ Len(rest) = IF 1 <= last THEN last - 1 + 1 ELSE 0
        /\ \A i \in 1..(last - 1 + 1) : rest[i] = q.outcomes[1 + i - 1]
    BY <1>4, <1>6, <2>1, SubSeqProperties
  <2> QED BY <1>6, <2>2
<1>8. /\ t.outcomes = rest /\ t.storage = q.storage - (Len(q.outcomes) - last)
      /\ t.staleCount = q.staleCount - (Len(q.outcomes) - last)
      /\ t.throughSequence = q.throughSequence /\ t.retainedCount = q.retainedCount
  BY <1>5 DEF Queue
<1>9. t \in Queue
  <2>1. t = [outcomes |-> t.outcomes, throughSequence |-> t.throughSequence, retainedCount |-> t.retainedCount,
             staleCount |-> t.staleCount, storage |-> t.storage]
    BY <1>5 DEF Queue
  <2>2. t.throughSequence \in Nat /\ t.retainedCount \in Int
    BY <1>8, QueueTypes
  <2>3. t.outcomes \in Seq(Outcome) /\ t.storage \in Int /\ t.staleCount \in Int
    BY <1>6, <1>7, <1>8
  <2> QED BY <2>1, <2>2, <2>3 DEF Queue, Outcome
<1>10. PICK h : h = [k \in 1..last |-> k]
  OBVIOUS
<1>11. Thinned(q, t, h)
  <2>1. h \in [1..Len(t.outcomes) -> 1..Len(q.outcomes)]
    BY <1>6, <1>7, <1>8, <1>10
  <2>2. \A k \in 1..Len(t.outcomes) : t.outcomes[k] = q.outcomes[h[k]]
    BY <1>7, <1>8, <1>10
  <2>3. \A k, l \in 1..Len(t.outcomes) : k < l => h[k] < h[l]
    BY <1>7, <1>8, <1>10
  <2>4. \A i \in 1..Len(q.outcomes) : q.outcomes[i].retained => \E k \in 1..Len(t.outcomes) : h[k] = i
    <3> SUFFICES ASSUME NEW i \in 1..Len(q.outcomes), q.outcomes[i].retained
                 PROVE  \E k \in 1..Len(t.outcomes) : h[k] = i
      OBVIOUS
    <3>1. i \in 1..last
      BY <1>2, <1>6
    <3> QED BY <1>7, <1>8, <1>10, <3>1
  <2> QED BY <1>7, <1>8, <1>9, <2>1, <2>2, <2>3, <2>4 DEF Thinned
<1> QED BY <1>3, <1>11

LEMMA CompactedThins ==
  ASSUME NEW q, Balanced(q)
  PROVE  \E h : Thinned(q, Compacted(q), h)
<1>1. q \in Queue /\ q.storage = Len(q.outcomes) /\ q.retainedCount = Cardinality(RetainedOf(q))
      /\ q.staleCount = Len(q.outcomes) - q.retainedCount
  BY DEF Balanced
<1>2. /\ q.outcomes \in Seq(Outcome) /\ Len(q.outcomes) \in Nat
      /\ IsFiniteSet(RetainedOf(q)) /\ Cardinality(RetainedOf(q)) \in Nat
      /\ \A i \in 1..Len(q.outcomes) : q.outcomes[i].retained \in BOOLEAN
  BY <1>1, QueueTypes
<1>3. PICK left : left = RetainedOutcomes(q.outcomes)
  OBVIOUS
<1>4. left \in Seq(Outcome) /\ Len(left) \in Nat /\ \E h : Kept(q.outcomes, Len(q.outcomes), left, h)
  BY <1>2, <1>3, KeptOutcomes, LenProperties
<1>5. PICK h : Kept(q.outcomes, Len(q.outcomes), left, h)
  BY <1>4
<1>6. PICK t : t = Compacted(q)
  OBVIOUS
<1>7. t = [q EXCEPT !.outcomes = left, !.storage = @ - q.staleCount, !.staleCount = 0]
  BY <1>3, <1>6 DEF Compacted
<1>8. /\ t.outcomes = left /\ t.storage = q.storage - q.staleCount /\ t.staleCount = 0
      /\ t.throughSequence = q.throughSequence /\ t.retainedCount = q.retainedCount
  BY <1>1, <1>7 DEF Queue
<1>9. t \in Queue
  <2>1. t = [outcomes |-> t.outcomes, throughSequence |-> t.throughSequence, retainedCount |-> t.retainedCount,
             staleCount |-> t.staleCount, storage |-> t.storage]
    BY <1>1, <1>7 DEF Queue
  <2>2. t.throughSequence \in Nat /\ t.retainedCount \in Int /\ q.storage \in Int /\ q.staleCount \in Int
    BY <1>1, <1>8, QueueTypes
  <2>3. t.outcomes \in Seq(Outcome) /\ t.storage \in Int /\ t.staleCount \in Int
    BY <1>4, <1>8, <2>2
  <2> QED BY <2>1, <2>2, <2>3 DEF Queue, Outcome
<1>10. /\ h \in [1..Len(left) -> 1..Len(q.outcomes)]
       /\ \A k \in 1..Len(left) : left[k] = q.outcomes[h[k]] /\ h[k] \in RetainedOf(q)
       /\ \A k, l \in 1..Len(left) : k < l => h[k] < h[l]
       /\ \A i \in 1..Len(q.outcomes) : q.outcomes[i].retained => \E k \in 1..Len(left) : h[k] = i
  BY <1>5 DEF Kept, RetainedOf
<1>11. Len(left) = Cardinality(RetainedOf(q))
  <2>1. \A k, l \in 1..Len(left) : h[k] = h[l] => k = l
    <3> SUFFICES ASSUME NEW k \in 1..Len(left), NEW l \in 1..Len(left), h[k] = h[l], k # l PROVE FALSE
      OBVIOUS
    <3>1. h[k] \in Int /\ h[l] \in Int /\ (k < l \/ l < k)
      BY <1>2, <1>4, <1>10
    <3> QED BY <1>10, <3>1
  <2>2. h \in [1..Len(left) -> RetainedOf(q)]
    BY <1>10
  <2>3. \A i \in RetainedOf(q) : \E k \in 1..Len(left) : h[k] = i
    BY <1>10 DEF RetainedOf
  <2>4. ExistsBijection(1..Len(left), RetainedOf(q))
    BY <2>1, <2>2, <2>3 DEF ExistsBijection, Bijection, Injection, Surjection, IsInjective
  <2>5. IsFiniteSet(1..Len(left)) /\ Cardinality(1..Len(left)) = Len(left)
    <3>1. 1 \in Int /\ Len(left) \in Int
      BY <1>4
    <3>2. /\ IsFiniteSet(1..Len(left))
          /\ Cardinality(1..Len(left)) = IF 1 > Len(left) THEN 0 ELSE Len(left) - 1 + 1
      BY <3>1, FS_Interval
    <3> QED BY <1>4, <3>2
  <2> QED BY <2>4, <2>5, FS_Bijection
<1>12. /\ t.storage = q.storage - (Len(q.outcomes) - Len(t.outcomes))
       /\ t.staleCount = q.staleCount - (Len(q.outcomes) - Len(t.outcomes))
  BY <1>1, <1>2, <1>4, <1>8, <1>11
<1>13. Thinned(q, t, h)
  BY <1>8, <1>9, <1>10, <1>12 DEF Thinned
<1> QED BY <1>6, <1>13

\* What releaseRequestFailureOutcome() does once the outcome is dead.
Cleaned(dead) ==
  LET trimmed == Trimmed(dead)
      due     == \/ Len(trimmed.outcomes) < CompactionThreshold
                 \/ /\ trimmed.staleCount >= CompactionThreshold
                    /\ trimmed.staleCount * 2 >= Len(trimmed.outcomes)
  IN IF dead.retainedCount = 0
       THEN [NoQueue EXCEPT !.storage = dead.storage - Len(dead.outcomes)]
       ELSE IF trimmed.staleCount > 0 /\ due THEN Compacted(trimmed) ELSE trimmed

\* Queue t has no outcome that q has not, and reaches no further.
Inherits(q, t) ==
  /\ t.throughSequence <= q.throughSequence
  /\ \A k \in 1..Len(t.outcomes) : \E i \in 1..Len(q.outcomes) : t.outcomes[k].error = q.outcomes[i].error

LEMMA ThinnedInherits ==
  ASSUME NEW q \in Queue, NEW t, NEW h, Thinned(q, t, h)
  PROVE  Inherits(q, t)
<1>1. t.throughSequence = q.throughSequence /\ q.throughSequence \in Nat
  BY QueueTypes DEF Thinned
<1>2. ASSUME NEW k \in 1..Len(t.outcomes)
      PROVE  \E i \in 1..Len(q.outcomes) : t.outcomes[k].error = q.outcomes[i].error
  <2>1. h[k] \in 1..Len(q.outcomes) /\ t.outcomes[k] = q.outcomes[h[k]]
    BY DEF Thinned
  <2> QED BY <2>1
<1> QED BY <1>1, <1>2 DEF Inherits

LEMMA InheritsChain ==
  ASSUME NEW q \in Queue, NEW t \in Queue, NEW u \in Queue, Inherits(q, t), Inherits(t, u)
  PROVE  Inherits(q, u)
<1>1. u.throughSequence <= q.throughSequence
  BY QueueTypes DEF Inherits
<1>2. ASSUME NEW k \in 1..Len(u.outcomes)
      PROVE  \E i \in 1..Len(q.outcomes) : u.outcomes[k].error = q.outcomes[i].error
  <2>1. PICK j \in 1..Len(t.outcomes) : u.outcomes[k].error = t.outcomes[j].error
    BY DEF Inherits
  <2>2. PICK i \in 1..Len(q.outcomes) : t.outcomes[j].error = q.outcomes[i].error
    BY DEF Inherits
  <2> QED BY <2>1, <2>2
<1> QED BY <1>1, <1>2 DEF Inherits

LEMMA NoQueueOK ==
  ASSUME NEW traversals \in SUBSET (Nat \ {0})
  PROVE  QueueOK(NoQueue, traversals, {})
<1>1. NoQueue \in Queue
  BY EmptySeq DEF NoQueue, Queue
<1>2. Len(NoQueue.outcomes) = 0 /\ NoQueue.throughSequence = 0 /\ NoQueue.retainedCount = 0
      /\ NoQueue.staleCount = 0 /\ NoQueue.storage = 0
  BY EmptySeq DEF NoQueue
<1>3. RetainedOf(NoQueue) = {}
  BY <1>2 DEF RetainedOf
<1>4. Cardinality(RetainedOf(NoQueue)) = 0
  BY <1>3, FS_EmptySet
<1>5. Ordered(NoQueue)
  BY <1>2 DEF Ordered
<1>6. Balanced(NoQueue)
  BY <1>1, <1>2, <1>4 DEF Balanced
<1>7. Observed(NoQueue, traversals, {})
  BY <1>2, <1>3 DEF Observed
<1> QED BY <1>5, <1>6, <1>7 DEF QueueOK

LEMMA CleanedOK ==
  ASSUME NEW q, NEW traversals \in SUBSET (Nat \ {0}), NEW held,
         Ordered(q), Balanced(q), Observed(q, traversals, held)
  PROVE  QueueOK(Cleaned(q), traversals, held) /\ Inherits(q, Cleaned(q))
<1>1. /\ q \in Queue /\ q.storage = Len(q.outcomes) /\ q.retainedCount = Cardinality(RetainedOf(q))
      /\ Len(q.outcomes) \in Nat /\ q.throughSequence \in Nat /\ IsFiniteSet(RetainedOf(q))
  BY QueueTypes DEF Balanced
<1>2. q.retainedCount = 0 <=> RetainedOf(q) = {}
  BY <1>1, FS_EmptySet
<1>3. PICK c : c = Cleaned(q)
  OBVIOUS
<1>4. CASE q.retainedCount = 0
  <2>1. c = NoQueue
    <3>1. c = [NoQueue EXCEPT !.storage = q.storage - Len(q.outcomes)]
      BY <1>3, <1>4 DEF Cleaned
    <3>2. q.storage - Len(q.outcomes) = 0
      BY <1>1
    <3> QED BY <3>1, <3>2 DEF NoQueue
  <2>2. held = {}
    BY <1>2, <1>4 DEF Observed
  <2>3. Inherits(q, c)
    <3>1. Len(NoQueue.outcomes) = 0 /\ NoQueue.throughSequence = 0
      BY EmptySeq DEF NoQueue
    <3> QED BY <1>1, <2>1, <3>1 DEF Inherits
  <2> QED BY <1>3, <2>1, <2>2, <2>3, NoQueueOK
<1>5. CASE q.retainedCount # 0
  <2>1. PICK t : t = Trimmed(q)
    OBVIOUS
  <2>2. RetainedOf(q) # {}
    BY <1>2, <1>5
  <2>3. PICK h : Thinned(q, t, h)
    BY <1>1, <2>1, <2>2, TrimmedThins
  <2>4. /\ Ordered(t) /\ Balanced(t) /\ Observed(t, traversals, held) /\ RetainedOf(t) # {}
    BY <2>2, <2>3, ThinnedOK
  <2>5. t \in Queue /\ Inherits(q, t)
    BY <1>1, <2>3, <2>4, ThinnedInherits DEF Balanced
  <2>6. c = t \/ c = Compacted(t)
    BY <1>3, <1>5, <2>1 DEF Cleaned
  <2>7. CASE c = t
    BY <1>3, <2>4, <2>5, <2>7 DEF QueueOK
  <2>8. CASE c = Compacted(t)
    <3>1. PICK g : Thinned(t, c, g)
      BY <2>4, <2>8, CompactedThins
    <3>2. /\ Ordered(c) /\ Balanced(c) /\ Observed(c, traversals, held) /\ RetainedOf(c) # {}
      BY <2>4, <3>1, ThinnedOK
    <3>3. c \in Queue /\ Inherits(t, c)
      BY <2>5, <3>1, <3>2, ThinnedInherits DEF Balanced
    <3>4. Inherits(q, c)
      BY <1>1, <2>5, <3>3, InheritsChain
    <3> QED BY <1>3, <3>2, <3>4 DEF QueueOK
  <2> QED BY <2>6, <2>7, <2>8
<1> QED BY <1>4, <1>5

\* A traversal is in one interval at most.
LEMMA OneInterval ==
  ASSUME NEW q \in Queue, Ordered(q), NEW s \in Nat,
         NEW i \in 1..Len(q.outcomes), NEW j \in 1..Len(q.outcomes),
         Covers(q.outcomes[i], s), Covers(q.outcomes[j], s)
  PROVE  i = j
<1>1. /\ i \in Int /\ j \in Int
      /\ q.outcomes[i].previousThrough \in Nat /\ q.outcomes[i].through \in Nat
      /\ q.outcomes[j].previousThrough \in Nat /\ q.outcomes[j].through \in Nat
  BY QueueTypes
<1>2. /\ q.outcomes[i].previousThrough < s /\ s <= q.outcomes[i].through
      /\ q.outcomes[j].previousThrough < s /\ s <= q.outcomes[j].through
  BY DEF Covers
<1>3. ASSUME i < j PROVE FALSE
  <2>1. q.outcomes[i].through <= q.outcomes[j].previousThrough
    BY <1>3 DEF Ordered
  <2> QED BY <1>1, <1>2, <2>1
<1>4. ASSUME j < i PROVE FALSE
  <2>1. q.outcomes[j].through <= q.outcomes[i].previousThrough
    BY <1>4 DEF Ordered
  <2> QED BY <1>1, <1>2, <2>1
<1> QED BY <1>1, <1>3, <1>4

\* Every outcome has an error of its own.
LEMMA OneError ==
  ASSUME NEW q \in Queue, Ordered(q),
         NEW i \in 1..Len(q.outcomes), NEW j \in 1..Len(q.outcomes),
         q.outcomes[i].error = q.outcomes[j].error
  PROVE  i = j
<1>1. i \in Int /\ j \in Int /\ q.outcomes[i].error \in Nat /\ q.outcomes[j].error \in Nat
  BY QueueTypes
<1>2. ~(i < j) /\ ~(j < i)
  BY <1>1 DEF Ordered
<1> QED BY <1>1, <1>2

\* Queue d is q but for the activeCount and the retention of its outcome i.
Changed(q, d, i) ==
  /\ d \in Queue /\ Len(d.outcomes) = Len(q.outcomes)
  /\ d.throughSequence = q.throughSequence /\ d.storage = q.storage
  /\ \A j \in 1..Len(q.outcomes) \ {i} : d.outcomes[j] = q.outcomes[j]
  /\ d.outcomes[i].error = q.outcomes[i].error
  /\ d.outcomes[i].previousThrough = q.outcomes[i].previousThrough
  /\ d.outcomes[i].through = q.outcomes[i].through

LEMMA ChangedSame ==
  ASSUME NEW q \in Queue, NEW d, NEW i \in 1..Len(q.outcomes), Changed(q, d, i)
  PROVE  /\ \A j \in 1..Len(q.outcomes) :
              /\ d.outcomes[j].error = q.outcomes[j].error
              /\ d.outcomes[j].previousThrough = q.outcomes[j].previousThrough
              /\ d.outcomes[j].through = q.outcomes[j].through
              /\ \A s : Covers(d.outcomes[j], s) <=> Covers(q.outcomes[j], s)
              /\ \A A : CoveredBy(d.outcomes[j], A) = CoveredBy(q.outcomes[j], A)
         /\ Ordered(q) => Ordered(d)
         /\ Inherits(q, d)
<1>1. \A j \in 1..Len(q.outcomes) :
              /\ d.outcomes[j].error = q.outcomes[j].error
              /\ d.outcomes[j].previousThrough = q.outcomes[j].previousThrough
              /\ d.outcomes[j].through = q.outcomes[j].through
  BY DEF Changed
<1>2. \A j \in 1..Len(q.outcomes) : \A s : Covers(d.outcomes[j], s) <=> Covers(q.outcomes[j], s)
  BY <1>1 DEF Covers
<1>3. \A j \in 1..Len(q.outcomes) : \A A : CoveredBy(d.outcomes[j], A) = CoveredBy(q.outcomes[j], A)
  BY <1>2 DEF CoveredBy
<1>4. Len(d.outcomes) = Len(q.outcomes) /\ d.throughSequence = q.throughSequence /\ q.throughSequence \in Nat
  BY QueueTypes DEF Changed
<1>5. Ordered(q) => Ordered(d)
  BY <1>1, <1>4 DEF Ordered
<1>6. Inherits(q, d)
  BY <1>1, <1>4 DEF Inherits
<1> QED BY <1>1, <1>2, <1>3, <1>5, <1>6

\* The traversal s that held the error of outcome i is over.
HeldWithout(held, s) == {h \in held : h[1] # s}

LEMMA CoverChange ==
  ASSUME NEW q, NEW traversals \in SUBSET (Nat \ {0}), IsFiniteSet(traversals),
         NEW held \in SUBSET (traversals \X Nat), QueueOK(q, traversals, held),
         NEW i \in RetainedOf(q), NEW s \in traversals, Covers(q.outcomes[i], s)
  PROVE  /\ \A j \in RetainedOf(q) \ {i} :
              CoveredBy(q.outcomes[j], traversals \ {s}) = CoveredBy(q.outcomes[j], traversals)
         /\ CoveredBy(q.outcomes[i], traversals \ {s}) = CoveredBy(q.outcomes[i], traversals) \ {s}
         /\ s \in CoveredBy(q.outcomes[i], traversals)
         /\ IsFiniteSet(CoveredBy(q.outcomes[i], traversals))
         /\ \A j \in RetainedOf(q) : \A x \in traversals \ {s} :
              Covers(q.outcomes[j], x) <=> <<x, q.outcomes[j].error>> \in HeldWithout(held, s)
<1>1. q \in Queue /\ Ordered(q) /\ Observed(q, traversals, held) /\ i \in 1..Len(q.outcomes)
  BY DEF QueueOK, Balanced, RetainedOf
<1>2. ASSUME NEW j \in RetainedOf(q) \ {i} PROVE ~Covers(q.outcomes[j], s)
  <2>1. j \in 1..Len(q.outcomes) /\ s \in Nat
    BY DEF RetainedOf
  <2> QED BY <1>1, <2>1, OneInterval
<1>3. ASSUME NEW j \in RetainedOf(q), NEW x \in traversals \ {s}
      PROVE  Covers(q.outcomes[j], x) <=> <<x, q.outcomes[j].error>> \in HeldWithout(held, s)
  <2>1. Covers(q.outcomes[j], x) <=> <<x, q.outcomes[j].error>> \in held
    BY <1>1 DEF Observed
  <2> QED BY <2>1 DEF HeldWithout
<1>4. IsFiniteSet(CoveredBy(q.outcomes[i], traversals))
  <2>1. CoveredBy(q.outcomes[i], traversals) \in SUBSET traversals
    BY DEF CoveredBy
  <2> QED BY <2>1, FS_Subset
<1>5. \A j \in RetainedOf(q) \ {i} :
        CoveredBy(q.outcomes[j], traversals \ {s}) = CoveredBy(q.outcomes[j], traversals)
  BY <1>2 DEF CoveredBy
<1>6. /\ CoveredBy(q.outcomes[i], traversals \ {s}) = CoveredBy(q.outcomes[i], traversals) \ {s}
      /\ s \in CoveredBy(q.outcomes[i], traversals)
  BY DEF CoveredBy
<1> QED BY <1>3, <1>4, <1>5, <1>6

\* Others still hold it.
LEMMA CountedOK ==
  ASSUME NEW q, NEW traversals \in SUBSET (Nat \ {0}), IsFiniteSet(traversals),
         NEW held \in SUBSET (traversals \X Nat), QueueOK(q, traversals, held),
         NEW i \in RetainedOf(q), NEW s \in traversals, Covers(q.outcomes[i], s),
         NEW d, Changed(q, d, i), d.outcomes[i].retained, d.retainedCount = q.retainedCount,
         d.staleCount = q.staleCount,
         d.outcomes[i].activeCount = q.outcomes[i].activeCount - 1, d.outcomes[i].activeCount # 0
  PROVE  QueueOK(d, traversals \ {s}, HeldWithout(held, s)) /\ Inherits(q, d)
<1>1. /\ q \in Queue /\ d \in Queue /\ Ordered(q) /\ Observed(q, traversals, held) /\ i \in 1..Len(q.outcomes)
      /\ Len(d.outcomes) = Len(q.outcomes) /\ q.storage = Len(q.outcomes)
      /\ q.retainedCount = Cardinality(RetainedOf(q)) /\ q.staleCount = Len(q.outcomes) - q.retainedCount
      /\ q.outcomes[i].retained
  BY DEF QueueOK, Balanced, RetainedOf, Changed
<1>2. RetainedOf(d) = RetainedOf(q)
  BY <1>1 DEF Changed, RetainedOf
<1>3. /\ \A j \in 1..Len(q.outcomes) :
              /\ d.outcomes[j].error = q.outcomes[j].error
              /\ d.outcomes[j].previousThrough = q.outcomes[j].previousThrough
              /\ d.outcomes[j].through = q.outcomes[j].through
              /\ \A x : Covers(d.outcomes[j], x) <=> Covers(q.outcomes[j], x)
              /\ \A A : CoveredBy(d.outcomes[j], A) = CoveredBy(q.outcomes[j], A)
      /\ Ordered(q) => Ordered(d)
      /\ Inherits(q, d)
  BY <1>1, ChangedSame
<1>4. Balanced(d)
  BY <1>1, <1>2 DEF Changed, Balanced
<1>5. /\ \A j \in RetainedOf(q) \ {i} :
              CoveredBy(q.outcomes[j], traversals \ {s}) = CoveredBy(q.outcomes[j], traversals)
      /\ CoveredBy(q.outcomes[i], traversals \ {s}) = CoveredBy(q.outcomes[i], traversals) \ {s}
      /\ s \in CoveredBy(q.outcomes[i], traversals)
      /\ IsFiniteSet(CoveredBy(q.outcomes[i], traversals))
      /\ \A j \in RetainedOf(q) : \A x \in traversals \ {s} :
              Covers(q.outcomes[j], x) <=> <<x, q.outcomes[j].error>> \in HeldWithout(held, s)
  BY CoverChange
<1>6. Observed(d, traversals \ {s}, HeldWithout(held, s))
  <2>1. ASSUME NEW j \in RetainedOf(d)
        PROVE  /\ CoveredBy(d.outcomes[j], traversals \ {s}) # {}
               /\ d.outcomes[j].activeCount = Cardinality(CoveredBy(d.outcomes[j], traversals \ {s}))
               /\ \A x \in traversals \ {s} :
                    Covers(d.outcomes[j], x) <=> <<x, d.outcomes[j].error>> \in HeldWithout(held, s)
    <3>1. j \in RetainedOf(q) /\ j \in 1..Len(q.outcomes)
      BY <1>2 DEF RetainedOf
    <3>2. \A x \in traversals \ {s} :
                    Covers(d.outcomes[j], x) <=> <<x, d.outcomes[j].error>> \in HeldWithout(held, s)
      BY <1>3, <1>5, <3>1
    <3>3. CoveredBy(d.outcomes[j], traversals \ {s}) = CoveredBy(q.outcomes[j], traversals \ {s})
      BY <1>3, <3>1
    <3>4. CASE j # i
      <4>1. CoveredBy(d.outcomes[j], traversals \ {s}) = CoveredBy(q.outcomes[j], traversals)
            /\ d.outcomes[j] = q.outcomes[j]
        BY <1>5, <3>1, <3>3, <3>4 DEF Changed
      <4> QED BY <1>1, <3>1, <3>2, <4>1 DEF Observed
    <3>5. CASE j = i
      <4>1. q.outcomes[i].activeCount = Cardinality(CoveredBy(q.outcomes[i], traversals))
        BY <1>1 DEF Observed
      <4>2. PICK C : C = CoveredBy(q.outcomes[i], traversals)
        OBVIOUS
      <4>3. /\ IsFiniteSet(C \ {s}) /\ Cardinality(C \ {s}) = Cardinality(C) - 1
        BY <1>5, <4>2, FS_RemoveElement
      <4>4. d.outcomes[i].activeCount = Cardinality(C \ {s})
        BY <4>1, <4>2, <4>3
      <4>5. C \ {s} # {}
        BY <4>4, FS_EmptySet
      <4> QED BY <1>5, <3>2, <3>3, <3>5, <4>2, <4>4, <4>5
    <3> QED BY <3>4, <3>5
  <2>2. ASSUME NEW x \in traversals \ {s}, x <= d.throughSequence
        PROVE  \E j \in RetainedOf(d) : Covers(d.outcomes[j], x)
    <3>1. PICK j \in RetainedOf(q) : Covers(q.outcomes[j], x)
      BY <1>1, <2>2 DEF Observed, Changed
    <3>2. j \in 1..Len(q.outcomes)
      BY DEF RetainedOf
    <3> QED BY <1>2, <1>3, <3>1, <3>2
  <2>3. ASSUME NEW x \in HeldWithout(held, s) PROVE \E j \in RetainedOf(d) : d.outcomes[j].error = x[2]
    <3>1. PICK j \in RetainedOf(q) : q.outcomes[j].error = x[2]
      BY <1>1 DEF Observed, HeldWithout
    <3>2. j \in 1..Len(q.outcomes)
      BY DEF RetainedOf
    <3> QED BY <1>2, <1>3, <3>1, <3>2
  <2> QED BY <2>1, <2>2, <2>3 DEF Observed
<1>7. RetainedOf(d) # {}
  BY <1>2
<1> QED BY <1>1, <1>3, <1>4, <1>6, <1>7 DEF QueueOK

\* Nobody does.
LEMMA StruckOK ==
  ASSUME NEW q, NEW traversals \in SUBSET (Nat \ {0}), IsFiniteSet(traversals),
         NEW held \in SUBSET (traversals \X Nat), QueueOK(q, traversals, held),
         NEW i \in RetainedOf(q), NEW s \in traversals, Covers(q.outcomes[i], s),
         NEW d, Changed(q, d, i), ~d.outcomes[i].retained, d.retainedCount = q.retainedCount - 1,
         d.staleCount = q.staleCount + 1, q.outcomes[i].activeCount - 1 = 0
  PROVE  /\ Ordered(d) /\ Balanced(d) /\ Observed(d, traversals \ {s}, HeldWithout(held, s))
         /\ Inherits(q, d)
<1>1. /\ q \in Queue /\ d \in Queue /\ Ordered(q) /\ Observed(q, traversals, held) /\ i \in 1..Len(q.outcomes)
      /\ Len(d.outcomes) = Len(q.outcomes) /\ q.storage = Len(q.outcomes)
      /\ q.retainedCount = Cardinality(RetainedOf(q)) /\ q.staleCount = Len(q.outcomes) - q.retainedCount
      /\ q.outcomes[i].retained
  BY DEF QueueOK, Balanced, RetainedOf, Changed
<1>2. RetainedOf(d) = RetainedOf(q) \ {i}
  BY <1>1 DEF Changed, RetainedOf
<1>3. /\ \A j \in 1..Len(q.outcomes) :
              /\ d.outcomes[j].error = q.outcomes[j].error
              /\ d.outcomes[j].previousThrough = q.outcomes[j].previousThrough
              /\ d.outcomes[j].through = q.outcomes[j].through
              /\ \A x : Covers(d.outcomes[j], x) <=> Covers(q.outcomes[j], x)
              /\ \A A : CoveredBy(d.outcomes[j], A) = CoveredBy(q.outcomes[j], A)
      /\ Ordered(q) => Ordered(d)
      /\ Inherits(q, d)
  BY <1>1, ChangedSame
<1>4. Balanced(d)
  <2>1. /\ IsFiniteSet(RetainedOf(q)) /\ Cardinality(RetainedOf(q)) \in Nat /\ Len(q.outcomes) \in Nat
    BY <1>1, QueueTypes
  <2>2. Cardinality(RetainedOf(d)) = Cardinality(RetainedOf(q)) - 1
    BY <1>2, <2>1, FS_RemoveElement
  <2>3. d.retainedCount = Cardinality(RetainedOf(d))
    BY <1>1, <2>2
  <2>4. d.staleCount = Len(d.outcomes) - d.retainedCount
    <3>1. \A a, b \in Nat : (a - b) + 1 = a - (b - 1)
      OBVIOUS
    <3>2. (Len(q.outcomes) - q.retainedCount) + 1 = Len(q.outcomes) - (q.retainedCount - 1)
      BY <1>1, <2>1, <3>1, ZenonT(30)
    <3>3. d.staleCount = (Len(q.outcomes) - q.retainedCount) + 1
      BY <1>1
    <3>4. Len(d.outcomes) - d.retainedCount = Len(q.outcomes) - (q.retainedCount - 1)
      BY <1>1
    <3> QED BY <3>2, <3>3, <3>4, ZenonT(30)
  <2>5. d.storage = Len(d.outcomes)
    BY <1>1 DEF Changed
  <2> QED BY <1>1, <2>3, <2>4, <2>5 DEF Balanced
<1>5. /\ \A j \in RetainedOf(q) \ {i} :
              CoveredBy(q.outcomes[j], traversals \ {s}) = CoveredBy(q.outcomes[j], traversals)
      /\ CoveredBy(q.outcomes[i], traversals \ {s}) = CoveredBy(q.outcomes[i], traversals) \ {s}
      /\ s \in CoveredBy(q.outcomes[i], traversals)
      /\ IsFiniteSet(CoveredBy(q.outcomes[i], traversals))
      /\ \A j \in RetainedOf(q) : \A x \in traversals \ {s} :
              Covers(q.outcomes[j], x) <=> <<x, q.outcomes[j].error>> \in HeldWithout(held, s)
  BY CoverChange
<1>6. ASSUME NEW x \in traversals \ {s} PROVE ~Covers(q.outcomes[i], x)
  <2>1. q.outcomes[i].activeCount = Cardinality(CoveredBy(q.outcomes[i], traversals))
        /\ q.outcomes[i].activeCount \in Int
    BY <1>1, QueueTypes DEF Observed
  <2>2. Cardinality(CoveredBy(q.outcomes[i], traversals)) = 1
    BY <2>1
  <2>3. PICK y : CoveredBy(q.outcomes[i], traversals) = {y}
    BY <1>5, <2>2, FS_Singleton
  <2>4. x \notin CoveredBy(q.outcomes[i], traversals)
    BY <1>5, <2>3
  <2> QED BY <2>4 DEF CoveredBy
<1>7. Observed(d, traversals \ {s}, HeldWithout(held, s))
  <2>1. ASSUME NEW j \in RetainedOf(d)
        PROVE  /\ CoveredBy(d.outcomes[j], traversals \ {s}) # {}
               /\ d.outcomes[j].activeCount = Cardinality(CoveredBy(d.outcomes[j], traversals \ {s}))
               /\ \A x \in traversals \ {s} :
                    Covers(d.outcomes[j], x) <=> <<x, d.outcomes[j].error>> \in HeldWithout(held, s)
    <3>1. j \in RetainedOf(q) /\ j \in 1..Len(q.outcomes) /\ j # i
      BY <1>2 DEF RetainedOf
    <3>2. CoveredBy(d.outcomes[j], traversals \ {s}) = CoveredBy(q.outcomes[j], traversals)
          /\ d.outcomes[j] = q.outcomes[j]
      BY <1>3, <1>5, <3>1 DEF Changed
    <3> QED BY <1>1, <1>5, <3>1, <3>2 DEF Observed
  <2>2. ASSUME NEW x \in traversals \ {s}, x <= d.throughSequence
        PROVE  \E j \in RetainedOf(d) : Covers(d.outcomes[j], x)
    <3>1. PICK j \in RetainedOf(q) : Covers(q.outcomes[j], x)
      BY <1>1, <2>2 DEF Observed, Changed
    <3>2. j \in 1..Len(q.outcomes) /\ j # i
      BY <1>6, <3>1 DEF RetainedOf
    <3> QED BY <1>2, <1>3, <3>1, <3>2
  <2>3. ASSUME NEW x \in HeldWithout(held, s) PROVE \E j \in RetainedOf(d) : d.outcomes[j].error = x[2]
    <3>1. PICK j \in RetainedOf(q) : q.outcomes[j].error = x[2]
      BY <1>1 DEF Observed, HeldWithout
    <3>2. x[1] \in traversals \ {s} /\ x = <<x[1], x[2]>>
      BY DEF HeldWithout
    <3>3. Covers(q.outcomes[j], x[1])
      BY <1>5, <3>1, <3>2
    <3>4. j \in 1..Len(q.outcomes) /\ j # i
      BY <1>6, <3>2, <3>3 DEF RetainedOf
    <3> QED BY <1>2, <1>3, <3>1, <3>4
  <2> QED BY <2>1, <2>2, <2>3 DEF Observed
<1> QED BY <1>1, <1>3, <1>4, <1>7

\* A traversal that gives up the outcome it holds leaves the queue in order.
LEMMA ForsakenOK ==
  ASSUME NEW q, NEW traversals \in SUBSET (Nat \ {0}), IsFiniteSet(traversals),
         NEW held \in SUBSET (traversals \X Nat), QueueOK(q, traversals, held),
         NEW i \in RetainedOf(q), NEW s \in traversals, Covers(q.outcomes[i], s)
  PROVE  /\ QueueOK(Forsaken(q, i), traversals \ {s}, HeldWithout(held, s))
         /\ Inherits(q, Forsaken(q, i))
<1>1. q \in Queue /\ i \in 1..Len(q.outcomes) /\ q.outcomes[i].retained
  BY DEF QueueOK, Balanced, RetainedOf
<1>2. /\ q.outcomes \in Seq(Outcome) /\ q.retainedCount \in Int /\ q.staleCount \in Int
      /\ q.outcomes[i] \in Outcome /\ q.outcomes[i].activeCount \in Int
      /\ q = [outcomes |-> q.outcomes, throughSequence |-> q.throughSequence,
              retainedCount |-> q.retainedCount, staleCount |-> q.staleCount, storage |-> q.storage]
      /\ q.throughSequence \in Nat /\ q.storage \in Int
  BY <1>1, QueueTypes DEF Queue
<1>3. PICK n : n = q.outcomes[i].activeCount - 1
  OBVIOUS
<1>4. n \in Int
  BY <1>2, <1>3
<1>5. PICK one : one = [q.outcomes[i] EXCEPT !.activeCount = n]
  OBVIOUS
<1>6. PICK dead : dead = [one EXCEPT !.retained = FALSE]
  OBVIOUS
<1>7. /\ one \in Outcome /\ one.activeCount = n /\ one.retained = q.outcomes[i].retained
      /\ one.error = q.outcomes[i].error /\ one.previousThrough = q.outcomes[i].previousThrough
      /\ one.through = q.outcomes[i].through
  BY <1>2, <1>4, <1>5 DEF Outcome
<1>8. /\ dead \in Outcome /\ dead.retained = FALSE
      /\ dead.error = q.outcomes[i].error /\ dead.previousThrough = q.outcomes[i].previousThrough
      /\ dead.through = q.outcomes[i].through
  BY <1>6, <1>7 DEF Outcome
<1>9. PICK c : c = [q EXCEPT !.outcomes[i].activeCount = @ - 1]
  OBVIOUS
<1>10. c = [q EXCEPT !.outcomes = [q.outcomes EXCEPT ![i] = one]]
  BY <1>2, <1>3, <1>5, <1>9
<1>11. PICK some : some = [q.outcomes EXCEPT ![i] = one]
  OBVIOUS
<1>12. PICK rest : rest = [q.outcomes EXCEPT ![i] = dead]
  OBVIOUS
<1>13. /\ some \in Seq(Outcome) /\ Len(some) = Len(q.outcomes) /\ some[i] = one
       /\ \A j \in 1..Len(q.outcomes) \ {i} : some[j] = q.outcomes[j]
  BY <1>1, <1>2, <1>7, <1>11, ExceptSeq
<1>14. /\ rest \in Seq(Outcome) /\ Len(rest) = Len(q.outcomes) /\ rest[i] = dead
       /\ \A j \in 1..Len(q.outcomes) \ {i} : rest[j] = q.outcomes[j]
  BY <1>1, <1>2, <1>8, <1>12, ExceptSeq
<1>15. c = [outcomes |-> some, throughSequence |-> q.throughSequence,
            retainedCount |-> q.retainedCount, staleCount |-> q.staleCount, storage |-> q.storage]
  BY <1>2, <1>10, <1>11
<1>16. c \in Queue /\ c.outcomes = some /\ Changed(q, c, i)
  BY <1>2, <1>7, <1>13, <1>15 DEF Queue, Outcome, Changed
<1>17. CASE n # 0
  <2>1. Forsaken(q, i) = c
    BY <1>7, <1>9, <1>13, <1>16, <1>17 DEF Forsaken
  <2>2. c.outcomes[i].retained /\ c.outcomes[i].activeCount = q.outcomes[i].activeCount - 1
        /\ c.outcomes[i].activeCount # 0 /\ c.retainedCount = q.retainedCount /\ c.staleCount = q.staleCount
    BY <1>1, <1>3, <1>7, <1>13, <1>15, <1>16, <1>17
  <2> QED BY <1>16, <2>1, <2>2, CountedOK
<1>18. CASE n = 0
  <2>1. PICK d : d = [c EXCEPT !.outcomes[i].retained = FALSE, !.retainedCount = @ - 1, !.staleCount = @ + 1]
    OBVIOUS
  <2>2. Forsaken(q, i) = Cleaned(d)
    <3>1. Forsaken(q, i) = Released(c, i)
      BY <1>7, <1>9, <1>13, <1>16, <1>18 DEF Forsaken
    <3> QED BY <2>1, <3>1 DEF Released, Cleaned
  <2>3. d = [outcomes |-> [some EXCEPT ![i] = dead], throughSequence |-> q.throughSequence,
             retainedCount |-> q.retainedCount - 1, staleCount |-> q.staleCount + 1, storage |-> q.storage]
    BY <1>1, <1>6, <1>13, <1>15, <2>1
  <2>4. [some EXCEPT ![i] = dead] = rest
    BY <1>1, <1>2, <1>11, <1>12
  <2>5. d \in Queue
    <3>1. q.retainedCount - 1 \in Int /\ q.staleCount + 1 \in Int
      BY <1>2
    <3> QED BY <1>2, <1>14, <2>3, <2>4, <3>1 DEF Queue, Outcome
  <2>6. /\ d.outcomes = rest /\ d.throughSequence = q.throughSequence /\ d.storage = q.storage
        /\ d.retainedCount = q.retainedCount - 1 /\ d.staleCount = q.staleCount + 1
    BY <2>3, <2>4
  <2>7. Changed(q, d, i) /\ ~d.outcomes[i].retained
    BY <1>8, <1>14, <2>5, <2>6 DEF Changed
  <2>8. /\ Ordered(d) /\ Balanced(d) /\ Observed(d, traversals \ {s}, HeldWithout(held, s))
        /\ Inherits(q, d)
    BY <1>3, <1>18, <2>6, <2>7, StruckOK
  <2>9. QueueOK(Cleaned(d), traversals \ {s}, HeldWithout(held, s)) /\ Inherits(d, Cleaned(d))
    BY <2>8, CleanedOK
  <2>10. Cleaned(d) \in Queue
    BY <2>9 DEF QueueOK, Balanced
  <2> QED BY <1>1, <2>2, <2>5, <2>8, <2>9, <2>10, InheritsChain
<1> QED BY <1>17, <1>18

LEMMA ForsakeNone ==
  ASSUME NEW q
  PROVE  FoldSet(Forsake, q, {}) = q
<1> DEFINE IsFold(f) == f = [s \in SUBSET {} |->
             IF s = {} THEN q
             ELSE Forsake(CHOOSE x \in s : TRUE, f[s \ {CHOOSE x \in s : TRUE}])]
           iter == CHOOSE f : IsFold(f)
<1>1. IsFold([s \in SUBSET {} |-> q])
  OBVIOUS
<1>2. IsFold(iter)
  <2> HIDE DEF IsFold
  <2> QED BY <1>1
<1>3. FoldSet(Forsake, q, {}) = iter[{}]
  BY DEF FoldSet, MapThenFoldSet
<1> HIDE DEF iter
<1>4. iter[{}] = q
  BY <1>2
<1> QED BY <1>3, <1>4

LEMMA ForsakeOne ==
  ASSUME NEW q, NEW e
  PROVE  FoldSet(Forsake, q, {e}) = Forsake(e, q)
<1> DEFINE IsFold(f) == f = [s \in SUBSET {e} |->
             IF s = {} THEN q
             ELSE Forsake(CHOOSE x \in s : TRUE, f[s \ {CHOOSE x \in s : TRUE}])]
           iter == CHOOSE f : IsFold(f)
           fold == [s \in SUBSET {e} |-> IF s = {} THEN q ELSE Forsake(e, q)]
<1>1. \A s \in SUBSET {e} : s # {} => s = {e} /\ (CHOOSE x \in s : TRUE) = e /\ s \ {e} = {}
  OBVIOUS
<1>2. IsFold(fold)
  <2>1. fold[{}] = q
    OBVIOUS
  <2>2. \A s \in SUBSET {e} : s # {} => fold[s \ {CHOOSE x \in s : TRUE}] = q
    BY <1>1, <2>1, Zenon
  <2>3. \A s \in SUBSET {e} : s # {} =>
          Forsake(CHOOSE x \in s : TRUE, fold[s \ {CHOOSE x \in s : TRUE}]) = Forsake(e, q)
    <3> HIDE DEF fold
    <3> QED BY <1>1, <2>2, Zenon
  <2> QED BY <2>3, Zenon
<1>3. IsFold(iter)
  <2> HIDE DEF IsFold, fold
  <2> QED BY <1>2
<1>4. FoldSet(Forsake, q, {e}) = iter[{e}]
  BY DEF FoldSet, MapThenFoldSet
<1> HIDE DEF iter
<1>5. iter[{}] = q
  BY <1>3
<1>6. iter[{e}] = Forsake(CHOOSE x \in {e} : TRUE, iter[{e} \ {CHOOSE x \in {e} : TRUE}])
  BY <1>3, Zenon
<1>7. (CHOOSE x \in {e} : TRUE) = e /\ {e} \ {e} = {}
  OBVIOUS
<1> QED BY <1>4, <1>5, <1>6, <1>7, Zenon

-----------------------------------------------------------------------------
(* The failures that traversals hold *)

\* Who holds which failure of m.
HeldOf(m) == {h \in activeGraphSequences \X Nat : <<m, h[2]>> \in graphs[h[1]].requestFailures}

\* The failures that are remembered are older than the one on its way.
QueuesOK ==
  \A m \in Modules :
    /\ QueueOK(requestFailures[m], activeGraphSequences, HeldOf(m))
    /\ requestFailures[m].throughSequence <= Len(graphs)
    /\ \A i \in 1..Len(requestFailures[m].outcomes) :
         /\ requestFailures[m].outcomes[i].error <= errors
         /\ HasFailed(Request(m)) => requestFailures[m].outcomes[i].error < awaits[Request(m)].error
    /\ HasFailed(Request(m)) => awaits[Request(m)].error <= errors

\* Some traversal of a wave that has not failed yet waits for an acquisition.
Flying == {"source", "resolving", "child"}
FlightsOK ==
  \A m \in Modules :
    /\ requests[m].phase # "none" => m \notin loadedRequests
    /\ requests[m].phase \in Flying =>
         \E s \in activeGraphSequences :
           awaits[Graph(s)] = RequestsOf(m) /\ s > requestFailures[m].throughSequence

\* A traversal g that awaits `await` has not got past the failure of m.
FailureOK(g, await, request, m, error) ==
  /\ m \notin g.discovered \ (IF await = Ok THEN {} ELSE {g.visiting})
  /\ g.active =>
       /\ <<m, error>> \in g.requestFailures \/ (await.kind = "error" /\ g.visiting = m)
       /\ await.kind = "error" /\ g.visiting = m => await.error = error
       /\ await = RequestsOf(m) => request[m].phase = "closing" /\ request[m].error = error
WaveOK(g, await, request) ==
  /\ ~g.active => await = Idle
  /\ \A failure \in g.failedMeanwhile : FailureOK(g, await, request, failure[1], failure[2])
  /\ \A held \in g.requestFailures : \E failure \in g.failedMeanwhile : failure[1] = held[1]
  /\ await.kind = "error" => \E failure \in g.failedMeanwhile : failure[1] = g.visiting
WavesOK == \A s \in 1..Len(graphs) : WaveOK(graphs[s], awaits[Graph(s)], requests)

\* The strengthening of both theorems on failures: every queue agrees with what
\* the traversals hold of it, every request in flight with the queue its failure
\* would join, and every traversal with the failures it was under way for.
LedgerInv == QueuesOK /\ FlightsOK /\ WavesOK /\ requestFailures = [m \in Modules |-> requestFailures[m]]

LEMMA QueueFacts ==
  ASSUME QueuesOK, NEW m \in Modules
  PROVE  /\ requestFailures[m] \in Queue /\ Ordered(requestFailures[m]) /\ Balanced(requestFailures[m])
         /\ Observed(requestFailures[m], activeGraphSequences, HeldOf(m))
         /\ requestFailures[m].outcomes \in Seq(Outcome)
         /\ Len(requestFailures[m].outcomes) \in Nat /\ requestFailures[m].throughSequence \in Nat
         /\ requestFailures[m].throughSequence <= Len(graphs)
         /\ \A i \in 1..Len(requestFailures[m].outcomes) :
              /\ requestFailures[m].outcomes[i].error \in Nat
              /\ requestFailures[m].outcomes[i].previousThrough \in Nat
              /\ requestFailures[m].outcomes[i].through \in Nat
<1>1. requestFailures[m] \in Queue /\ Ordered(requestFailures[m]) /\ Balanced(requestFailures[m])
      /\ Observed(requestFailures[m], activeGraphSequences, HeldOf(m))
      /\ requestFailures[m].throughSequence <= Len(graphs)
  BY DEF QueuesOK, QueueOK, Balanced
<1> QED BY <1>1, QueueTypes

LEMMA ActiveTypes ==
  ASSUME Typed
  PROVE  /\ Len(graphs) \in Nat /\ graphs \in Seq(GraphRecord)
         /\ activeGraphSequences \in SUBSET (Nat \ {0}) /\ IsFiniteSet(activeGraphSequences)
         /\ \A s \in activeGraphSequences : s \in 1..Len(graphs) /\ s \in Nat /\ s <= Len(graphs) /\ graphs[s].active
         /\ \A s \in 1..Len(graphs) : graphs[s] \in GraphRecord /\ (graphs[s].active => s \in activeGraphSequences)
         /\ \A m : HeldOf(m) \in SUBSET (activeGraphSequences \X Nat)
<1>1. Len(graphs) \in Nat /\ graphs \in Seq(GraphRecord)
  BY LenProperties DEF Typed
<1>2. \A s \in 1..Len(graphs) : graphs[s] \in GraphRecord
  BY <1>1, ElementOfSeq
<1>3. IsFiniteSet(1..Len(graphs))
  <2>1. 1 \in Int /\ Len(graphs) \in Int
    BY <1>1
  <2> QED BY <2>1, FS_Interval
<1>4. activeGraphSequences \in SUBSET (1..Len(graphs))
  BY DEF activeGraphSequences
<1>5. IsFiniteSet(activeGraphSequences)
  BY <1>3, <1>4, FS_Subset
<1>6. \A m : HeldOf(m) \in SUBSET (activeGraphSequences \X Nat)
  BY DEF HeldOf
<1> QED BY <1>1, <1>2, <1>4, <1>5, <1>6 DEF activeGraphSequences

\* The search by halves finds the outcome of the wave a traversal is in, and
\* nothing only for a traversal after the last failure.
LEMMA FoundCovering ==
  ASSUME QueuesOK, NEW m \in Modules, NEW s \in activeGraphSequences, s \in Nat
  PROVE  /\ \A i \in RetainedOf(requestFailures[m]) :
              Covers(requestFailures[m].outcomes[i], s)
                => FoundFailure(m, s) = {requestFailures[m].outcomes[i]}
         /\ FoundFailure(m, s) = {} => s > requestFailures[m].throughSequence
<1>1. PICK q : q = requestFailures[m]
  OBVIOUS
<1>2. /\ q \in Queue /\ Ordered(q) /\ Observed(q, activeGraphSequences, HeldOf(m))
      /\ q.throughSequence \in Nat
      /\ \A i \in 1..Len(q.outcomes) : q.outcomes[i].previousThrough \in Nat /\ q.outcomes[i].through \in Nat
  BY <1>1, QueueFacts
<1>3. ASSUME NEW i \in RetainedOf(q), Covers(q.outcomes[i], s)
      PROVE  FoundFailure(m, s) = {q.outcomes[i]}
  <2> DEFINE through == {j \in 1..Len(q.outcomes) : q.outcomes[j].through >= s}
             First(j) == j \in through /\ \A k \in through : j <= k
  <2>1. i \in 1..Len(q.outcomes) /\ q.outcomes[i].retained
        /\ s > q.outcomes[i].previousThrough /\ q.outcomes[i].through >= s
    BY <1>2, <1>3 DEF RetainedOf, Covers
  <2>2. \A k \in through : i <= k
    <3> SUFFICES ASSUME NEW k \in through, k < i PROVE FALSE
      BY <2>1
    <3>1. q.outcomes[k].through <= q.outcomes[i].previousThrough
      BY <1>2, <2>1 DEF Ordered
    <3> QED BY <1>2, <2>1, <3>1
  <2>3. \A j \in through : (\A k \in through : j <= k) => j = i
    BY <2>1, <2>2
  <2>4. FoundFailure(m, s) = {q.outcomes[j] : j \in {j \in through : /\ \A k \in through : j <= k
                                                                    /\ q.outcomes[j].retained
                                                                    /\ s > q.outcomes[j].previousThrough}}
    BY <1>1 DEF FoundFailure
  <2>5. {j \in through : /\ \A k \in through : j <= k
                         /\ q.outcomes[j].retained
                         /\ s > q.outcomes[j].previousThrough} = {i}
    BY <2>1, <2>2, <2>3
  <2> HIDE DEF through
  <2> QED BY <2>4, <2>5
<1>4. ASSUME FoundFailure(m, s) = {}, ~(s > q.throughSequence) PROVE FALSE
  <2>1. PICK i \in RetainedOf(q) : Covers(q.outcomes[i], s)
    BY <1>2, <1>4 DEF Observed
  <2> QED BY <1>3, <1>4, <2>1
<1> QED BY <1>1, <1>2, <1>3, <1>4

\* A failure that a traversal holds is the one it finds.
LEMMA FoundHeld ==
  ASSUME QueuesOK, NEW m \in Modules, NEW s \in activeGraphSequences, s \in Nat,
         NEW e \in Nat, <<m, e>> \in graphs[s].requestFailures
  PROVE  \E outcome : FoundFailure(m, s) = {outcome} /\ outcome.error = e
<1>1. <<s, e>> \in HeldOf(m)
  BY DEF HeldOf
<1>2. Observed(requestFailures[m], activeGraphSequences, HeldOf(m))
  BY QueueFacts
<1>3. PICK i \in RetainedOf(requestFailures[m]) : requestFailures[m].outcomes[i].error = e
  BY <1>1, <1>2 DEF Observed
<1>4. Covers(requestFailures[m].outcomes[i], s)
  BY <1>1, <1>2, <1>3 DEF Observed
<1> QED BY <1>3, <1>4, FoundCovering

\* What a traversal finds is what it holds.
LEMMA FoundIsHeld ==
  ASSUME QueuesOK, NEW m \in Modules, NEW s \in activeGraphSequences, s \in Nat,
         NEW outcome \in FoundFailure(m, s)
  PROVE  <<m, outcome.error>> \in graphs[s].requestFailures
<1>1. PICK i \in 1..Len(requestFailures[m].outcomes) :
        /\ outcome = requestFailures[m].outcomes[i] /\ requestFailures[m].outcomes[i].retained
        /\ requestFailures[m].outcomes[i].through >= s
        /\ s > requestFailures[m].outcomes[i].previousThrough
  BY DEF FoundFailure
<1>2. /\ requestFailures[m].outcomes[i].previousThrough \in Nat
      /\ requestFailures[m].outcomes[i].through \in Nat
      /\ Observed(requestFailures[m], activeGraphSequences, HeldOf(m))
  BY QueueFacts
<1>3. i \in RetainedOf(requestFailures[m]) /\ Covers(requestFailures[m].outcomes[i], s)
  BY <1>1, <1>2 DEF RetainedOf, Covers
<1>4. <<s, outcome.error>> \in HeldOf(m)
  BY <1>1, <1>2, <1>3 DEF Observed
<1> QED BY <1>4 DEF HeldOf

\* A step that ends no traversal and lets none fail keeps the queues in order.
LEMMA QueuesKept ==
  ASSUME QueuesOK, Typed, UNCHANGED requestFailures,
         \/ activeGraphSequences' = activeGraphSequences /\ Len(graphs)' = Len(graphs)
         \/ /\ activeGraphSequences' = activeGraphSequences \cup {Len(graphs) + 1}
            /\ Len(graphs)' = Len(graphs) + 1,
         \A m \in Modules : HeldOf(m)' = HeldOf(m),
         errors \in Nat, errors' = errors \/ errors' = errors + 1,
         \A m \in Modules : HasFailed(Request(m))' =>
           \/ HasFailed(Request(m)) /\ awaits'[Request(m)] = awaits[Request(m)]
           \/ awaits'[Request(m)].error = errors + 1 /\ errors' = errors + 1,
         \A m \in Modules : HasFailed(Request(m)) => awaits[Request(m)].error \in Nat
  PROVE  QueuesOK'
<1> SUFFICES ASSUME NEW m \in Modules
             PROVE  /\ QueueOK(requestFailures'[m], activeGraphSequences', HeldOf(m)')
                    /\ requestFailures'[m].throughSequence <= Len(graphs)'
                    /\ \A i \in 1..Len(requestFailures'[m].outcomes) :
                         /\ requestFailures'[m].outcomes[i].error <= errors'
                         /\ HasFailed(Request(m))' =>
                              requestFailures'[m].outcomes[i].error < awaits'[Request(m)].error
                    /\ HasFailed(Request(m))' => awaits'[Request(m)].error <= errors'
  BY DEF QueuesOK
<1>1. PICK q : q = requestFailures[m]
  OBVIOUS
<1>2. /\ q \in Queue /\ Ordered(q) /\ Balanced(q) /\ Observed(q, activeGraphSequences, HeldOf(m))
      /\ q.throughSequence \in Nat /\ q.throughSequence <= Len(graphs) /\ Len(q.outcomes) \in Nat
      /\ \A i \in 1..Len(q.outcomes) :
              /\ q.outcomes[i].error \in Nat
              /\ q.outcomes[i].previousThrough \in Nat
              /\ q.outcomes[i].through \in Nat
  BY <1>1, QueueFacts
<1>3. /\ RetainedOf(q) = {} => q = NoQueue
      /\ \A i \in 1..Len(q.outcomes) :
           /\ q.outcomes[i].error <= errors
           /\ HasFailed(Request(m)) => q.outcomes[i].error < awaits[Request(m)].error
      /\ HasFailed(Request(m)) => awaits[Request(m)].error <= errors
  BY <1>1 DEF QueuesOK, QueueOK
<1>4. Len(graphs) \in Nat /\ Len(graphs)' \in Nat /\ Len(graphs) <= Len(graphs)'
  BY ActiveTypes
<1>5. QueueOK(q, activeGraphSequences', HeldOf(m))
  <2>1. CASE activeGraphSequences' = activeGraphSequences
    BY <1>1, <2>1 DEF QueuesOK
  <2>2. CASE activeGraphSequences' = activeGraphSequences \cup {Len(graphs) + 1}
    <3>1. PICK s : s = Len(graphs) + 1
      OBVIOUS
    <3>2. ASSUME NEW i \in RetainedOf(q) PROVE ~Covers(q.outcomes[i], s)
      <4>1. i \in 1..Len(q.outcomes)
        BY DEF RetainedOf
      <4>2. q.outcomes[i].through <= q.throughSequence /\ q.outcomes[i].through \in Nat
        BY <1>2, <4>1 DEF Ordered
      <4> QED BY <1>2, <1>4, <3>1, <4>2 DEF Covers
    <3>3. \A i \in RetainedOf(q) :
            CoveredBy(q.outcomes[i], activeGraphSequences') = CoveredBy(q.outcomes[i], activeGraphSequences)
      BY <2>2, <3>1, <3>2 DEF CoveredBy
    <3>4. s \notin activeGraphSequences /\ HeldOf(m) \in SUBSET (activeGraphSequences \X Nat)
          /\ ~(s <= q.throughSequence)
      BY <1>2, <1>4, <3>1, ActiveTypes
    <3>5. ASSUME NEW i \in RetainedOf(q), NEW x \in activeGraphSequences'
          PROVE  Covers(q.outcomes[i], x) <=> <<x, q.outcomes[i].error>> \in HeldOf(m)
      <4>1. CASE x = s
        BY <3>2, <3>4, <4>1
      <4>2. CASE x \in activeGraphSequences
        BY <1>2, <4>2 DEF Observed
      <4> QED BY <2>2, <3>1, <4>1, <4>2
    <3>6. Observed(q, activeGraphSequences', HeldOf(m))
      <4>1. \A i \in RetainedOf(q) :
              /\ CoveredBy(q.outcomes[i], activeGraphSequences') # {}
              /\ q.outcomes[i].activeCount = Cardinality(CoveredBy(q.outcomes[i], activeGraphSequences'))
        BY <1>2, <3>3 DEF Observed
      <4>2. \A x \in activeGraphSequences' :
              x <= q.throughSequence => \E i \in RetainedOf(q) : Covers(q.outcomes[i], x)
        BY <1>2, <2>2, <3>1, <3>4 DEF Observed
      <4>3. \A h \in HeldOf(m) : \E i \in RetainedOf(q) : q.outcomes[i].error = h[2]
        BY <1>2 DEF Observed
      <4> QED BY <3>5, <4>1, <4>2, <4>3 DEF Observed
    <3> QED BY <1>2, <1>3, <3>6 DEF QueueOK
  <2> QED BY <2>1, <2>2
<1>6. ASSUME NEW i \in 1..Len(q.outcomes)
      PROVE  /\ q.outcomes[i].error <= errors'
             /\ HasFailed(Request(m))' => q.outcomes[i].error < awaits'[Request(m)].error
  BY <1>2, <1>3
<1>7. HasFailed(Request(m))' => awaits'[Request(m)].error <= errors'
  BY <1>3
<1>8. q.throughSequence <= Len(graphs)'
  BY <1>2, <1>4
<1> QED BY <1>1, <1>5, <1>6, <1>7, <1>8

\* Requests that are still closing, or were not, make no difference to a traversal.
LEMMA WaveKept ==
  ASSUME NEW g, NEW await, NEW request, NEW request2, WaveOK(g, await, request),
         \A m : await = RequestsOf(m) /\ request[m].phase = "closing" =>
                  request2[m].phase = "closing" /\ request2[m].error = request[m].error
  PROVE  WaveOK(g, await, request2)
<1>1. ASSUME NEW failure \in g.failedMeanwhile
      PROVE  FailureOK(g, await, request2, failure[1], failure[2])
  <2>1. FailureOK(g, await, request, failure[1], failure[2])
    BY DEF WaveOK
  <2> QED BY <2>1 DEF FailureOK
<1> QED BY <1>1 DEF WaveOK

\* What the activities of traversals and requests await.
LEMMA Awaited ==
  ASSUME ClosureInv
  PROVE  /\ Typed /\ Len(graphs) \in Nat
         /\ \A s \in 1..Len(graphs) : Graph(s) \in Activities
         /\ \A m \in Modules : /\ Request(m) \in Activities
                               /\ awaits[Request(m)].kind \in {"idle", "ok", "error", "resolve", "load"}
                               /\ HasFailed(Request(m)) => awaits[Request(m)].error \in Nat
         /\ errors \in Nat
         /\ \A s \in activeGraphSequences :
              TraversalOK(graphs[s], awaits[Graph(s)], loadedRequests, requested)
<1>1. Typed /\ Counted /\ GraphsOK /\ RequestsOK
  BY DEF ClosureInv
<1>2. \A m \in Modules : /\ Request(m) \in Activities
                         /\ awaits[Request(m)].kind \in {"idle", "ok", "error", "resolve", "load"}
                         /\ HasFailed(Request(m)) => awaits[Request(m)].error \in Nat
  BY <1>1, ActivitiesHere, RequestsWaitForHost DEF RequestsOK, RequestOK, HasFailed
<1>3. errors \in Nat
  BY <1>1, BoundAssumption DEF Typed
<1>4. \A s \in activeGraphSequences :
        TraversalOK(graphs[s], awaits[Graph(s)], loadedRequests, requested)
  BY <1>1 DEF GraphsOK, activeGraphSequences
<1> QED BY <1>1, <1>2, <1>3, <1>4, ActivitiesHere

\* What no traversal sees.
LEMMA TraversalsUntouched ==
  ASSUME LedgerInv, ClosureInv, UNCHANGED <<graphs, requests, requestFailures, loadedRequests>>,
         \A s \in 1..Len(graphs) : awaits'[Graph(s)] = awaits[Graph(s)],
         errors' = errors \/ errors' = errors + 1,
         \A m \in Modules : HasFailed(Request(m))' =>
           \/ HasFailed(Request(m)) /\ awaits'[Request(m)] = awaits[Request(m)]
           \/ awaits'[Request(m)].error = errors + 1 /\ errors' = errors + 1
  PROVE  LedgerInv'
<1>1. activeGraphSequences' = activeGraphSequences /\ Len(graphs)' = Len(graphs)
  BY DEF activeGraphSequences
<1>2. \A m \in Modules : HeldOf(m)' = HeldOf(m)
  BY <1>1 DEF HeldOf
<1>3. QueuesOK'
  BY <1>1, <1>2, Awaited, QueuesKept DEF LedgerInv
<1>4. FlightsOK'
  <2>1. \A s \in activeGraphSequences : awaits'[Graph(s)] = awaits[Graph(s)]
    BY DEF activeGraphSequences
  <2> QED BY <1>1, <2>1 DEF LedgerInv, FlightsOK
<1>5. WavesOK'
  BY DEF LedgerInv, WavesOK
<1> QED BY <1>3, <1>4, <1>5 DEF LedgerInv

LEMMA LedgerHost ==
  ASSUME LedgerInv, ClosureInv, NEW what, what.kind \in {"resolve", "load"},
         \/ awaits' = Deliver(what, Ok) /\ UNCHANGED errors
         \/ awaits' = Deliver(what, Error(errors + 1)) /\ errors' = errors + 1,
         UNCHANGED <<graphs, requests, requestFailures, loadedRequests>>
  PROVE  LedgerInv'
<1> USE Kinds
<1>1. /\ \A s \in 1..Len(graphs) : Graph(s) \in Activities
      /\ \A m \in Modules : Request(m) \in Activities
      /\ errors \in Nat
  BY Awaited
<1>2. PICK outcome : /\ awaits' = Deliver(what, outcome)
                     /\ \/ outcome = Ok /\ errors' = errors
                        \/ outcome = Error(errors + 1) /\ errors' = errors + 1
  OBVIOUS
<1>3. \A activity \in Activities :
        awaits'[activity] = IF awaits[activity] = what THEN outcome ELSE awaits[activity]
  BY <1>2, Delivery
<1>4. ASSUME NEW s \in 1..Len(graphs) PROVE awaits'[Graph(s)] = awaits[Graph(s)]
  <2>1. awaits[Graph(s)] # what
    <3>1. CASE graphs[s].active
      <4>1. TraversalOK(graphs[s], awaits[Graph(s)], loadedRequests, requested)
        BY <3>1, Awaited DEF activeGraphSequences
      <4> QED BY <4>1, TraversalPassedBy
    <3>2. CASE ~graphs[s].active
      <4>1. awaits[Graph(s)] = Idle
        BY <3>2 DEF LedgerInv, WavesOK, WaveOK
      <4> QED BY <4>1
    <3> QED BY <3>1, <3>2
  <2> QED BY <1>1, <1>3, <2>1
<1>5. ASSUME NEW m \in Modules, HasFailed(Request(m))'
      PROVE  \/ HasFailed(Request(m)) /\ awaits'[Request(m)] = awaits[Request(m)]
             \/ awaits'[Request(m)].error = errors + 1 /\ errors' = errors + 1
  BY <1>1, <1>2, <1>3, <1>5 DEF HasFailed
<1> QED BY <1>2, <1>4, <1>5, TraversalsUntouched

LEMMA LedgerResolve ==
  ASSUME LedgerInv, ClosureInv, NEW m, NEW referrer, ResolveSettles(m, referrer)
  PROVE  LedgerInv'
<1>1. Resolution(m, referrer).kind = "resolve"
  BY Kinds
<1>2. PICK what : what = Resolution(m, referrer)
  OBVIOUS
<1> QED BY <1>1, <1>2, LedgerHost DEF ResolveSettles, cacheVars

LEMMA LedgerLoad ==
  ASSUME LedgerInv, ClosureInv, NEW m, LoadSettles(m)
  PROVE  LedgerInv'
<1>1. Source(m).kind = "load"
  BY Kinds
<1>2. PICK what : what = Source(m)
  OBVIOUS
<1> QED BY <1>1, <1>2, LedgerHost DEF LoadSettles

\* Only a root call is told something.
LEMMA LedgerRootTold ==
  ASSUME LedgerInv, ClosureInv, NEW r, NEW outcome, awaits' = [awaits EXCEPT ![Root(r)] = outcome],
         UNCHANGED <<graphs, requests, requestFailures, loadedRequests, errors>>
  PROVE  LedgerInv'
<1>1. /\ \A s \in 1..Len(graphs) : Graph(s) \in Activities
      /\ \A m \in Modules : Request(m) \in Activities
      /\ awaits = [activity \in Activities |-> awaits[activity]]
  BY Awaited DEF Typed
<1>2. \A activity \in Activities : activity # Root(r) => awaits'[activity] = awaits[activity]
  BY <1>1
<1>3. \A s \in 1..Len(graphs) : awaits'[Graph(s)] = awaits[Graph(s)]
  BY <1>1, <1>2, ActivitiesDiffer, Zenon
<1>4. \A m \in Modules : awaits'[Request(m)] = awaits[Request(m)]
  BY <1>1, <1>2, ActivitiesDiffer, Zenon
<1> QED BY <1>3, <1>4, TraversalsUntouched DEF HasFailed

LEMMA LedgerCall ==
  ASSUME LedgerInv, ClosureInv, NEW m, NEW insideItsLoad, CallRoot(m, insideItsLoad)
  PROVE  LedgerInv'
BY LedgerRootTold DEF CallRoot, cacheVars

\* What activities await, one by one.
AwaitsMap(f) == f = [activity \in Activities |-> f[activity]]

\* What the acquisition of x's requests by the traversal s changes.
LEMMA LedgerAcquires ==
  ASSUME ClosureInv, NEW x \in Modules, NEW s, Graph(s) \in Activities,
         NEW before, AwaitsMap(before),
         \A m \in Modules : before[Request(m)] = awaits[Request(m)],
         AcquireRequests(x, s, before)
  PROVE  /\ \A m \in Modules : awaits'[Request(m)].kind = "error" =>
              HasFailed(Request(m)) /\ awaits'[Request(m)] = awaits[Request(m)]
         /\ \A m \in Modules :
              \/ requests'[m] = requests[m]
              \/ /\ m = x /\ requests[m].phase = "none" /\ requests'[m].phase = "source"
                 /\ awaits'[Graph(s)] = RequestsOf(m) /\ FoundFailure(m, s) = {} /\ m \notin loadedRequests
         /\ \/ \E outcome \in FoundFailure(x, s) : awaits'[Graph(s)] = Error(outcome.error)
            \/ FoundFailure(x, s) = {} /\ awaits'[Graph(s)] \in {Ok, RequestsOf(x)}
<1> USE Kinds
<1>1. \A m \in Modules : Request(m) \in Activities
  BY Awaited
<1>2. ASSUME NEW outcome, awaits' = [before EXCEPT ![Graph(s)] = outcome]
      PROVE  /\ awaits'[Graph(s)] = outcome
             /\ \A m \in Modules : awaits'[Request(m)] = awaits[Request(m)]
  <2>1. awaits'[Graph(s)] = outcome /\ \A a \in Activities : a # Graph(s) => awaits'[a] = before[a]
    BY <1>2 DEF AwaitsMap
  <2>2. ASSUME NEW m \in Modules PROVE awaits'[Request(m)] = awaits[Request(m)]
    <3>1. Request(m) # Graph(s)
      BY ActivitiesDiffer
    <3> QED BY <1>1, <2>1, <3>1
  <2> QED BY <2>1, <2>2
<1>3. CASE \E outcome \in FoundFailure(x, s) :
             awaits' = [before EXCEPT ![Graph(s)] = Error(outcome.error)] /\ UNCHANGED requests
  <2>1. PICK outcome \in FoundFailure(x, s) :
          awaits' = [before EXCEPT ![Graph(s)] = Error(outcome.error)] /\ UNCHANGED requests
    BY <1>3
  <2> QED BY <1>2, <2>1 DEF HasFailed
<1>4. CASE /\ FoundFailure(x, s) = {} /\ awaits' = [before EXCEPT ![Graph(s)] = Ok]
           /\ UNCHANGED requests
  BY <1>2, <1>4 DEF HasFailed
<1>5. CASE /\ FoundFailure(x, s) = {} /\ awaits' = [before EXCEPT ![Graph(s)] = RequestsOf(x)]
           /\ UNCHANGED requests
  BY <1>2, <1>5 DEF HasFailed
<1>6. CASE /\ FoundFailure(x, s) = {} /\ ~RequestsLoaded(x) /\ requests[x].phase = "none"
           /\ requests' = [requests EXCEPT ![x] = [phase |-> "source", next |-> 0, error |-> 0]]
           /\ awaits' = [before EXCEPT ![Graph(s)] = RequestsOf(x), ![Request(x)] = SourceOf(x)]
  <2>1. Request(x) # Graph(s) /\ Request(x) \in Activities
    BY <1>1, ActivitiesDiffer
  <2>2. /\ awaits'[Graph(s)] = RequestsOf(x) /\ awaits'[Request(x)] = SourceOf(x)
        /\ \A a \in Activities : a # Graph(s) /\ a # Request(x) => awaits'[a] = before[a]
    BY <1>6, <2>1 DEF AwaitsMap
  <2>3. x \notin loadedRequests
    BY <1>6, Awaited DEF RequestsLoaded, Typed
  <2>4. ASSUME NEW m \in Modules, awaits'[Request(m)].kind = "error"
        PROVE  HasFailed(Request(m)) /\ awaits'[Request(m)] = awaits[Request(m)]
    <3>1. CASE m = x
      <4>1. SourceOf(x).kind \in {"ok", "load"}
        BY DEF SourceOf
      <4> QED BY <2>2, <2>4, <3>1, <4>1 DEF HasFailed
    <3>2. CASE m # x
      <4>1. Request(m) # Graph(s) /\ Request(m) # Request(x)
        BY <3>2, ActivitiesDiffer
      <4> QED BY <1>1, <2>2, <2>4, <4>1 DEF HasFailed
    <3> QED BY <3>1, <3>2
  <2>5. requests \in [Modules -> RequestRecord]
    BY Awaited DEF Typed
  <2>6. \A m \in Modules : IF m = x THEN requests'[m].phase = "source" ELSE requests'[m] = requests[m]
    BY <1>6, <2>5
  <2> QED BY <1>6, <2>2, <2>3, <2>4, <2>6
<1>7. \/ \E outcome \in FoundFailure(x, s) :
           awaits' = [before EXCEPT ![Graph(s)] = Error(outcome.error)] /\ UNCHANGED requests
      \/ /\ FoundFailure(x, s) = {} /\ awaits' = [before EXCEPT ![Graph(s)] = Ok]
         /\ UNCHANGED requests
      \/ /\ FoundFailure(x, s) = {} /\ awaits' = [before EXCEPT ![Graph(s)] = RequestsOf(x)]
         /\ UNCHANGED requests
      \/ /\ FoundFailure(x, s) = {} /\ ~RequestsLoaded(x) /\ requests[x].phase = "none"
         /\ requests' = [requests EXCEPT ![x] = [phase |-> "source", next |-> 0, error |-> 0]]
         /\ awaits' = [before EXCEPT ![Graph(s)] = RequestsOf(x), ![Request(x)] = SourceOf(x)]
  BY DEF AcquireRequests, Remembered
<1> QED BY <1>3, <1>4, <1>5, <1>6, <1>7

\* The other traversals await what they did.
LEMMA OthersAwait ==
  ASSUME ClosureInv, NEW x \in Modules, NEW s, Graph(s) \in Activities,
         NEW before, AwaitsMap(before),
         \A m \in Modules : before[Request(m)] = awaits[Request(m)],
         AcquireRequests(x, s, before), records' = records,
         NEW y \in 1..Len(graphs), y # s
  PROVE  awaits'[Graph(y)] = before[Graph(y)]
<1>1. \A z \in Activities : z # Graph(s) /\ (\A m \in Modules : z # Request(m))
             => awaits'[z] = before[z]
  BY Acquisition DEF ClosureInv, AwaitsMap
<1>2. Graph(y) \in Activities /\ Graph(y) # Graph(s) /\ \A m \in Modules : Graph(y) # Request(m)
  BY Awaited, ActivitiesDiffer
<1> QED BY <1>1, <1>2

\* The traversals and flights that go on beside an acquisition.
LEMMA LedgerBeside ==
  ASSUME LedgerInv, ClosureInv, NEW x \in Modules, NEW s,
         \A y \in 1..Len(graphs) : y # s => awaits'[Graph(y)] = awaits[Graph(y)],
         \A m \in Modules :
              \/ requests'[m] = requests[m]
              \/ /\ m = x /\ requests[m].phase = "none" /\ requests'[m].phase = "source"
                 /\ awaits'[Graph(s)] = RequestsOf(m) /\ m \notin loadedRequests,
         UNCHANGED <<requestFailures, loadedRequests>>,
         activeGraphSequences \subseteq activeGraphSequences',
         s \in activeGraphSequences',
         requests'[x] # requests[x] => s > requestFailures[x].throughSequence,
         s \in activeGraphSequences => awaits[Graph(s)] = Ok
  PROVE  /\ FlightsOK'
         /\ \A y \in 1..Len(graphs) : y # s => WaveOK(graphs[y], awaits'[Graph(y)], requests')
<1> USE Kinds
<1>1. ASSUME NEW m \in Modules, requests'[m].phase \in Flying
      PROVE  \E y \in activeGraphSequences' :
               awaits'[Graph(y)] = RequestsOf(m) /\ y > requestFailures'[m].throughSequence
  <2>1. CASE requests'[m] = requests[m]
    <3>1. PICK y \in activeGraphSequences :
            awaits[Graph(y)] = RequestsOf(m) /\ y > requestFailures[m].throughSequence
      BY <1>1, <2>1 DEF LedgerInv, FlightsOK
    <3>2. y # s /\ y \in 1..Len(graphs)
      BY <3>1 DEF activeGraphSequences
    <3> QED BY <3>1, <3>2
  <2>2. CASE requests'[m] # requests[m]
    BY <2>2
  <2> QED BY <2>1, <2>2
<1>2. ASSUME NEW m \in Modules, requests'[m].phase # "none" PROVE m \notin loadedRequests'
  BY <1>2 DEF LedgerInv, FlightsOK
<1>3. FlightsOK'
  BY <1>1, <1>2 DEF FlightsOK
<1>4. ASSUME NEW y \in 1..Len(graphs), y # s PROVE WaveOK(graphs[y], awaits'[Graph(y)], requests')
  <2>1. WaveOK(graphs[y], awaits[Graph(y)], requests)
    BY DEF LedgerInv, WavesOK
  <2>2. ASSUME NEW m, awaits[Graph(y)] = RequestsOf(m), requests[m].phase = "closing"
        PROVE  requests'[m].phase = "closing" /\ requests'[m].error = requests[m].error
    <3>1. graphs[y].active
      BY <2>1, <2>2 DEF WaveOK
    <3>2. graphs[y] \in GraphRecord /\ TraversalOK(graphs[y], awaits[Graph(y)], loadedRequests, requested)
      BY <3>1, Awaited, ActiveTypes
    <3>3. m \in Modules
      BY <2>2, <3>2 DEF TraversalOK, GraphRecord
    <3> QED BY <2>2, <3>3
  <2>3. awaits'[Graph(y)] = awaits[Graph(y)]
    BY <1>4
  <2> QED BY <2>1, <2>2, <2>3, WaveKept
<1> QED BY <1>3, <1>4

\* A root call goes on, perhaps with a traversal of its own.
LEMMA LedgerRoot ==
  ASSUME LedgerInv, ClosureInv, ClosureInv', NEW r \in 1..Len(roots), RootResumes(r)
  PROVE  LedgerInv'
<1> USE Kinds
<1>1. PICK m : m = roots[r].target
  OBVIOUS
<1>2. PICK s : s = Len(graphs) + 1
  OBVIOUS
<1>3. UNCHANGED <<records, loadedRequests, requestFailures, errors>>
  BY DEF RootResumes, cacheVars
<1>4. ASSUME NEW outcome, awaits' = [awaits EXCEPT ![Root(r)] = outcome], UNCHANGED <<graphs, requests>>
      PROVE  LedgerInv'
  BY <1>3, <1>4, LedgerRootTold
<1>5. ASSUME NEW g, g = [root |-> m, active |-> TRUE, requestFailures |-> {},
                         discovered |-> {m}, visiting |-> m, todo |-> <<>>,
                         failedMeanwhile |-> {}],
             graphs' = Append(graphs, g),
             AcquireRequests(m, s, [awaits EXCEPT ![Root(r)] = GraphOf(m)])
      PROVE  LedgerInv'
  <2>1. PICK before : before = [awaits EXCEPT ![Root(r)] = GraphOf(m)]
    OBVIOUS
  <2>2. /\ Typed /\ Len(graphs) \in Nat /\ errors \in Nat /\ graphs \in Seq(GraphRecord)
        /\ \A y \in 1..Len(graphs) : Graph(y) \in Activities
        /\ \A x \in Modules : Request(x) \in Activities
        /\ awaits = [activity \in Activities |-> awaits[activity]]
    BY Awaited DEF Typed
  <2>3. m \in Modules
    <3>1. roots \in Seq(RootRecord)
      BY <2>2 DEF Typed
    <3>2. roots[r] \in RootRecord
      BY <3>1, ElementOfSeq
    <3> QED BY <1>1, <3>2 DEF RootRecord
  <2>4. /\ graphs' = Append(graphs, g) /\ Len(graphs') = s /\ graphs'[s] = g
        /\ \A y \in 1..Len(graphs) : graphs'[y] = graphs[y]
    BY <1>5, <1>2, <2>2, AppendAny, AppendProperties
  <2>5. Graph(s) \in Activities
    <3>1. /\ roots[r].step = "resolving" /\ roots' = [roots EXCEPT ![r].step = "acquiring"]
          /\ Typed /\ Counted
      BY DEF RootResumes, ClosureInv
    <3>2. /\ Cardinality(Acquirers') = Cardinality(Acquirers) + 1
          /\ Cardinality(Acquirers') <= MaxRoots
          /\ Cardinality(Acquirers) \in Nat /\ Len(graphs) <= Cardinality(Acquirers)
      BY <3>1, RootMovesOn, ActivitiesHere
    <3>3. s \in 1..MaxRoots
      BY <1>2, <2>2, <3>2, BoundAssumption
    <3> QED BY <3>3 DEF Activities
  <2>6. /\ AwaitsMap(before)
        /\ \A activity \in Activities : activity # Root(r) => before[activity] = awaits[activity]
    BY <2>1, <2>2 DEF AwaitsMap
  <2>7. \A x \in Modules : before[Request(x)] = awaits[Request(x)]
    BY <2>2, <2>6, ActivitiesDiffer, ZenonT(40)
  <2>8. \A y \in 1..Len(graphs) : y # s => before[Graph(y)] = awaits[Graph(y)]
    BY <2>2, <2>6, ActivitiesDiffer, ZenonT(40)
  <2>9. AcquireRequests(m, s, before)
    BY <1>5, <2>1
  <2>10. ASSUME NEW y \in 1..Len(graphs), y # s PROVE awaits'[Graph(y)] = awaits[Graph(y)]
    <3>1. records' = records
      BY <1>3
    <3>2. awaits'[Graph(y)] = before[Graph(y)]
      BY <2>3, <2>5, <2>6, <2>7, <2>9, <2>10, <3>1, OthersAwait
    <3> QED BY <2>8, <2>10, <3>2
  <2>11. /\ \A x \in Modules : awaits'[Request(x)].kind = "error" =>
              HasFailed(Request(x)) /\ awaits'[Request(x)] = awaits[Request(x)]
         /\ \A x \in Modules :
              \/ requests'[x] = requests[x]
              \/ /\ x = m /\ requests[x].phase = "none" /\ requests'[x].phase = "source"
                 /\ awaits'[Graph(s)] = RequestsOf(x) /\ FoundFailure(x, s) = {} /\ x \notin loadedRequests
         /\ \/ \E outcome \in FoundFailure(m, s) : awaits'[Graph(s)] = Error(outcome.error)
            \/ FoundFailure(m, s) = {} /\ awaits'[Graph(s)] \in {Ok, RequestsOf(m)}
    BY <2>3, <2>5, <2>6, <2>7, <2>9, LedgerAcquires
  <2>12. activeGraphSequences' = activeGraphSequences \cup {s} /\ s = Len(graphs) + 1
         /\ s \notin activeGraphSequences
    <3>1. g.active
      BY <1>5
    <3> QED BY <1>2, <2>2, <2>4, <3>1 DEF activeGraphSequences
  <2>13. ASSUME NEW x \in Modules PROVE HeldOf(x)' = HeldOf(x)
    <3>1. graphs'[s].requestFailures = {}
      BY <1>5, <2>4
    <3>2. \A y \in activeGraphSequences : graphs'[y] = graphs[y]
      BY <2>4 DEF activeGraphSequences
    <3>3. HeldOf(x)' = {h \in (activeGraphSequences \cup {s}) \X Nat :
                          <<x, h[2]>> \in graphs'[h[1]].requestFailures}
      BY <2>12 DEF HeldOf
    <3>4. ASSUME NEW h \in (activeGraphSequences \cup {s}) \X Nat
          PROVE  <<x, h[2]>> \in graphs'[h[1]].requestFailures
                   <=> h \in activeGraphSequences \X Nat /\ <<x, h[2]>> \in graphs[h[1]].requestFailures
      <4>1. h = <<h[1], h[2]>> /\ h[2] \in Nat /\ (h[1] = s \/ h[1] \in activeGraphSequences)
        OBVIOUS
      <4>2. CASE h[1] = s
        BY <2>12, <3>1, <4>1, <4>2
      <4>3. CASE h[1] \in activeGraphSequences
        BY <3>2, <4>1, <4>3
      <4> QED BY <4>1, <4>2, <4>3
    <3> QED BY <3>3, <3>4 DEF HeldOf
  <2>14. QueuesOK'
    <3>1. Len(graphs)' = Len(graphs) + 1
      BY <2>4, <2>12
    <3> QED BY <1>3, <2>2, <2>11, <2>12, <2>13, <3>1, Awaited, QueuesKept DEF LedgerInv, HasFailed
  <2>15. /\ s > requestFailures[m].throughSequence /\ FoundFailure(m, s) = {}
    <3>1. /\ requestFailures[m].throughSequence \in Nat /\ requestFailures[m].throughSequence <= Len(graphs)
          /\ Ordered(requestFailures[m])
          /\ \A i \in 1..Len(requestFailures[m].outcomes) : requestFailures[m].outcomes[i].through \in Nat
      BY <2>3, QueueFacts DEF LedgerInv
    <3>2. \A i \in 1..Len(requestFailures[m].outcomes) : ~(requestFailures[m].outcomes[i].through >= s)
      BY <2>2, <2>12, <3>1 DEF Ordered
    <3>3. FoundFailure(m, s) = {}
      BY <3>2 DEF FoundFailure
    <3> QED BY <2>2, <2>12, <3>1, <3>3
  <2>16. /\ FlightsOK'
         /\ \A y \in 1..Len(graphs) : y # s => WaveOK(graphs[y], awaits'[Graph(y)], requests')
    BY <1>3, <2>3, <2>11, <2>12, <2>15, <2>10, LedgerBeside
  <2>17. WaveOK(g, awaits'[Graph(s)], requests')
    <3>1. g.active /\ g.failedMeanwhile = {} /\ g.requestFailures = {}
      BY <1>5
    <3>2. awaits'[Graph(s)] \in {Ok, RequestsOf(m)}
      BY <2>11, <2>15
    <3>3. awaits'[Graph(s)].kind # "error"
      BY <3>2
    <3> QED BY <3>1, <3>3 DEF WaveOK
  <2>18. WavesOK'
    <3> SUFFICES ASSUME NEW y \in 1..s PROVE WaveOK(graphs'[y], awaits'[Graph(y)], requests')
      BY <2>4 DEF WavesOK
    <3>1. CASE y = s
      BY <2>4, <2>17, <3>1
    <3>2. CASE y \in 1..Len(graphs) /\ y # s
      BY <2>4, <2>16, <3>2
    <3> QED BY <2>2, <2>12, <3>1, <3>2
  <2> QED BY <1>3, <2>14, <2>16, <2>18 DEF LedgerInv
<1>6. \/ \E outcome : awaits' = [awaits EXCEPT ![Root(r)] = outcome] /\ UNCHANGED <<graphs, requests>>
      \/ /\ graphs' = Append(graphs, [root |-> m, active |-> TRUE, requestFailures |-> {},
                                      discovered |-> {m}, visiting |-> m, todo |-> <<>>,
                                      failedMeanwhile |-> {}])
         /\ AcquireRequests(m, s, [awaits EXCEPT ![Root(r)] = GraphOf(m)])
  BY <1>1, <1>2 DEF RootResumes
<1> QED BY <1>4, <1>5, <1>6

\* A traversal goes on to a module it has not seen, and gets the failure it
\* holds of it, if it holds one.
LEMMA LedgerVisit ==
  ASSUME LedgerInv, ClosureInv, NEW s \in activeGraphSequences, awaits[Graph(s)] = Ok,
         NEW x \in Modules, x \notin graphs[s].discovered, NEW rest \in Seq(Modules),
         graphs' = [graphs EXCEPT ![s].visiting = x, ![s].todo = rest,
                                  ![s].discovered = @ \cup {x}],
         AcquireRequests(x, s, awaits),
         UNCHANGED <<records, loadedRequests, requestFailures, errors>>
  PROVE  LedgerInv'
<1> USE Kinds
<1>1. /\ Typed /\ Len(graphs) \in Nat /\ errors \in Nat
      /\ s \in 1..Len(graphs) /\ s \in Nat /\ graphs[s] \in GraphRecord /\ graphs[s].active
      /\ Graph(s) \in Activities /\ AwaitsMap(awaits)
  BY Awaited, ActiveTypes DEF Typed, AwaitsMap
<1>2. PICK g : g = [graphs[s] EXCEPT !.visiting = x, !.todo = rest, !.discovered = @ \cup {x}]
  OBVIOUS
<1>3. /\ g \in GraphRecord /\ g.visiting = x /\ g.active
      /\ g.discovered = graphs[s].discovered \cup {x}
      /\ g.requestFailures = graphs[s].requestFailures
      /\ g.failedMeanwhile = graphs[s].failedMeanwhile
  BY <1>1, <1>2 DEF GraphRecord
<1>4. graphs' = [graphs EXCEPT ![s] = g]
  BY <1>2
<1>5. /\ Len(graphs') = Len(graphs) /\ graphs'[s] = g
      /\ \A y \in 1..Len(graphs) : y # s => graphs'[y] = graphs[y]
  <2>1. s \in 1..Len(graphs) /\ g \in GraphRecord /\ Typed
    BY <1>1, <1>3
  <2>2. /\ graphs' \in Seq(GraphRecord) /\ Len(graphs') = Len(graphs)
        /\ graphs'[s] = g /\ \A y \in 1..Len(graphs) : y # s => graphs'[y] = graphs[y]
    BY <1>4, <2>1, OneTraversal, ZenonT(30)
  <2> QED BY <2>2
<1>6. activeGraphSequences' = activeGraphSequences
  BY <1>1, <1>3, <1>5 DEF activeGraphSequences
<1>7. ASSUME NEW m \in Modules PROVE HeldOf(m)' = HeldOf(m)
  <2>1. \A y \in activeGraphSequences : graphs'[y].requestFailures = graphs[y].requestFailures
    BY <1>3, <1>5 DEF activeGraphSequences
  <2> QED BY <1>6, <2>1 DEF HeldOf
<1>8. ASSUME NEW y \in 1..Len(graphs), y # s PROVE awaits'[Graph(y)] = awaits[Graph(y)]
  BY <1>1, <1>8, OthersAwait
<1>9. /\ \A m \in Modules : awaits'[Request(m)].kind = "error" =>
              HasFailed(Request(m)) /\ awaits'[Request(m)] = awaits[Request(m)]
      /\ \A m \in Modules :
              \/ requests'[m] = requests[m]
              \/ /\ m = x /\ requests[m].phase = "none" /\ requests'[m].phase = "source"
                 /\ awaits'[Graph(s)] = RequestsOf(m) /\ FoundFailure(m, s) = {} /\ m \notin loadedRequests
      /\ \/ \E outcome \in FoundFailure(x, s) : awaits'[Graph(s)] = Error(outcome.error)
         \/ FoundFailure(x, s) = {} /\ awaits'[Graph(s)] \in {Ok, RequestsOf(x)}
  BY <1>1, LedgerAcquires
<1>10. QueuesOK'
  BY <1>1, <1>5, <1>6, <1>7, <1>9, Awaited, QueuesKept DEF LedgerInv, HasFailed
<1>11. requests'[x] # requests[x] => s > requestFailures[x].throughSequence
  BY <1>1, <1>9, FoundCovering DEF LedgerInv
<1>12. /\ FlightsOK'
       /\ \A y \in 1..Len(graphs) : y # s => WaveOK(graphs[y], awaits'[Graph(y)], requests')
  BY <1>6, <1>8, <1>9, <1>11, LedgerBeside
<1>13. WaveOK(graphs[s], Ok, requests)
  BY <1>1 DEF LedgerInv, WavesOK
<1>14. PICK await : await = awaits'[Graph(s)]
  OBVIOUS
<1>15. ASSUME NEW e, <<x, e>> \in graphs[s].requestFailures PROVE await = Error(e)
  <2>1. e \in Nat
    BY <1>1, <1>15 DEF GraphRecord
  <2>2. PICK outcome : FoundFailure(x, s) = {outcome} /\ outcome.error = e
    BY <1>1, <1>15, <2>1, FoundHeld, ZenonT(30) DEF LedgerInv
  <2> QED BY <1>9, <1>14, <2>2
<1>16. ASSUME NEW failure \in g.failedMeanwhile
       PROVE  FailureOK(g, await, requests', failure[1], failure[2])
  <2>1. PICK m, e : m = failure[1] /\ e = failure[2]
    OBVIOUS
  <2>2. FailureOK(graphs[s], Ok, requests, m, e)
    BY <1>3, <1>13, <2>1 DEF WaveOK
  <2>3. m \notin graphs[s].discovered /\ <<m, e>> \in graphs[s].requestFailures
    BY <1>1, <2>2 DEF FailureOK
  <2>4. CASE m = x
    <3>1. await = Error(e)
      BY <1>15, <2>3, <2>4
    <3>2. await.kind = "error" /\ await.error = e /\ await # Ok /\ await # RequestsOf(m)
      BY <3>1
    <3>3. m \notin g.discovered \ (IF await = Ok THEN {} ELSE {g.visiting})
      BY <1>3, <2>4, <3>2
    <3> QED BY <1>3, <2>1, <2>3, <3>2, <3>3 DEF FailureOK
  <2>5. CASE m # x
    <3>1. await # RequestsOf(m)
      <4>1. \A n : RequestsOf(n) = RequestsOf(m) => n = m
        BY DEF RequestsOf
      <4>2. await.kind = "error" \/ await = Ok \/ await = RequestsOf(x)
        BY <1>9, <1>14
      <4> QED BY <2>5, <4>1, <4>2
    <3>2. m \notin g.discovered \ (IF await = Ok THEN {} ELSE {g.visiting})
      BY <1>3, <2>3, <2>5
    <3> QED BY <1>3, <2>1, <2>3, <2>5, <3>1, <3>2 DEF FailureOK
  <2> QED BY <2>4, <2>5
<1>17. await.kind = "error" => \E failure \in g.failedMeanwhile : failure[1] = g.visiting
  <2> SUFFICES ASSUME await.kind = "error" PROVE \E failure \in g.failedMeanwhile : failure[1] = x
    BY <1>3
  <2>1. PICK outcome \in FoundFailure(x, s) : TRUE
    BY <1>9, <1>14
  <2>2. <<x, outcome.error>> \in graphs[s].requestFailures
    BY <1>1, FoundIsHeld DEF LedgerInv
  <2>3. PICK failure \in graphs[s].failedMeanwhile : failure[1] = <<x, outcome.error>>[1]
    BY <1>13, <2>2 DEF WaveOK
  <2> QED BY <1>3, <2>3
<1>18. WaveOK(g, await, requests')
  BY <1>3, <1>13, <1>16, <1>17 DEF WaveOK
<1>19. WavesOK'
  <2> SUFFICES ASSUME NEW y \in 1..Len(graphs) PROVE WaveOK(graphs'[y], awaits'[Graph(y)], requests')
    BY <1>5 DEF WavesOK
  <2>1. CASE y = s
    BY <1>5, <1>14, <1>18, <2>1
  <2>2. CASE y # s
    BY <1>5, <1>12, <2>2
  <2> QED BY <2>1, <2>2
<1> QED BY <1>10, <1>12, <1>19 DEF LedgerInv

\* A traversal gives up what it holds, one failure of a module at most.
LEMMA GivenUp ==
  ASSUME QueuesOK, Typed, NEW m \in Modules, NEW s \in activeGraphSequences
  PROVE  LET t == FoldSet(Forsake, requestFailures[m], HeldErrors(s, m)) IN
         /\ QueueOK(t, activeGraphSequences \ {s}, HeldWithout(HeldOf(m), s))
         /\ Inherits(requestFailures[m], t)
<1>1. PICK q : q = requestFailures[m]
  OBVIOUS
<1>2. /\ q \in Queue /\ Ordered(q) /\ Balanced(q) /\ Observed(q, activeGraphSequences, HeldOf(m))
      /\ q.throughSequence \in Nat
      /\ QueueOK(q, activeGraphSequences, HeldOf(m))
  BY <1>1, QueueFacts DEF QueuesOK
<1>3. /\ activeGraphSequences \in SUBSET (Nat \ {0}) /\ IsFiniteSet(activeGraphSequences)
      /\ HeldOf(m) \in SUBSET (activeGraphSequences \X Nat) /\ graphs[s] \in GraphRecord /\ s \in Nat
  BY ActiveTypes
<1>4. \A e : e \in HeldErrors(s, m) <=> e \in Nat /\ <<s, e>> \in HeldOf(m)
  <2>1. ASSUME NEW e \in HeldErrors(s, m) PROVE e \in Nat /\ <<s, e>> \in HeldOf(m)
    <3>1. PICK h \in graphs[s].requestFailures : h[1] = m /\ e = h[2]
      BY DEF HeldErrors
    <3>2. h = <<m, e>> /\ e \in Nat
      BY <1>3, <3>1 DEF GraphRecord
    <3> QED BY <3>1, <3>2 DEF HeldOf
  <2>2. ASSUME NEW e \in Nat, <<s, e>> \in HeldOf(m) PROVE e \in HeldErrors(s, m)
    <3>1. <<m, e>> \in graphs[s].requestFailures
      BY <2>2 DEF HeldOf
    <3> QED BY <3>1 DEF HeldErrors
  <2> QED BY <2>1, <2>2
<1>5. ASSUME NEW i \in RetainedOf(q)
      PROVE  /\ i \in 1..Len(q.outcomes) /\ q.outcomes[i].error \in Nat
             /\ Covers(q.outcomes[i], s) <=> q.outcomes[i].error \in HeldErrors(s, m)
  <2>1. i \in 1..Len(q.outcomes)
    BY DEF RetainedOf
  <2>2. q.outcomes[i].error \in Nat
    BY <1>2, <2>1, QueueTypes
  <2> QED BY <1>2, <1>4, <2>1, <2>2 DEF Observed
<1>6. CASE HeldErrors(s, m) = {}
  <2>1. FoldSet(Forsake, q, {}) = q
    BY ForsakeNone
  <2>2. \A i \in RetainedOf(q) :
          CoveredBy(q.outcomes[i], activeGraphSequences \ {s}) = CoveredBy(q.outcomes[i], activeGraphSequences)
    BY <1>5, <1>6 DEF CoveredBy
  <2>3. HeldWithout(HeldOf(m), s) = HeldOf(m)
    <3>1. \A h \in HeldOf(m) : h = <<h[1], h[2]>> /\ h[2] \in Nat
      BY <1>3
    <3>2. \A h \in HeldOf(m) : h[1] # s
      BY <1>4, <1>6, <3>1
    <3> QED BY <3>2 DEF HeldWithout
  <2>4. Observed(q, activeGraphSequences \ {s}, HeldOf(m))
    BY <1>2, <2>2 DEF Observed
  <2>5. QueueOK(q, activeGraphSequences \ {s}, HeldOf(m))
    BY <1>2, <2>4 DEF QueueOK
  <2>6. Inherits(q, q)
    BY <1>2 DEF Inherits
  <2> QED BY <1>1, <1>6, <2>1, <2>3, <2>5, <2>6
<1>7. CASE HeldErrors(s, m) # {}
  <2>1. PICK e \in HeldErrors(s, m) : TRUE
    BY <1>7
  <2>2. PICK i \in RetainedOf(q) : q.outcomes[i].error = e
    <3>1. <<s, e>> \in HeldOf(m)
      BY <1>4
    <3> QED BY <1>2, <3>1 DEF Observed
  <2>3. Covers(q.outcomes[i], s) /\ i \in 1..Len(q.outcomes)
    BY <1>5, <2>2
  <2>4. ASSUME NEW e2 \in HeldErrors(s, m) PROVE e2 = e
    <3>1. <<s, e2>> \in HeldOf(m)
      BY <1>4
    <3>2. PICK j \in RetainedOf(q) : q.outcomes[j].error = e2
      BY <1>2, <3>1 DEF Observed
    <3>3. Covers(q.outcomes[j], s) /\ j \in 1..Len(q.outcomes)
      BY <1>5, <3>2
    <3>4. i = j
      BY <1>2, <1>3, <2>3, <3>3, OneInterval
    <3> QED BY <2>2, <3>2, <3>4
  <2>5. HeldErrors(s, m) = {e}
    BY <2>1, <2>4
  <2>6. FoldSet(Forsake, q, {e}) = Forsake(e, q)
    BY ForsakeOne
  <2>7. (CHOOSE j \in 1..Len(q.outcomes) : q.outcomes[j].error = e) = i
    <3>1. \A j \in 1..Len(q.outcomes) : q.outcomes[j].error = e => j = i
      BY <1>2, <2>2, <2>3, OneError
    <3> QED BY <2>2, <2>3, <3>1
  <2>8. Forsake(e, q) = Forsaken(q, i)
    BY <2>7 DEF Forsake
  <2>9. /\ QueueOK(Forsaken(q, i), activeGraphSequences \ {s}, HeldWithout(HeldOf(m), s))
        /\ Inherits(q, Forsaken(q, i))
    BY <1>2, <1>3, <2>3, ForsakenOK
  <2> QED BY <1>1, <2>5, <2>6, <2>8, <2>9
<1> QED BY <1>6, <1>7

LEMMA LedgerEnd ==
  ASSUME LedgerInv, ClosureInv, NEW s \in activeGraphSequences, NEW outcome,
         outcome = awaits[Graph(s)], outcome = Ok \/ outcome.kind = "error",
         EndGraph(s, outcome), UNCHANGED <<loadedRequests, requests, errors>>
  PROVE  LedgerInv'
<1> USE Kinds
<1>1. /\ Typed /\ Len(graphs) \in Nat /\ errors \in Nat
      /\ s \in 1..Len(graphs) /\ s \in Nat /\ graphs[s] \in GraphRecord /\ graphs[s].active
      /\ \A y \in 1..Len(graphs) : Graph(y) \in Activities
      /\ \A m \in Modules : Request(m) \in Activities
  BY Awaited, ActiveTypes
<1>2. PICK g : g = [graphs[s] EXCEPT !.active = FALSE, !.requestFailures = {},
                                     !.visiting = IF outcome = Ok THEN NoModule ELSE @]
  OBVIOUS
<1>3. /\ g \in GraphRecord /\ ~g.active /\ g.requestFailures = {}
      /\ g.discovered = graphs[s].discovered /\ g.failedMeanwhile = graphs[s].failedMeanwhile
      /\ outcome = Ok => g.visiting = NoModule
      /\ outcome # Ok => g.visiting = graphs[s].visiting
  BY <1>1, <1>2 DEF GraphRecord
<1>4. graphs' = [graphs EXCEPT ![s] = g]
  BY <1>2 DEF EndGraph
<1>5. /\ Len(graphs') = Len(graphs) /\ graphs'[s] = g
      /\ \A y \in 1..Len(graphs) : y # s => graphs'[y] = graphs[y]
  <2>1. s \in 1..Len(graphs) /\ g \in GraphRecord /\ Typed
    BY <1>1, <1>3
  <2>2. /\ graphs' \in Seq(GraphRecord) /\ Len(graphs') = Len(graphs)
        /\ graphs'[s] = g /\ \A y \in 1..Len(graphs) : y # s => graphs'[y] = graphs[y]
    BY <1>4, <2>1, OneTraversal, ZenonT(30)
  <2> QED BY <2>2
<1>6. activeGraphSequences' = activeGraphSequences \ {s}
  BY <1>1, <1>3, <1>5 DEF activeGraphSequences
<1>7. ASSUME NEW m \in Modules PROVE HeldOf(m)' = HeldWithout(HeldOf(m), s)
  <2>1. \A y \in activeGraphSequences \ {s} : graphs'[y] = graphs[y]
    BY <1>5 DEF activeGraphSequences
  <2>2. HeldOf(m)' = {h \in (activeGraphSequences \ {s}) \X Nat :
                        <<m, h[2]>> \in graphs'[h[1]].requestFailures}
    BY <1>6 DEF HeldOf
  <2>3. ASSUME NEW h \in activeGraphSequences \X Nat
        PROVE  h \in (activeGraphSequences \ {s}) \X Nat <=> h[1] # s
    OBVIOUS
  <2> QED BY <2>1, <2>2, <2>3 DEF HeldOf, HeldWithout
<1>8. PICK what : what = GraphOf(graphs[s].root)
  OBVIOUS
<1>9. /\ awaits'[Graph(s)] = Idle
      /\ \A activity \in Activities \ {Graph(s)} :
            awaits'[activity] = IF awaits[activity] = what THEN outcome ELSE awaits[activity]
  <2>1. PICK x \in Activities : x = Graph(s)
    BY <1>1
  <2>2. PICK value : value = Idle
    OBVIOUS
  <2>3. awaits' = [Deliver(what, outcome) EXCEPT ![x] = value]
    BY <1>8, <2>1, <2>2 DEF EndGraph
  <2>4. /\ awaits' = [activity \in Activities |-> awaits'[activity]]
        /\ awaits'[x] = value
        /\ \A activity \in Activities \ {x} :
             awaits'[activity] = IF awaits[activity] = what THEN outcome ELSE awaits[activity]
    BY ONLY <2>3, x \in Activities, DeliveryBut
  <2> QED BY <2>1, <2>2, <2>4
<1>10. ASSUME NEW y \in 1..Len(graphs), y # s PROVE awaits'[Graph(y)] = awaits[Graph(y)]
  <2>1. awaits[Graph(y)] # what
    <3>1. CASE graphs[y].active
      <4>1. TraversalOK(graphs[y], awaits[Graph(y)], loadedRequests, requested)
        BY <3>1, Awaited DEF activeGraphSequences
      <4>2. what.kind = "graph"
        BY <1>8
      <4> QED BY <4>1, <4>2, TraversalPassedBy
    <3>2. CASE ~graphs[y].active
      <4>1. awaits[Graph(y)] = Idle
        BY <3>2 DEF LedgerInv, WavesOK, WaveOK
      <4> QED BY <1>8, <4>1
    <3> QED BY <3>1, <3>2
  <2>2. Graph(y) \in Activities \ {Graph(s)}
    BY <1>1, <1>10, ActivitiesDiffer
  <2> QED BY <1>9, <2>1, <2>2
<1>11. ASSUME NEW m \in Modules PROVE awaits'[Request(m)] = awaits[Request(m)]
  <2>1. awaits[Request(m)] # what
    BY <1>8, Awaited
  <2>2. Request(m) \in Activities \ {Graph(s)}
    BY <1>1, ActivitiesDiffer
  <2> QED BY <1>9, <2>1, <2>2
<1>12. ASSUME NEW m \in Modules
       PROVE  /\ QueueOK(requestFailures'[m], activeGraphSequences', HeldOf(m)')
              /\ Inherits(requestFailures[m], requestFailures'[m])
  <2>1. CASE activeGraphSequences = {s}
    <3>1. requestFailures'[m] = NoQueue
      BY <2>1 DEF EndGraph, Unregistered
    <3>2. activeGraphSequences' = {}
      BY <1>6, <2>1
    <3>3. HeldOf(m)' = {}
      BY <3>2 DEF HeldOf
    <3>4. QueueOK(NoQueue, {}, {})
      <4>1. {} \in SUBSET (Nat \ {0})
        OBVIOUS
      <4> QED BY <4>1, NoQueueOK
    <3>5. Inherits(requestFailures[m], NoQueue)
      <4>1. Len(NoQueue.outcomes) = 0 /\ NoQueue.throughSequence = 0
        BY EmptySeq DEF NoQueue
      <4> QED BY <4>1, QueueFacts DEF Inherits, LedgerInv
    <3> QED BY <3>1, <3>2, <3>3, <3>4, <3>5
  <2>2. CASE activeGraphSequences # {s}
    <3>1. requestFailures'[m] = FoldSet(Forsake, requestFailures[m], HeldErrors(s, m))
      BY <2>2 DEF EndGraph, Unregistered
    <3>2. LET t == FoldSet(Forsake, requestFailures[m], HeldErrors(s, m)) IN
          /\ QueueOK(t, activeGraphSequences \ {s}, HeldWithout(HeldOf(m), s))
          /\ Inherits(requestFailures[m], t)
      BY <1>1, GivenUp DEF LedgerInv
    <3> QED BY <1>6, <1>7, <3>1, <3>2
  <2> QED BY <2>1, <2>2
<1>13. requestFailures' = [m \in Modules |-> requestFailures'[m]]
  BY DEF EndGraph, Unregistered
<1>14. QueuesOK'
  <2> SUFFICES ASSUME NEW m \in Modules
               PROVE  /\ QueueOK(requestFailures'[m], activeGraphSequences', HeldOf(m)')
                      /\ requestFailures'[m].throughSequence <= Len(graphs')
                      /\ \A i \in 1..Len(requestFailures'[m].outcomes) :
                           /\ requestFailures'[m].outcomes[i].error <= errors'
                           /\ HasFailed(Request(m))' =>
                                requestFailures'[m].outcomes[i].error < awaits'[Request(m)].error
                      /\ HasFailed(Request(m))' => awaits'[Request(m)].error <= errors'
    BY DEF QueuesOK
  <2>1. requestFailures'[m] \in Queue
    BY <1>12 DEF QueueOK, Balanced
  <2>2. requestFailures'[m].throughSequence \in Nat
    BY <2>1, QueueTypes
  <2>3. /\ requestFailures[m].throughSequence \in Nat /\ requestFailures[m].throughSequence <= Len(graphs)
    BY QueueFacts DEF LedgerInv
  <2>4. requestFailures'[m].throughSequence <= Len(graphs')
    BY <1>1, <1>5, <1>12, <2>2, <2>3 DEF Inherits
  <2>5. HasFailed(Request(m))' <=> HasFailed(Request(m))
    BY <1>11 DEF HasFailed
  <2>6. ASSUME NEW i \in 1..Len(requestFailures'[m].outcomes)
        PROVE  /\ requestFailures'[m].outcomes[i].error <= errors'
               /\ HasFailed(Request(m))' =>
                    requestFailures'[m].outcomes[i].error < awaits'[Request(m)].error
    <3>1. PICK j \in 1..Len(requestFailures[m].outcomes) :
            requestFailures'[m].outcomes[i].error = requestFailures[m].outcomes[j].error
      BY <1>12 DEF Inherits
    <3> QED BY <1>11, <2>5, <3>1 DEF LedgerInv, QueuesOK
  <2>7. HasFailed(Request(m))' => awaits'[Request(m)].error <= errors'
    BY <1>11, <2>5 DEF LedgerInv, QueuesOK
  <2> QED BY <1>12, <2>4, <2>6, <2>7
<1>15. FlightsOK'
  <2>1. ASSUME NEW m \in Modules, requests'[m].phase \in Flying
        PROVE  \E y \in activeGraphSequences' :
                 awaits'[Graph(y)] = RequestsOf(m) /\ y > requestFailures'[m].throughSequence
    <3>1. PICK y \in activeGraphSequences :
            awaits[Graph(y)] = RequestsOf(m) /\ y > requestFailures[m].throughSequence
      BY <2>1 DEF LedgerInv, FlightsOK
    <3>2. y # s /\ y \in 1..Len(graphs) /\ y \in Nat
      BY <3>1, ActiveTypes, <1>1
    <3>3. requestFailures[m].throughSequence \in Nat
      BY QueueFacts DEF LedgerInv
    <3>4. requestFailures'[m] \in Queue
      BY <1>12 DEF QueueOK, Balanced
    <3>5. requestFailures'[m].throughSequence \in Nat
      BY <3>4, QueueTypes
    <3>6. y > requestFailures'[m].throughSequence
      BY <1>12, <3>1, <3>2, <3>3, <3>5 DEF Inherits
    <3> QED BY <1>6, <1>10, <3>1, <3>2, <3>6
  <2> QED BY <2>1 DEF LedgerInv, FlightsOK
<1>16. WaveOK(graphs[s], outcome, requests)
  BY <1>1 DEF LedgerInv, WavesOK
<1>17. WaveOK(g, Idle, requests)
  <2>1. ASSUME NEW failure \in g.failedMeanwhile
        PROVE  FailureOK(g, Idle, requests, failure[1], failure[2])
    <3>1. FailureOK(graphs[s], outcome, requests, failure[1], failure[2])
      BY <1>3, <1>16 DEF WaveOK
    <3>2. failure[1] \notin g.discovered \ {g.visiting}
      BY <1>3, <3>1 DEF FailureOK
    <3>3. Idle # Ok
      OBVIOUS
    <3> QED BY <1>3, <3>2, <3>3 DEF FailureOK
  <2>2. Idle.kind # "error"
    OBVIOUS
  <2> QED BY <1>3, <2>1, <2>2 DEF WaveOK
<1>18. WavesOK'
  <2> SUFFICES ASSUME NEW y \in 1..Len(graphs) PROVE WaveOK(graphs'[y], awaits'[Graph(y)], requests)
    BY <1>5 DEF WavesOK
  <2>1. CASE y = s
    BY <1>5, <1>9, <1>17, <2>1
  <2>2. CASE y # s
    BY <1>5, <1>10, <2>2 DEF LedgerInv, WavesOK
  <2> QED BY <2>1, <2>2
<1> QED BY <1>13, <1>14, <1>15, <1>18 DEF LedgerInv

LEMMA LedgerGraphResumes ==
  ASSUME LedgerInv, ClosureInv, NEW s, GraphResumes(s)
  PROVE  LedgerInv'
<1> USE Kinds
<1>1. /\ s \in activeGraphSequences /\ awaits[Graph(s)] = Ok
      /\ UNCHANGED <<records, loadedRequests, errors>>
  BY DEF GraphResumes, MayGoOn
<1>2. /\ Typed /\ s \in 1..Len(graphs) /\ graphs[s] \in GraphRecord
      /\ TraversalOK(graphs[s], awaits[Graph(s)], loadedRequests, requested)
  BY <1>1, Awaited, ActiveTypes
<1>3. graphs[s].visiting \in Modules
  BY <1>2 DEF TraversalOK, GraphRecord
<1>4. PICK ahead : ahead = Ahead(graphs[s])
  OBVIOUS
<1>5. ahead \in Seq(Modules) /\ Len(ahead) \in Nat
  BY <1>2, <1>3, <1>4, AheadProperties, LenProperties
<1>6. ASSUME NEW i \in New(graphs[s]),
             graphs' = [graphs EXCEPT ![s].visiting = ahead[i],
                                      ![s].todo = SubSeq(ahead, i + 1, Len(ahead)),
                                      ![s].discovered = @ \cup {ahead[i]}],
             AcquireRequests(ahead[i], s, awaits), UNCHANGED requestFailures
      PROVE  LedgerInv'
  <2>1. /\ i \in 1..Len(ahead) /\ ahead[i] \notin graphs[s].discovered /\ ahead[i] \in Modules
    BY <1>4, <1>5, <1>6, ElementOfSeq DEF New
  <2>2. PICK x \in Modules : x = ahead[i]
    BY <2>1
  <2>3. PICK rest : rest = SubSeq(ahead, i + 1, Len(ahead))
    OBVIOUS
  <2>4. rest \in Seq(Modules)
    <3>1. i + 1 \in Nat \ {0} /\ i + 1 <= Len(ahead) + 1
      BY <1>5, <2>1
    <3> QED BY <1>5, <2>3, <3>1, SliceProperties
  <2>5. graphs' = [graphs EXCEPT ![s].visiting = x, ![s].todo = rest,
                                 ![s].discovered = @ \cup {x}]
    BY <1>6, <2>2, <2>3
  <2> QED BY <1>1, <1>6, <2>1, <2>2, <2>4, <2>5, LedgerVisit
<1>7. ASSUME EndGraph(s, Ok), UNCHANGED requests
      PROVE  LedgerInv'
  <2>1. PICK outcome : outcome = Ok
    OBVIOUS
  <2> QED BY <1>1, <1>7, <2>1, LedgerEnd
<1> QED BY <1>4, <1>6, <1>7 DEF GraphResumes

LEMMA LedgerGraphFails ==
  ASSUME LedgerInv, ClosureInv, NEW s, GraphFails(s)
  PROVE  LedgerInv'
<1>1. PICK outcome : outcome = awaits[Graph(s)]
  OBVIOUS
<1>2. s \in activeGraphSequences /\ outcome.kind = "error" /\ EndGraph(s, outcome)
      /\ UNCHANGED <<loadedRequests, requests, errors>>
  BY <1>1 DEF GraphFails, HasFailed, cacheVars
<1> QED BY <1>1, <1>2, LedgerEnd

-----------------------------------------------------------------------------
\* A traversal that a change of the requests does not concern.
LEMMA WaveBeside ==
  ASSUME LedgerInv, ClosureInv, NEW y \in 1..Len(graphs),
         \A x \in Modules : awaits[Graph(y)] = RequestsOf(x) /\ requests[x].phase = "closing" =>
            requests'[x].phase = "closing" /\ requests'[x].error = requests[x].error
  PROVE  WaveOK(graphs[y], awaits[Graph(y)], requests')
<1> USE Kinds
<1>1. WaveOK(graphs[y], awaits[Graph(y)], requests)
  BY DEF LedgerInv, WavesOK
<1>2. ASSUME NEW x, awaits[Graph(y)] = RequestsOf(x), requests[x].phase = "closing"
      PROVE  requests'[x].phase = "closing" /\ requests'[x].error = requests[x].error
  <2>1. graphs[y].active
    BY <1>1, <1>2 DEF WaveOK
  <2>2. graphs[y] \in GraphRecord /\ TraversalOK(graphs[y], awaits[Graph(y)], loadedRequests, requested)
    BY <2>1, Awaited, ActiveTypes
  <2>3. x \in Modules
    BY <1>2, <2>2 DEF TraversalOK, GraphRecord
  <2> QED BY <1>2, <2>3
<1> QED BY <1>1, <1>2, WaveKept

\* Who waits for the requests of a module visits it.
LEMMA Waiting ==
  ASSUME LedgerInv, ClosureInv, NEW y \in 1..Len(graphs), NEW m,
         awaits[Graph(y)] = RequestsOf(m)
  PROVE  y \in activeGraphSequences /\ graphs[y].active /\ graphs[y].visiting = m
<1> USE Kinds
<1>1. graphs[y].active
  BY DEF LedgerInv, WavesOK, WaveOK
<1>2. y \in activeGraphSequences
  BY <1>1 DEF activeGraphSequences
<1>3. TraversalOK(graphs[y], awaits[Graph(y)], loadedRequests, requested)
  BY <1>2, Awaited
<1> QED BY <1>1, <1>2, <1>3 DEF TraversalOK

\* A module whose acquisition goes on to its next await.
LEMMA LedgerRequestMoves ==
  ASSUME LedgerInv, ClosureInv, NEW m \in Modules, requests[m].phase \in Flying,
         requests'[m].phase \in Flying,
         \A x \in Modules : x # m => requests'[x] = requests[x],
         NEW await, awaits' = [awaits EXCEPT ![Request(m)] = await], await.kind # "error",
         UNCHANGED <<graphs, requestFailures, loadedRequests, errors>>
  PROVE  LedgerInv'
<1>1. /\ Typed /\ \A y \in 1..Len(graphs) : Graph(y) \in Activities
      /\ \A x \in Modules : Request(x) \in Activities
      /\ errors \in Nat
  BY Awaited
<1>2. /\ awaits'[Request(m)] = await
      /\ \A activity \in Activities \ {Request(m)} : awaits'[activity] = awaits[activity]
  BY <1>1, OneAwait
<1>3. \A y \in 1..Len(graphs) : awaits'[Graph(y)] = awaits[Graph(y)]
  BY <1>1, <1>2, ActivitiesDiffer, ZenonT(30)
<1>4. \A x \in Modules : x # m => awaits'[Request(x)] = awaits[Request(x)]
  BY <1>1, <1>2, ActivitiesDiffer, ZenonT(30)
<1>5. activeGraphSequences' = activeGraphSequences /\ Len(graphs)' = Len(graphs)
  BY DEF activeGraphSequences
<1>6. \A x \in Modules : HeldOf(x)' = HeldOf(x)
  BY <1>5 DEF HeldOf
<1>7. \A x \in Modules : HasFailed(Request(x))' =>
            HasFailed(Request(x)) /\ awaits'[Request(x)] = awaits[Request(x)]
  BY <1>2, <1>4 DEF HasFailed
<1>8. QueuesOK'
  BY <1>1, <1>5, <1>6, <1>7, Awaited, QueuesKept DEF LedgerInv
<1>9. FlightsOK'
  <2>1. \A y \in activeGraphSequences : awaits'[Graph(y)] = awaits[Graph(y)]
    BY <1>3 DEF activeGraphSequences
  <2>2. ASSUME NEW x \in Modules
        PROVE  /\ requests'[x].phase # "none" => requests[x].phase # "none"
               /\ requests'[x].phase \in Flying => requests[x].phase \in Flying
    <3>1. CASE x = m
      BY <3>1 DEF Flying
    <3>2. CASE x # m
      BY <3>2
    <3> QED BY <3>1, <3>2
  <2> QED BY <1>5, <2>1, <2>2 DEF LedgerInv, FlightsOK
<1>10. ASSUME NEW y \in 1..Len(graphs) PROVE WaveOK(graphs[y], awaits'[Graph(y)], requests')
  <2>1. requests[m].phase # "closing"
    BY DEF Flying
  <2> QED BY <1>3, <2>1, WaveBeside
<1>11. WavesOK'
  BY <1>5, <1>10 DEF WavesOK
<1> QED BY <1>8, <1>9, <1>11 DEF LedgerInv

\* The acquisition of m succeeds: whoever waits for it has not noted a failure
\* of m, for that would be on its way.
LEMMA LedgerRequestEnds ==
  ASSUME LedgerInv, ClosureInv, NEW m \in Modules, requests[m].phase \in Flying,
         requests'[m].phase = "none",
         \A x \in Modules : x # m => requests'[x] = requests[x],
         awaits' = [Deliver(RequestsOf(m), Ok) EXCEPT ![Request(m)] = Idle],
         loadedRequests' = loadedRequests \cup {m},
         UNCHANGED <<graphs, requestFailures, errors>>
  PROVE  LedgerInv'
<1> USE Kinds
<1>1. /\ Typed /\ \A y \in 1..Len(graphs) : Graph(y) \in Activities
      /\ \A x \in Modules : Request(x) \in Activities
      /\ errors \in Nat
  BY Awaited
<1>2. /\ awaits'[Request(m)] = Idle
      /\ \A activity \in Activities \ {Request(m)} :
           awaits'[activity] = IF awaits[activity] = RequestsOf(m) THEN Ok ELSE awaits[activity]
  <2>1. PICK x \in Activities : x = Request(m)
    BY <1>1
  <2>2. PICK what, outcome, value : what = RequestsOf(m) /\ outcome = Ok /\ value = Idle
    OBVIOUS
  <2>3. awaits' = [Deliver(what, outcome) EXCEPT ![x] = value]
    BY <2>1, <2>2
  <2>4. /\ awaits' = [activity \in Activities |-> awaits'[activity]]
        /\ awaits'[x] = value
        /\ \A activity \in Activities \ {x} :
             awaits'[activity] = IF awaits[activity] = what THEN outcome ELSE awaits[activity]
    BY ONLY <2>3, x \in Activities, DeliveryBut
  <2> QED BY <2>1, <2>2, <2>4
<1>3. ASSUME NEW y \in 1..Len(graphs)
      PROVE  awaits'[Graph(y)] = IF awaits[Graph(y)] = RequestsOf(m) THEN Ok ELSE awaits[Graph(y)]
  <2>1. Graph(y) \in Activities \ {Request(m)}
    BY <1>1, ActivitiesDiffer
  <2> QED BY <1>2, <2>1
<1>4. ASSUME NEW x \in Modules, x # m PROVE awaits'[Request(x)] = awaits[Request(x)]
  <2>1. awaits[Request(x)] # RequestsOf(m)
    BY Awaited
  <2>2. Request(x) \in Activities \ {Request(m)}
    BY <1>1, <1>4, ActivitiesDiffer
  <2> QED BY <1>2, <2>1, <2>2
<1>5. activeGraphSequences' = activeGraphSequences /\ Len(graphs)' = Len(graphs)
  BY DEF activeGraphSequences
<1>6. \A x \in Modules : HeldOf(x)' = HeldOf(x)
  BY <1>5 DEF HeldOf
<1>7. \A x \in Modules : HasFailed(Request(x))' =>
            HasFailed(Request(x)) /\ awaits'[Request(x)] = awaits[Request(x)]
  BY <1>2, <1>4 DEF HasFailed
<1>8. QueuesOK'
  BY <1>1, <1>5, <1>6, <1>7, Awaited, QueuesKept DEF LedgerInv
<1>9. FlightsOK'
  <2>1. ASSUME NEW x \in Modules, requests'[x].phase # "none"
        PROVE  /\ x \notin loadedRequests'
               /\ requests'[x].phase \in Flying =>
                    \E y \in activeGraphSequences' :
                      awaits'[Graph(y)] = RequestsOf(x) /\ y > requestFailures'[x].throughSequence
    <3>1. x # m /\ requests'[x] = requests[x]
      BY <2>1
    <3>2. x \notin loadedRequests'
      BY <2>1, <3>1 DEF LedgerInv, FlightsOK
    <3>3. ASSUME requests[x].phase \in Flying
          PROVE  \E y \in activeGraphSequences' :
                   awaits'[Graph(y)] = RequestsOf(x) /\ y > requestFailures'[x].throughSequence
      <4>1. PICK y \in activeGraphSequences :
              awaits[Graph(y)] = RequestsOf(x) /\ y > requestFailures[x].throughSequence
        BY <3>3 DEF LedgerInv, FlightsOK
      <4>2. y \in 1..Len(graphs) /\ awaits[Graph(y)] # RequestsOf(m)
        BY <3>1, <4>1 DEF activeGraphSequences
      <4> QED BY <1>3, <1>5, <4>1, <4>2
    <3> QED BY <3>1, <3>2, <3>3
  <2> QED BY <2>1 DEF FlightsOK, Flying
<1>10. ASSUME NEW y \in 1..Len(graphs) PROVE WaveOK(graphs[y], awaits'[Graph(y)], requests')
  <2>1. CASE awaits[Graph(y)] # RequestsOf(m)
    <3>1. awaits'[Graph(y)] = awaits[Graph(y)]
      BY <1>3, <2>1
    <3>2. \A x \in Modules : awaits[Graph(y)] = RequestsOf(x) => x # m
      BY <2>1
    <3>3. WaveOK(graphs[y], awaits[Graph(y)], requests')
      BY <3>2, WaveBeside
    <3> QED BY <3>1, <3>3
  <2>2. CASE awaits[Graph(y)] = RequestsOf(m)
    <3>1. awaits'[Graph(y)] = Ok
      BY <1>3, <2>2
    <3>2. graphs[y].active /\ graphs[y].visiting = m
      BY <2>2, Waiting
    <3>3. WaveOK(graphs[y], RequestsOf(m), requests)
      BY <2>2 DEF LedgerInv, WavesOK
    <3>4. ASSUME NEW failure \in graphs[y].failedMeanwhile
          PROVE  FailureOK(graphs[y], Ok, requests', failure[1], failure[2])
      <4>1. FailureOK(graphs[y], RequestsOf(m), requests, failure[1], failure[2])
        BY <3>3 DEF WaveOK
      <4>2. failure[1] # m
        BY <3>2, <4>1 DEF FailureOK, Flying
      <4>3. RequestsOf(m) # Ok /\ RequestsOf(m).kind # "error" /\ Ok.kind # "error"
            /\ Ok # RequestsOf(failure[1])
        BY Zenon
      <4>4. failure[1] \notin graphs[y].discovered
        BY <3>2, <4>1, <4>2, <4>3 DEF FailureOK
      <4> QED BY <3>2, <4>1, <4>3, <4>4 DEF FailureOK
    <3>5. WaveOK(graphs[y], Ok, requests')
      BY <3>2, <3>3, <3>4 DEF WaveOK
    <3> QED BY <3>1, <3>5
  <2> QED BY <2>1, <2>2
<1>11. WavesOK'
  BY <1>5, <1>10 DEF WavesOK
<1> QED BY <1>8, <1>9, <1>11 DEF LedgerInv

LEMMA LedgerRequestResumes ==
  ASSUME LedgerInv, ClosureInv, NEW m \in Modules, RequestResumes(m)
  PROVE  LedgerInv'
<1> USE Kinds
<1>1. /\ Typed /\ requests \in [Modules -> RequestRecord] /\ requests[m] \in RequestRecord
      /\ UNCHANGED <<graphs, requestFailures, errors>>
  BY DEF ClosureInv, Typed, RequestResumes
<1>2. CASE /\ requests[m].phase = "resolving"
           /\ requests' = [requests EXCEPT ![m].phase = "child"]
           /\ awaits' = [awaits EXCEPT ![Request(m)] = SourceOf(requested[m][requests[m].next])]
           /\ UNCHANGED loadedRequests
  <2>1. PICK await : await = SourceOf(requested[m][requests[m].next])
    OBVIOUS
  <2>2. await.kind # "error"
    BY <2>1 DEF SourceOf
  <2>3. requests'[m].phase = "child" /\ \A x \in Modules : x # m => requests'[x] = requests[x]
    BY <1>1, <1>2 DEF RequestRecord
  <2> QED BY <1>1, <1>2, <2>1, <2>2, <2>3, LedgerRequestMoves, ZenonT(30) DEF Flying
<1>3. CASE /\ requests[m].phase \in {"source", "child"}
           /\ requests' = [requests EXCEPT ![m].phase = "resolving", ![m].next = @ + 1]
           /\ awaits' = [awaits EXCEPT ![Request(m)]
                           = Resolution(requested[m][requests[m].next + 1], m)]
           /\ UNCHANGED loadedRequests
  <2>1. PICK await : await = Resolution(requested[m][requests[m].next + 1], m)
    OBVIOUS
  <2>2. await.kind # "error"
    BY <2>1
  <2>3. requests'[m].phase = "resolving" /\ \A x \in Modules : x # m => requests'[x] = requests[x]
    <3>1. PICK r : r = [requests[m] EXCEPT !.phase = "resolving", !.next = @ + 1]
      OBVIOUS
    <3>2. r.phase = "resolving"
      BY <1>1, <3>1 DEF RequestRecord
    <3>3. requests' = [requests EXCEPT ![m] = r]
      BY <1>3, <3>1
    <3> QED BY <1>1, <3>2, <3>3
  <2>4. requests[m].phase \in Flying /\ requests'[m].phase \in Flying
    BY <1>3, <2>3 DEF Flying
  <2> QED BY <1>1, <1>3, <2>1, <2>2, <2>3, <2>4, LedgerRequestMoves
<1>4. CASE /\ requests[m].phase \in {"source", "child"}
           /\ requests' = [requests EXCEPT ![m].phase = "none"]
           /\ loadedRequests' = loadedRequests \cup {m}
           /\ awaits' = [Deliver(RequestsOf(m), Ok) EXCEPT ![Request(m)] = Idle]
  <2>1. requests'[m].phase = "none" /\ \A x \in Modules : x # m => requests'[x] = requests[x]
    BY <1>1, <1>4 DEF RequestRecord
  <2>2. requests[m].phase \in Flying
    BY <1>4 DEF Flying
  <2> QED BY <1>1, <1>4, <2>1, <2>2, LedgerRequestEnds
<1> QED BY <1>2, <1>3, <1>4 DEF RequestResumes

\* Queue t is q with one more failure, of the traversals begun since the last.
FailureAdded(q, t, traversals, wave, error, n) ==
  /\ wave = {s \in traversals : s > q.throughSequence}
  /\ t = [outcomes |-> Append(q.outcomes, [error |-> error, previousThrough |-> q.throughSequence,
                                           through |-> n, activeCount |-> Cardinality(wave),
                                           retained |-> TRUE]),
          throughSequence |-> n, retainedCount |-> q.retainedCount + 1,
          staleCount |-> q.staleCount, storage |-> q.storage + 1]
\* It is the newest of all, and of all traversals.
Newest(q, traversals, error, n) ==
  /\ error \in Nat /\ \A i \in 1..Len(q.outcomes) : q.outcomes[i].error < error
  /\ n \in Nat /\ \A s \in traversals : s <= n
\* What t remembers is this failure, and what q remembers.
OneMore(q, t, error) ==
  \A i \in 1..Len(t.outcomes) :
    t.outcomes[i].error = error \/ \E j \in 1..Len(q.outcomes) : t.outcomes[i].error = q.outcomes[j].error
HeldToo(held, wave, error) == held \cup {<<s, error>> : s \in wave}

LEMMA AppendedOK ==
  ASSUME NEW q, NEW traversals \in SUBSET (Nat \ {0}), IsFiniteSet(traversals),
         NEW held \in SUBSET (traversals \X Nat), QueueOK(q, traversals, held),
         NEW error, NEW n, Newest(q, traversals, error, n), NEW wave, wave # {}, NEW t, FailureAdded(q, t, traversals, wave, error, n)
  PROVE  /\ QueueOK(t, traversals, HeldToo(held, wave, error))
         /\ OneMore(q, t, error)
<1>1. /\ q \in Queue /\ Ordered(q) /\ Observed(q, traversals, held)
      /\ q.storage = Len(q.outcomes) /\ q.retainedCount = Cardinality(RetainedOf(q))
      /\ q.staleCount = Len(q.outcomes) - q.retainedCount
      /\ q.outcomes \in Seq(Outcome) /\ Len(q.outcomes) \in Nat /\ q.throughSequence \in Nat
      /\ q.retainedCount \in Int /\ q.staleCount \in Int /\ q.storage \in Int
      /\ \A i \in 1..Len(q.outcomes) :
              /\ q.outcomes[i].error \in Nat /\ q.outcomes[i].previousThrough \in Nat
              /\ q.outcomes[i].through \in Nat
      /\ IsFiniteSet(RetainedOf(q))
  BY QueueTypes DEF QueueOK, Balanced
<1>2. /\ error \in Nat /\ \A i \in 1..Len(q.outcomes) : q.outcomes[i].error < error
      /\ n \in Nat /\ \A s \in traversals : s <= n
  BY DEF Newest
<1>3. PICK outcome : outcome = [error |-> error, previousThrough |-> q.throughSequence, through |-> n,
                                activeCount |-> Cardinality(wave), retained |-> TRUE]
  OBVIOUS
<1>4. wave = {s \in traversals : s > q.throughSequence}
  BY DEF FailureAdded
<1>5. t = [outcomes |-> Append(q.outcomes, outcome), throughSequence |-> n,
           retainedCount |-> q.retainedCount + 1, staleCount |-> q.staleCount,
           storage |-> q.storage + 1]
  BY <1>3 DEF FailureAdded
<1>6. PICK l \in Nat : l = Len(q.outcomes)
  BY <1>1
<1>7. wave \in SUBSET traversals /\ IsFiniteSet(wave) /\ Cardinality(wave) \in Nat
  <2>1. wave \in SUBSET traversals
    BY <1>4
  <2> QED BY <2>1, FS_Subset, FS_CardinalityType
<1>8. q.throughSequence < n
  <2>1. PICK s \in wave : TRUE
    OBVIOUS
  <2>2. s \in Nat /\ s > q.throughSequence /\ s <= n
    BY <1>4, <1>2
  <2> QED BY <1>1, <1>2, <2>2
<1>9. outcome \in Outcome
  <2>1. Cardinality(wave) \in Int
    BY <1>7
  <2> QED BY <1>1, <1>3, <1>2, <2>1 DEF Outcome
<1>10. /\ t.outcomes \in Seq(Outcome) /\ Len(t.outcomes) = l + 1 /\ t.outcomes[l + 1] = outcome
       /\ \A i \in 1..l : t.outcomes[i] = q.outcomes[i]
  <2>1. t.outcomes = Append(q.outcomes, outcome)
    BY <1>5
  <2> QED BY <1>1, <1>6, <1>9, <2>1, AppendProperties
<1>11. /\ t.throughSequence = n /\ t.retainedCount = q.retainedCount + 1
       /\ t.staleCount = q.staleCount /\ t.storage = q.storage + 1
  BY <1>5
<1>12. /\ outcome.error = error /\ outcome.previousThrough = q.throughSequence
       /\ outcome.through = n /\ outcome.activeCount = Cardinality(wave) /\ outcome.retained
  BY <1>3
<1>13. \A i \in 1..(l + 1) : i \in 1..l \/ i = l + 1
  BY <1>6
<1>14. t \in Queue
  <2>1. t.retainedCount \in Int /\ t.staleCount \in Int /\ t.storage \in Int
    BY <1>1, <1>11
  <2>2. q.retainedCount + 1 \in Int /\ q.storage + 1 \in Int
    BY <1>1
  <2> QED BY <1>1, <1>10, <1>5, <1>2, <2>2 DEF Queue, Outcome
<1>15. Ordered(t)
  <2>1. ASSUME NEW i \in 1..(l + 1)
        PROVE  /\ t.outcomes[i].previousThrough < t.outcomes[i].through
               /\ t.outcomes[i].through <= n
    <3>1. CASE i \in 1..l
      <4>1. /\ q.outcomes[i].previousThrough < q.outcomes[i].through
            /\ q.outcomes[i].through <= q.throughSequence /\ q.outcomes[i].through \in Nat
        BY <1>1, <1>6, <3>1 DEF Ordered
      <4>2. t.outcomes[i] = q.outcomes[i]
        BY <1>10, <3>1
      <4>3. q.outcomes[i].through <= n
        BY <1>1, <1>8, <1>2, <4>1
      <4> QED BY <4>1, <4>2, <4>3
    <3>2. CASE i = l + 1
      BY <1>8, <1>10, <1>12, <1>2, <3>2
    <3> QED BY <1>13, <3>1, <3>2
  <2>2. ASSUME NEW i \in 1..(l + 1), NEW j \in 1..(l + 1), i < j
        PROVE  /\ t.outcomes[i].through <= t.outcomes[j].previousThrough
               /\ t.outcomes[i].error < t.outcomes[j].error
    <3>1. i \in 1..l
      BY <1>6, <2>2
    <3>2. t.outcomes[i] = q.outcomes[i] /\ q.outcomes[i].through <= q.throughSequence
          /\ q.outcomes[i].error < error
      BY <1>1, <1>6, <1>10, <1>2, <3>1 DEF Ordered
    <3>3. CASE j \in 1..l
      BY <1>1, <1>6, <1>10, <2>2, <3>1, <3>3 DEF Ordered
    <3>4. CASE j = l + 1
      BY <1>10, <1>12, <3>2, <3>4
    <3> QED BY <1>13, <3>3, <3>4
  <2> QED BY <1>10, <1>11, <2>1, <2>2 DEF Ordered
<1>16. RetainedOf(t) = RetainedOf(q) \cup {l + 1} /\ l + 1 \notin RetainedOf(q)
  BY <1>6, <1>10, <1>12, <1>13 DEF RetainedOf
<1>17. Balanced(t)
  <2>1. Cardinality(RetainedOf(t)) = Cardinality(RetainedOf(q)) + 1
    <3>1. PICK R, x : R = RetainedOf(q) /\ x = l + 1
      OBVIOUS
    <3>2. IsFiniteSet(R) /\ x \notin R /\ RetainedOf(t) = R \cup {x}
      BY <1>1, <1>16, <3>1
    <3>3. Cardinality(R \cup {x}) = Cardinality(R) + 1
      BY <3>2, FS_AddElement
    <3> QED BY <3>1, <3>2, <3>3
  <2>2. t.storage = Len(t.outcomes) /\ t.retainedCount = Cardinality(RetainedOf(t))
    BY <1>1, <1>6, <1>10, <1>11, <2>1
  <2>3. t.staleCount = Len(t.outcomes) - t.retainedCount
    <3>1. \A a \in Int : l - a = (l + 1) - (a + 1)
      BY <1>6
    <3>2. l - q.retainedCount = (l + 1) - (q.retainedCount + 1)
      BY <1>1, <3>1
    <3> QED BY <1>1, <1>6, <1>10, <1>11, <3>2
  <2> QED BY <1>14, <2>2, <2>3 DEF Balanced
<1>18. PICK held2 : held2 = HeldToo(held, wave, error)
  OBVIOUS
<1>19. \A h \in held : h[2] < error
  <2> SUFFICES ASSUME NEW h \in held PROVE h[2] < error
    OBVIOUS
  <2>1. PICK i \in RetainedOf(q) : q.outcomes[i].error = h[2]
    BY <1>1 DEF Observed
  <2> QED BY <1>2, <2>1 DEF RetainedOf
<1>20. ASSUME NEW s, NEW e
       PROVE  <<s, e>> \in held2 <=> <<s, e>> \in held \/ (e = error /\ s \in wave)
  BY <1>18 DEF HeldToo
<1>21. ASSUME NEW i \in RetainedOf(t)
       PROVE  /\ CoveredBy(t.outcomes[i], traversals) # {}
              /\ t.outcomes[i].activeCount = Cardinality(CoveredBy(t.outcomes[i], traversals))
              /\ \A s \in traversals : Covers(t.outcomes[i], s) <=> <<s, t.outcomes[i].error>> \in held2
  <2>1. CASE i \in RetainedOf(q)
    <3>1. i \in 1..l /\ t.outcomes[i] = q.outcomes[i]
      BY <1>6, <1>10, <2>1 DEF RetainedOf
    <3>2. q.outcomes[i].error # error
      <4>1. q.outcomes[i].error < error /\ q.outcomes[i].error \in Nat /\ error \in Nat
        BY <1>1, <1>2, <1>6, <3>1
      <4> QED BY <4>1
    <3>3. /\ CoveredBy(q.outcomes[i], traversals) # {}
          /\ q.outcomes[i].activeCount = Cardinality(CoveredBy(q.outcomes[i], traversals))
          /\ \A s \in traversals : Covers(q.outcomes[i], s) <=> <<s, q.outcomes[i].error>> \in held
      BY <1>1, <2>1 DEF Observed
    <3> QED BY <1>20, <3>1, <3>3, <3>2
  <2>2. CASE i = l + 1
    <3>1. t.outcomes[i] = outcome
      BY <1>10, <2>2
    <3>2. \A s \in traversals : Covers(outcome, s) <=> s \in wave
      BY <1>1, <1>12, <1>4, <1>2 DEF Covers
    <3>3. CoveredBy(outcome, traversals) = wave
      BY <1>7, <3>2 DEF CoveredBy
    <3>4. ASSUME NEW s \in traversals PROVE <<s, error>> \notin held
      <4>1. ASSUME <<s, error>> \in held PROVE FALSE
        <5>1. <<s, error>>[2] < error
          BY <1>19, <4>1
        <5> QED BY <1>2, <5>1
      <4> QED BY <4>1
    <3> QED BY <1>12, <1>20, <3>1, <3>2, <3>3, <3>4
  <2> QED BY <1>16, <2>1, <2>2
<1>22. ASSUME NEW s \in traversals PROVE \E i \in RetainedOf(t) : Covers(t.outcomes[i], s)
  <2>1. CASE s <= q.throughSequence
    <3>1. PICK i \in RetainedOf(q) : Covers(q.outcomes[i], s)
      BY <1>1, <2>1 DEF Observed
    <3>2. i \in 1..l
      BY <1>6 DEF RetainedOf
    <3> QED BY <1>10, <1>16, <3>1, <3>2
  <2>2. CASE ~(s <= q.throughSequence)
    <3>1. Covers(t.outcomes[l + 1], s)
      <4>1. s \in Nat /\ s <= n
        BY <1>2
      <4>2. q.throughSequence < s
        BY <1>1, <2>2, <4>1
      <4>3. Covers(outcome, s)
        BY <1>12, <4>1, <4>2 DEF Covers
      <4> QED BY <1>10, <4>3
    <3> QED BY <1>16, <3>1
  <2> QED BY <2>1, <2>2
<1>23. ASSUME NEW h \in held2 PROVE \E i \in RetainedOf(t) : t.outcomes[i].error = h[2]
  <2>1. CASE h \in held
    <3>1. PICK i \in RetainedOf(q) : q.outcomes[i].error = h[2]
      BY <1>1, <2>1 DEF Observed
    <3>2. i \in 1..l
      BY <1>6 DEF RetainedOf
    <3> QED BY <1>10, <1>16, <3>1, <3>2
  <2>2. CASE h \notin held
    <3>1. h[2] = error
      BY <1>18, <2>2 DEF HeldToo
    <3>2. t.outcomes[l + 1].error = h[2] /\ l + 1 \in RetainedOf(t)
      BY <1>10, <1>12, <1>16, <3>1
    <3> QED BY <3>2
  <2> QED BY <2>1, <2>2
<1>24. Observed(t, traversals, held2)
  BY <1>21, <1>22, <1>23 DEF Observed
<1>25. QueueOK(t, traversals, held2)
  BY <1>15, <1>16, <1>17, <1>24 DEF QueueOK
<1>26. OneMore(q, t, error)
  BY <1>6, <1>10, <1>12, <1>13 DEF OneMore
<1> QED BY <1>18, <1>25, <1>26

\* What is noted of a failure of m.
LEMMA NotedFailures ==
  ASSUME Typed, NEW m \in Modules, NEW error \in Nat, NEW traversals, NEW y \in 1..Len(graphs),
         NEW g, g = Noted(m, error, traversals)[y]
  PROVE  /\ graphs[y].failedMeanwhile \subseteq g.failedMeanwhile
         /\ \A failure \in g.failedMeanwhile :
              \/ failure \in graphs[y].failedMeanwhile
              \/ /\ failure = <<m, error>> /\ y \in traversals
                 /\ \A old \in graphs[y].failedMeanwhile : old[1] # m
         /\ y \in traversals => \E failure \in g.failedMeanwhile : failure[1] = m
         /\ y \notin traversals => g = graphs[y]
<1>1. graphs[y] \in GraphRecord
  BY ActiveTypes
<1>2. CASE y \in traversals /\ \A old \in graphs[y].failedMeanwhile : old[1] # m
  <2>1. g = [graphs[y] EXCEPT !.failedMeanwhile = @ \cup {<<m, error>>}]
    BY <1>2 DEF Noted
  <2>2. g.failedMeanwhile = graphs[y].failedMeanwhile \cup {<<m, error>>}
    BY <1>1, <2>1 DEF GraphRecord
  <2>3. <<m, error>>[1] = m /\ <<m, error>> \in g.failedMeanwhile
    BY <2>2
  <2> QED BY <1>2, <2>2, <2>3
<1>3. CASE ~(y \in traversals /\ \A old \in graphs[y].failedMeanwhile : old[1] # m)
  <2>1. g = graphs[y]
    BY <1>3 DEF Noted
  <2> QED BY <1>3, <2>1
<1> QED BY <1>2, <1>3

\* The acquisition of m fails: the wave is not empty, for one of those who wait
\* for it was begun after the last failure.
LEMMA LedgerRequestFails ==
  ASSUME LedgerInv, ClosureInv, NEW m \in Modules, RequestFails(m)
  PROVE  LedgerInv'
<1> USE Kinds
<1>1. /\ Typed /\ Len(graphs) \in Nat /\ \A y \in 1..Len(graphs) : Graph(y) \in Activities
      /\ \A x \in Modules : Request(x) \in Activities
      /\ errors \in Nat /\ RequestOK(m) /\ requests \in [Modules -> RequestRecord]
      /\ requests[m] \in RequestRecord
  BY Awaited DEF ClosureInv, RequestsOK, Typed
<1>2. PICK error : error = awaits[Request(m)].error
  OBVIOUS
<1>3. error \in Nat /\ HasFailed(Request(m)) /\ error <= errors
  BY <1>1, <1>2 DEF RequestFails, HasFailed, RequestOK, LedgerInv, QueuesOK
<1>4. requests[m].phase \in Flying /\ m \notin loadedRequests /\ requests[m].phase # "closing"
  <2>1. requests[m].phase \in {"none", "source", "resolving", "child", "closing"}
    BY <1>1 DEF RequestRecord
  <2>2. requests[m].phase \notin {"none", "closing"}
    BY <1>1, <1>3 DEF RequestOK, HasFailed
  <2>3. requests[m].phase \in Flying
    BY <2>1, <2>2 DEF Flying
  <2> QED BY <2>2, <2>3 DEF LedgerInv, FlightsOK
<1>5. PICK q : q = requestFailures[m]
  OBVIOUS
<1>6. PICK wave : wave = {s \in activeGraphSequences : s > q.throughSequence}
  OBVIOUS
<1>7. wave # {}
  BY <1>4, <1>5, <1>6 DEF LedgerInv, FlightsOK
<1>8. PICK noted : noted = Noted(m, error, activeGraphSequences)
  OBVIOUS
<1>9. PICK outcome : outcome = [error |-> error, previousThrough |-> q.throughSequence,
                                through |-> Len(graphs), activeCount |-> Cardinality(wave),
                                retained |-> TRUE]
  OBVIOUS
<1>10. PICK t : t = [outcomes |-> Append(q.outcomes, outcome), throughSequence |-> Len(graphs),
                     retainedCount |-> q.retainedCount + 1, staleCount |-> q.staleCount,
                     storage |-> q.storage + 1]
  OBVIOUS
<1>11. /\ requestFailures' = [requestFailures EXCEPT ![m] = t]
       /\ graphs' = [s \in 1..Len(graphs) |->
            IF s \in wave THEN [noted[s] EXCEPT !.requestFailures = @ \cup {<<m, error>>}]
            ELSE noted[s]]
       /\ requests' = [requests EXCEPT ![m].phase = "closing", ![m].error = error]
       /\ awaits' = [awaits EXCEPT ![Request(m)] = Idle]
       /\ UNCHANGED <<records, loadedRequests, errors>>
  BY <1>2, <1>5, <1>6, <1>8, <1>9, <1>10 DEF RequestFails, cacheVars, nextGraphSequence
<1>12. requestFailures'[m] = t /\ \A x \in Modules : x # m => requestFailures'[x] = requestFailures[x]
  BY <1>11 DEF LedgerInv
<1>13. /\ requests'[m].phase = "closing" /\ requests'[m].error = error
       /\ \A x \in Modules : x # m => requests'[x] = requests[x]
  <2>1. PICK r : r = [requests[m] EXCEPT !.phase = "closing", !.error = error]
    OBVIOUS
  <2>2. r.phase = "closing" /\ r.error = error
    BY <1>1, <2>1 DEF RequestRecord
  <2>3. requests' = [requests EXCEPT ![m] = r]
    BY <1>11, <2>1
  <2> QED BY <1>1, <2>2, <2>3
<1>14. awaits'[Request(m)] = Idle
       /\ \A activity \in Activities \ {Request(m)} : awaits'[activity] = awaits[activity]
  <2>1. PICK x \in Activities : x = Request(m)
    BY <1>1
  <2>2. PICK value : value = Idle
    OBVIOUS
  <2>3. awaits' = [awaits EXCEPT ![x] = value]
    BY <1>11, <2>1, <2>2
  <2>4. /\ awaits' = [activity \in Activities |-> awaits'[activity]]
        /\ awaits'[x] = value
        /\ \A activity \in Activities \ {x} : awaits'[activity] = awaits[activity]
    <3>1. Typed
      BY <1>1
    <3> QED BY ONLY <2>3, <3>1, x \in Activities, OneAwait
  <2> QED BY <2>1, <2>2, <2>4
<1>15. ASSUME NEW y \in 1..Len(graphs) PROVE awaits'[Graph(y)] = awaits[Graph(y)]
  <2>1. Graph(y) \in Activities \ {Request(m)}
    BY <1>1, ActivitiesDiffer
  <2> QED BY <1>14, <2>1
<1>16. ASSUME NEW x \in Modules, x # m PROVE awaits'[Request(x)] = awaits[Request(x)]
  <2>1. Request(x) \in Activities \ {Request(m)}
    BY <1>1, <1>16, ActivitiesDiffer
  <2> QED BY <1>14, <2>1
<1>17. ASSUME NEW y \in 1..Len(graphs)
       PROVE  /\ graphs'[y].active = graphs[y].active /\ graphs'[y].discovered = graphs[y].discovered
              /\ graphs'[y].visiting = graphs[y].visiting
              /\ graphs'[y].failedMeanwhile = noted[y].failedMeanwhile
              /\ graphs'[y].requestFailures
                   = graphs[y].requestFailures \cup (IF y \in wave THEN {<<m, error>>} ELSE {})
  <2>1. /\ noted[y] \in GraphRecord /\ noted[y].active = graphs[y].active
        /\ noted[y].discovered = graphs[y].discovered /\ noted[y].visiting = graphs[y].visiting
        /\ noted[y].requestFailures = graphs[y].requestFailures
    BY <1>1, <1>3, <1>8, NotedTypes
  <2>2. CASE y \in wave
    <3>1. PICK failures : failures = noted[y].requestFailures \cup {<<m, error>>}
      OBVIOUS
    <3>2. graphs'[y] = [noted[y] EXCEPT !.requestFailures = failures]
      BY <1>11, <2>2, <3>1
    <3>3. /\ graphs'[y].active = noted[y].active /\ graphs'[y].discovered = noted[y].discovered
          /\ graphs'[y].visiting = noted[y].visiting
          /\ graphs'[y].failedMeanwhile = noted[y].failedMeanwhile
          /\ graphs'[y].requestFailures = failures
      BY <2>1, <3>2 DEF GraphRecord
    <3> QED BY <2>1, <2>2, <3>1, <3>3
  <2>3. CASE y \notin wave
    <3>1. graphs'[y] = noted[y]
      BY <1>11, <2>3
    <3> QED BY <2>1, <2>3, <3>1
  <2> QED BY <2>2, <2>3
<1>18. Len(graphs') = Len(graphs)
  <2>1. DOMAIN graphs' = 1..Len(graphs)
    BY <1>11
  <2>2. graphs' \in Seq({graphs'[y] : y \in 1..Len(graphs)})
    <3>1. graphs' \in [1..Len(graphs) -> {graphs'[y] : y \in 1..Len(graphs)}]
      BY <1>11
    <3> QED BY <1>1, <3>1, SeqDef
  <2> QED BY <1>1, <2>1, <2>2, LenProperties
<1>19. activeGraphSequences' = activeGraphSequences
  BY <1>17, <1>18 DEF activeGraphSequences
<1>20. /\ activeGraphSequences \in SUBSET (Nat \ {0}) /\ IsFiniteSet(activeGraphSequences)
       /\ \A y \in activeGraphSequences : y \in 1..Len(graphs) /\ y \in Nat /\ y <= Len(graphs)
       /\ HeldOf(m) \in SUBSET (activeGraphSequences \X Nat)
  BY <1>1, ActiveTypes
<1>21. HeldOf(m)' = HeldToo(HeldOf(m), wave, error)
  <2>1. HeldOf(m)' = {h \in activeGraphSequences \X Nat : <<m, h[2]>> \in graphs'[h[1]].requestFailures}
    BY <1>19 DEF HeldOf
  <2>2. ASSUME NEW y \in activeGraphSequences, NEW e \in Nat
        PROVE  <<m, e>> \in graphs'[y].requestFailures
                 <=> <<m, e>> \in graphs[y].requestFailures \/ (y \in wave /\ e = error)
    BY <1>17, <1>20
  <2>3. ASSUME NEW h \in activeGraphSequences \X Nat
        PROVE  h \in HeldOf(m)' <=> h \in HeldToo(HeldOf(m), wave, error)
    <3>1. PICK y \in activeGraphSequences, e \in Nat : h = <<y, e>>
      OBVIOUS
    <3>2. <<y, e>>[1] = y /\ <<y, e>>[2] = e
      OBVIOUS
    <3> QED BY <2>1, <2>2, <3>1, <3>2 DEF HeldOf, HeldToo
  <2>4. wave \in SUBSET activeGraphSequences
    BY <1>6
  <2>5. HeldToo(HeldOf(m), wave, error) \in SUBSET (activeGraphSequences \X Nat)
    BY <1>3, <1>20, <2>4 DEF HeldToo
  <2>6. HeldOf(m)' \in SUBSET (activeGraphSequences \X Nat)
    BY <2>1
  <2> QED BY <2>3, <2>5, <2>6
<1>22. ASSUME NEW x \in Modules, x # m PROVE HeldOf(x)' = HeldOf(x)
  <2>1. HeldOf(x)' = {h \in activeGraphSequences \X Nat : <<x, h[2]>> \in graphs'[h[1]].requestFailures}
    BY <1>19 DEF HeldOf
  <2>2. ASSUME NEW y \in activeGraphSequences, NEW e \in Nat
        PROVE  <<x, e>> \in graphs'[y].requestFailures <=> <<x, e>> \in graphs[y].requestFailures
    <3>1. <<x, e>> # <<m, error>>
      BY <1>22
    <3> QED BY <1>17, <1>20, <3>1
  <2> QED BY <2>1, <2>2 DEF HeldOf
<1>23. \A i \in 1..Len(q.outcomes) : q.outcomes[i].error < error /\ q.outcomes[i].error <= errors
  BY <1>2, <1>3, <1>5 DEF LedgerInv, QueuesOK
<1>24. /\ QueueOK(t, activeGraphSequences, HeldToo(HeldOf(m), wave, error))
       /\ OneMore(q, t, error)
  <2>1. PICK A, held, n : A = activeGraphSequences /\ held = HeldOf(m) /\ n = Len(graphs)
    OBVIOUS
  <2>2. /\ A \in SUBSET (Nat \ {0}) /\ IsFiniteSet(A) /\ held \in SUBSET (A \X Nat)
        /\ QueueOK(q, A, held) /\ n \in Nat /\ \A y \in A : y <= n
    BY <1>1, <1>5, <1>20, <2>1 DEF LedgerInv, QueuesOK
  <2>3. FailureAdded(q, t, A, wave, error, n)
    BY <1>6, <1>9, <1>10, <2>1 DEF FailureAdded
  <2>4. Newest(q, A, error, n)
    BY <1>3, <1>23, <2>2 DEF Newest
  <2>5. /\ QueueOK(t, A, HeldToo(held, wave, error))
        /\ OneMore(q, t, error)
    BY ONLY <1>7, <2>2, <2>3, <2>4, AppendedOK, ZenonT(30)
  <2> QED BY <2>1, <2>5
<1>25. QueuesOK'
  <2> SUFFICES ASSUME NEW x \in Modules
               PROVE  /\ QueueOK(requestFailures'[x], activeGraphSequences', HeldOf(x)')
                      /\ requestFailures'[x].throughSequence <= Len(graphs')
                      /\ \A i \in 1..Len(requestFailures'[x].outcomes) :
                           /\ requestFailures'[x].outcomes[i].error <= errors'
                           /\ HasFailed(Request(x))' =>
                                requestFailures'[x].outcomes[i].error < awaits'[Request(x)].error
                      /\ HasFailed(Request(x))' => awaits'[Request(x)].error <= errors'
    BY DEF QueuesOK
  <2>1. CASE x = m
    <3>1. ~HasFailed(Request(m))'
      BY <1>14 DEF HasFailed
    <3>2. t.throughSequence = Len(graphs)
      BY <1>10
    <3>3. \A i \in 1..Len(t.outcomes) : t.outcomes[i].error <= errors
      BY <1>3, <1>23, <1>24 DEF OneMore
    <3>4. QueueOK(requestFailures'[m], activeGraphSequences', HeldOf(m)')
      BY <1>12, <1>19, <1>21, <1>24
    <3>5. Len(graphs) <= Len(graphs)
      BY <1>1
    <3> QED BY <1>11, <1>12, <1>18, <2>1, <3>1, <3>2, <3>3, <3>4, <3>5
  <2>2. CASE x # m
    <3>1. HasFailed(Request(x))' <=> HasFailed(Request(x))
      BY <1>16, <2>2 DEF HasFailed
    <3>2. requestFailures'[x] = requestFailures[x] /\ awaits'[Request(x)] = awaits[Request(x)]
          /\ HeldOf(x)' = HeldOf(x)
      BY <1>12, <1>16, <1>22, <2>2
    <3> QED BY <1>11, <1>18, <1>19, <3>1, <3>2 DEF LedgerInv, QueuesOK
  <2> QED BY <2>1, <2>2
<1>26. FlightsOK'
  <2>1. ASSUME NEW x \in Modules, x # m, requests'[x].phase \in Flying
        PROVE  \E y \in activeGraphSequences' :
                 awaits'[Graph(y)] = RequestsOf(x) /\ y > requestFailures'[x].throughSequence
    <3>1. PICK y \in activeGraphSequences :
            awaits[Graph(y)] = RequestsOf(x) /\ y > requestFailures[x].throughSequence
      BY <1>13, <2>1 DEF LedgerInv, FlightsOK
    <3> QED BY <1>12, <1>15, <1>19, <1>20, <2>1, <3>1
  <2>2. "closing" \notin Flying
    BY DEF Flying
  <2>3. \A x \in Modules : requests'[x].phase # "none" => x \notin loadedRequests'
    BY <1>4, <1>11, <1>13 DEF LedgerInv, FlightsOK
  <2> QED BY <1>13, <2>1, <2>2, <2>3 DEF FlightsOK
<1>27. ASSUME NEW y \in 1..Len(graphs) PROVE WaveOK(graphs'[y], awaits'[Graph(y)], requests')
  <2>1. PICK g : g = graphs'[y]
    OBVIOUS
  <2>2. PICK await : await = awaits[Graph(y)]
    OBVIOUS
  <2>3. WaveOK(graphs[y], await, requests) /\ graphs[y] \in GraphRecord
    BY <1>1, <2>2, ActiveTypes DEF LedgerInv, WavesOK
  <2>4. /\ graphs[y].failedMeanwhile \subseteq g.failedMeanwhile
        /\ \A failure \in g.failedMeanwhile :
             \/ failure \in graphs[y].failedMeanwhile
             \/ /\ failure = <<m, error>> /\ y \in activeGraphSequences
                /\ \A old \in graphs[y].failedMeanwhile : old[1] # m
        /\ y \in activeGraphSequences => \E failure \in g.failedMeanwhile : failure[1] = m
    <3>1. PICK noting : noting = noted[y]
      OBVIOUS
    <3>2. noting = Noted(m, error, activeGraphSequences)[y] /\ g.failedMeanwhile = noting.failedMeanwhile
      BY <1>8, <1>17, <2>1, <3>1
    <3> QED BY <1>1, <1>3, <3>2, NotedFailures
  <2>5. ASSUME NEW failure \in graphs[y].failedMeanwhile
        PROVE  FailureOK(g, await, requests', failure[1], failure[2])
    <3>1. FailureOK(graphs[y], await, requests, failure[1], failure[2])
      BY <2>3 DEF WaveOK
    <3>2. failure[1] \in Modules
      BY <2>3 DEF GraphRecord
    <3>3. g.active /\ await = RequestsOf(failure[1])
             => requests'[failure[1]].phase = "closing" /\ requests'[failure[1]].error = failure[2]
      <4>1. g.active /\ await = RequestsOf(failure[1])
               => requests[failure[1]].phase = "closing" /\ requests[failure[1]].error = failure[2]
        BY <1>17, <2>1, <3>1 DEF FailureOK
      <4> QED BY <1>4, <1>13, <3>2, <4>1
    <3> QED BY <1>17, <2>1, <3>1, <3>3 DEF FailureOK
  <2>6. ASSUME y \in activeGraphSequences, \A old \in graphs[y].failedMeanwhile : old[1] # m
        PROVE  FailureOK(g, await, requests', m, error)
    <3>1. TraversalOK(graphs[y], await, loadedRequests, requested) /\ y \in Nat
      BY <1>20, <2>2, <2>6, Awaited
    <3>2. m \notin g.discovered \ (IF await = Ok THEN {} ELSE {g.visiting})
      BY <1>4, <1>17, <2>1, <3>1 DEF TraversalOK
    <3>3. \A held \in graphs[y].requestFailures : held[1] # m
      BY <2>3, <2>6 DEF WaveOK
    <3>4. y \in wave
      <4>1. ASSUME ~(y > q.throughSequence) PROVE FALSE
        <5>1. /\ Observed(q, activeGraphSequences, HeldOf(m)) /\ q.throughSequence \in Nat
          BY <1>5, QueueFacts DEF LedgerInv
        <5>2. PICK i \in RetainedOf(q) : Covers(q.outcomes[i], y)
          BY <2>6, <3>1, <4>1, <5>1 DEF Observed
        <5>3. <<y, q.outcomes[i].error>> \in HeldOf(m)
          BY <2>6, <5>1, <5>2 DEF Observed
        <5>4. <<m, q.outcomes[i].error>> \in graphs[y].requestFailures
          BY <5>3 DEF HeldOf
        <5> QED BY <3>3, <5>4
      <4> QED BY <1>6, <2>6, <4>1
    <3>5. <<m, error>> \in g.requestFailures
      BY <1>17, <2>1, <3>4
    <3>6. ~(await.kind = "error" /\ g.visiting = m)
      BY <1>17, <2>1, <2>3, <2>6 DEF WaveOK
    <3> QED BY <1>13, <3>2, <3>5, <3>6 DEF FailureOK
  <2>7. \A failure \in g.failedMeanwhile : FailureOK(g, await, requests', failure[1], failure[2])
    <3> SUFFICES ASSUME NEW failure \in g.failedMeanwhile
                 PROVE  FailureOK(g, await, requests', failure[1], failure[2])
      OBVIOUS
    <3>1. CASE failure \in graphs[y].failedMeanwhile
      BY <2>5, <3>1
    <3>2. CASE /\ failure = <<m, error>> /\ y \in activeGraphSequences
               /\ \A old \in graphs[y].failedMeanwhile : old[1] # m
      <4>1. failure[1] = m /\ failure[2] = error
        BY <3>2
      <4> QED BY <2>6, <3>2, <4>1
    <3> QED BY <2>4, <3>1, <3>2
  <2>8. ASSUME NEW held \in g.requestFailures
        PROVE  \E failure \in g.failedMeanwhile : failure[1] = held[1]
    <3>1. CASE held \in graphs[y].requestFailures
      BY <2>3, <2>4, <3>1 DEF WaveOK
    <3>2. CASE held \notin graphs[y].requestFailures
      <4>1. y \in wave /\ held = <<m, error>>
        BY <1>17, <2>1, <3>2
      <4>2. y \in activeGraphSequences /\ held[1] = m
        BY <1>6, <4>1
      <4> QED BY <2>4, <4>2
    <3> QED BY <3>1, <3>2
  <2>9. /\ ~g.active => await = Idle
        /\ await.kind = "error" => \E failure \in g.failedMeanwhile : failure[1] = g.visiting
    BY <1>17, <2>1, <2>3, <2>4 DEF WaveOK
  <2>10. WaveOK(g, await, requests')
    BY <2>7, <2>8, <2>9 DEF WaveOK
  <2> QED BY <1>15, <2>1, <2>2, <2>10
<1>28. WavesOK'
  BY <1>18, <1>27 DEF WavesOK
<1>29. requestFailures' = [x \in Modules |-> requestFailures'[x]]
  BY <1>11 DEF LedgerInv
<1> QED BY <1>25, <1>26, <1>28, <1>29 DEF LedgerInv

\* Whoever waits for the requests of m is told, and notes the failure.
LEMMA LedgerRequestCloses ==
  ASSUME LedgerInv, ClosureInv, NEW m \in Modules, RequestCloses(m)
  PROVE  LedgerInv'
<1> USE Kinds
<1>1. /\ Typed /\ Len(graphs) \in Nat /\ \A y \in 1..Len(graphs) : Graph(y) \in Activities
      /\ \A x \in Modules : Request(x) \in Activities
      /\ errors \in Nat /\ requests \in [Modules -> RequestRecord] /\ requests[m] \in RequestRecord
  BY Awaited DEF ClosureInv, Typed
<1>2. PICK error, told : /\ error = requests[m].error
                         /\ told = {s \in activeGraphSequences : awaits[Graph(s)] = RequestsOf(m)}
  OBVIOUS
<1>3. /\ requests[m].phase = "closing" /\ requests' = [requests EXCEPT ![m].phase = "none"]
      /\ awaits' = Deliver(RequestsOf(m), Error(error))
      /\ graphs' = Noted(m, error, told)
      /\ UNCHANGED <<loadedRequests, requestFailures, errors>>
      /\ error \in Nat
  BY <1>1, <1>2 DEF RequestCloses, cacheVars, RequestRecord
<1>4. requests'[m].phase = "none" /\ \A x \in Modules : x # m => requests'[x] = requests[x]
  BY <1>1, <1>3 DEF RequestRecord
<1>5. \A activity \in Activities :
        awaits'[activity] = IF awaits[activity] = RequestsOf(m) THEN Error(error) ELSE awaits[activity]
  <2>1. PICK what, outcome : what = RequestsOf(m) /\ outcome = Error(error)
    OBVIOUS
  <2>2. awaits' = Deliver(what, outcome)
    BY <1>3, <2>1
  <2>3. \A activity \in Activities :
          awaits'[activity] = IF awaits[activity] = what THEN outcome ELSE awaits[activity]
    BY <2>2, Delivery
  <2> QED BY <2>1, <2>3
<1>6. \A x \in Modules : awaits'[Request(x)] = awaits[Request(x)]
  <2>1. ASSUME NEW x \in Modules PROVE awaits[Request(x)] # RequestsOf(m)
    BY Awaited
  <2> QED BY <1>1, <1>5, <2>1
<1>7. /\ Len(graphs') = Len(graphs)
      /\ \A y \in 1..Len(graphs) :
           /\ graphs'[y].active = graphs[y].active
           /\ graphs'[y].visiting = graphs[y].visiting
           /\ graphs'[y].discovered = graphs[y].discovered
           /\ graphs'[y].requestFailures = graphs[y].requestFailures
  BY <1>1, <1>3, NotedTypes
<1>8. activeGraphSequences' = activeGraphSequences
  BY <1>7 DEF activeGraphSequences
<1>9. \A x \in Modules : HeldOf(x)' = HeldOf(x)
  <2>1. \A y \in activeGraphSequences : graphs'[y].requestFailures = graphs[y].requestFailures
    BY <1>7 DEF activeGraphSequences
  <2> QED BY <1>8, <2>1 DEF HeldOf
<1>10. QueuesOK'
  BY <1>1, <1>3, <1>6, <1>7, <1>8, <1>9, Awaited, QueuesKept DEF LedgerInv, HasFailed
<1>11. FlightsOK'
  <2>1. ASSUME NEW x \in Modules, x # m, requests'[x].phase \in Flying
        PROVE  \E y \in activeGraphSequences' :
                 awaits'[Graph(y)] = RequestsOf(x) /\ y > requestFailures'[x].throughSequence
    <3>1. PICK y \in activeGraphSequences :
            awaits[Graph(y)] = RequestsOf(x) /\ y > requestFailures[x].throughSequence
      BY <1>4, <2>1 DEF LedgerInv, FlightsOK
    <3>2. Graph(y) \in Activities /\ awaits[Graph(y)] # RequestsOf(m)
      BY <1>1, <2>1, <3>1 DEF activeGraphSequences
    <3> QED BY <1>3, <1>5, <1>8, <3>1, <3>2
  <2>2. "none" \notin Flying
    BY DEF Flying
  <2>3. \A x \in Modules : requests'[x].phase # "none" => x \notin loadedRequests'
    BY <1>3, <1>4 DEF LedgerInv, FlightsOK
  <2> QED BY <1>4, <2>1, <2>2, <2>3 DEF FlightsOK
<1>12. ASSUME NEW y \in 1..Len(graphs) PROVE WaveOK(graphs'[y], awaits'[Graph(y)], requests')
  <2>1. PICK g : g = graphs'[y]
    OBVIOUS
  <2>2. /\ graphs[y].failedMeanwhile \subseteq g.failedMeanwhile
        /\ \A failure \in g.failedMeanwhile :
             \/ failure \in graphs[y].failedMeanwhile
             \/ failure = <<m, error>> /\ y \in told
        /\ y \in told => \E failure \in g.failedMeanwhile : failure[1] = m
        /\ y \notin told => g = graphs[y]
    BY <1>1, <1>3, <2>1, NotedFailures
  <2>3. CASE awaits[Graph(y)] # RequestsOf(m)
    <3>1. g = graphs[y] /\ awaits'[Graph(y)] = awaits[Graph(y)]
      BY <1>1, <1>2, <1>5, <2>2, <2>3
    <3>2. \A x \in Modules : awaits[Graph(y)] = RequestsOf(x) => x # m
      BY <2>3
    <3>3. WaveOK(graphs[y], awaits[Graph(y)], requests')
      BY <1>4, <3>2, WaveBeside
    <3> QED BY <2>1, <3>1, <3>3
  <2>4. CASE awaits[Graph(y)] = RequestsOf(m)
    <3>1. PICK await : await = Error(error)
      OBVIOUS
    <3>2. /\ awaits'[Graph(y)] = await /\ await.kind = "error" /\ await.error = error
          /\ await # Ok /\ \A x : await # RequestsOf(x)
      BY <1>1, <1>5, <2>4, <3>1
    <3>3. y \in told /\ graphs[y].active /\ graphs[y].visiting = m
      BY <1>2, <2>4, Waiting
    <3>4. WaveOK(graphs[y], RequestsOf(m), requests)
      BY <2>4 DEF LedgerInv, WavesOK
    <3>5. g.active /\ g.visiting = m /\ g.discovered = graphs[y].discovered
          /\ g.requestFailures = graphs[y].requestFailures
      BY <1>7, <2>1, <3>3
    <3>6. ASSUME NEW failure \in graphs[y].failedMeanwhile
          PROVE  FailureOK(g, await, requests', failure[1], failure[2])
      <4>1. FailureOK(graphs[y], RequestsOf(m), requests, failure[1], failure[2])
        BY <3>4 DEF WaveOK
      <4>2. RequestsOf(m) # Ok /\ RequestsOf(m).kind # "error"
        OBVIOUS
      <4>3. /\ failure[1] \notin graphs[y].discovered \ {m}
            /\ <<failure[1], failure[2]>> \in graphs[y].requestFailures
            /\ failure[1] = m => requests[m].error = failure[2]
        BY <3>3, <4>1, <4>2 DEF FailureOK
      <4> QED BY <1>2, <3>2, <3>5, <4>3 DEF FailureOK
    <3>7. FailureOK(g, await, requests', m, error)
      BY <3>2, <3>5 DEF FailureOK
    <3>8. \A failure \in g.failedMeanwhile : FailureOK(g, await, requests', failure[1], failure[2])
      <4>1. <<m, error>>[1] = m /\ <<m, error>>[2] = error
        OBVIOUS
      <4> QED BY <2>2, <3>6, <3>7, <4>1
    <3>9. \A held \in g.requestFailures : \E failure \in g.failedMeanwhile : failure[1] = held[1]
      BY <2>2, <3>4, <3>5 DEF WaveOK
    <3>10. WaveOK(g, await, requests')
      BY <2>2, <3>3, <3>5, <3>8, <3>9 DEF WaveOK
    <3> QED BY <2>1, <3>2, <3>10
  <2> QED BY <2>3, <2>4
<1>13. WavesOK'
  BY <1>7, <1>12 DEF WavesOK
<1> QED BY <1>3, <1>10, <1>11, <1>13 DEF LedgerInv

-----------------------------------------------------------------------------
LEMMA LedgerInit == Init => LedgerInv
<1> SUFFICES ASSUME Init PROVE LedgerInv
  OBVIOUS
<1>1. Len(graphs) = 0 /\ activeGraphSequences = {}
  <2>1. Len(graphs) = 0
    BY EmptySeq DEF Init
  <2> QED BY <2>1 DEF activeGraphSequences
<1>2. \A m \in Modules : requestFailures[m] = NoQueue /\ HeldOf(m) = {}
  BY <1>1 DEF Init, HeldOf
<1>3. \A m \in Modules : Request(m) \in Activities /\ ~HasFailed(Request(m))
  <2>1. \A m \in Modules : Request(m) \in Activities
    BY DEF Activities
  <2> QED BY <2>1, Kinds DEF Init, HasFailed
<1>4. Len(NoQueue.outcomes) = 0 /\ NoQueue.throughSequence = 0
  BY EmptySeq DEF NoQueue
<1>5. QueuesOK
  <2>1. QueueOK(NoQueue, {}, {})
    <3>1. {} \in SUBSET (Nat \ {0})
      OBVIOUS
    <3> QED BY <3>1, NoQueueOK
  <2>2. 0 <= Len(graphs) /\ \A i \in 1..Len(NoQueue.outcomes) : FALSE
    BY <1>1, <1>4
  <2>3. ASSUME NEW m \in Modules
        PROVE  /\ QueueOK(requestFailures[m], activeGraphSequences, HeldOf(m))
               /\ requestFailures[m].throughSequence <= Len(graphs)
               /\ \A i \in 1..Len(requestFailures[m].outcomes) : FALSE
               /\ ~HasFailed(Request(m))
    BY <1>1, <1>2, <1>3, <1>4, <2>1, <2>2
  <2> QED BY <2>3 DEF QueuesOK
<1>6. FlightsOK
  BY DEF Init, FlightsOK, Flying
<1>7. WavesOK
  BY <1>1 DEF WavesOK
<1> QED BY <1>5, <1>6, <1>7 DEF Init, LedgerInv

LEMMA LedgerStep == ClosureInv /\ ClosureInv' /\ LedgerInv /\ [Next]_vars => LedgerInv'
<1> SUFFICES ASSUME ClosureInv, ClosureInv', LedgerInv, [Next]_vars PROVE LedgerInv'
  OBVIOUS
<1>1. ASSUME NEW m \in Modules, NEW referrer, ResolveSettles(m, referrer) PROVE LedgerInv'
  BY <1>1, LedgerResolve
<1>2. ASSUME NEW m \in Modules, LoadSettles(m) PROVE LedgerInv'
  BY <1>2, LedgerLoad
<1>3. ASSUME NEW m \in Modules, RequestResumes(m) \/ RequestFails(m) \/ RequestCloses(m)
      PROVE  LedgerInv'
  BY <1>3, LedgerRequestResumes, LedgerRequestFails, LedgerRequestCloses
<1>4. ASSUME NEW r \in 1..Len(roots), RootResumes(r) PROVE LedgerInv'
  BY <1>4, LedgerRoot
<1>5. ASSUME NEW s \in 1..Len(graphs), GraphResumes(s) \/ GraphFails(s) PROVE LedgerInv'
  BY <1>5, LedgerGraphResumes, LedgerGraphFails
<1>6. ASSUME NEW m \in Modules, NEW insideItsLoad \in BOOLEAN, CallRoot(m, insideItsLoad)
      PROVE  LedgerInv'
  BY <1>6, LedgerCall
<1>7. CASE UNCHANGED vars
  <2>1. UNCHANGED <<graphs, requests, requestFailures, loadedRequests, awaits, errors>>
    BY <1>7 DEF vars, cacheVars
  <2> QED BY <2>1, TraversalsUntouched DEF HasFailed
<1> QED BY <1>1, <1>2, <1>3, <1>4, <1>5, <1>6, <1>7 DEF Next, Progress

LEMMA LedgerAlways == Spec => [](ClosureInv /\ LedgerInv)
<1>1. Init => ClosureInv /\ LedgerInv
  BY ClosureInit, LedgerInit
<1>2. ClosureInv /\ LedgerInv /\ [Next]_vars => (ClosureInv /\ LedgerInv)'
  BY ClosureStep, LedgerStep
<1> QED BY <1>1, <1>2, PTL DEF Spec

\* For any request graphs and any overlap of root calls: what the loader
\* remembers of failures is exactly what active traversals may still meet, its
\* counts agree with its queues whatever has been struck out, trimmed or
\* compacted, the intervals are in order as the search by halves needs, and
\* nothing is left when the last traversal is over.
THEOREM LedgerExact == Spec => []FailureLedgerIsExact
<1>1. ClosureInv /\ LedgerInv => FailureLedgerIsExact
  <2> SUFFICES ASSUME ClosureInv, LedgerInv, NEW m \in Modules, NEW q, q = requestFailures[m]
               PROVE  /\ q \in Queue /\ q.storage = Len(q.outcomes)
                      /\ q.retainedCount = Cardinality(RetainedOf(q))
                      /\ q.staleCount = Len(q.outcomes) - q.retainedCount
                      /\ \A i \in RetainedOf(q) :
                           LET holders == {s \in activeGraphSequences :
                                            <<m, q.outcomes[i].error>> \in graphs[s].requestFailures}
                           IN  /\ holders = CoveredBy(q.outcomes[i], activeGraphSequences)
                               /\ q.outcomes[i].activeCount = Cardinality(holders)
                               /\ holders # {}
                      /\ \A i, j \in 1..Len(q.outcomes) :
                           i < j => q.outcomes[i].through <= q.outcomes[j].previousThrough
                      /\ activeGraphSequences = {} => q.outcomes = <<>>
    BY DEF FailureLedgerIsExact, RetainedOf, CoveredBy, Covers
  <2>1. QueueOK(q, activeGraphSequences, HeldOf(m))
    BY DEF LedgerInv, QueuesOK
  <2>2. /\ Ordered(q) /\ Balanced(q) /\ Observed(q, activeGraphSequences, HeldOf(m))
        /\ RetainedOf(q) = {} => q = NoQueue
    BY <2>1 DEF QueueOK
  <2>3. ASSUME NEW i \in RetainedOf(q)
        PROVE  LET holders == {s \in activeGraphSequences :
                                <<m, q.outcomes[i].error>> \in graphs[s].requestFailures}
               IN  /\ holders = CoveredBy(q.outcomes[i], activeGraphSequences)
                   /\ q.outcomes[i].activeCount = Cardinality(holders)
                   /\ holders # {}
    <3>1. q.outcomes[i].error \in Nat
      <4>1. q \in Queue /\ i \in 1..Len(q.outcomes)
        BY <2>2 DEF Balanced, RetainedOf
      <4> QED BY <4>1, QueueTypes
    <3>2. ASSUME NEW s \in activeGraphSequences
          PROVE  Covers(q.outcomes[i], s) <=> <<m, q.outcomes[i].error>> \in graphs[s].requestFailures
      <4>1. Covers(q.outcomes[i], s) <=> <<s, q.outcomes[i].error>> \in HeldOf(m)
        BY <2>2 DEF Observed
      <4> QED BY <3>1, <4>1 DEF HeldOf
    <3>3. {s \in activeGraphSequences : <<m, q.outcomes[i].error>> \in graphs[s].requestFailures}
            = CoveredBy(q.outcomes[i], activeGraphSequences)
      BY <3>2 DEF CoveredBy
    <3> QED BY <2>2, <3>3 DEF Observed
  <2>4. ASSUME activeGraphSequences = {} PROVE q.outcomes = <<>>
    <3>1. RetainedOf(q) = {}
      BY <2>2, <2>4 DEF Observed, CoveredBy
    <3> QED BY <2>2, <3>1 DEF NoQueue
  <2> QED BY <2>2, <2>3, <2>4 DEF Ordered, Balanced
<1> QED BY <1>1, LedgerAlways, PTL

\* "An older failure wave is preserved across a later retry", for any request
\* graphs, any number of retries and any overlap: a traversal never gets past a
\* module that failed while it was under way, and fails with the first failure.
THEOREM WavesPreserved == Spec => []WavesArePreserved
<1>1. ClosureInv /\ LedgerInv => WavesArePreserved
  <2> SUFFICES ASSUME LedgerInv, NEW s \in 1..Len(graphs), NEW failure \in graphs[s].failedMeanwhile
               PROVE  /\ failure[1] \notin Visited(s)
                      /\ (HasFailed(Graph(s)) /\ graphs[s].visiting = failure[1])
                           => awaits[Graph(s)].error = failure[2]
    BY DEF WavesArePreserved
  <2>1. /\ FailureOK(graphs[s], awaits[Graph(s)], requests, failure[1], failure[2])
        /\ ~graphs[s].active => awaits[Graph(s)] = Idle
    BY DEF LedgerInv, WavesOK, WaveOK
  <2>2. HasFailed(Graph(s)) => graphs[s].active
    BY <2>1, Kinds DEF HasFailed
  <2> QED BY <2>1, <2>2 DEF FailureOK, Visited, HasFailed
<1> QED BY <1>1, LedgerAlways, PTL
=============================================================================
