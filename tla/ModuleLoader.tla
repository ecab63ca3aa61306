---------------------------- MODULE ModuleLoader ----------------------------
(***************************************************************************)
(* Acquisition of module graphs by a ModuleLoader                          *)
(* (src/src/runtime/module-loader.js), up to the record that               *)
(* loadModuleGraph() hands to linking.                                     *)
(*                                                                         *)
(* The loader is a set of asynchronous activities that share work: a root  *)
(* call, the traversal of a root's graph, the acquisition of one module's  *)
(* requests.  Each awaits one host Promise at a time: a resolution, a      *)
(* source load, the requests of a module or a whole graph.  An action is   *)
(* the code from one await to the next; which of the activities that may   *)
(* go on does so first is left open, and so is the time the host takes.    *)
(* The settlement of a Promise and the reactions that only hand it on are  *)
(* one action, unless other activities can see a difference.               *)
(***************************************************************************)
EXTENDS Integers, FiniteSetsExt, SequencesExt

CONSTANTS
  Modules,             \* canonical identifiers; a specifier resolves to itself
  NoModule,            \* null
  Graphs,              \* the request lists the host's sources may contain
  CompactionThreshold, \* REQUEST_FAILURE_COMPACTION_THRESHOLD
  MaxRoots,            \* bound: calls of loadModuleGraph
  MaxErrors            \* bound: failures of the host's hooks or of parsing

ASSUME ModuleAssumption == NoModule \notin Modules
ASSUME GraphAssumption == \A g \in Graphs : g \in [Modules -> Seq(Modules)]
ASSUME BoundAssumption == /\ CompactionThreshold \in Nat
                          /\ MaxRoots \in Nat /\ MaxErrors \in Nat

VARIABLES
  requested,         \* requestedModules of each source; fixed
  records, loadedRequests, completedGraphs,
  roots,             \* the calls, in order
  graphs,            \* the traversals by sequence number
  requests,          \* acquireModuleRequests in flight, by module
  requestFailures,   \* the failure queues, by module
  awaits,            \* what each activity waits for, or got
  errors             \* failures so far

vars == <<requested, records, loadedRequests, completedGraphs,
          roots, graphs, requests, requestFailures, awaits, errors>>
cacheVars == <<records, loadedRequests, completedGraphs>>

Root(r)    == <<"root", r>>
Graph(s)   == <<"graph", s>>
Request(m) == <<"request", m>>
Activities == {Root(r) : r \in 1..MaxRoots} \cup {Graph(s) : s \in 1..MaxRoots}
                \cup {Request(m) : m \in Modules}

\* What an activity waits for, and what it gets.
Idle           == [kind |-> "idle"]
Ok             == [kind |-> "ok"]
Error(e)       == [kind |-> "error", error |-> e]
Resolution(m, referrer) == [kind |-> "resolve", module |-> m, referrer |-> referrer]
Source(m)      == [kind |-> "load", module |-> m]
RequestsOf(m)  == [kind |-> "requests", module |-> m]
GraphOf(m)     == [kind |-> "graph", module |-> m]
Reentered      == 0   \* the error of a call from inside the module's own load hook

HasFailed(activity) == awaits[activity].kind = "error"
MayGoOn(activity)   == awaits[activity] = Ok

\* Everything that awaits `what` gets `outcome`.
Deliver(what, outcome) ==
  [activity \in Activities |-> IF awaits[activity] = what THEN outcome ELSE awaits[activity]]

\* A Promise is in flight as long as somebody awaits it: who starts one awaits it.
InFlight(what) == \E activity \in Activities : awaits[activity] = what

\* acquireSourceRecord(): a cached record, or the load in flight or begun now.
SourceOf(m) == IF m \in records THEN Ok ELSE Source(m)

nextGraphSequence == Len(graphs)
activeGraphSequences == {s \in 1..Len(graphs) : graphs[s].active}
graphInFlight(m) == \E s \in activeGraphSequences : graphs[s].root = m

-----------------------------------------------------------------------------
\* A failure queue; `storage` is its part of requestFailureStorageSize, and the
\* empty queue stands for no entry in the map.
Queue == [outcomes: Seq([error: Nat, previousThrough: Nat, through: Nat,
                         activeCount: Int, retained: BOOLEAN]),
          throughSequence: Nat, retainedCount: Int, staleCount: Int, storage: Int]
NoQueue == [outcomes |-> <<>>, throughSequence |-> 0,
            retainedCount |-> 0, staleCount |-> 0, storage |-> 0]

\* findRequestFailure(): the outcome, if any, of the wave that sequence s is in.
\* The search by halves finds the first outcome that reaches up to s.
FoundFailure(m, s) ==
  LET outcomes == requestFailures[m].outcomes
      through  == {i \in 1..Len(outcomes) : outcomes[i].through >= s}
  IN {outcomes[i] : i \in {j \in through : /\ \A k \in through : j <= k
                                           /\ outcomes[j].retained
                                           /\ s > outcomes[j].previousThrough}}

\* What compactRequestFailureQueue() copies: the outcomes still retained, in order.
RetainedOutcomes(outcomes) ==
  LET kept[n \in 0..Len(outcomes)] ==
        IF n = 0 THEN <<>>
        ELSE IF outcomes[n].retained THEN Append(kept[n - 1], outcomes[n]) ELSE kept[n - 1]
  IN kept[Len(outcomes)]
Compacted(queue) ==
  [queue EXCEPT !.outcomes = RetainedOutcomes(@),
                !.storage = @ - queue.staleCount, !.staleCount = 0]
Trimmed(queue) ==
  LET last == CHOOSE i \in 1..Len(queue.outcomes) :
                /\ queue.outcomes[i].retained
                /\ \A j \in (i + 1)..Len(queue.outcomes) : ~queue.outcomes[j].retained
      cut  == Len(queue.outcomes) - last
  IN [queue EXCEPT !.outcomes = SubSeq(queue.outcomes, 1, last),
                   !.storage = @ - cut, !.staleCount = @ - cut]

\* releaseRequestFailureOutcome() of the outcome at index i.
Released(queue, i) ==
  LET dead == [queue EXCEPT !.outcomes[i].retained = FALSE,
                            !.retainedCount = @ - 1, !.staleCount = @ + 1]
      trimmed == Trimmed(dead)
      due     == \/ Len(trimmed.outcomes) < CompactionThreshold
                 \/ /\ trimmed.staleCount >= CompactionThreshold
                    /\ trimmed.staleCount * 2 >= Len(trimmed.outcomes)
  IN IF dead.retainedCount = 0
       THEN [NoQueue EXCEPT !.storage = dead.storage - Len(dead.outcomes)]
       ELSE IF trimmed.staleCount > 0 /\ due THEN Compacted(trimmed) ELSE trimmed

\* One traversal that the outcome at index i covers is over.
Forsaken(queue, i) ==
  LET counted == [queue EXCEPT !.outcomes[i].activeCount = @ - 1]
  IN  IF counted.outcomes[i].activeCount = 0 THEN Released(counted, i) ELSE counted

\* Mistake: a traversal that ends does not give up the outcomes it held.
UnregisteredKeepsOutcomes(s) ==
  IF activeGraphSequences = {s} THEN [m \in Modules |-> NoQueue] ELSE requestFailures

\* The traversal gives up the outcome with this error.
Forsake(error, queue) ==
  Forsaken(queue, CHOOSE i \in 1..Len(queue.outcomes) : queue.outcomes[i].error = error)
HeldErrors(s, m) == {held[2] : held \in {h \in graphs[s].requestFailures : h[1] = m}}

\* unregisterGraphSequence(s): the last traversal to end clears all queues.
Unregistered(s) ==
  IF activeGraphSequences = {s}
    THEN [m \in Modules |-> NoQueue]
    ELSE [m \in Modules |-> FoldSet(Forsake, requestFailures[m], HeldErrors(s, m))]

-----------------------------------------------------------------------------
Init ==
  /\ requested \in Graphs
  /\ records = {} /\ loadedRequests = {} /\ completedGraphs = {}
  /\ roots = <<>> /\ graphs = <<>>
  /\ requests = [m \in Modules |-> [phase |-> "none", next |-> 0, error |-> 0]]
  /\ requestFailures = [m \in Modules |-> NoQueue]
  /\ awaits = [activity \in Activities |-> Idle]
  /\ errors = 0

\* loadModuleGraph() up to its first await.  The host may call it from inside
\* the invocation of a load hook; which one matters only if it is m's own.
CallRoot(m, insideItsLoad) ==
  /\ Len(roots) < MaxRoots
  /\ insideItsLoad => InFlight(Source(m))
  /\ roots' = Append(roots, [target |-> m, insideItsLoad |-> insideItsLoad,
                             step |-> "resolving"])
  /\ awaits' = [awaits EXCEPT ![Root(Len(roots) + 1)] = Resolution(m, NoModule)]
  /\ UNCHANGED <<requested, cacheVars, graphs, requests, requestFailures, errors>>

\* The resolution of specifier m settles, for everyone who asked on behalf of
\* the same referrer.
ResolveSettles(m, referrer) ==
  /\ InFlight(Resolution(m, referrer))
  /\ \/ /\ awaits' = Deliver(Resolution(m, referrer), Ok)
        /\ UNCHANGED errors
     \/ /\ errors < MaxErrors /\ errors' = errors + 1
        /\ awaits' = Deliver(Resolution(m, referrer), Error(errors + 1))
  /\ UNCHANGED <<requested, cacheVars, roots, graphs, requests, requestFailures>>

\* The source arrives and is parsed, or one of the two fails.
LoadSettles(m) ==
  /\ InFlight(Source(m))
  /\ \/ /\ records' = records \cup {m}
        /\ awaits' = Deliver(Source(m), Ok)
        /\ UNCHANGED errors
     \/ /\ errors < MaxErrors /\ errors' = errors + 1
        /\ awaits' = Deliver(Source(m), Error(errors + 1))
        /\ UNCHANGED records
  /\ UNCHANGED <<requested, loadedRequests, completedGraphs, roots, graphs,
                 requests, requestFailures>>

-----------------------------------------------------------------------------
\* Mistake: a parsed module is taken for one whose requests are acquired.
RequestsLoadedWhenParsed(m) == m \in records
RequestsLoaded(m) == m \in loadedRequests /\ m \in records

\* Mistake: what was acquired since is preferred to a remembered failure.
RememberedUnlessLoaded(m, s) == IF RequestsLoaded(m) THEN {} ELSE FoundFailure(m, s)
Remembered(m, s) == FoundFailure(m, s)

\* acquireModuleRequests(m) by the traversal with sequence number s, when
\* `before` is what the activities await otherwise.
AcquireRequests(m, s, before) ==
  LET Get(outcome) == /\ awaits' = [before EXCEPT ![Graph(s)] = outcome]
                      /\ UNCHANGED requests
      forgotten == Remembered(m, s) = {}
  IN
  \/ \E outcome \in Remembered(m, s) : Get(Error(outcome.error))
  \/ forgotten /\ RequestsLoaded(m) /\ Get(Ok)
  \/ forgotten /\ ~RequestsLoaded(m) /\ requests[m].phase # "none" /\ Get(RequestsOf(m))
  \/ /\ forgotten /\ ~RequestsLoaded(m) /\ requests[m].phase = "none"
     /\ requests' = [requests EXCEPT ![m] = [phase |-> "source", next |-> 0, error |-> 0]]
     /\ awaits' = [before EXCEPT ![Graph(s)] = RequestsOf(m), ![Request(m)] = SourceOf(m)]

\* The rest of loadModuleGraph() once the identifier is resolved, with
\* acquireModuleGraph().
RootResumes(r) ==
  LET m == roots[r].target
      s == Len(graphs) + 1
      Settle(outcome) == /\ awaits' = [awaits EXCEPT ![Root(r)] = outcome]
                         /\ UNCHANGED <<graphs, requests>>
      cached   == m \in completedGraphs /\ m \in records
      reenters == roots[r].insideItsLoad
  IN
  /\ MayGoOn(Root(r)) /\ roots[r].step = "resolving"
  /\ roots' = [roots EXCEPT ![r].step = "acquiring"]
  /\ \/ reenters /\ Settle(Error(Reentered))
     \/ ~reenters /\ cached /\ Settle(Ok)
     \/ ~reenters /\ ~cached /\ graphInFlight(m) /\ Settle(GraphOf(m))
     \/ /\ ~reenters /\ ~cached /\ ~graphInFlight(m)
        /\ graphs' = Append(graphs, [root |-> m, active |-> TRUE, requestFailures |-> {},
                                     discovered |-> {m}, visiting |-> m, todo |-> <<>>,
                                     failedMeanwhile |-> {}])
        /\ AcquireRequests(m, s, [awaits EXCEPT ![Root(r)] = GraphOf(m)])
  /\ UNCHANGED <<requested, cacheVars, requestFailures, errors>>

-----------------------------------------------------------------------------
\* The end of a traversal: its roots get the outcome.
EndGraph(s, outcome) ==
  /\ graphs' = [graphs EXCEPT ![s].active = FALSE, ![s].requestFailures = {},
                              ![s].visiting = IF outcome = Ok THEN NoModule ELSE @]
  /\ requestFailures' = Unregistered(s)
  /\ awaits' = [Deliver(GraphOf(graphs[s].root), outcome) EXCEPT ![Graph(s)] = Idle]

\* What discoverModuleGraph() has still to look at, depth first, once it has the
\* requests of the module it visits.
Ahead(graph) == requested[graph.visiting] \o graph.todo

\* Mistake: only the modules still to be visited are not visited again.
NewUnlessWaiting(graph) ==
  {i \in 1..Len(Ahead(graph)) : \/ i > Len(requested[graph.visiting])
                                \/ Ahead(graph)[i] \notin Range(graph.todo)}

\* The record of a module it has discovered before is there already.
New(graph) == {i \in 1..Len(Ahead(graph)) : Ahead(graph)[i] \notin graph.discovered}

GraphResumes(s) ==
  LET graph == graphs[s]
      ahead == Ahead(graph)
  IN
  /\ s \in activeGraphSequences /\ MayGoOn(Graph(s))
  /\ \/ \E i \in New(graph) :
          /\ \A j \in New(graph) : i <= j
          /\ graphs' = [graphs EXCEPT ![s].visiting = ahead[i],
                                      ![s].todo = SubSeq(ahead, i + 1, Len(ahead)),
                                      ![s].discovered = @ \cup {ahead[i]}]
          /\ AcquireRequests(ahead[i], s, awaits)
          /\ UNCHANGED <<completedGraphs, requestFailures>>
     \/ /\ New(graph) = {}
        /\ completedGraphs' = completedGraphs \cup graph.discovered
        /\ EndGraph(s, Ok)
        /\ UNCHANGED requests
  /\ UNCHANGED <<requested, records, loadedRequests, roots, errors>>

GraphFails(s) ==
  /\ s \in activeGraphSequences /\ HasFailed(Graph(s))
  /\ EndGraph(s, awaits[Graph(s)])
  /\ UNCHANGED <<requested, cacheVars, roots, requests, errors>>

\* The acquisition of m's requests goes on after an await: each specifier is
\* resolved and its source acquired before the next; then all are published.
RequestResumes(m) ==
  LET request == requests[m] IN
  /\ MayGoOn(Request(m))
  /\ \/ /\ request.phase = "resolving"
        /\ requests' = [requests EXCEPT ![m].phase = "child"]
        /\ awaits' = [awaits EXCEPT ![Request(m)] = SourceOf(requested[m][request.next])]
        /\ UNCHANGED loadedRequests
     \/ /\ request.phase \in {"source", "child"} /\ request.next < Len(requested[m])
        /\ requests' = [requests EXCEPT ![m].phase = "resolving", ![m].next = @ + 1]
        /\ awaits' = [awaits EXCEPT ![Request(m)] = Resolution(requested[m][request.next + 1], m)]
        /\ UNCHANGED loadedRequests
     \/ /\ request.phase \in {"source", "child"} /\ request.next = Len(requested[m])
        /\ requests' = [requests EXCEPT ![m].phase = "none"]
        /\ loadedRequests' = loadedRequests \cup {m}
        /\ awaits' = [Deliver(RequestsOf(m), Ok) EXCEPT ![Request(m)] = Idle]
  /\ UNCHANGED <<requested, records, completedGraphs, roots, graphs,
                 requestFailures, errors>>

\* For the properties: the first failure of m in the life of each of these
\* traversals, whether recorded or heard of.
Noted(m, error, traversals) ==
  [s \in 1..Len(graphs) |->
     IF s \in traversals /\ \A failure \in graphs[s].failedMeanwhile : failure[1] # m
       THEN [graphs[s] EXCEPT !.failedMeanwhile = @ \cup {<<m, error>>}] ELSE graphs[s]]

\* It fails: the outcome is remembered for the traversals begun since the last
\* failure of m.
RequestFails(m) ==
  LET queue == requestFailures[m]
      error == awaits[Request(m)].error
      wave  == {s \in activeGraphSequences : s > queue.throughSequence}
      outcome == [error |-> error, previousThrough |-> queue.throughSequence,
                  through |-> nextGraphSequence, activeCount |-> Cardinality(wave),
                  retained |-> TRUE]
      noted == Noted(m, error, activeGraphSequences)
  IN
  /\ HasFailed(Request(m))
  /\ requestFailures' = [requestFailures EXCEPT
       ![m] = [outcomes |-> Append(queue.outcomes, outcome),
               throughSequence |-> nextGraphSequence,
               retainedCount |-> queue.retainedCount + 1,
               staleCount |-> queue.staleCount, storage |-> queue.storage + 1]]
  /\ graphs' = [s \in 1..Len(graphs) |->
       IF s \in wave THEN [noted[s] EXCEPT !.requestFailures = @ \cup {<<m, error>>}]
       ELSE noted[s]]
  /\ requests' = [requests EXCEPT ![m].phase = "closing", ![m].error = error]
  /\ awaits' = [awaits EXCEPT ![Request(m)] = Idle]
  /\ UNCHANGED <<requested, cacheVars, roots, errors>>

\* Only now is it no longer in flight, and whoever waited for it is told.
RequestCloses(m) ==
  /\ requests[m].phase = "closing"
  /\ requests' = [requests EXCEPT ![m].phase = "none"]
  /\ awaits' = Deliver(RequestsOf(m), Error(requests[m].error))
  /\ graphs' = Noted(m, requests[m].error,
                     {s \in activeGraphSequences : awaits[Graph(s)] = RequestsOf(m)})
  /\ UNCHANGED <<requested, cacheVars, roots, requestFailures, errors>>

Progress ==
  \/ \E m \in Modules :
       \/ \E referrer \in Modules \cup {NoModule} : ResolveSettles(m, referrer)
       \/ LoadSettles(m)
       \/ RequestResumes(m) \/ RequestFails(m) \/ RequestCloses(m)
  \/ \E r \in 1..Len(roots) : RootResumes(r)
  \/ \E s \in 1..Len(graphs) : GraphResumes(s) \/ GraphFails(s)

Next == Progress \/ \E m \in Modules, insideItsLoad \in BOOLEAN : CallRoot(m, insideItsLoad)

Spec == Init /\ [][Next]_vars

\* The host's hooks settle, and ready reactions are run.
FairSpec == Spec /\ WF_vars(Progress)

-----------------------------------------------------------------------------
RootRecord  == [target: Modules, insideItsLoad: BOOLEAN, step: {"resolving", "acquiring"}]
GraphRecord == [root: Modules, active: BOOLEAN,
                requestFailures: SUBSET (Modules \X Nat), discovered: SUBSET Modules,
                visiting: Modules \cup {NoModule}, todo: Seq(Modules),
                failedMeanwhile: SUBSET (Modules \X Nat)]
RequestRecord == [phase: {"none", "source", "resolving", "child", "closing"},
                  next: Nat, error: Nat]

\* The failure queues have their types in FailureLedgerIsExact.
TypeOK ==
  /\ requested \in Graphs
  /\ records \subseteq Modules /\ loadedRequests \subseteq records
  /\ completedGraphs \subseteq loadedRequests
  /\ roots \in Seq(RootRecord)
  /\ graphs \in Seq(GraphRecord)
  /\ requests \in [Modules -> RequestRecord]
  /\ awaits = [activity \in Activities |-> awaits[activity]]
  /\ errors \in 0..MaxErrors

\* The root call got its graph and goes on to link it.
Acquired(r) ==
  /\ r <= Len(roots)
  /\ roots[r].step = "acquiring"
  /\ awaits[Root(r)] = Ok

\* A graph counts as complete only when all it reaches is acquired, whichever
\* overlapping or cyclic traversals acquired it; so what a root call hands to
\* linking never has an edge to a module whose requests are missing.
CompletedGraphsAreClosed ==
  /\ \A m \in completedGraphs : /\ m \in loadedRequests
                                 /\ Range(requested[m]) \subseteq completedGraphs
  /\ \A r \in 1..Len(roots) : Acquired(r) => roots[r].target \in completedGraphs

\* The modules whose requests a traversal has got: all that it discovered but
\* the one it waits for or failed at.
Visited(s) ==
  graphs[s].discovered \ (IF awaits[Graph(s)] = Ok THEN {} ELSE {graphs[s].visiting})

\* "An older failure wave is preserved across a later retry": a traversal never
\* uses a module that failed while it was under way, even if a later root has
\* acquired it since, and fails with the first of those failures.
WavesArePreserved ==
  \A s \in 1..Len(graphs) : \A failure \in graphs[s].failedMeanwhile :
    /\ failure[1] \notin Visited(s)
    /\ (HasFailed(Graph(s)) /\ graphs[s].visiting = failure[1])
         => awaits[Graph(s)].error = failure[2]

\* "The loader retains only failure intervals observable by an active root":
\* every retained outcome is held by exactly the active traversals in its
\* interval, of which there is one; the counts agree with the queue, whose
\* intervals are in order as the search by halves needs, and nothing is left
\* when the last traversal is over.
FailureLedgerIsExact ==
  \A m \in Modules :
    LET queue == requestFailures[m]
        outcomes == queue.outcomes
        retained == {i \in 1..Len(outcomes) : outcomes[i].retained}
        Covers(i, s) == outcomes[i].previousThrough < s /\ s <= outcomes[i].through
        Holders(i) == {s \in activeGraphSequences : <<m, outcomes[i].error>> \in graphs[s].requestFailures}
    IN
    /\ queue \in Queue /\ queue.storage = Len(outcomes)
    /\ queue.retainedCount = Cardinality(retained)
    /\ queue.staleCount = Len(outcomes) - queue.retainedCount
    /\ \A i \in retained :
         /\ Holders(i) = {s \in activeGraphSequences : Covers(i, s)}
         /\ outcomes[i].activeCount = Cardinality(Holders(i))
         /\ Holders(i) # {}
    /\ \A i, j \in 1..Len(outcomes) : i < j => outcomes[i].through <= outcomes[j].previousThrough
    /\ activeGraphSequences = {} => outcomes = <<>>

\* Every root call is settled when the host's hooks settle: overlapping and
\* cyclic graphs never wait for one another.
RootsSettle ==
  \A r \in 1..MaxRoots : (Len(roots) >= r) ~> (HasFailed(Root(r)) \/ Acquired(r))
=============================================================================
