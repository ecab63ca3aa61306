---------------------------- MODULE ModuleLinking ----------------------------
(***************************************************************************)
(* linkModuleGraph() (src/src/runtime/module-linker.js) on records whose   *)
(* requests the loader has acquired.  No foreign code runs during a link,  *)
(* so nothing interleaves with it; an action is one turn of the loop of    *)
(* linkRecord().                                                           *)
(***************************************************************************)
EXTENDS Integers, FiniteSetsExt, SequencesExt

CONSTANTS
  Modules,   \* the records
  NoModule,  \* null
  Graphs     \* the request lists the sources may contain

ASSUME ModuleAssumption == NoModule \notin Modules
ASSUME GraphAssumption == \A g \in Graphs : g \in [Modules -> Seq(Modules)]

VARIABLES
  requested,        \* resolvedRequestedModules of each record; fixed
  broken,           \* records with an import or export that does not resolve; fixed
  status,
  environment,      \* "none", "bound", or "complete" with its namespace imports
  dfsIndex, dfsAncestorIndex,   \* 0 stands for undefined
  evaluationSccRoot, evaluationSccMembers,
  linkPending,      \* the frames of linkRecord(), innermost last
  linkStack,        \* LinkTransaction.stack, of the records with dfsOnStack
  linkRecords       \* LinkTransaction.records

source   == <<requested, broken>>
dfsVars  == <<dfsIndex, dfsAncestorIndex>>
sccVars  == <<evaluationSccRoot, evaluationSccMembers>>
linkVars == <<status, environment, dfsVars, sccVars, linkPending, linkStack, linkRecords>>

Frame(record) == [record |-> record, dependencyIndex |-> 0, entered |-> FALSE]
Linking == linkPending # <<>>
Linked  == {m \in Modules : status[m] = "linked"}

frame   == Last(linkPending)
current == frame.record
PopFrame == linkPending' = Front(linkPending)
Advance  == [frame EXCEPT !.dependencyIndex = @ + 1]
Visiting == Linking /\ frame.entered

LinkInit ==
  /\ requested \in Graphs
  /\ broken \in SUBSET Modules
  /\ status = [m \in Modules |-> "unlinked"]
  /\ environment = [m \in Modules |-> "none"]
  /\ dfsIndex = [m \in Modules |-> 0]
  /\ dfsAncestorIndex = [m \in Modules |-> 0]
  /\ evaluationSccRoot = [m \in Modules |-> NoModule]
  /\ evaluationSccMembers = [m \in Modules |-> {}]
  /\ linkPending = <<>> /\ linkStack = <<>> /\ linkRecords = {}

\* linkModuleGraph(): a linked root is returned as it is.
LinkModuleGraph(root) ==
  /\ ~Linking /\ status[root] # "linked"
  /\ linkPending' = <<Frame(root)>>
  /\ linkRecords' = {}
  /\ UNCHANGED <<source, status, environment, dfsVars, sccVars, linkStack>>

\* The first turn of a frame.  It is pushed for an unlinked record, and no
\* other frame comes between.
EnterLink ==
  LET index == Cardinality(linkRecords) + 1 IN
  /\ Linking /\ ~frame.entered
  /\ linkRecords' = linkRecords \cup {current}
  /\ status' = [status EXCEPT ![current] = "linking"]
  /\ dfsIndex' = [dfsIndex EXCEPT ![current] = index]
  /\ dfsAncestorIndex' = [dfsAncestorIndex EXCEPT ![current] = index]
  /\ linkStack' = Append(linkStack, current)
  /\ linkPending' = Append(Front(linkPending), [frame EXCEPT !.entered = TRUE])
  /\ UNCHANGED <<source, environment, sccVars>>

dependency == requested[current][frame.dependencyIndex + 1]
HasDependency == frame.dependencyIndex < Len(requested[current])

\* Mistake: the dependency is passed when it is entered, not when it is done.
DescendPasses ==
  /\ linkPending' = Append(Append(Front(linkPending), Advance), Frame(dependency))
  /\ UNCHANGED <<source, status, environment, dfsVars, sccVars, linkStack, linkRecords>>

\* The dependency is looked at again once it is done.
Descend ==
  /\ linkPending' = Append(linkPending, Frame(dependency))
  /\ UNCHANGED <<source, status, environment, dfsVars, sccVars, linkStack, linkRecords>>

LinkDependency ==
  /\ Visiting /\ HasDependency
  /\ \/ status[dependency] = "unlinked" /\ Descend
     \/ /\ status[dependency] # "unlinked"
        /\ linkPending' = Append(Front(linkPending), Advance)
        /\ dfsAncestorIndex' =
             IF status[dependency] = "linking"
               THEN [dfsAncestorIndex EXCEPT
                       ![current] = Min({@, dfsAncestorIndex[dependency]})]
               ELSE dfsAncestorIndex
        /\ UNCHANGED <<source, status, environment, dfsIndex, sccVars, linkStack, linkRecords>>

\* The environment of the record is made; the root of a component takes its
\* members off the stack.  The last turn also binds the namespace imports of
\* all records of the transaction.
FinishRecord ==
  LET closes  == dfsAncestorIndex[current] = dfsIndex[current]
      at      == CHOOSE i \in 1..Len(linkStack) : linkStack[i] = current
      members == IF closes THEN Range(SubSeq(linkStack, at, Len(linkStack))) ELSE {}
      bound   == [environment EXCEPT ![current] = "bound"]
  IN
  /\ Visiting /\ ~HasDependency /\ current \notin broken
  /\ environment' = [m \in Modules |->
       IF Len(linkPending) = 1 /\ m \in linkRecords THEN "complete" ELSE bound[m]]
  /\ status' = [m \in Modules |-> IF m \in members THEN "linked" ELSE status[m]]
  /\ evaluationSccRoot' = [m \in Modules |-> IF m \in members THEN current ELSE evaluationSccRoot[m]]
  /\ evaluationSccMembers' = [m \in Modules |-> IF m \in members THEN members ELSE evaluationSccMembers[m]]
  /\ linkStack' = IF closes THEN SubSeq(linkStack, 1, at - 1) ELSE linkStack
  /\ PopFrame
  /\ UNCHANGED <<source, dfsVars, linkRecords>>

RolledBack == linkRecords

\* An import or export does not resolve: rollback() of all the records touched.
LinkFails ==
  LET Reset(f, value) == [m \in Modules |-> IF m \in RolledBack THEN value ELSE f[m]] IN
  /\ Visiting /\ ~HasDependency /\ current \in broken
  /\ status' = Reset(status, "unlinked")
  /\ environment' = Reset(environment, "none")
  /\ dfsIndex' = Reset(dfsIndex, 0)
  /\ dfsAncestorIndex' = Reset(dfsAncestorIndex, 0)
  /\ evaluationSccRoot' = Reset(evaluationSccRoot, NoModule)
  /\ evaluationSccMembers' = Reset(evaluationSccMembers, {})
  /\ linkPending' = <<>> /\ linkStack' = <<>> /\ linkRecords' = {}
  /\ UNCHANGED source

LinkStep == EnterLink \/ LinkDependency \/ FinishRecord \/ LinkFails

-----------------------------------------------------------------------------
LinkTypeOK ==
  /\ requested \in Graphs /\ broken \subseteq Modules
  /\ status \in [Modules -> {"unlinked", "linking", "linked"}]
  /\ environment \in [Modules -> {"none", "bound", "complete"}]
  /\ dfsIndex \in [Modules -> Nat]
  /\ dfsAncestorIndex \in [Modules -> Nat]
  /\ \A m \in Modules : dfsAncestorIndex[m] <= dfsIndex[m]
  /\ evaluationSccRoot \in [Modules -> Modules \cup {NoModule}]
  /\ evaluationSccMembers \in [Modules -> SUBSET Modules]
  /\ linkPending \in Seq([record: Modules, dependencyIndex: Nat, entered: BOOLEAN])
  /\ linkStack \in Seq(Modules) /\ linkRecords \subseteq Modules

\* What each module depends on, itself included, in each graph: what is in every set
\* that has it and, with a module, whatever that one requests.
ClosedUnder(graph, S) == \A m \in S : Range(graph[m]) \subseteq S
Dependencies ==
  [graph \in Graphs |-> [m \in Modules |->
     {n \in Modules : \A S \in SUBSET Modules : m \in S /\ ClosedUnder(graph, S) => n \in S}]]
Requests(m)   == Range(requested[m])
Reaches(m, n) == n \in Dependencies[requested][m]
Component(m) == {n \in Modules : Reaches(m, n) /\ Reaches(n, m)}

\* "Evaluation traverses SCCs": the component stored in a linked record, which
\* decides when evaluation commits and how far an error spreads, is the
\* strongly connected component of the graph, from whichever roots and in
\* however many links its modules were linked.
SccsAreExact ==
  \A m \in Linked :
    /\ evaluationSccMembers[m] = Component(m)
    /\ evaluationSccRoot[m] \in Component(m)
    /\ \A n \in Component(m) : evaluationSccRoot[n] = evaluationSccRoot[m]

\* "Either the affected linking stack commits complete environments and resolved
\* imports, or all tentative state is discarded": between links a record is
\* linked with everything it reaches, all their environments complete, or it
\* has nothing; and what cannot link is never linked.
LinkingIsTransactional ==
  ~Linking =>
    \A m \in Modules :
      \/ /\ status[m] = "linked" /\ environment[m] = "complete"
         /\ m \notin broken /\ Requests(m) \subseteq Linked
      \/ /\ status[m] = "unlinked" /\ environment[m] = "none"
         /\ evaluationSccMembers[m] = {}

\* What link() leaves behind: the components that evaluation goes by, and no half of a
\* link that failed.
LinksAreWhole == LinkTypeOK /\ SccsAreExact /\ LinkingIsTransactional
=============================================================================
