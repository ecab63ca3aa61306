------------------------------ MODULE ProgramGraphs ------------------------------
(***************************************************************************)
(* What parser.js does with an object graph an embedder passes for a       *)
(* program, before it looks at the syntax: snapshotProgramGraph copies it, *)
(* checkOmittedArrayMetadata looks into what the copy leaves out,          *)
(* checkStructuralAstTree refuses what is no tree, and the walk of         *)
(* checkCustomAstDefenses asks of every node how it was reached.  The      *)
(* walk's questions about syntax are in SyntaxTables; here a node may      *)
(* stand in the position "child" of a node, or of an array there.          *)
(*                                                                         *)
(* An object is a node (it has a type), an array or a plain object, with   *)
(* what its prototypes have of a node's fields ("type", "field" or         *)
(* nothing) and own properties.  Scalars are left out: a property that is  *)
(* not there may hold one.                                                 *)
(***************************************************************************)
EXTENDS Naturals, FiniteSets, Sequences, SequencesExt, TLC

CONSTANTS Objects,      \* the embedder's objects
          Root,         \* the one of them passed for the program
          MaxProperties \* bound: of the objects together

VARIABLES source,   \* the embedder's graph
          phase,    \* the loop that runs: "build" until the graph is passed
          copies,   \* copyValue's map, from objects to places of snapshot
          snapshot, \* the copies, in the order they were made
          pending,  \* the running loop's stack
          metadata, \* objects that only hang from keys of arrays that are no index
          seen      \* what the running loop has visited

vars == <<source, phase, copies, snapshot, pending, metadata, seen>>

Kinds == {"node", "array", "plain"}
KeysOf(kind) ==
    CASE kind = "node" -> {"child", "other"}
      [] kind = "plain" -> {"child"}
      [] kind = "array" -> {"0", "1", "meta"}
Object(kind, inherits) == [kind |-> kind, inherits |-> inherits, own |-> <<>>]

To(o) == <<"object", o>>
Function == <<"function">>
Accessor == <<"accessor">>
IsObject(v) == v[1] = "object"

Elements(own) == DOMAIN own \cap {"0", "1"}
Length(own) == IF "1" \in DOMAIN own THEN 2 ELSE Cardinality(Elements(own))
Dense(own) == Cardinality(Elements(own)) = Length(own)
KeySeq(keys) == SetToSeq(keys)      \* in some fixed order
Values(own, keys) == [i \in DOMAIN KeySeq(keys) |-> own[KeySeq(keys)[i]]]

(***************************************************************************)
(* snapshotProgramGraph: an object is copied once, however often it is     *)
(* found; indices of arrays and all keys of other objects are copied.      *)
(***************************************************************************)
Copied(object) == IF object.kind = "array" THEN Elements(object.own) ELSE DOMAIN object.own
InheritsSyntax(object) ==
    object.inherits = IF object.kind = "node" THEN "field" ELSE "type"
CannotCopy(object) ==
    \/ InheritsSyntax(object)
    \/ \E k \in DOMAIN object.own : object.own[k] = Accessor
    \/ \E k \in Copied(object) : object.own[k] = Function

\* copyValue: what stands for the object v in the copy, and the loop's state s with it.
\* Mutant: one copy for each reference.
CopyValueAgain(s, o) ==
    [s EXCEPT !.copies = (o :> Len(s.snapshot) + 1) @@ s.copies, !.snapshot = Append(@, Object(source[o].kind, "")),
              !.pending = Append(@, <<o, Len(s.snapshot) + 1>>)]
CopyValue(s, o) ==
    IF o \in DOMAIN s.copies THEN s
    ELSE [s EXCEPT !.copies = (o :> Len(s.snapshot) + 1) @@ s.copies, !.snapshot = Append(@, Object(source[o].kind, "")),
                   !.pending = Append(@, <<o, Len(s.snapshot) + 1>>)]
\* Property k of s.at is copied to the object at place s.target.
CopyInto(s, k, o) == [s EXCEPT !.snapshot[s.target].own = (k :> To(s.copies[o])) @@ @]
CopyProperty(s, k) == CopyInto(CopyValue(s, source[s.at].own[k][2]), k, source[s.at].own[k][2])
CopyProperties(object, o, place) ==
    FoldLeft(CopyProperty, [copies |-> copies, snapshot |-> snapshot, pending |-> Front(pending), at |-> o, target |-> place],
             KeySeq(Copied(object)))
Omitted(object) == {object.own[k] : k \in DOMAIN object.own \ Copied(object)}
CopyObject(o, place) ==
    /\ ~CannotCopy(source[o])
    /\ \E s \in {CopyProperties(source[o], o, place)} :
          copies' = s.copies /\ snapshot' = s.snapshot /\ pending' = s.pending
    /\ metadata' = metadata \cup Omitted(source[o])
    /\ UNCHANGED <<phase, seen, source>>

(***************************************************************************)
(* checkOmittedArrayMetadata: no functions, accessors or nodes there.      *)
(***************************************************************************)
Hides(o) ==
    \/ InheritsSyntax(source[o]) \/ source[o].kind = "node"
    \/ \E k \in DOMAIN source[o].own : source[o].own[k] = Accessor
CheckMetadata(v) ==
    /\ v # Function /\ (IsObject(v) /\ v[2] \notin seen => ~Hides(v[2]))
    /\ IF IsObject(v) /\ v[2] \notin seen
       THEN /\ seen' = seen \cup {v[2]}
            /\ pending' = Front(pending) \o Values(source[v[2]].own, DOMAIN source[v[2]].own)
       ELSE pending' = Front(pending) /\ UNCHANGED seen
    /\ UNCHANGED <<source, phase, copies, snapshot, metadata>>

(***************************************************************************)
(* checkStructuralAstTree: from the root over the keys of children, every  *)
(* node is met once, and every array that is not empty.                    *)
(***************************************************************************)
IsEmpty(object) == object.kind = "array" /\ Length(object.own) = 0
Children(object) ==
    CASE object.kind = "node" -> DOMAIN object.own \cap {"child"}
      [] object.kind = "array" -> Elements(object.own)
      [] object.kind = "plain" -> {}
NotATree(p) ==
    \/ p \in seen /\ ~IsEmpty(snapshot[p])
    \/ snapshot[p].kind = "array" /\ ~Dense(snapshot[p].own)
CheckTree(v) ==
    /\ snapshot[v[2]].kind # "plain" => ~NotATree(v[2])
    /\ IF snapshot[v[2]].kind # "plain" /\ v[2] \notin seen
       THEN /\ seen' = seen \cup {v[2]}
            /\ pending' = Front(pending) \o Values(snapshot[v[2]].own, Children(snapshot[v[2]]))
       ELSE pending' = Front(pending) /\ UNCHANGED seen
    /\ UNCHANGED <<source, phase, copies, snapshot, metadata>>

(***************************************************************************)
(* checkCustomAstDefenses: everything is visited once for each way it is   *)
(* reached (rememberValidationContext): below which object, at which key,  *)
(* within an array of arrays or not.                                       *)
(***************************************************************************)
Reached(p, parent, key, nested) == [at |-> p, parent |-> parent, key |-> key, nested |-> nested]
Placed(r) == r.parent = 0 \/ (snapshot[r.parent].kind = "node" /\ r.key = "child")
Misplaced(r) == snapshot[r.at].kind = "node" /\ (r.nested \/ ~Placed(r))
\* Elements are reached as their array was; an array in an array has no parent.
Below(r, v, k) ==
    IF snapshot[r.at].kind # "array" THEN Reached(v[2], r.at, k, r.nested)
    ELSE IF r.nested \/ snapshot[v[2]].kind = "array" THEN Reached(v[2], 0, "", TRUE)
    ELSE Reached(v[2], r.parent, r.key, FALSE)
AllBelow(r) ==
    LET own == snapshot[r.at].own
    IN  [i \in DOMAIN KeySeq(DOMAIN own) |-> Below(r, own[KeySeq(DOMAIN own)[i]], KeySeq(DOMAIN own)[i])]
CheckPlace(r) ==
    /\ ~Misplaced(r)
    /\ IF r \in seen THEN pending' = Front(pending) /\ UNCHANGED seen
       ELSE pending' = Front(pending) \o AllBelow(r) /\ seen' = seen \cup {r}
    /\ UNCHANGED <<source, phase, copies, snapshot, metadata>>

(***************************************************************************)
(* The loops, one after the other.  A loop that finds something wrong      *)
(* throws.                                                                 *)
(***************************************************************************)
Top == Last(pending)
Refuses ==
    CASE phase = "copy" -> CannotCopy(source[Top[1]])
      [] phase = "metadata" -> Top = Function \/ (IsObject(Top) /\ Top[2] \notin seen /\ Hides(Top[2]))
      [] phase = "tree" -> snapshot[Top[2]].kind # "plain" /\ NotATree(Top[2])
      [] phase = "walk" -> Misplaced(Top)
Loops == {"copy", "metadata", "tree", "walk"}
Refuse ==
    /\ phase \in Loops /\ pending # <<>> /\ Refuses
    /\ phase' = "refused" /\ pending' = <<>> /\ UNCHANGED <<source, copies, snapshot, metadata, seen>>
StepOfLoop ==
    /\ phase \in Loops /\ pending # <<>>
    /\ \/ phase = "copy" /\ CopyObject(Top[1], Top[2])
       \/ phase = "metadata" /\ CheckMetadata(Top)
       \/ phase = "tree" /\ CheckTree(Top)
       \/ phase = "walk" /\ CheckPlace(Top)
Enter(next, work) ==
    /\ phase' = next /\ pending' = work /\ seen' = {}
    /\ UNCHANGED <<source, copies, snapshot, metadata>>
NextLoop ==
    /\ pending = <<>>
    /\ \/ phase = "copy" /\ Enter("metadata", SetToSeq(metadata))
       \/ phase = "metadata" /\ Enter("tree", <<To(1)>>)
       \/ phase = "tree" /\ Enter("walk", <<Reached(1, 0, "", FALSE)>>)
       \/ phase = "walk" /\ Enter("accepted", <<>>)

(***************************************************************************)
(* The embedder builds a graph and passes it.                              *)
(***************************************************************************)
Size == FoldFunctionOnSet(LAMBDA object, n : Cardinality(DOMAIN object.own) + n, 0, source, DOMAIN source)
\* Objects are taken in one order, so that graphs differ by more than their names.
Fresh == IF Objects \subseteq DOMAIN source THEN {} ELSE {CHOOSE x \in Objects \ DOMAIN source : TRUE}
SetProperty(o, k, v) == source' = [source EXCEPT ![o].own = (k :> v) @@ @]
Build ==
    /\ phase = "build" /\ Size < MaxProperties
    /\ \E o \in DOMAIN source : \E k \in KeysOf(source[o].kind) \ DOMAIN source[o].own :
          \/ \E v \in {To(x) : x \in DOMAIN source} \cup {Function, Accessor} : SetProperty(o, k, v)
          \/ \E x \in Fresh, kind \in Kinds, inherits \in {"", "type", "field"} :
                source' = [source EXCEPT ![o].own = (k :> To(x)) @@ @] @@ (x :> Object(kind, inherits))
    /\ UNCHANGED <<phase, copies, snapshot, pending, metadata, seen>>
Pass ==
    /\ phase = "build" /\ phase' = "copy"
    /\ copies' = (Root :> 1) /\ snapshot' = <<Object(source[Root].kind, "")>> /\ pending' = <<<<Root, 1>>>>
    /\ UNCHANGED <<source, metadata, seen>>

Init ==
    /\ source = (Root :> Object("node", "")) /\ phase = "build"
    /\ copies = <<>> /\ snapshot = <<>> /\ pending = <<>> /\ metadata = {} /\ seen = {}
Next == Build \/ Pass \/ StepOfLoop \/ NextLoop \/ Refuse
Fairness == WF_vars(Pass \/ StepOfLoop \/ NextLoop \/ Refuse)
Spec == Init /\ [][Next]_vars

(***************************************************************************)
(* What is a program, said of the embedder's graph.                        *)
(***************************************************************************)
Closure(from, Succ(_)) ==
    FoldLeft(LAMBDA found, n : found \cup UNION {Succ(o) : o \in found}, from, [n \in 1 .. Cardinality(Objects) |-> n])
Targets(o, keys) == {source[o].own[k][2] : k \in {k \in keys : IsObject(source[o].own[k])}}
Reach == Closure({Root}, LAMBDA o : Targets(o, Copied(source[o])))
Beside(reach) == Closure(UNION {Targets(o, DOMAIN source[o].own \ Copied(source[o])) : o \in reach},
                         LAMBDA o : Targets(o, DOMAIN source[o].own))
InTree == Closure({Root}, LAMBDA o : Targets(o, Children(source[o])))
Edges(from, KeysFor(_), o) == {<<x, k>> \in from \X {"child", "other", "0", "1"} : k \in KeysFor(x) /\ source[x].own[k] = To(o)}

OwnData(o) == ~InheritsSyntax(source[o]) /\ \A k \in DOMAIN source[o].own : IsObject(source[o].own[k])
OnceInTree(tree, o) ==
    LET edges == Edges(tree, LAMBDA x : Children(source[x]), o)
    IN  source[o].kind = "plain" \/ IsEmpty(source[o]) \/ Cardinality(edges) = IF o = Root THEN 0 ELSE 1
InChildPosition(reach, o) ==
    \A e \in Edges(reach, LAMBDA x : Copied(source[x]), o) : source[e[1]].kind = "node" /\ e[2] = "child"
WellPlaced(reach, o) ==
    \A e \in Edges(reach, LAMBDA x : Copied(source[x]), o) :
       \/ source[e[1]].kind = "node" /\ e[2] = "child"
       \/ source[e[1]].kind = "array" /\ InChildPosition(reach, e[1])
LegalIn(reach, tree) ==
    /\ \A o \in reach \cup Beside(reach) : OwnData(o)
    /\ \A o \in Beside(reach) : source[o].kind # "node"
    /\ \A o \in tree : OnceInTree(tree, o) /\ (source[o].kind = "array" => Dense(source[o].own))
    /\ \A o \in reach : source[o].kind = "node" => WellPlaced(reach, o)
Legal == LegalIn(Reach, InTree)

\* The graph is accepted just when it is a tree of nodes and arrays, each in one position for
\* children, of own data only, with no node hidden beside it; however the objects are shared.
OnlyTreesPass == (phase = "accepted" => Legal) /\ (phase = "refused" => ~Legal)

\* The copy has one object for each object the embedder's graph has, with the same properties
\* and the same sharing, and nothing of the keys left out.
IsCopyOf(o) ==
    /\ snapshot[copies[o]].kind = source[o].kind
    /\ DOMAIN snapshot[copies[o]].own = Copied(source[o])
    /\ \A k \in Copied(source[o]) : snapshot[copies[o]].own[k] = To(copies[source[o].own[k][2]])
SnapshotIsFaithful ==
    phase \notin {"build", "copy", "refused"} =>
       /\ DOMAIN copies = Reach /\ IsInjective(copies) /\ Len(snapshot) = Cardinality(Reach)
       /\ \A o \in Reach : IsCopyOf(o)
=================================================================================
