----------------------------- MODULE RangeCheck -----------------------------
(***************************************************************************)
(* The data of the roadmap authority machine: the tracked files that the   *)
(* provenance range check reads, the manifest with its authority records,  *)
(* and what a protected output must become when an authority is consumed   *)
(* (tools/test262/es2015-provenance.js and the projections of              *)
(* tools/test262/es2015-provenance-check.js); and the check itself: what a *)
(* pull request may change between BASE and HEAD (checkRange there).       *)
(*                                                                         *)
(* A tree is a function from paths to contents.  A content is a tuple whose *)
(* first element says what kind of file it is; a digest of a content is the *)
(* content.  One path stands for each role a file has in the check.         *)
(*                                                                         *)
(* A request is [base, tree, head, body]: the number of the BASE commit, its *)
(* tree, the tree of HEAD, and the markers in the body in order.  A marker   *)
(* pins what its author reviewed; a wrong pin refuses the range.            *)
(***************************************************************************)
EXTENDS FiniteSets, Sequences, Naturals, SequencesExt

CONSTANTS
  Codes,           \* codes of roadmap authorities
  Evidence,        \* [Codes -> path]: the evidence file of a code, in its namespace
  Notes,           \* [Codes -> path]: another .json file of that namespace
  IssueOf,         \* [Codes -> issue]
  UnknownRoots,    \* test roots of unknown edition, the base ledger
  CoreRoots,       \* test roots of the core partition
  InitialAuthorities  \* the reviewed ledger of the migration to version 3

ASSUME CodesAssumption ==
  /\ Evidence \in [Codes -> STRING] /\ Notes \in [Codes -> STRING]
  /\ \A c, d \in Codes : c # d => /\ IssueOf[c] # IssueOf[d]
                                  /\ {Evidence[c], Notes[c]} \cap {Evidence[d], Notes[d]} = {}

Roots == UnknownRoots \cup CoreRoots
Absent == <<"absent">>

(***************************************************************************)
(* Paths and who owns them.                                                *)
(***************************************************************************)
GateOwners == {"manifest", "checker", "fragment"}
Generated == {"conformance", "report", "audit", "taxonomy", "subset"}
Documents == {"addendum", "design", "testing", "repairDocument", "retired"}
Paths == GateOwners \cup Generated \cup Documents \cup {"selection", "source"}
           \cup {Evidence[c] : c \in Codes} \cup {Notes[c] : c \in Codes}

Regular(content) == content # Absent
Holds(content, kind) == content[1] = kind

(***************************************************************************)
(* An authority record names its source roots, its evidence and each output *)
(* it protects with the operation allowed on it.                            *)
(***************************************************************************)

\* The digests an operation pins: the bytes before, the bytes after, the projection.
OutputIsWellFormed(o) ==
  CASE o.operation = "add-exact" ->
         o.base = Absent /\ o.head # Absent /\ o.projection = Absent
    [] o.operation = "replace-exact" ->
         o.base # Absent /\ o.head # Absent /\ o.projection = Absent
    [] o.operation = "project" ->
         o.base # Absent /\ o.head = Absent /\ o.projection # Absent
    [] OTHER -> FALSE

Claims(record) == DOMAIN record.evidence \cup DOMAIN record.outputs

RecordIsWellFormed(record) ==
  /\ record.state \in {"pending", "applied"}
  /\ Claims(record) \cap GateOwners = {}
  /\ \A p \in DOMAIN record.outputs : OutputIsWellFormed(record.outputs[p])

AuthoritiesAreWellFormed(authorities) ==
  /\ \A c \in DOMAIN authorities :
       authorities[c].code = c /\ RecordIsWellFormed(authorities[c])
  /\ \A c, d \in DOMAIN authorities :
       authorities[c].issue = authorities[d].issue => c = d

\* Everything but the authorities is pinned to the approved foundation of its version.
PolicyIsApproved(m) == m.policy = IF m.version = 3 THEN "approved-v3" ELSE "approved-v2"

ManifestIsValid(m) ==
  /\ m.version \in {2, 3}
  /\ PolicyIsApproved(m)
  /\ m.version = 2 => DOMAIN m.authorities = {}
  /\ AuthoritiesAreWellFormed(m.authorities)

Parses(content) == Regular(content) /\ Holds(content, "manifest") /\ ManifestIsValid(content[2])
Manifest(tree) == tree["manifest"][2]

Namespace(record) == UNION {{Evidence[c], Notes[c]} : c \in {d \in Codes : Evidence[d] \in Claims(record)}}
Namespaces(m) == UNION {Namespace(m.authorities[c]) : c \in DOMAIN m.authorities}
OwnedPaths(m) ==
  GateOwners \cup Generated \cup UNION {Claims(m.authorities[c]) : c \in DOMAIN m.authorities}

(***************************************************************************)
(* Reviewed evidence: the source roots, their classes before, the class     *)
(* each is to have, and the roots promoted to the selected subset.          *)
(***************************************************************************)
Bundle(paths, baseline, disposition, promotion) ==
  <<"evidence", [paths |-> paths, baseline |-> baseline,
                 disposition |-> disposition, promotion |-> promotion]>>

\* What a projection's digest is derived from: the path, the roots, the promotion
\* and the deltas of the roots left to other owners.
ProjectionOf(path, bundle) ==
  <<"projection", path, bundle.paths, bundle.promotion,
    [r \in bundle.paths \ bundle.promotion |-> bundle.disposition[r]]>>

Destinations(bundle) == {bundle.disposition[r] : r \in bundle.paths}

(***************************************************************************)
(* The generated files.  The report embeds an inventory of the subset, and  *)
(* the conformance page a block computed from the report and the subset; of *)
(* the taxonomy both use only the roots, which never change.                *)
(***************************************************************************)
Taxonomy(classes) == <<"taxonomy", classes>>
Subset(roots) == <<"subset", roots>>
Audit(results, layout) == <<"audit", results, layout>>
Report(records, subset) == <<"report", records, subset>>
Conformance(prose, records, subset) == <<"conformance", prose, records, subset>>

SourceMatches(record, bundle) ==
  record.source.paths = bundle.paths /\ record.destinations = Destinations(bundle)

MovesOnlyReviewed(bundle, before, after) ==
  /\ \A r \in bundle.paths : /\ before[2][r] = bundle.baseline[r]
                             /\ after[2][r] = bundle.disposition[r]
  /\ \A r \in Roots \ bundle.paths : after[2][r] = before[2][r]

TaxonomyProjected(record, bundle, before, after) ==
  /\ Holds(before, "taxonomy") /\ Holds(after, "taxonomy")
  /\ SourceMatches(record, bundle)
  /\ MovesOnlyReviewed(bundle, before, after)

\* The audit's records are evidence already: every one must stay what it was.
PassesAsReviewed(bundle, results) ==
  \A r \in bundle.paths :
    bundle.disposition[r] \in {"selected-passing", "audit-passing-unselected"} => results[r] = "passed"

AuditProjected(record, bundle, base, head) ==
  /\ record.source.paths = bundle.paths
  /\ record.source.taxonomy = base["taxonomy"]
  /\ Holds(base["audit"], "audit") /\ Holds(head["audit"], "audit")
  /\ head["audit"][2] = base["audit"][2]
  /\ PassesAsReviewed(bundle, base["audit"][2])

SubsetProjected(bundle, before, after) ==
  Holds(before, "subset") /\ after = Subset(before[2] \cup bundle.promotion)

\* Mutant: a report over the records before the promotion is accepted.
ReportProjectedStale(bundle, before, head) ==
  /\ Holds(head["subset"], "subset") /\ Holds(head["audit"], "audit")
  /\ \A r \in bundle.promotion : head["audit"][2][r] = "passed"
  /\ Holds(head["report"], "report")

ReportProjected(bundle, before, head) ==
  /\ Holds(before, "report") /\ Holds(head["subset"], "subset") /\ Holds(head["audit"], "audit")
  /\ \A r \in bundle.promotion : head["audit"][2][r] = "passed"
  /\ head["report"] = Report((before[2] \cup bundle.promotion) \cap head["subset"][2],
                             head["subset"][2])

ConformanceProjected(before, head) ==
  /\ Holds(before, "conformance") /\ Holds(head["report"], "report") /\ Holds(head["subset"], "subset")
  /\ head["conformance"] = Conformance(before[2], head["report"][2], head["subset"][2])

\* The validator of a projected output; a path without one cannot be projected, and the
\* selection's admits one delta of a campaign that is applied since the migration.
Projected(path, record, bundle, base, head) ==
  CASE path = "taxonomy" -> TaxonomyProjected(record, bundle, base[path], head[path])
    [] path = "audit" -> AuditProjected(record, bundle, base, head)
    [] path = "subset" -> SubsetProjected(bundle, base[path], head[path])
    [] path = "report" -> ReportProjected(bundle, base[path], head)
    [] path = "conformance" -> ConformanceProjected(base[path], head)
    [] OTHER -> FALSE

DerivedProjections == {"conformance", "report", "taxonomy", "subset"}

OutputMatches(path, record, bundle, base, head) ==
  LET o == record.outputs[path] IN
  /\ Regular(head[path])
  /\ CASE o.operation = "add-exact" -> base[path] = Absent /\ head[path] = o.head
       [] o.operation = "replace-exact" -> base[path] = o.base /\ head[path] = o.head
       [] OTHER -> /\ base[path] = o.base
                   /\ Projected(path, record, bundle, base, head)
                   /\ path \in DerivedProjections => o.projection = ProjectionOf(path, bundle)

-----------------------------------------------------------------------------

(***************************************************************************)
(* The changes of a range, as git reports them.  A file is renamed when its *)
(* bytes move to a new path, copied when they also stay, changed.           *)
(***************************************************************************)
Differ(base, head) == {p \in Paths : base[p] # head[p]}
Moved(base, head, differ) ==
  {<<p, q>> \in differ \X differ : base[p] # Absent /\ base[q] = Absent /\ base[p] = head[q]}

Change(status, source, path) == [status |-> status, source |-> source, path |-> path]

Changes(base, head) ==
  LET differ == Differ(base, head)
      moved == Moved(base, head, differ)
      plain == differ \ ({m[2] : m \in moved} \cup {m[1] : m \in {n \in moved : head[n[1]] = Absent}})
  IN {Change(IF head[m[1]] = Absent THEN "R" ELSE "C", {m[1]}, m[2]) : m \in moved}
     \cup {Change(CASE base[p] = Absent -> "A" [] head[p] = Absent -> "D" [] OTHER -> "M", {}, p) :
             p \in plain}

Touched(changes) == UNION {c.source \cup {c.path} : c \in changes}

(***************************************************************************)
(* Range profiles: the paths a marker's range must and may change.          *)
(***************************************************************************)
Profile(required, allowed, deletions) ==
  [required |-> required, allowed |-> allowed, deletions |-> deletions]

FoundationPaths == GateOwners \cup {"conformance", "testing"}
MaintenancePaths == GateOwners \cup {"conformance", "testing", "addendum"}
DecisionPaths == {"fragment", "conformance", "report", "audit", "taxonomy"}

ProfileOf(name) ==
  CASE name = "foundation" -> Profile(FoundationPaths, FoundationPaths, {"retired"})
    [] name = "maintenance" -> Profile({}, MaintenancePaths, {})
    [] name = "decision" -> Profile({"fragment"}, DecisionPaths, {})
    [] name = "migration" -> Profile({"manifest", "design"}, {"manifest", "design"}, {})
    [] name = "prepare" -> Profile({"manifest"}, {"manifest", "design", "testing"}, {})

RangeChangesPass(profile, changes) ==
  /\ changes # {}
  /\ \A c \in changes : c.status \in {"A", "M", "D"}
  /\ LET deleted == {c.path : c \in {d \in changes : d.status = "D"}}
         changed == {c.path : c \in changes} \ deleted
     IN /\ deleted = profile.deletions
        /\ profile.required \subseteq changed
        /\ changed \subseteq profile.allowed

(***************************************************************************)
(* Decision fragments: empty in a foundation or maintenance range, complete *)
(* for the base ledger in a decision range.                                *)
(***************************************************************************)
FragmentIsEmpty(tree) == tree["fragment"] = <<"fragment", {}>>
FragmentIsComplete(tree) == tree["fragment"] = <<"fragment", UnknownRoots>>

(***************************************************************************)
(* Markers.  The repair marker counts only on an ordinary pull request, and *)
(* there the checker that runs is HEAD's.                                  *)
(***************************************************************************)
Markers(event, body) ==
  IF event = "pull_request" THEN body ELSE SelectSeq(body, LAMBDA m : m.kind # "repair")

\* Without a marker a range is neutral only if it touches nothing BASE owns.
ProfileOwned == UNION {ProfileOf(n).allowed \cup ProfileOf(n).deletions :
                         n \in {"foundation", "maintenance", "decision"}}

Owned(tree, changes) ==
  LET touched == Touched(changes)
      m == Manifest(tree)
  IN \/ touched \cap GateOwners # {}
     \/ /\ tree["manifest"] # Absent
        /\ touched \cap (IF m.version = 3 THEN OwnedPaths(m) \cup Namespaces(m) ELSE ProfileOwned) # {}

(***************************************************************************)
(* The profiles of the provenance foundation.                               *)
(***************************************************************************)
LegacyPasses(marker, pr, changes) ==
  LET base == pr.tree["manifest"]
      head == pr.head["manifest"]
  IN /\ marker.profile \in {"foundation", "maintenance", "decision"}
     /\ marker.pins = <<"base-ledger">>
     /\ marker.profile = "foundation" => base = Absent /\ Parses(head) /\ FragmentIsEmpty(pr.head)
     /\ marker.profile = "maintenance" => /\ base # Absent /\ base[2].version = 2
                                          /\ Parses(head) /\ FragmentIsEmpty(pr.head)
     /\ marker.profile = "decision" => base # Absent /\ head = base /\ FragmentIsComplete(pr.head)
     /\ RangeChangesPass(ProfileOf(marker.profile), changes)

(***************************************************************************)
(* The one migration from version 2, pinned to the BASE manifest, checker,  *)
(* and the HEAD manifest; it registers the reviewed ledger, restores the    *)
(* embedded document and leaves every output where the ledger expects it.   *)
(***************************************************************************)
LedgerMeetsTree(tree, head) ==
  \A c \in DOMAIN InitialAuthorities :
    LET record == InitialAuthorities[c] IN
    /\ record.state = "pending" => record.source.taxonomy = tree["taxonomy"]
    /\ \A p \in DOMAIN record.outputs :
         LET o == record.outputs[p] IN
         CASE o.operation = "project" -> tree[p] = o.base /\ head[p] = tree[p]
           [] o.operation = "replace-exact" -> tree[p] = o.head /\ head[p] = tree[p]
           [] OTHER -> tree[p] = Absent /\ head[p] = Absent
    /\ record.state = "pending" =>
         \A p \in DOMAIN record.evidence : tree[p] = Absent /\ head[p] = Absent

DocumentIsRestored(pr) == pr.head["design"] = pr.tree["addendum"]

MigrationPasses(marker, pr, changes) ==
  LET base == pr.tree["manifest"]
      head == pr.head["manifest"]
  IN /\ marker.base = pr.base
     /\ marker.pins = <<base, pr.tree["checker"], head>>
     /\ Parses(base) /\ Manifest(pr.tree).version = 2
     /\ Parses(head) /\ Manifest(pr.head).version = 3
     /\ Manifest(pr.head).authorities = InitialAuthorities
     /\ LedgerMeetsTree(pr.tree, pr.head)
     /\ RangeChangesPass(ProfileOf("migration"), changes)
     /\ pr.head["fragment"] = pr.tree["fragment"]
     /\ DocumentIsRestored(pr)

(***************************************************************************)
(* Preparation appends one pending authority and keeps the others.          *)
(***************************************************************************)

KeepsOthers(code, base, head) ==
  \A c \in DOMAIN base \ {code} : c \in DOMAIN head /\ head[c] = base[c]

VersionThree(pr) ==
  /\ Parses(pr.tree["manifest"]) /\ Manifest(pr.tree).version = 3
  /\ Parses(pr.head["manifest"]) /\ Manifest(pr.head).version = 3

PreparationPasses(marker, pr, changes) ==
  /\ VersionThree(pr)
  /\ marker.base = pr.base
  /\ LET base == Manifest(pr.tree).authorities
         head == Manifest(pr.head).authorities
     IN /\ KeepsOthers("none", base, head)
        /\ DOMAIN head \ DOMAIN base = {marker.code}
        /\ head[marker.code].state = "pending"
        /\ marker.issue = head[marker.code].issue
        /\ marker.pins = <<pr.tree["manifest"], head[marker.code]>>
  /\ RangeChangesPass(ProfileOf("prepare"), changes)
  /\ pr.head["fragment"] = pr.tree["fragment"]

(***************************************************************************)
(* Consumption turns one pending authority of BASE into applied, together   *)
(* with exactly the protected outputs it names.                            *)
(***************************************************************************)

\* The changes outside the manifest must leave every owned path alone that is not an output.
OutputChangesPass(record, m, changes) ==
  LET owned == OwnedPaths(m) \cup Namespace(record)
      outputs == DOMAIN record.outputs
      others == {c \in changes : c.path # "manifest"}
  IN /\ \A c \in others : c.status \in {"R", "C", "D"} => (c.source \cup {c.path}) \cap owned = {}
     /\ \A c \in others : c.status \in {"A", "M"} => c.path \in outputs \/ c.path \notin owned
     /\ \A p \in outputs :
          LET status == IF record.outputs[p].operation = "add-exact" THEN "A" ELSE "M"
          IN Change(status, {}, p) \in others

\* Every evidence file is in HEAD with the bytes its authority pins.
EvidenceMatches(record, head) == \A p \in DOMAIN record.evidence : head[p] = record.evidence[p]

BundleOf(record) == record.evidence[CHOOSE p \in DOMAIN record.evidence : TRUE][2]

OutputsPass(record, pr) ==
  /\ EvidenceMatches(record, pr.head)
  /\ \A p \in DOMAIN record.outputs : OutputMatches(p, record, BundleOf(record), pr.tree, pr.head)

\* The digest of a marker's projection covers every output of the record.
ConsumptionPins(record) == <<record.source.paths, record.outputs>>

ConsumptionPasses(marker, pr, changes) ==
  LET m == Manifest(pr.tree)
      base == m.authorities
      head == Manifest(pr.head).authorities
      record == base[marker.code]
  IN /\ VersionThree(pr)
     /\ marker.code \in DOMAIN base
     /\ record.state = "pending"
     /\ marker.base = pr.base
     /\ marker.issue = record.issue
     /\ marker.pins = ConsumptionPins(record)
     /\ DOMAIN head = DOMAIN base
     /\ KeepsOthers(marker.code, base, head)
     /\ head[marker.code] = [record EXCEPT !.state = "applied"]
     /\ Claims(record) \cap GateOwners = {}
     /\ OutputChangesPass(record, m, changes)
     /\ OutputsPass(record, pr)
     /\ DOMAIN record.outputs # {}

(***************************************************************************)
(* A repair corrects one pending record.  HEAD's checker names its BASE and *)
(* both records; nothing that any authority of BASE claims may move.        *)
(***************************************************************************)
Repairs(tree) == IF Holds(tree["checker"], "checker") THEN tree["checker"][2] ELSE {}
RepairChanges ==
  {Change("M", {}, "checker"), Change("M", {}, "manifest"), Change("M", {}, "testing"),
   Change("A", {}, "repairDocument")}

RepairDelta(pin, base, head) ==
  /\ DOMAIN head = DOMAIN base /\ pin.code \in DOMAIN base
  /\ KeepsOthers(pin.code, base, head)
  /\ base[pin.code] = pin.from /\ head[pin.code] = pin.to
  /\ pin.to.state = "pending"
  /\ pin.to = [pin.from EXCEPT !.outputs = pin.to.outputs, !.evidence = pin.to.evidence]
  /\ DOMAIN pin.to.evidence = DOMAIN pin.from.evidence

LeavesClaims(pr, authorities) ==
  \A p \in {"fragment"} \cup UNION {Claims(authorities[c]) : c \in DOMAIN authorities} :
    pr.head[p] = pr.tree[p]

RepairPasses(marker, pr, changes) ==
  \E pin \in Repairs(pr.head) :
    /\ pin.base = pr.base /\ marker.base = pr.base
    /\ marker.code = pin.code
    /\ marker.pins = <<pr.tree["manifest"], pin.from, pr.head["manifest"], pin.to>>
    /\ changes = RepairChanges
    /\ VersionThree(pr)
    /\ RepairDelta(pin, Manifest(pr.tree).authorities, Manifest(pr.head).authorities)
    /\ LeavesClaims(pr, Manifest(pr.tree).authorities)

(***************************************************************************)
(* checkRange.                                                             *)
(***************************************************************************)
MarkerPasses(marker, pr, changes) ==
  CASE marker.kind = "repair" -> RepairPasses(marker, pr, changes)
    [] marker.kind = "migration" -> MigrationPasses(marker, pr, changes)
    [] marker.kind = "prepare" -> PreparationPasses(marker, pr, changes)
    [] marker.kind = "consume" -> ConsumptionPasses(marker, pr, changes)
    [] marker.kind = "legacy" -> LegacyPasses(marker, pr, changes)

CheckRange(event, pr) ==
  LET changes == Changes(pr.tree, pr.head)
      markers == Markers(event, pr.body)
  IN IF markers = <<>> THEN ~Owned(pr.tree, changes)
     ELSE Len(markers) = 1 /\ MarkerPasses(markers[1], pr, changes)
=============================================================================
