-------------------------- MODULE RoadmapAuthority --------------------------
(***************************************************************************)
(* The life of the protected test262 ledger on main: pull requests of every *)
(* kind are opened against main, checked by the provenance range check and  *)
(* merged (tools/test262/es2015-provenance-check.js, run by the             *)
(* provenance-base-guard job of .github/workflows/ci.yml).                  *)
(*                                                                         *)
(* Every pull request starts from what its author intends (the Intended...  *)
(* operators, external to the check) and may deviate from it in one file or  *)
(* in its body; one pull request may wait while main moves.  A repair passes *)
(* the ordinary check only, and is merged over the guard's refusal.          *)
(***************************************************************************)
EXTENDS RangeCheck

CONSTANTS
  InitialTree,     \* main before the foundation
  Reviewed,        \* [Codes -> what the reviewed campaign of a code contains]
  MaxCommits,      \* bound: merges into main
  MaxStrays,       \* bound: files with bytes of nobody's intent that main goes on with
  MaxLag,          \* bound: merges while one pull request waits
  Misjudged,       \* bound: the roots that files brought by a foundation range are wrong about
  MaxUnread,       \* bound: main's last commit to go on with files taken unread
  Stray            \* such bytes

VARIABLES commit,  \* the number of main's last commit
          tree,    \* main's tree
          waiting, \* the pull request opened earlier, if one waits
          unread   \* history: the generated files that main took, with bytes nobody
                   \* intends, from a range whose check does not read them, each with
                   \* the campaigns that were applied then

vars == <<commit, tree, waiting, unread>>

Marker(kind, profile, code, issue, pins) ==
  [kind |-> kind, profile |-> profile, code |-> code, issue |-> issue,
   base |-> commit, pins |-> pins]
Request(head, body) == [base |-> commit, tree |-> tree, head |-> head, body |-> body]

Version == IF tree["manifest"] = Absent THEN 0 ELSE Manifest(tree).version
Authorities == IF tree["manifest"] = Absent THEN <<>> ELSE Manifest(tree).authorities
AppliedCampaigns ==
  {c \in DOMAIN Authorities : Authorities[c].state = "applied" /\ DOMAIN Authorities[c].evidence # {}}
ManifestOf(version, authorities) ==
  <<"manifest", [version |-> version, authorities |-> authorities,
                 policy |-> IF version = 3 THEN "approved-v3" ELSE "approved-v2"]>>

(***************************************************************************)
(* What the authors intend.                                                *)
(***************************************************************************)
IntendedFoundation ==
  {Request([tree EXCEPT !["manifest"] = ManifestOf(2, <<>>), !["checker"] = <<"checker", {}>>,
                        !["fragment"] = <<"fragment", {}>>, !["retired"] = Absent,
                        !["testing"] = <<"text", "guarded">>,
                        !["conformance"] = <<"conformance", "guarded", @[3], @[4]>>],
           <<Marker("legacy", "foundation", "none", 0, <<"base-ledger">>)>>) : v \in {Version} \cap {0}}

IntendedMaintenance ==
  {Request([tree EXCEPT !["addendum"] = <<"text", "amended">>],
           <<Marker("legacy", "maintenance", "none", 0, <<"base-ledger">>)>>) : v \in {Version} \cap {2}}

IntendedDecision ==
  {Request([tree EXCEPT !["fragment"] = <<"fragment", UnknownRoots>>,
                        !["taxonomy"] = Taxonomy([r \in Roots |-> IF r \in UnknownRoots THEN "blocked"
                                                                  ELSE @[2][r]])],
           <<Marker("legacy", "decision", "none", 0, <<"base-ledger">>)>>) : v \in {Version} \ {0}}

IntendedMigration ==
  {LET manifest == ManifestOf(3, InitialAuthorities) IN
   Request([tree EXCEPT !["manifest"] = manifest, !["design"] = tree["addendum"]],
           <<Marker("migration", "migration", "none", 0,
                    <<tree["manifest"], tree["checker"], manifest>>)>>) : v \in {Version} \cap {2}}

\* The authority of a campaign whose baseline is the present tree: the evidence is
\* added, the four derived files are projected, and the audit is projected when its
\* results stay and replaced when the campaign changes them.
Audited(audit, c) ==
  Audit([r \in Roots |-> IF r \in Reviewed[c].promotion THEN "passed" ELSE audit[2][r]], c)

OutputOf(operation, base, head, projection) ==
  [operation |-> operation, base |-> base, head |-> head, projection |-> projection]

BundleFor(c, t) ==
  Bundle(Reviewed[c].paths, [r \in Reviewed[c].paths |-> t["taxonomy"][2][r]],
         Reviewed[c].disposition, Reviewed[c].promotion)

AuthorityFor(c, t) ==
  LET bundle == BundleFor(c, t)
      projected == [p \in DerivedProjections |->
                      OutputOf("project", t[p], Absent, ProjectionOf(p, bundle[2]))]
  IN [code |-> c, issue |-> IssueOf[c], state |-> "pending",
      source |-> [paths |-> Reviewed[c].paths, taxonomy |-> t["taxonomy"]],
      destinations |-> Destinations(bundle[2]),
      evidence |-> [p \in {Evidence[c]} |-> bundle],
      outputs |-> [p \in DerivedProjections \cup {Evidence[c], "audit"} |->
        CASE p = Evidence[c] -> OutputOf("add-exact", Absent, bundle, Absent)
          [] p = "audit" -> IF Audited(t[p], c)[2] = t[p][2]
                            THEN OutputOf("project", t[p], Absent, <<"projection", p>>)
                            ELSE OutputOf("replace-exact", t[p], Audited(t[p], c), Absent)
          [] OTHER -> projected[p]]]

With(authorities, record) ==
  [c \in DOMAIN authorities \cup {record.code} |->
     IF c = record.code THEN record ELSE authorities[c]]

IntendedPreparation ==
  {LET record == AuthorityFor(c, tree) IN
   Request([tree EXCEPT !["manifest"] = ManifestOf(3, With(Authorities, record))],
           <<Marker("prepare", "prepare", c, record.issue, <<tree["manifest"], record>>)>>) :
     c \in {d \in DOMAIN Reviewed : Version = 3} \ DOMAIN Authorities}

\* The head of a consumption: every output as the reviewed evidence derives it.
Consumed(record) ==
  LET bundle == record.evidence[Evidence[record.code]]
      subset == tree["subset"][2] \cup bundle[2].promotion
  IN [tree EXCEPT
        !["manifest"] = ManifestOf(3, With(Authorities, [record EXCEPT !.state = "applied"])),
        ![Evidence[record.code]] = bundle,
        !["taxonomy"] = Taxonomy([r \in Roots |-> IF r \in bundle[2].paths THEN bundle[2].disposition[r]
                                                  ELSE @[2][r]]),
        !["audit"] = Audited(@, record.code),
        !["subset"] = Subset(subset),
        !["report"] = Report(subset, subset),
        !["conformance"] = Conformance(@[2], subset, subset)]

Consumption(record) ==
  Request(Consumed(record), <<Marker("consume", "none", record.code, record.issue,
                                     ConsumptionPins(record))>>)

Pending == {c \in DOMAIN Authorities : Authorities[c].state = "pending"}
IntendedConsumption == {Consumption(Authorities[c]) : c \in Pending}

\* A repair takes the present tree for the base of the pending record's outputs.
Repaired(record) ==
  LET now == AuthorityFor(record.code, tree)
  IN [record EXCEPT !.outputs = now.outputs, !.evidence = now.evidence]

IntendedRepair ==
  {LET from == Authorities[c]
       to == Repaired(from)
       manifest == ManifestOf(3, With(Authorities, to))
       pin == [base |-> commit, code |-> c, from |-> from, to |-> to]
   IN Request([tree EXCEPT !["manifest"] = manifest, !["testing"] = <<"text", "repaired">>,
                           !["repairDocument"] = <<"text", "repair">>,
                           !["checker"] = <<"checker", Repairs(tree) \cup {pin}>>],
              <<Marker("repair", "none", c, from.issue, <<tree["manifest"], from, manifest, to>>)>>) :
     c \in {d \in Pending : tree["repairDocument"] = Absent /\ Repaired(Authorities[d]) # Authorities[d]}}

IntendedWork == {Request([tree EXCEPT !["source"] = Stray], <<>>)}

(***************************************************************************)
(* One deviation of a pull request from what its author intended: a patch,   *)
(* new bytes for a path or two of its head, or another body.                 *)
(***************************************************************************)
Deviations(pr) ==
  {p :> b : p \in Paths, b \in {Absent, Stray}}
  \cup {p :> pr.tree[p] : p \in Paths}
  \cup {p :> pr.tree["source"] @@ "source" :> b : p \in Paths \ {"source"}, b \in {Absent, Stray}}

NearbyRecords(record) ==
  {[record EXCEPT !.state = "pending"], [record EXCEPT !.state = "applied"],
   [record EXCEPT !.issue = 0], [record EXCEPT !.destinations = {}]}

\* Manifests next to the intended one: a record lost, changed, or another one added.
NearbyManifests(pr) ==
  IF Version = 2 THEN {"manifest" :> ManifestOf(3, <<>>)}
  ELSE IF Version # 3 THEN {}
  ELSE LET a == Manifest(pr.head).authorities IN
       {"manifest" :> ManifestOf(3, b) :
          b \in {[d \in DOMAIN a \ {c} |-> a[d]] : c \in DOMAIN a}
                \cup UNION {{With(a, record) : record \in NearbyRecords(a[c])} : c \in DOMAIN a}
                \cup {With(a, AuthorityFor(c, tree)) : c \in DOMAIN Reviewed \ DOMAIN a}}

OtherBodies(pr) ==
  {<<>>, pr.body \o pr.body}
  \cup (IF pr.body = <<>> THEN {}
        ELSE {[pr.body EXCEPT ![1].base = @ + 1], [pr.body EXCEPT ![1].pins = <<>>],
              [pr.body EXCEPT ![1].issue = @ + 1]}
             \cup {[pr.body EXCEPT ![1].code = c] : c \in Codes})

\* Generated files that another campaign's, or an unfinished, run would leave.
Misgenerated(pr) ==
  IF pr.body = <<>> \/ pr.body[1].kind \notin {"consume", "legacy"} THEN {}
  ELSE LET wrong == IF pr.body[1].kind = "consume" THEN Roots ELSE Misjudged
           head == pr.head
           stale == "report" :> [head["report"] EXCEPT ![2] = tree["report"][2]]
       IN {"taxonomy" :> [head["taxonomy"] EXCEPT ![2][r] = "blocked"] : r \in wrong}
          \cup {"audit" :> [head["audit"] EXCEPT ![2][r] = "failed"] : r \in wrong}
          \cup {"subset" :> [head["subset"] EXCEPT ![2] = @ \cup {r}] : r \in wrong}
          \cup {"report" :> [head["report"] EXCEPT ![2] = {}], stale,
                "conformance" :> [head["conformance"] EXCEPT ![3] = {}],
                "conformance" :> [head["conformance"] EXCEPT ![4] = tree["subset"][2]],
                stale @@ "conformance" :> [head["conformance"] EXCEPT ![3] = tree["report"][2]]}

Patches(pr) == {<<>>} \cup Deviations(pr) \cup Misgenerated(pr) \cup NearbyManifests(pr)
Around(pr) ==
  {<<patch, pr.body>> : patch \in Patches(pr)} \cup {<<<<>>, body>> : body \in OtherBodies(pr)}
Altered(pr, change) ==
  [pr EXCEPT !.head = [p \in Paths |-> IF p \in DOMAIN change[1] THEN change[1][p] ELSE @[p]],
             !.body = change[2]]

(***************************************************************************)
(* The guard job: main is still the base the event named, and the checker of *)
(* that base passes the range.                                              *)
(***************************************************************************)
BaseWasLive(pr) == pr.base <= commit       \* mutant: the live main is not attested
BaseIsLive(pr) == pr.base = commit
Guard(pr) == BaseIsLive(pr) /\ CheckRange("pull_request_target", pr)

\* The ranges of the foundation's profiles, and before version 3 those without a
\* marker: of generated files their check reads the names only.
ChecksNamesOnly(pr) == IF pr.body = <<>> THEN Version # 3 ELSE pr.body[1].kind = "legacy"
Unread(pr, intended) ==
  {<<p, AppliedCampaigns>> :
     p \in {q \in Generated : /\ ChecksNamesOnly(pr) /\ pr.head[q] # tree[q]
                              /\ \A other \in intended : pr.head[q] # other.head[q]}}

\* The files whose bytes no intention gives them, or that are not of their kind.
Written == {<<"text", w>> : w \in {"guarded", "amended", "repaired", "repair"}}
IsIntended(p, content) ==
  \/ content \in {InitialTree[p], InitialTree["addendum"]} \cup Written
  \/ p = "retired" /\ content = Absent
  \/ \E c \in DOMAIN Authorities : /\ p \in DOMAIN Authorities[c].evidence
                                  /\ content = Authorities[c].evidence[p]
Strays(t) == {p \in Paths \ (GateOwners \cup Generated) : ~IsIntended(p, t[p])}
               \cup {p \in Generated : ~Holds(t[p], p)}

GoesOn ==
  /\ commit < MaxCommits /\ Cardinality(Strays(tree)) <= MaxStrays
  /\ unread # {} => commit < MaxUnread
Bounded == GoesOn /\ \A pr \in waiting : commit - pr.base < MaxLag

Advance(head) ==
  /\ head # tree
  /\ commit' = commit + 1
  /\ tree' = head

Merge(intended) ==
  /\ Bounded
  /\ \E intent \in intended : \E change \in Around(intent) :
       LET pr == Altered(intent, change) IN
       Guard(pr) /\ Advance(pr.head) /\ unread' = unread \cup Unread(pr, intended)
  /\ UNCHANGED waiting

Found == Merge(IntendedFoundation)
Maintain == Merge(IntendedMaintenance)
Decide == Merge(IntendedDecision)
Migrate == Merge(IntendedMigration)
Prepare == Merge(IntendedPreparation)
Consume == Merge(IntendedConsumption)
Work == Merge(IntendedWork)

\* A repair is merged on the ordinary check alone.
Repair ==
  /\ Bounded
  /\ \E intent \in IntendedRepair : \E change \in Around(intent) :
       LET pr == Altered(intent, change) IN
       pr.body # <<>> /\ CheckRange("pull_request", pr) /\ Advance(pr.head)
  /\ UNCHANGED <<waiting, unread>>

\* Opening a pull request that is checked later.  Work may touch a file that is
\* nobody's yet.
Open ==
  /\ Bounded /\ waiting = {}
  /\ \E pr \in IntendedPreparation \cup IntendedConsumption
               \cup {[w EXCEPT !.head[Notes[c]] = Stray] : w \in IntendedWork, c \in Codes} :
       waiting' = {pr}
  /\ UNCHANGED <<commit, tree, unread>>

\* git merges what HEAD changed since its base into main, and authorities one by one.
MergedAuthorities(pr) ==
  LET a == Manifest(pr.head).authorities
      b == Manifest(pr.tree).authorities
      m == Authorities
      Changed == {c \in DOMAIN a : c \notin DOMAIN b \/ a[c] # b[c]}
  IN [c \in DOMAIN m \cup Changed |-> IF c \in Changed THEN a[c] ELSE m[c]]

Merged(pr) ==
  [p \in Paths |-> IF pr.head[p] = pr.tree[p] THEN tree[p]
                   ELSE IF p = "manifest" /\ Version = 3 THEN ManifestOf(3, MergedAuthorities(pr))
                   ELSE pr.head[p]]

NoConflict(pr) ==
  \A p \in Paths : \/ pr.head[p] = pr.tree[p] \/ tree[p] \in {pr.tree[p], pr.head[p]}
                   \/ p = "manifest" /\ Version = 3

MergeWaiting ==
  /\ commit < MaxCommits
  /\ \E pr \in {p \in waiting : Guard(p) /\ NoConflict(p)} : Advance(Merged(pr))
  /\ waiting' = {}
  /\ UNCHANGED unread

\* The guard refused it: its author closes it.
Close ==
  /\ waiting # {} /\ GoesOn
  /\ {pr \in waiting : Guard(pr)} = {}
  /\ waiting' = {}
  /\ UNCHANGED <<commit, tree, unread>>

Init ==
  /\ commit = 0
  /\ tree = InitialTree
  /\ waiting = {} /\ unread = {}

Next ==
  \/ Found \/ Maintain \/ Decide \/ Migrate \/ Prepare \/ Consume \/ Work
  \/ Repair \/ Open \/ MergeWaiting \/ Close

Spec == Init /\ [][Next]_vars

(***************************************************************************)
(* Properties.                                                             *)
(***************************************************************************)
Changed(p) == tree'[p] # tree[p]
AppliedNow ==
  {c \in Pending : c \in DOMAIN Authorities' /\ Authorities'[c].state = "applied"}
CorrectedNow ==
  {c \in Pending : /\ c \in DOMAIN Authorities' /\ Authorities'[c].state = "pending"
                   /\ Authorities'[c] # Authorities[c]}

Owners(p) ==
  \/ \E c \in AppliedNow :
       /\ p \in DOMAIN Authorities[c].outputs
       /\ Authorities[c].outputs[p].base = tree[p]
       /\ Authorities[c].outputs[p].head \in {Absent, tree'[p]}
  \/ p \in DecisionPaths /\ Changed("fragment") /\ ~Changed("manifest")
  \/ p = "checker" /\ CorrectedNow # {}

\* Once the ledger is at version 3, a file it owns, or one in the namespace of the
\* authorities that act (of every authority when none does), changes on main only when
\* an authority that was pending before names it as an output and is applied by the
\* same merge, starting from the very bytes it pins; or by the one decision that
\* completes the fragment; the checker changes only together with the pending record
\* it corrects (validateRoadmapProtectedOutputs, provenanceOwnedRange, the guard's base).
LedgerGoverns ==
  [][Version = 3 =>
       LET acting == IF AppliedNow = {} THEN DOMAIN Authorities ELSE AppliedNow
           closed == OwnedPaths(Manifest(tree)) \cup UNION {Namespace(Authorities[c]) : c \in acting}
       IN \A p \in closed \ {"manifest"} : Changed(p) => Owners(p)]_vars

\* No merge, of a request however stale or altered, loses or rewrites an authority:
\* the ledger never leaves its version, at most one record changes at a time, an
\* applied one never does, and a pending one only becomes applied or is corrected
\* with its issue, roots and destinations kept (checkRange's authority comparisons).
RecordsAreKept ==
  [][Version = 3 =>
       /\ Version' = 3
       /\ DOMAIN Authorities \subseteq DOMAIN Authorities'
       /\ Cardinality({c \in DOMAIN Authorities' :
                         c \notin DOMAIN Authorities \/ Authorities'[c] # Authorities[c]}) <= 1
       /\ \A c \in DOMAIN Authorities :
            LET a == Authorities[c]
                b == Authorities'[c]
            IN b # a => /\ a.state = "pending"
                        /\ [b EXCEPT !.state = a.state, !.outputs = a.outputs, !.evidence = a.evidence] = a
                        /\ b.state = "applied" => b = [a EXCEPT !.state = "applied"]]_vars

\* The selected subset is exactly what main began with and what the applied campaigns
\* promote; their evidence is on main with the bytes reviewed, every promoted root
\* passed the audit and is classified as selected, and the report and the conformance
\* page were generated from that subset (the projections of validateProtectedOutputBytes).
\* Excepted is what main took unread: a decision may bring any report, audit, taxonomy
\* and conformance page, a foundation or maintenance any conformance page, and work on a
\* base of version 2 any subset; no range check reads them (validateRangeContent).  What
\* an audit or a taxonomy says of the campaigns applied since then holds all the same.
Read(files) == \A u \in unread : u[1] \notin files
ReadSince(file, c) == \A u \in unread : u[1] = file => c \notin u[2]

SelectionIsTheLedger ==
  LET Promotion(c) == BundleOf(Authorities[c]).promotion
      subset == InitialTree["subset"][2] \cup UNION {Promotion(c) : c \in AppliedCampaigns}
  IN Version = 3 =>
       /\ Read({"subset"}) => tree["subset"] = Subset(subset)
       /\ \A c \in AppliedCampaigns : EvidenceMatches(Authorities[c], tree)
       /\ \A c \in AppliedCampaigns : \A r \in Promotion(c) :
            /\ ReadSince("audit", c) => tree["audit"][2][r] = "passed"
            /\ ReadSince("taxonomy", c) => tree["taxonomy"][2][r] = "selected-passing"
       /\ Read({"subset", "report"}) => tree["report"] = Report(subset, subset)
       /\ Read({"subset", "report", "conformance"}) => SubSeq(tree["conformance"], 3, 4) = <<subset, subset>>

\* The checks do not contradict one another: a pending authority whose outputs still
\* are what main holds can be applied, by the request that regenerates its outputs
\* (the order of validateConsumptionRange, which must admit what its parts demand).
\* A report or a subset taken unread can stand in the way: the report is projected from
\* the records of BASE; and so can a file that does not parse.
IsCurrent(record) ==
  LET now == AuthorityFor(record.code, tree)
  IN [record EXCEPT !.source.taxonomy = now.source.taxonomy] = now
     /\ (record.outputs["audit"].operation = "project" => record.source = now.source)

CurrentAuthoritiesAreUsable ==
  (/\ Read({"subset", "report"})
   /\ \A p \in Generated : Holds(tree[p], p)) =>
    \A c \in Pending :
      IsCurrent(Authorities[c]) => CheckRange("pull_request_target", Consumption(Authorities[c]))

\* Main holds what its ledger says, but for what it took unread, and the ledger can be
\* carried on from there.
MainIsTheLedger == SelectionIsTheLedger /\ CurrentAuthoritiesAreUsable
\* Whatever is merged, the ledger loses nothing and answers for every change to its files.
LedgerIsAuthority == LedgerGoverns /\ RecordsAreKept
=============================================================================
