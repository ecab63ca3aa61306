------------------------- MODULE MCRoadmapAuthority -------------------------
(***************************************************************************)
(* Small instances of RoadmapAuthority: two campaigns over disjoint roots    *)
(* and one applied before the ledger existed.                               *)
(***************************************************************************)
EXTENDS RoadmapAuthority

MCCodes == {"P0", "H0", "M1"}
MCEvidence == [c \in MCCodes |-> "evidence-" \o c]
MCNotes == [c \in MCCodes |-> "notes-" \o c]
MCIssueOf == [c \in MCCodes |-> CASE c = "P0" -> 77 [] c = "H0" -> 76 [] c = "M1" -> 80]

\* H0 selects a root that passed already; M1 makes one pass and leaves another blocked.
MCReviewed ==
  [c \in {"H0", "M1"} |->
     IF c = "H0" THEN [paths |-> {"h1"}, promotion |-> {"h1"},
                       disposition |-> [r \in {"h1"} |-> "selected-passing"]]
     ELSE [paths |-> {"m1", "m2"}, promotion |-> {"m1"},
           disposition |-> [r \in {"m1", "m2"} |-> IF r = "m1" THEN "selected-passing" ELSE "blocked"]]]

MCPaths == {"manifest", "checker", "fragment", "conformance", "report", "audit", "taxonomy",
            "subset", "addendum", "design", "testing", "repairDocument", "retired", "selection",
            "source"} \cup {"evidence-" \o c : c \in MCCodes} \cup {"notes-" \o c : c \in MCCodes}

MCInitialTree ==
  [p \in MCPaths |->
    CASE p = "taxonomy" ->
           <<"taxonomy", [r \in {"u1", "h1", "m1", "m2"} |->
              CASE r = "u1" -> "unknown" [] r = "h1" -> "audit-passing-unselected" [] OTHER -> "failing"]>>
      [] p = "audit" -> <<"audit", [r \in {"u1", "h1", "m1", "m2"} |->
                           IF r \in {"u1", "h1"} THEN "passed" ELSE "failed"], "plain">>
      [] p = "subset" -> <<"subset", {"u1"}>>
      [] p = "report" -> <<"report", {"u1"}, {"u1"}>>
      [] p = "conformance" -> <<"conformance", "first", {"u1"}, {"u1"}>>
      [] p \in {"addendum", "testing", "retired", "selection"} -> <<"text", "first">>
      [] p = "source" -> <<"text", "code">>
      [] OTHER -> <<"absent">>]

\* Main as the foundation leaves it, the base of the reviewed ledger.
FoundedTree == [MCInitialTree EXCEPT !["conformance"] = <<"conformance", "guarded", @[3], @[4]>>]

MCInitialAuthorities ==
  [c \in {"P0", "H0"} |->
     IF c = "H0" THEN AuthorityFor(c, FoundedTree)
     ELSE [code |-> c, issue |-> 77, state |-> "applied",
           source |-> [paths |-> {"u1"}, taxonomy |-> <<"text", "earlier">>],
           destinations |-> {"selected-passing"},
           evidence |-> <<>>,
           outputs |-> [p \in {"selection"} |->
             OutputOf("replace-exact", <<"text", "earlier">>, <<"text", "first">>, <<"absent">>)]]]

StrayBytes == <<"text", "stray">>
=============================================================================
