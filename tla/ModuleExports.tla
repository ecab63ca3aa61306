----------------------------- MODULE ModuleExports -----------------------------
(***************************************************************************)
(* What the modules of a graph import from one another: the entries of a    *)
(* record (runtime/module-record.js), the resolution of names through       *)
(* re-exports and stars (runtime/module-linker.js), the bindings that        *)
(* linking makes and evaluation fills (evaluator/modules.js), and the names  *)
(* of a namespace (runtime/module-namespace.js).                            *)
(*                                                                         *)
(* ModuleLinking has the order in which records are linked; here a link is  *)
(* one step, which no foreign code can interrupt.  An item names the module *)
(* that the loader found for its request.                                  *)
(***************************************************************************)
EXTENDS Naturals, FiniteSets, Sequences, SequencesExt, TLC

CONSTANTS Modules,
          Vocabularies,  \* the items each module may have, by the group of rules they are about
          MaxItems       \* bound: items of a graph

VARIABLES vocabulary,
          body,         \* ast.body of each module
          linked,       \* the modules with status "linked"
          environment,  \* the bindings of each record, by name; none before the link
          evaluated     \* the modules whose body has run

vars == <<vocabulary, body, linked, environment, evaluated>>

\* An item is [type |-> "import" or "export from", source, names], [type |-> "export all",
\* source], [type |-> "export list", names], or [type |-> "export", "export default" or
\* "statement", declaration].  `names` pairs the name in the other module, or the local
\* name, with the name given to it; a declaration is <<kind, name>>, its name "" when it
\* has none.
Items(m, type) == {i \in ToSet(body[m]) : i.type = type}
Requests(m) == {i.source : i \in UNION {Items(m, type) : type \in {"import", "export from", "export all"}}}

-----------------------------------------------------------------------------
(***************************************************************************)
(* The entries of a record.                                                *)
(***************************************************************************)
DefaultName == "*default*"
IsNamespace(entry) == entry.importName = "*"

\* extractImportEntries()
ImportEntries(m) ==
    UNION {{[source |-> i.source, importName |-> n[1], localName |-> n[2]] : n \in i.names} : i \in Items(m, "import")}
Imported(m, local) == {e \in ImportEntries(m) : e.localName = local /\ ~IsNamespace(e)}

\* defaultExportLocalName()
DefaultExportLocalName(declaration) ==
    IF declaration[1] \in {"function", "class"} /\ declaration[2] # "" THEN declaration[2] ELSE DefaultName

\* extractNamedExportEntries() and the constructor: what is exported under a name of the
\* module's own, a namespace import included, and what is imported and exported again.
ListedNames(m) == UNION {i.names : i \in Items(m, "export list")}
LocalExports(m) ==
    {[exportName |-> i.declaration[2], localName |-> i.declaration[2]] : i \in Items(m, "export")}
    \cup {[exportName |-> n[2], localName |-> n[1]] : n \in {l \in ListedNames(m) : Imported(m, l[1]) = {}}}
    \cup {[exportName |-> "default", localName |-> DefaultExportLocalName(i.declaration)] : i \in Items(m, "export default")}
IndirectExports(m) ==
    UNION {{[source |-> e.source, importName |-> e.importName, exportName |-> n[2]] : e \in Imported(m, n[1])} : n \in ListedNames(m)}
    \cup UNION {{[source |-> i.source, importName |-> n[1], exportName |-> n[2]] : n \in i.names} : i \in Items(m, "export from")}
StarExports(m) ==
    LET stars == SelectSeq(body[m], LAMBDA i : i.type = "export all")
    IN  [k \in DOMAIN stars |-> stars[k].source]

-----------------------------------------------------------------------------
(***************************************************************************)
(* resolveExport().  The worklist of the code is the recursion; the pairs   *)
(* it has entered are threaded through it, so the second set of the code,   *)
(* of pairs whose stars were followed, never decides anything.             *)
(***************************************************************************)
NotFound == <<"not-found">>
Ambiguous == <<"ambiguous">>
Resolved(m, binding) == <<"resolved", m, binding>>
NamespaceBinding == "*namespace*"

\* Two results of stars: the first one found, unless the other is another binding.
Combined(found, next) ==
    IF next = Ambiguous \/ (found # NotFound /\ next # NotFound /\ found # next) THEN Ambiguous
    ELSE IF found = NotFound THEN next ELSE found

\* The resolution of an exported name, and the pairs entered.
RECURSIVE Resolve(_, _, _), ResolveStars(_, _, _, _, _)
Resolve(m, name, entered) ==
    LET pairs == entered \cup {<<m, name>>}
        locals == {e \in LocalExports(m) : e.exportName = name}
        indirect == {e \in IndirectExports(m) : e.exportName = name}
    IN  IF <<m, name>> \in entered THEN <<NotFound, entered>>
        ELSE IF locals # {} THEN <<Resolved(m, (CHOOSE e \in locals : TRUE).localName), pairs>>
        ELSE IF indirect # {} THEN
            LET e == CHOOSE i \in indirect : TRUE
            IN  IF IsNamespace(e) THEN <<Resolved(e.source, NamespaceBinding), pairs>>
                ELSE Resolve(e.source, e.importName, pairs)
        ELSE IF name = "default" THEN <<NotFound, pairs>>
        ELSE ResolveStars(m, name, 1, NotFound, pairs)
ResolveStars(m, name, i, found, entered) ==
    IF i > Len(StarExports(m)) THEN <<found, entered>>
    ELSE LET child == Resolve(StarExports(m)[i], name, entered)
             both == Combined(found, child[1])
         IN  IF both = Ambiguous THEN <<Ambiguous, child[2]>> ELSE ResolveStars(m, name, i + 1, both, child[2])
ResolveExport(m, name) == Resolve(m, name, {})[1]
IsResolved(resolution) == resolution[1] = "resolved"

-----------------------------------------------------------------------------
(***************************************************************************)
(* Linking and evaluation.                                                 *)
(***************************************************************************)
\* moduleDeclarationItems(): statements, what is exported, and a default with a name.
Declarations(m) ==
    {i.declaration : i \in Items(m, "statement") \cup Items(m, "export")}
    \cup {d \in {i.declaration : i \in Items(m, "export default")} : d[1] \in {"function", "class"} /\ d[2] # ""}
\* anonymousDefaultDeclaration()
AnonymousDefault(m) ==
    {i.declaration : i \in {j \in Items(m, "export default") :
        \E e \in LocalExports(m) : e.exportName = "default" /\ e.localName = DefaultName}}
Of(declarations, kinds) == {d[2] : d \in {e \in declarations : e[1] \in kinds}}

Binding(kind, value) == [kind |-> kind, value |-> value]
Uninitialized == <<"uninitialized">>

\* moduleDeclarationInstantiation(): functions are there at once and variables undefined;
\* the others wait for their declaration, and a namespace for the end of the link.
\* An import is a binding of the module that it resolves to.
Instantiated(m) ==
    LET imports == ImportEntries(m)
        declarations == Declarations(m)
        Target(e) == ResolveExport(e.source, e.importName)
        Bind(names, binding) == [n \in names |-> binding]
        IsNamespaceBinding(e) == IsNamespace(e) \/ Target(e)[3] = NamespaceBinding
    IN  [n \in {e.localName : e \in {i \in imports : ~IsNamespaceBinding(i)}} |->
            LET t == Target(CHOOSE e \in imports : e.localName = n) IN Binding("import", t)]
        @@ Bind({e.localName : e \in {i \in imports : IsNamespaceBinding(i)}}, Binding("immutable", Uninitialized))
        @@ Bind(Of(declarations, {"function"}), Binding("mutable", <<"function">>))
        @@ Bind(Of(declarations, {"const"}), Binding("immutable", Uninitialized))
        @@ Bind(Of(declarations, {"let", "class"}), Binding("mutable", Uninitialized))
        @@ Bind(IF AnonymousDefault(m) = {} THEN {} ELSE {DefaultName},
                Binding("mutable", IF \E d \in AnonymousDefault(m) : d[1] = "function" THEN <<"function">> ELSE Uninitialized))
        @@ Bind(Of(declarations, {"var"}), Binding("mutable", <<"undefined">>))

\* validateLocalExportBindings() and validateIndirectExportEntries(), after all imports
\* have been resolved.
Links(m) ==
    LET Resolves(e) == IsNamespace(e) \/ IsResolved(ResolveExport(e.source, e.importName))
        bound == DOMAIN Instantiated(m)
    IN  /\ \A e \in ImportEntries(m) : Resolves(e)
        /\ \A e \in LocalExports(m) : e.localName \in bound
        /\ \A e \in IndirectExports(m) : Resolves(e)

\* exportedNames(): those of the module, and of what its stars lead to all but the default.
StarModules(m) ==
    LET Closed(S) == \A n \in S : ToSet(StarExports(n)) \subseteq S
    IN  {n \in Modules : \A S \in SUBSET Modules : m \in S /\ Closed(S) => n \in S}
OwnNames(m) == {e.exportName : e \in LocalExports(m) \cup IndirectExports(m)}
ExportedNames(m) == OwnNames(m) \cup (UNION {OwnNames(s) : s \in StarModules(m)} \ {"default"})

\* resolveNamespaceExports(): an ambiguous name is left out, one not found is an error.
NamespaceNames(m) == {n \in ExportedNames(m) : ResolveExport(m, n) # Ambiguous}
NamespaceFails(m) == \E n \in ExportedNames(m) : ResolveExport(m, n) = NotFound

\* initializeNamespaceImportBindings(), of one record.
NamespaceOf(e) == IF IsNamespace(e) THEN e.source ELSE ResolveExport(e.source, e.importName)[2]
WithNamespaces(m) ==
    LET made == Instantiated(m) IN
    [n \in DOMAIN made |->
        IF \E e \in ImportEntries(m) : e.localName = n /\ made[n].kind = "immutable"
        THEN Binding("immutable", <<"namespace", NamespaceOf(CHOOSE e \in ImportEntries(m) : e.localName = n)>>)
        ELSE made[n]]
Namespaces(m) ==
    LET values == {b.value : b \in Range(WithNamespaces(m))} IN {v[2] : v \in {w \in values : w[1] = "namespace"}}

\* The names whose declaration evaluateModuleItem() runs: a function's has nothing left to
\* do, a `var` that has no initializer neither.
RunsDeclaration(declaration) == declaration[1] \in {"let", "const", "class"}
\* evaluateDefaultExportDeclaration()
RunDefault(m) ==
    {IF d[1] = "class" /\ d[2] # "" THEN d[2] ELSE DefaultName :
        d \in {e \in {i.declaration : i \in Items(m, "export default")} : e[1] # "function"}}
Run(m) ==
    {i.declaration[2] : i \in {j \in Items(m, "statement") \cup Items(m, "export") : RunsDeclaration(j.declaration)}}
    \cup RunDefault(m)

-----------------------------------------------------------------------------
\* checkModuleDeclarationEarlyErrors(), as far as a source is written: no name is exported
\* twice, or declared twice but by `var`.
DeclaredBy(item) ==
    IF item.type = "import" THEN {<<"import", n[2]>> : n \in item.names}
    ELSE IF item.type \in {"export", "statement", "export default"} /\ item.declaration[2] # "" THEN {item.declaration}
    ELSE {}
ExportedBy(item) ==
    IF item.type \in {"export list", "export from"} THEN {n[2] : n \in item.names}
    ELSE IF item.type = "export" THEN {item.declaration[2]}
    ELSE IF item.type = "export default" THEN {"default"} ELSE {}
Parses(items) ==
    \A j, k \in DOMAIN items : j < k =>
        /\ \A d \in DeclaredBy(items[j]), e \in DeclaredBy(items[k]) : d[2] = e[2] => d[1] = "var" /\ e[1] = "var"
        /\ ExportedBy(items[j]) \cap ExportedBy(items[k]) = {}
\* The rule about the whole of it: what is listed has been declared.
ListedIsDeclared(m) ==
    \A n \in ListedNames(m) : \E i \in ToSet(body[m]) : \E d \in DeclaredBy(i) : d[2] = n[1]

Reached(root) ==
    LET Closed(S) == \A m \in S : Requests(m) \subseteq S
    IN  {n \in Modules : \A S \in SUBSET Modules : root \in S /\ Closed(S) => n \in S}

Init ==
    /\ vocabulary \in DOMAIN Vocabularies
    /\ body = [m \in Modules |-> <<>>]
    /\ linked = {} /\ environment = [m \in Modules |-> <<>>]
    /\ evaluated = {}

\* One more item of a source.
Write(m, item) ==
    /\ linked = {} /\ FoldFunction(LAMBDA b, n : Len(b) + n, 0, body) < MaxItems
    /\ item \notin ToSet(body[m]) /\ Parses(Append(body[m], item))
    /\ body' = [body EXCEPT ![m] = Append(@, item)]
    /\ UNCHANGED <<vocabulary, linked, environment, evaluated>>

\* linkModuleGraph(), of sources that are complete: all that the root reaches, or nothing.
LinkModuleGraph(root) ==
    LET reached == Reached(root) IN
    /\ root \notin linked
    /\ \A m \in reached : ListedIsDeclared(m) /\ Links(m)
    /\ ~ \E m \in reached : \E target \in Namespaces(m) : NamespaceFails(target)
    /\ linked' = linked \cup reached
    /\ environment' = [m \in Modules |-> IF m \in reached \ linked THEN WithNamespaces(m) ELSE environment[m]]
    /\ UNCHANGED <<vocabulary, body, evaluated>>

\* evaluateModuleItem(), of all items.
Evaluate(m) ==
    /\ m \in linked \ evaluated
    /\ environment' = [environment EXCEPT ![m] =
            [n \in DOMAIN @ |-> IF n \in Run(m) THEN [@[n] EXCEPT !.value = <<"value">>] ELSE @[n]]]
    /\ evaluated' = evaluated \cup {m}
    /\ UNCHANGED <<vocabulary, body, linked>>

Next ==
    \E m \in Modules :
        \/ \E item \in Vocabularies[vocabulary][m] : Write(m, item)
        \/ LinkModuleGraph(m)
        \/ Evaluate(m)

-----------------------------------------------------------------------------
\* What a name leads to in one step, and the bindings of its own that some way of
\* following re-exports and stars ends at.
LeadsTo(m, name) ==
    LET locals == {e \in LocalExports(m) : e.exportName = name}
        indirect == {e \in IndirectExports(m) : e.exportName = name}
    IN  IF locals # {} THEN {}
        ELSE IF indirect # {} THEN {<<e.source, e.importName>> : e \in indirect}
        ELSE IF name = "default" THEN {} ELSE {<<s, name>> : s \in ToSet(StarExports(m))}
RECURSIVE Following(_)
Following(pairs) ==
    LET more == pairs \cup UNION {LeadsTo(p[1], p[2]) : p \in pairs} IN IF more = pairs THEN pairs ELSE Following(more)
Bindings(m, name) ==
    UNION {{Resolved(p[1], e.localName) : e \in {l \in LocalExports(p[1]) : l.exportName = p[2]}} : p \in Following({<<m, name>>})}
NamesExported == UNION {OwnNames(m) : m \in Modules}

\* An import resolves when all ways of following re-exports and stars, around cycles too, end
\* at one binding, which is the one it gets, and is ambiguous when they end at several: the
\* pairs that branches share and the order of the stars decide nothing (resolveExport).
ResolutionIsExact ==
    linked = {} =>
      \A m \in Modules, n \in NamesExported :
        LET bindings == Bindings(m, n) IN
        ResolveExport(m, n) = IF bindings = {} THEN NotFound
                              ELSE IF Cardinality(bindings) = 1 THEN CHOOSE b \in bindings : TRUE ELSE Ambiguous

\* Once a graph is linked its namespaces cannot fail, and have the names that an import of
\* the name would resolve; an import is a binding of its own of a module that is linked,
\* one step away; and a body initializes what its link left uninitialized, each once.
LinkedNamesAreBound ==
    \A m \in linked :
        /\ NamespaceNames(m) = {n \in NamesExported : IsResolved(ResolveExport(m, n))}
        /\ ~NamespaceFails(m)
        /\ \A n \in DOMAIN environment[m] :
             environment[m][n].kind = "import" =>
               LET target == environment[m][n].value IN
               /\ target[2] \in linked /\ target[3] \in DOMAIN environment[target[2]]
               /\ environment[target[2]][target[3]].kind # "import"
        /\ {n \in DOMAIN environment[m] : environment[m][n].value = Uninitialized}
             = IF m \in evaluated THEN {} ELSE Run(m)
=============================================================================
