------------------------------ MODULE HostChains ------------------------------
(***************************************************************************)
(* Accounting of the host stack: the guards of Realms                      *)
(* (src/src/runtime/stack-guard.js) and the chains in which Agents on one  *)
(* synchronous path share a budget (src/src/runtime/agent.js).             *)
(*                                                                         *)
(* A chain exists while calls cross Realms, or generators are resumed, and *)
(* charges every frame of the Agents on its path, those from before it     *)
(* included.  `stack` is the host stack restricted to activations with     *)
(* something to undo; Unwind runs the `finally` of the innermost, whether  *)
(* it returns or an error passes through.                                  *)
(***************************************************************************)
EXTENDS Integers, FiniteSetsExt, SequencesExt

CONSTANTS
  Agents, Realms,
  NoRealm,          \* the caller is the host
  AgentOf,          \* the Agent that owns each Realm
  maxStackDepth,    \* of each Realm
  DEFAULT_MAX_STACK_DEPTH,
  MaxFrames         \* bound: activations when another is begun

ASSUME RealmAssumption == NoRealm \notin Realms /\ AgentOf \in [Realms -> Agents]
ASSUME LimitAssumption == /\ maxStackDepth \in [Realms -> Nat \ {0}]
                          /\ DEFAULT_MAX_STACK_DEPTH \in Nat \ {0}
                          /\ MaxFrames \in Nat

VARIABLES
  synchronous,  \* the books of the synchronous call chains
  generator,    \* the books of the generator host chains
  depth,        \* StackGuard.depth of each Realm
  stack,        \* activations, innermost last
  throwing      \* an error is on its way down the stack

vars == <<synchronous, generator, depth, stack, throwing>>

\* Books: the chains; the chain each Agent is on, or 0; and the chain each guard
\* has charged for each of its frames.
Chains    == 1..Cardinality(Agents)
Holds     == {"link", "resume", "reference"}   \* what keeps a chain alive
Infinity  == MaxFrames + 3                     \* more than any depth
NoChain   == [parent |-> 0, agents |-> {}, holds |-> [hold \in Holds |-> 0],
              depth |-> 0, maxDepth |-> Infinity]
NoBooks   == [chains |-> [id \in Chains |-> NoChain], chainOf |-> [a \in Agents |-> 0],
              frames |-> [r \in Realms |-> <<>>]]

RealmsOf(agents) == {r \in Realms : AgentOf[r] \in agents}
Unused(books)    == Min({id \in Chains : books.chains[id] = NoChain})

\* find...ChainRoot()
Root(books, id) ==
  LET up[i \in Chains] == IF books.chains[i].parent = 0 THEN i ELSE up[books.chains[i].parent]
  IN  up[id]
RootOf(books, a) == IF books.chainOf[a] = 0 THEN 0 ELSE Root(books, books.chainOf[a])
Members(books, id) == books.chains[id].agents
OverBudget(books, id) == books.chains[id].depth > books.chains[id].maxDepth

Attach(books, a, id) ==
  [books EXCEPT !.chainOf[a] = id, !.chains[id].agents = @ \cup {a}]

Limited(books, id, limit) == [books EXCEPT !.chains[id].maxDepth = Min({@, limit})]
Hold(books, id, hold)     == [books EXCEPT !.chains[id].holds[hold] = @ + 1]

Absorbed(root) == [NoChain EXCEPT !.parent = root]

\* merge...Chains() of two different roots.
Merge(books, left, right) ==
  LET leftStays == Cardinality(Members(books, left)) >= Cardinality(Members(books, right))
      root  == IF leftStays THEN left ELSE right
      child == IF leftStays THEN right ELSE left
      old   == books.chains[child]
      own   == books.chains[root]
  IN [books EXCEPT
        !.chains[root] = [parent   |-> 0,
                          agents   |-> own.agents \cup old.agents,
                          holds    |-> [hold \in Holds |-> own.holds[hold] + old.holds[hold]],
                          depth    |-> own.depth + old.depth,
                          maxDepth |-> Min({own.maxDepth, old.maxDepth})],
        !.chains[child] = Absorbed(root),
        !.chainOf = [a \in Agents |-> IF a \in old.agents THEN root ELSE @[a]]]

Join(books, a, id) ==
  LET own == RootOf(books, a) IN
  IF own = 0 THEN Attach(books, a, id) ELSE IF own = id THEN books ELSE Merge(books, id, own)

\* What a Realm allows a chain; a synchronous one never gets less than the default.
Limits     == maxStackDepth
CallLimits == [r \in Realms |-> Max({maxStackDepth[r], DEFAULT_MAX_STACK_DEPTH})]

\* Mistake: frames that are charged already are charged again.
AllFrames(books, r) == depth[r]
Uncharged(books, r) == depth[r] - Len(books.frames[r])

\* Mistake: the budget is not that of the Realms adopted.
TightenedNever(maxDepth, limits, active) == maxDepth
Tightened(maxDepth, limits, active) == Min({maxDepth} \cup {limits[r] : r \in active})

\* adopt...(): the frames that the guards of these Agents have not charged yet.
Adopt(books, id, agents, limits) ==
  LET active == {r \in RealmsOf(agents) : depth[r] > 0} IN
  [books EXCEPT
     !.chains[id].depth    = @ + MapThenSumSet(LAMBDA r : Uncharged(books, r), active),
     !.chains[id].maxDepth = Tightened(@, limits, active),
     !.frames = [r \in Realms |->
        IF r \in active THEN @[r] \o [i \in 1..Uncharged(books, r) |-> id] ELSE @[r]]]

\* release...Chain(): a chain nothing holds gives up the frames that are still
\* active, and is gone when it has charged no others.
Release(books, id) ==
  LET chain   == books.chains[id]
      Mine(r) == SelectSeq(books.frames[r], LAMBDA frame : Root(books, frame) = id)
      Rest(r) == SelectSeq(books.frames[r], LAMBDA frame : Root(books, frame) # id)
      holders == RealmsOf(chain.agents)
      left    == chain.depth - MapThenSumSet(LAMBDA r : Len(Mine(r)), holders)
      freed   == [books EXCEPT
                    !.chains[id].depth = left,
                    !.frames = [r \in Realms |-> IF r \in holders THEN Rest(r) ELSE @[r]]]
  IN IF \E hold \in Holds : chain.holds[hold] # 0 THEN books
     ELSE IF left # 0 THEN freed
     ELSE [freed EXCEPT
             !.chains  = [i \in Chains |-> IF Root(books, i) = id THEN NoChain ELSE @[i]],
             !.chainOf = [a \in Agents |-> IF RootOf(books, a) = id THEN 0 ELSE @[a]]]

\* Mistake: the chain that was entered is released, not the one it is now part of.
UnholdEntered(books, id, hold) ==
  Release([books EXCEPT !.chains[id].holds[hold] = @ - 1], id)
Unhold(books, id, hold) ==
  LET root == Root(books, id) IN
  Release([books EXCEPT !.chains[root].holds[hold] = @ - 1], root)

\* One more frame on the chain, or one less.
Charge(books, id) == [books EXCEPT !.chains[id].depth = @ + 1]
Discharge(books, id) ==
  LET root == Root(books, id) IN
  Release([books EXCEPT !.chains[root].depth = @ - 1], root)

\* StackGuard.exit() for one kind of chain.
DischargeLast(books, r) ==
  IF books.frames[r] = <<>> THEN books
  ELSE Discharge([books EXCEPT !.frames[r] = Front(@)], Last(books.frames[r]))

-----------------------------------------------------------------------------
\* enterSynchronousAgentLink(): the Agents of caller and callee on one chain.
LinkCall(callee, caller) ==
  LET own   == RootOf(synchronous, callee)
      other == RootOf(synchronous, caller)
      id    == IF own # 0 THEN own ELSE IF other # 0 THEN other ELSE Unused(synchronous)
      books == Join(Join(synchronous, callee, id), caller, id)
      root  == RootOf(books, callee)
  IN Hold(Adopt(books, root, Members(books, root), CallLimits), root, "link")

\* linkGeneratorHostChain(): when one of the Agents is on a chain, both are.
LinkGenerator(books, x, y) ==
  LET own == RootOf(books, x)
      other == RootOf(books, y)
      id == IF own # 0 THEN own ELSE other
      joined == Join(Join(books, x, id), y, id)
      root == RootOf(joined, x)
      comes == IF own = 0 THEN {x} ELSE IF other = 0 THEN {y} ELSE Members(joined, root)
  IN IF own = other THEN books ELSE Adopt(joined, root, comes, Limits)

\* It throws when that leaves too much on the chain.
LinkOverruns(books, x, y) ==
  LET linked == LinkGenerator(books, x, y) IN
  linked # books /\ OverBudget(linked, RootOf(linked, x))

\* ensureGeneratorHostChain(): a chain for `a` and whoever is on its call path.
EnsureGenerator(a, limit) ==
  LET id   == IF RootOf(generator, a) = 0 THEN Unused(generator) ELSE RootOf(generator, a)
      call == RootOf(synchronous, a)
      path == IF call = 0 THEN {} ELSE Members(synchronous, call)
      JoinPath(member, books) == Join(books, member, RootOf(books, a))
      joined == FoldSet(JoinPath, Join(generator, a, id), path)
      root   == RootOf(joined, a)
  IN Adopt(Limited(joined, root, limit), root, Members(joined, root), Limits)

-----------------------------------------------------------------------------
Frame == [kind: {"guard"} \cup Holds \cup {"iterate"}, realm: Realms,
          caller: Realms \cup {NoRealm}, chain: {0} \cup Chains, entered: BOOLEAN]
\* `entered`: the guarded part of a call or resume has begun, a reference has
\* been resumed, a guard is that of a generator's method, which does nothing else.
NewFrame(kind, r, caller, chain) ==
  [kind |-> kind, realm |-> r, caller |-> caller, chain |-> chain, entered |-> FALSE]

Top == Last(stack)
Innermost(kind) == stack # <<>> /\ Top.kind = kind
Push(frame) == stack' = Append(stack, frame)
EnterTop    == Append(Front(stack), [Top EXCEPT !.entered = TRUE])
Runs        == ~throwing
RunsCode    == Runs /\ Innermost("guard") /\ ~Top.entered
HasRoom     == Len(stack) < MaxFrames
Agent       == AgentOf[Top.realm]

Init ==
  /\ synchronous = NoBooks /\ generator = NoBooks
  /\ depth = [r \in Realms |-> 0]
  /\ stack = <<>> /\ throwing = FALSE

\* callFunction() up to the entry of the callee's guard: by the host, by code
\* of a Realm, or by the iterator protocol on its behalf.
Call(r, caller) ==
  /\ Runs /\ HasRoom
  /\ \/ caller = NoRealm /\ (stack = <<>> \/ RunsCode)
     \/ (RunsCode \/ Innermost("iterate")) /\ caller = Top.realm
  /\ IF caller \in {NoRealm, r}
       THEN /\ Push(NewFrame("link", r, caller, 0))
            /\ UNCHANGED <<synchronous, generator, throwing>>
       ELSE LET callee == AgentOf[r]
                books  == LinkCall(callee, AgentOf[caller])
            IN /\ synchronous' = books
               /\ generator' = LinkGenerator(generator, AgentOf[caller], callee)
               /\ Push(NewFrame("link", r, caller, RootOf(books, callee)))
               /\ throwing' = LinkOverruns(generator, AgentOf[caller], callee)
  /\ UNCHANGED depth

\* linkValueToGeneratorHostChain(): arguments, results and operands bring the
\* Agent that owns them onto the chain.
LinkValue(a) ==
  LET activeAgent == IF Top.kind = "link" /\ Top.caller # NoRealm THEN AgentOf[Top.caller] ELSE Agent IN
  /\ Runs /\ stack # <<>>
  /\ RunsCode \/ Top.kind = "link" \/ (Top.kind = "resume" /\ ~Top.entered)
  /\ RootOf(generator, activeAgent) # RootOf(generator, a)
  /\ generator' = LinkGenerator(generator, activeAgent, a)
  /\ throwing' = LinkOverruns(generator, activeAgent, a)
  /\ UNCHANGED <<synchronous, depth, stack>>

\* StackGuard.enter(), by an activation or by a node of the evaluator.
EnterGuard ==
  LET r == Top.realm
      call   == RootOf(synchronous, Agent)
      resume == RootOf(generator, Agent)
      calls   == IF call = 0 THEN synchronous ELSE Limited(synchronous, call, CallLimits[r])
      resumes == IF resume = 0 THEN generator ELSE Limited(generator, resume, Limits[r])
      Full(books, id) == id # 0 /\ books.chains[id].depth >= books.chains[id].maxDepth
      ChargeFor(books, id) ==
        IF id = 0 THEN books ELSE [Charge(books, id) EXCEPT !.frames[r] = Append(@, id)]
      Refuse == throwing' = TRUE /\ UNCHANGED <<depth, stack>>
  IN
  /\ Runs /\ stack # <<>>
  /\ \/ RunsCode /\ HasRoom
     \/ Top.kind \in {"link", "resume"} /\ ~Top.entered
  /\ \/ /\ depth[r] >= maxStackDepth[r]
        /\ Refuse /\ UNCHANGED <<synchronous, generator>>
     \/ /\ depth[r] < maxStackDepth[r] /\ Full(calls, call)
        /\ Refuse /\ synchronous' = calls /\ UNCHANGED generator
     \/ /\ depth[r] < maxStackDepth[r] /\ ~Full(calls, call) /\ Full(resumes, resume)
        /\ Refuse /\ generator' = resumes
        /\ synchronous' = IF call = 0 THEN calls ELSE Discharge(Charge(calls, call), call)
     \/ /\ depth[r] < maxStackDepth[r] /\ ~Full(calls, call) /\ ~Full(resumes, resume)
        /\ depth' = [depth EXCEPT ![r] = @ + 1]
        /\ synchronous' = ChargeFor(calls, call)
        /\ generator' = ChargeFor(resumes, resume)
        /\ stack' = Append(IF Top.kind = "guard" THEN stack ELSE EnterTop, NewFrame("guard", r, NoRealm, 0))
        /\ UNCHANGED throwing

\* iteratorNextWithMethod() charges a frame of its own, which no guard knows of,
\* when a chain is active.
Iterate ==
  LET id == RootOf(generator, Agent)
      books == Limited(generator, id, Limits[Top.realm])
  IN
  /\ RunsCode /\ HasRoom /\ id # 0
  /\ IF books.chains[id].depth >= books.chains[id].maxDepth
       THEN generator' = books /\ throwing' = TRUE /\ UNCHANGED stack
       ELSE /\ generator' = Charge(books, id)
            /\ Push(NewFrame("iterate", Top.realm, NoRealm, id))
            /\ UNCHANGED throwing
  /\ UNCHANGED <<synchronous, depth>>

\* resumeGenerator() in a native method: next, return or throw of a generator
\* of Realm r.
Refer(r) ==
  LET native == stack[Len(stack) - 1]
      limit  == Min({Limits[Top.realm]} \cup (IF native.caller = NoRealm THEN {} ELSE {Limits[native.caller]}))
      books  == EnsureGenerator(Agent, limit)
      root   == RootOf(books, Agent)
      held   == Hold(books, root, "reference")
  IN
  /\ RunsCode /\ HasRoom /\ native.kind = "link"
  /\ IF OverBudget(books, root)
       THEN generator' = books /\ throwing' = TRUE /\ stack' = EnterTop
       ELSE /\ generator' = LinkGenerator(held, Agent, AgentOf[r])
            /\ throwing' = LinkOverruns(held, Agent, AgentOf[r])
            /\ stack' = Append(EnterTop, NewFrame("reference", r, Top.realm, root))
  /\ UNCHANGED <<synchronous, depth>>

\* GeneratorObject.resume() of a generator that is suspended.
Resume ==
  LET books == EnsureGenerator(Agent, Limits[Top.realm])
      root  == RootOf(books, Agent)
  IN
  /\ Runs /\ Innermost("reference") /\ ~Top.entered
  /\ IF OverBudget(books, root)
       THEN generator' = books /\ throwing' = TRUE /\ UNCHANGED stack
       ELSE /\ generator' = Hold(books, root, "resume")
            /\ stack' = Append(EnterTop, NewFrame("resume", Top.realm, NoRealm, root))
            /\ UNCHANGED throwing
  /\ UNCHANGED <<synchronous, depth>>

\* The `finally` of the innermost activation.
Unwind ==
  /\ stack # <<>>
  /\ throwing \/ Top.entered \/ Top.kind \in {"guard", "iterate", "reference"}
  /\ stack' = Front(stack)
  /\ depth' = IF Top.kind = "guard" THEN [depth EXCEPT ![Top.realm] = @ - 1] ELSE depth
  /\ synchronous' =
       CASE Top.kind = "guard" -> DischargeLast(synchronous, Top.realm)
         [] Top.kind = "link" /\ Top.chain # 0 -> Unhold(synchronous, Top.chain, "link")
         [] OTHER -> synchronous
  /\ generator' =
       CASE Top.kind = "guard" -> DischargeLast(generator, Top.realm)
         [] Top.kind = "iterate" -> Discharge(generator, Top.chain)
         [] Top.kind \in {"reference", "resume"} -> Unhold(generator, Top.chain, Top.kind)
         [] OTHER -> generator
  /\ UNCHANGED throwing

\* Code within a guarded activation, or the host, catches the error.
Catch ==
  /\ throwing /\ (stack = <<>> \/ (Innermost("guard") /\ ~Top.entered))
  /\ throwing' = FALSE
  /\ UNCHANGED <<synchronous, generator, depth, stack>>

Next ==
  \/ \E r \in Realms : Refer(r) \/ \E caller \in Realms \cup {NoRealm} : Call(r, caller)
  \/ \E a \in Agents : LinkValue(a)
  \/ EnterGuard \/ Iterate \/ Resume \/ Unwind \/ Catch

Spec == Init /\ [][Next]_vars

-----------------------------------------------------------------------------
Books == [chains: [Chains -> [parent: {0} \cup Chains, agents: SUBSET Agents,
                              holds: [Holds -> Nat], depth: Nat, maxDepth: Nat]],
          chainOf: [Agents -> {0} \cup Chains], frames: [Realms -> Seq(Chains)]]

TypeOK ==
  /\ synchronous \in Books /\ generator \in Books
  /\ depth \in [Realms -> Nat] /\ \A r \in Realms : depth[r] <= maxStackDepth[r]
  /\ stack \in Seq(Frame)
  /\ throwing \in BOOLEAN

\* "Releases them exactly once": however chains were joined, merged, left by an
\* error or ended, a chain has charged every active frame of the Agents on it,
\* once, and none of others; nothing charges an Agent that is on no chain; and
\* what keeps the chain alive are the activations still to end.  So none of the
\* code's checks for underflow or for frames retained can fail.
Exact(books, kinds) ==
  /\ \A r \in Realms :
       LET id == RootOf(books, AgentOf[r]) IN
       /\ Len(books.frames[r]) = IF id = 0 THEN 0 ELSE depth[r]
       /\ \A i \in 1..Len(books.frames[r]) : Root(books, books.frames[r][i]) = id
  /\ \A id \in Chains :
       LET chain == books.chains[id]
           on(kind) == {i \in 1..Len(stack) : /\ stack[i].kind = kind /\ stack[i].kind \in kinds
                                              /\ stack[i].chain # 0 /\ Root(books, stack[i].chain) = id}
       IN /\ chain.agents = {a \in Agents : RootOf(books, a) = id}
          /\ chain.depth = MapThenSumSet(LAMBDA r : depth[r], RealmsOf(chain.agents))
                             + Cardinality(on("iterate"))
          /\ \A hold \in Holds : chain.holds[hold] = Cardinality(on(hold))
ChargesAreExact ==
  /\ Exact(synchronous, {"link"})
  /\ Exact(generator, {"reference", "resume", "iterate"})

\* "The link exists only until every merged resume and frame unwinds": a chain
\* lives only as long as a call or resume of its own, or the error of a failed
\* resume, is on its way; what is left behind would charge unrelated code.
ChainsEndWithTheirCalls ==
  LET Held(books, a) == \E hold \in Holds : books.chains[RootOf(books, a)].holds[hold] > 0 IN
  /\ \A a \in Agents :
       /\ RootOf(synchronous, a) # 0 => Held(synchronous, a)
       /\ RootOf(generator, a) # 0 => Held(generator, a) \/ (throwing /\ stack # <<>>)
  /\ stack = <<>> => synchronous = NoBooks /\ generator = NoBooks

\* Caller and callee stay on one chain until the call is over, whatever is
\* merged or released in between, and so do a generator's method and the
\* generator: withLinkedActiveExecutionRealm() never finds its Agents unlinked.
ParticipantsStayLinked ==
  \A i \in 1..Len(stack) :
    LET frame == stack[i]
        Together(books) == /\ RootOf(books, AgentOf[frame.realm]) = Root(books, frame.chain)
                           /\ RootOf(books, AgentOf[frame.caller]) = Root(books, frame.chain)
    IN /\ frame.kind = "link" /\ frame.chain # 0 => Together(synchronous)
       /\ frame.kind = "reference" => Together(generator)

\* Both directions: no chain outlives what it is for, none ends before.
ChainsLastAsLongAsCalls == TypeOK /\ ChainsEndWithTheirCalls /\ ParticipantsStayLinked

\* The Agents that calls, or calls and resumes, connect with `a` on the stack.
Connected(a, kinds) ==
  LET pairs == {{AgentOf[frame.realm], AgentOf[frame.caller]} :
                  frame \in {f \in Range(stack) : f.kind \in kinds /\ f.caller \in Realms}}
      near[n \in 0..Cardinality(Agents)] ==
        IF n = 0 THEN {a} ELSE near[n - 1] \cup UNION {p \in pairs : p \cap near[n - 1] # {}}
  IN near[Cardinality(Agents)]
Spent(agents) == MapThenSumSet(LAMBDA r : depth[r], RealmsOf(agents))
Tightest(agents, limits) == Min({limits[r] : r \in {q \in RealmsOf(agents) : depth[q] > 0}})

\* "Preventing recursion distributed across Agents from bypassing every
\* per-Realm budget": a frame is entered only when all frames of the Agents that
\* calls connect, with it, fit the tightest of their budgets, but not less than
\* the default; and when a generator is being resumed among them, the tightest.
BudgetIsShared ==
  [][(Len(stack') > Len(stack) /\ Last(stack').kind = "guard") =>
       LET path    == Connected(Agent, {"link"})
           resumes == Connected(Agent, {"link", "reference"})
           Crosses(frame) == frame.kind = "link" /\ frame.caller \in Realms \ {frame.realm}
       IN /\ (\E frame \in Range(stack) : Crosses(frame) /\ AgentOf[frame.realm] \in path) =>
               Spent(path)' <= Tightest(path, CallLimits)'
          /\ (\E frame \in Range(stack) : frame.kind = "reference" /\ AgentOf[frame.realm] \in resumes) =>
               Spent(resumes)' <= Tightest(resumes, Limits)']_vars
=============================================================================
