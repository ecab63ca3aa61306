---------------------------- MODULE ModuleCommits ----------------------------
(***************************************************************************)
(* What module evaluation promises to whoever asks for it: the modules of  *)
(* a strongly connected component get their outcome together and for good; *)
(* a component completes normally only after everything it depends on; and *)
(* an error is given only to modules that depend on the module that threw. *)
(* ModuleEvaluation is shown to implement this module.                     *)
(***************************************************************************)
CONSTANT Modules

VARIABLES dependsOn, \* of each module, through any number of requests; fixed
          outcome    \* of each module

vars == <<dependsOn, outcome>>

None      == [kind |-> "none"]
Normal    == [kind |-> "normal"]
Thrown(m) == [kind |-> "thrown", by |-> m]

Reaches(m, n) == n \in dependsOn[m]

Init == /\ dependsOn \in [Modules -> SUBSET Modules]
        /\ \A m, n, k \in Modules : Reaches(m, n) /\ Reaches(n, k) => Reaches(m, k)
        /\ outcome = [m \in Modules |-> None]

Undecided == {m \in Modules : outcome[m] = None}
Together(S) == \A m \in S, n \in Modules : (Reaches(m, n) /\ Reaches(n, m)) => n \in S

\* One component completes.
Commit(S) ==
  /\ S # {} /\ S \subseteq Undecided
  /\ Together(S)
  /\ \A m \in S, n \in Modules :
       Reaches(m, n) => IF Reaches(n, m) THEN n \in S ELSE outcome[n] = Normal
  /\ outcome' = [m \in Modules |-> IF m \in S THEN Normal ELSE outcome[m]]
  /\ UNCHANGED dependsOn

\* Some components fail with what module `thrower` threw.
Fail(S, thrower) ==
  /\ S # {} /\ S \subseteq Undecided
  /\ Together(S)
  /\ \A m \in S : Reaches(m, thrower)
  /\ outcome' = [m \in Modules |-> IF m \in S THEN Thrown(thrower) ELSE outcome[m]]
  /\ outcome'[thrower].kind = "thrown"
  /\ UNCHANGED dependsOn

Next == \E S \in SUBSET Modules : Commit(S) \/ \E thrower \in Modules : Fail(S, thrower)

Spec == Init /\ [][Next]_vars
=============================================================================
