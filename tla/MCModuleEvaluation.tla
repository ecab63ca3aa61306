------------------------- MODULE MCModuleEvaluation -------------------------
(* Module graphs over which ModuleEvaluation is checked. *)
EXTENDS ModuleEvaluation

CONSTANTS a, b, c, d

\* A cycle of three with a leaf, entered and left at different members.
LongCycle  == (a :> <<b>>) @@ (b :> <<d, c>>) @@ (c :> <<a>>) @@ (d :> <<>>)
\* A component that depends on another.
TwoCycles  == (a :> <<b>>) @@ (b :> <<a>>) @@ (c :> <<d, a>>) @@ (d :> <<c>>)
\* A cycle that a leaf can hold up after, or before, another one fails.
TwoLeaves  == (a :> <<>>) @@ (b :> <<>>) @@ (c :> <<a, d>>) @@ (d :> <<b, c>>)
\* A leaf with a chain and a shortcut on top of it.
Chain      == (a :> <<>>) @@ (b :> <<a>>) @@ (c :> <<b, a>>) @@ (d :> <<c>>)

Shapes == {LongCycle, TwoCycles, TwoLeaves, Chain}
=============================================================================
