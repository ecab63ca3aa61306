--------------------------- MODULE MCModuleLoader ---------------------------
(* The source graph over which ModuleLoader is checked. *)
EXTENDS ModuleLoader

CONSTANTS a, b

\* Two modules that request each other: of two traversals under way, each waits
\* for requests the other began; a third root comes after their failures.
Cycle  == (a :> <<b>>) @@ (b :> <<a>>)
Shapes == {Cycle}
=============================================================================
