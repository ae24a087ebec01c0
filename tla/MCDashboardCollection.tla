----------------------- MODULE MCDashboardCollection -----------------------
(* Small instances of DashboardCollection for TLC. *)
EXTENDS DashboardCollection, TLC

CONSTANTS h1, h2

\* A preflight, an inventory whose code is not recorded, and a validation after
\* the interim metadata.
MCPlan == <<"preflight", "inventory", "validation">>
MCComponents == {"preflight", "inventory", "validation"}
MCWeight == ("preflight" :> 1) @@ ("inventory" :> 2) @@ ("validation" :> 3)
MCShortPlan == <<"preflight", "validation">>
Interchangeable == Permutations({h1, h2})
MCRecorded == {"preflight", "validation"}
=============================================================================
