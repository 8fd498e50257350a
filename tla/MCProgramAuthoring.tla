------------------------ MODULE MCProgramAuthoring ------------------------
(* An instance of ProgramAuthoring for TLC: two groups, the recipes' own.   *)
EXTENDS ProgramAuthoring

MCOwnAssets == [g \in GroupIds |-> {GrowthAssets, IF g = Growth THEN InitialAssets ELSE DefensiveAssets}]

(* What the last operation was decides nothing. *)
View == <<strategy, requests>>
=============================================================================
