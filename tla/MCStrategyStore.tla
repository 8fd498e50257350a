-------------------------- MODULE MCStrategyStore --------------------------
(***************************************************************************)
(* Model checking StrategyStore, and its refinement of RevisionHistory.    *)
(***************************************************************************)
EXTENDS StrategyHistory
=============================================================================
