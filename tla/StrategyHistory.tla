-------------------------- MODULE StrategyHistory --------------------------
(***************************************************************************)
(* The tables of StrategyStore read as the logs of RevisionHistory: the    *)
(* refinement mapping, kept apart from the store so that it can be checked *)
(* (MCStrategyStore) and proved (StrategyStoreProofs).                     *)
(***************************************************************************)
EXTENDS StrategyStore, Sequences

(* The Revisions that lead to a Revision along the parent pointers, oldest  *)
(* first.                                                                   *)
LineTo[r \in Revisions] ==
  IF parent[r] = None THEN <<r>> ELSE Append(LineTo[parent[r]], r)

(* The log of a Strategy, read back from its current Revision.              *)
LineOf == [s \in Strategies |-> IF StrategyExists(s) THEN LineTo[current[s]] ELSE <<>>]

History == INSTANCE RevisionHistory WITH history <- LineOf, closed <- archived

(* The transactions of the store implement an append-only log with          *)
(* compare-and-append: no accepted save or adoption ever drops, forks or    *)
(* reorders a Revision, and none is accepted on top of a Revision that was  *)
(* no longer the last one.                                                  *)
ImplementsHistory == History!Spec

=============================================================================
