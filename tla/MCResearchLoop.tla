-------------------------- MODULE MCResearchLoop --------------------------
(***************************************************************************)
(* Model checking ResearchLoop: the symmetry and the bounds of the         *)
(* instances, and what the documents say of the loop.                      *)
(***************************************************************************)
EXTENDS ResearchLoop, Naturals, FiniteSets, TLC

(* Identities are UUIDs and handler threads are all alike. *)
Interchangeable ==
  Permutations(Runs) \cup Permutations(Revisions) \cup Permutations(Candidates)
    \cup Permutations(Threads)

-----------------------------------------------------------------------------
(* Bound for liveness: a request is accepted only while enough identities   *)
(* are left for the requests under way to draw theirs (UUIDs do not run     *)
(* out in the program).                                                     *)
At(stage) == Cardinality({t \in Threads : pc[t] = stage})

IdentitiesLeft ==
  /\ At("proposing") <= Cardinality({c \in Candidates : ~CandidateExists(c)})
  /\ At("proposing") + At("proposed") <= Cardinality({n \in Runs : ~RunExists(n)})
  /\ At("adopting") <= Cardinality({r \in Revisions : ~Stored(r)})

LiveSpec ==
  LoopInit /\ [][LoopNext /\ IdentitiesLeft']_loopVars /\ LoopFairness

=============================================================================
