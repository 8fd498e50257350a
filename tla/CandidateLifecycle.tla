------------------------ MODULE CandidateLifecycle ------------------------
(***************************************************************************)
(* What the research loop promises about Candidates.  A Candidate is a     *)
(* proposal on a base Revision; it is tested once; only a successful test  *)
(* allows it to be kept (adopted as the next Revision) or compared; and of *)
(* the Candidates of one base at most one is ever kept.                    *)
(***************************************************************************)
CONSTANTS Candidates, Revisions, None

VARIABLES
  phase,    \* how far each Candidate has come
  base,     \* the Revision it changes
  compared  \* its Comparison with the originating Run is stored

lifecycleVars == <<phase, base, compared>>

Init ==
  /\ phase = [c \in Candidates |-> "absent"]
  /\ base = [c \in Candidates |-> None]
  /\ compared = [c \in Candidates |-> FALSE]

Propose(c, r) ==
  /\ phase[c] = "absent"
  /\ phase' = [phase EXCEPT ![c] = "proposed"]
  /\ base' = [base EXCEPT ![c] = r]
  /\ UNCHANGED compared

Move(c, from, to) ==
  /\ phase[c] = from
  /\ phase' = [phase EXCEPT ![c] = to]
  /\ UNCHANGED <<base, compared>>

StartTest(c) == Move(c, "proposed", "testing")

FinishTest(c) == Move(c, "testing", "tested") \/ Move(c, "testing", "refuted")

Keep(c) ==
  /\ \A d \in Candidates : base[d] = base[c] => phase[d] # "kept"
  /\ Move(c, "tested", "kept")

Compare(c) ==
  /\ phase[c] \in {"tested", "kept"}
  /\ compared' = [compared EXCEPT ![c] = TRUE]
  /\ UNCHANGED <<phase, base>>

Next ==
  \E c \in Candidates :
    \/ \E r \in Revisions : Propose(c, r)
    \/ StartTest(c)
    \/ FinishTest(c)
    \/ Keep(c)
    \/ Compare(c)

Spec == Init /\ [][Next]_lifecycleVars

=============================================================================
