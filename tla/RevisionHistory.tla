-------------------------- MODULE RevisionHistory --------------------------
(***************************************************************************)
(* What the Strategy store promises its clients: every Strategy is an      *)
(* append-only log of Revisions.  A writer names the last entry it saw and *)
(* is accepted only if that is still the last entry; closing (archiving)   *)
(* is final; no entry is ever dropped, moved or shared between logs.       *)
(***************************************************************************)
EXTENDS SequencesExt

CONSTANTS Strategies, Revisions

VARIABLES history, closed

historyVars == <<history, closed>>

Unused(r) == \A s \in Strategies : ~Contains(history[s], r)

Init ==
  /\ history = [s \in Strategies |-> <<>>]
  /\ closed = [s \in Strategies |-> FALSE]

(* A new log starts with its first Revision. *)
Begin(s, r) ==
  /\ history[s] = <<>>
  /\ Unused(r)
  /\ history' = [history EXCEPT ![s] = <<r>>]
  /\ UNCHANGED closed

(* Compare-and-append: `seen' is what the writer last read. *)
Extend(s, seen, r) ==
  /\ ~closed[s]
  /\ history[s] # <<>>
  /\ Last(history[s]) = seen
  /\ Unused(r)
  /\ history' = [history EXCEPT ![s] = Append(@, r)]
  /\ UNCHANGED closed

Close(s) ==
  /\ history[s] # <<>>
  /\ ~closed[s]
  /\ closed' = [closed EXCEPT ![s] = TRUE]
  /\ UNCHANGED history

Next ==
  \E s \in Strategies :
    \/ \E r \in Revisions : Begin(s, r)
    \/ \E seen, r \in Revisions : Extend(s, seen, r)
    \/ Close(s)

Spec == Init /\ [][Next]_historyVars

=============================================================================
