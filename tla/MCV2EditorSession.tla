------------------------- MODULE MCV2EditorSession -------------------------
(***************************************************************************)
(* Model checking V2EditorSession.                                         *)
(***************************************************************************)
EXTENDS V2EditorSession

(* Revisions, the values of either part and the calls in flight are interchangeable. *)
Interchangeable ==
  Permutations(Revisions) \cup Permutations(Definitions)
    \cup Permutations(Programs) \cup Permutations(Slots)

=============================================================================
