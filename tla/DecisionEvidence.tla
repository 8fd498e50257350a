-------------------------- MODULE DecisionEvidence --------------------------
(***************************************************************************)
(* collect_decision_evidence: the machine lines of a LEAN log become the   *)
(* ordered Decision Events of a Run, or an error.                          *)
(*                                                                         *)
(* A line is [version, sequence, session, phase, kind, source, path,       *)
(* fields].  Sessions, sources (the sorted references of a line, as one)   *)
(* and assets are natural numbers, ordered as the dates and the texts they *)
(* stand for; path is the field path of the source, as its form.           *)
(***************************************************************************)
EXTENDS Naturals, FiniteSets, SequencesExt

Phases == {"evaluation", "selection", "snapshot_commit", "portfolio_execution",
           "state_mutation"}

Kinds == {"filter", "predicate", "value_condition", "selection", "random_selection",
          "fallback", "final_selection", "cooldown", "state_mutation",
          "snapshot_refresh", "snapshot_usage", "sleeve_contribution", "final_targets"}

(* SourceComponentRef.field_path: config.<name>, condition, actions[n],     *)
(* else_actions[n], or none.                                                *)
FieldPaths == {"none", "config", "condition", "actions", "else_actions"}

(* The evaluated assets in order of rank, the signalled ones a part of them *)
(* no larger than the count asked for, the selected ones a part of those.   *)
SelectionContract(f) ==
  /\ f.present \cap f.absent = {}
  /\ f.present \cup f.absent = ToSet(f.evaluated)
  /\ DOMAIN f.ranks = ToSet(f.evaluated)
  /\ f.stopped \subseteq ToSet(f.evaluated)
  /\ f.evaluated = f.ranked
  /\ f.present = ToSet(f.candidates)
  /\ \A i \in DOMAIN f.evaluated : f.ranks[f.evaluated[i]] = i
  /\ ToSet(f.primary_selected) \subseteq f.present
  /\ Len(f.candidates) <= f.required_count

FilterContract(f, version) ==
  /\ f.eligible \cap f.rejected = {}
  /\ f.eligible \cup f.rejected = DOMAIN f.scores
  /\ version >= 2 => DOMAIN f.scores \subseteq f.decision_universe

(* _payload: what the fields of each kind must satisfy.                     *)
Payload(kind, f, version) ==
  CASE kind = "selection" -> version >= 2 => SelectionContract(f)
    [] kind = "filter" -> FilterContract(f, version)
    [] kind = "cooldown" ->
         /\ f.eligible \in BOOLEAN /\ f.signal_candidate \in BOOLEAN
         /\ version >= 2 => (f.stopping_stage = "cooldown") # f.eligible
    [] kind \in {"predicate", "value_condition"} -> f.outcome \in BOOLEAN
    [] kind = "fallback" -> f.activated \in BOOLEAN
    [] kind = "snapshot_usage" ->
         f.executed \in BOOLEAN /\ f.schedule \in {"monthly", "quarterly"}
    [] kind = "snapshot_refresh" -> f.schedule \in {"monthly", "quarterly"}
    [] kind \in {"random_selection", "final_selection", "state_mutation",
                 "sleeve_contribution", "final_targets"} -> TRUE
    [] OTHER -> FALSE

Readable(line) ==
  /\ line.phase \in Phases
  /\ line.path \in FieldPaths
  /\ Payload(line.kind, line.fields, line.version)

(* Mutant: only that no sequence number is missing.                         *)
CollectableInAnyOrder(log) ==
  /\ \A i \in DOMAIN log : Readable(log[i])
  /\ {log[i].sequence : i \in DOMAIN log} = 1..Len(log)

(* The lines are taken when each is readable, they count 1, 2, 3... and     *)
(* they are of one version.                                                 *)
Collectable(log) ==
  /\ \A i \in DOMAIN log : Readable(log[i])
  /\ \A i \in DOMAIN log : log[i].sequence = i
  /\ \A i, j \in DOMAIN log : log[i].version = log[j].version

=============================================================================
