------------------------- MODULE DecisionComparison -------------------------
(***************************************************************************)
(* The decisions of an original and of a candidate Run, from the lines     *)
(* their algorithms log to the Comparison of what they decided.            *)
(*                                                                         *)
(* Each Run logs numbered lines; the log reaches the collector as some     *)
(* other log may: with lines lost, repeated or moved.  A log the collector *)
(* takes becomes the Run's evidence, any other fails the Run.  Two Runs    *)
(* with evidence are aligned decision by decision.                         *)
(***************************************************************************)
EXTENDS DecisionEvidence

CONSTANTS
  None, Failed, Unsupported, Broken,
  Traces,   \* what a Run may log: sequences of lines without their numbers
  Carried   \* the logs a log of a given length may arrive as, by the
            \* positions of the lines in it: [Nat -> SUBSET Seq(Nat)]

Fields == {"version", "sequence", "session", "phase", "kind", "source", "path", "fields"}

(* The kinds of events that are about one asset.                            *)
AboutAnAsset == {"predicate", "fallback", "cooldown", "state_mutation"}

ASSUME TracesAssumption ==
  \A trace \in Traces :
    /\ trace \in Seq(ToSet(trace))
    /\ \A i \in DOMAIN trace :
         /\ DOMAIN trace[i] = Fields
         /\ trace[i].session \in Nat /\ trace[i].source \in Nat
         /\ trace[i].kind \in AboutAnAsset => trace[i].fields.asset \in Nat
    /\ Carried[Len(trace)] \subseteq Seq(1..Len(trace))

VARIABLES
  emitted,    \* the lines each Run logged, in order; None before it ran
  arrived,    \* the log the collector is given; None before
  evidence,   \* the Decision Events stored; None before, or Failed
  comparison  \* None, Unsupported, Broken or what was aligned

vars == <<emitted, arrived, evidence, comparison>>

Runs == {"original", "candidate"}

-----------------------------------------------------------------------------
(* Alignment *)

PhaseOrder == [evaluation |-> 0, selection |-> 1, snapshot_commit |-> 2,
               portfolio_execution |-> 3, state_mutation |-> 4]

KindOrder == [predicate |-> 0, filter |-> 0, random_selection |-> 1, selection |-> 1,
              cooldown |-> 2, fallback |-> 3, final_selection |-> 4,
              snapshot_refresh |-> 5, snapshot_usage |-> 6, sleeve_contribution |-> 7,
              final_targets |-> 8, state_mutation |-> 9]

(* _classify: the fields of each kind that a decision consists of, by the   *)
(* difference that a change of one of them is.                              *)
Aspects(kind) ==
  CASE kind = "predicate" -> [predicate_branch_changed |-> {"outcome", "branch"}]
    [] kind = "filter" ->
         [qualification_changed |-> {"eligible", "rejected", "decision_universe"}]
    [] kind = "selection" ->
         [rank_changed |-> {"ranked"},
          candidate_membership_changed |-> {"candidates"},
          primary_selection_changed |-> {"primary_selected", "decision"}]
    [] kind = "random_selection" -> [primary_selection_changed |-> {"selected"}]
    [] kind = "fallback" -> [fallback_activation_changed |-> {"activated", "asset"}]
    [] kind = "cooldown" ->
         [cooldown_eligibility_changed |-> {"signal_candidate", "eligible"}]
    [] kind = "final_selection" -> [final_selection_changed |-> {"selected", "source"}]
    [] kind = "snapshot_refresh" -> [snapshot_targets_changed |-> {"local_targets"}]
    [] kind = "snapshot_usage" -> [snapshot_usage_changed |-> {"snapshots", "executed"}]
    [] kind = "sleeve_contribution" ->
         [sleeve_contribution_changed |->
            {"local_selected", "local_targets", "scaled_targets"}]
    [] kind = "state_mutation" ->
         [state_mutation_changed |-> {"asset", "old_value", "new_value", "cause"}]
    [] kind = "final_targets" -> [final_target_changed |-> {"selected", "targets"}]
    [] OTHER -> <<>>

Classify(before, after) ==
  {d \in DOMAIN Aspects(before.kind) :
     \E field \in Aspects(before.kind)[d] : before.fields[field] # after.fields[field]}

(* _presence_change_kinds                                                   *)
PresenceChange(event) ==
  {"event_presence_changed"} \cup
  (IF event.kind = "selection" THEN {"primary_selection_changed"}
   ELSE DOMAIN Aspects(event.kind))

Subject(event) ==
  IF event.kind \in AboutAnAsset THEN event.fields.asset ELSE 0

Base(event) ==
  [session |-> event.session, phase |-> event.phase, kind |-> event.kind,
   source |-> event.source, subject |-> Subject(event)]

Occurrence(events, i) ==
  Cardinality({j \in 1..i : Base(events[j]) = Base(events[i])})

(* Mutant: the position of an event among all takes part in its identity.   *)
KeyByOrdinal(events, i) == [base |-> Base(events[i]), occurrence |-> i]

KeyOf(events, i) == [base |-> Base(events[i]), occurrence |-> Occurrence(events, i)]

(* _index_events: a later event of a key takes the place of an earlier one. *)
IndexEvents(events) ==
  LET keys == {KeyOf(events, i) : i \in DOMAIN events} IN
    [key \in keys |-> events[Max({i \in DOMAIN events : KeyOf(events, i) = key})]]

SortKey(key) ==
  <<key.base.session, PhaseOrder[key.base.phase], KindOrder[key.base.kind],
    key.base.source, key.base.subject, key.occurrence>>

Sortable(key) == key.base.kind \in DOMAIN KindOrder /\ key.base.phase \in DOMAIN PhaseOrder

Precedes(key, other) ==
  LET a == SortKey(key)
      b == SortKey(other)
  IN \E n \in DOMAIN a : a[n] < b[n] /\ \A k \in 1..(n-1) : a[k] = b[k]

(* The differences of two sets of events: their keys, each with its kinds.  *)
Differences(original, candidate) ==
  LET shared == DOMAIN original \cap DOMAIN candidate
      single == (DOMAIN original \cup DOMAIN candidate) \ shared
  IN {[key |-> key, kinds |-> Classify(original[key], candidate[key])] :
        key \in {k \in shared : Classify(original[k], candidate[k]) # {}}}
     \cup
     {[key |-> key,
       kinds |-> PresenceChange(IF key \in DOMAIN original THEN original[key]
                                ELSE candidate[key])] : key \in single}

(* sorted(): `before' is a set of pairs; elements of which neither is       *)
(* before the other stay as the set happens to be met.                      *)
Sorted(S, before) ==
  LET met == SetToSeq(S)
      rank == [i \in DOMAIN met |->
                 Cardinality({j \in DOMAIN met :
                                \/ <<met[j], met[i]>> \in before
                                \/ j <= i /\ <<met[i], met[j]>> \notin before})]
  IN [n \in DOMAIN met |-> met[CHOOSE i \in DOMAIN met : rank[i] = n]]

SessionsOf(differences) == {d.key.base.session : d \in differences}

(* Mutant: the contexts are in the order their sessions were met first,     *)
(* with the keys ordered by phase before session.                           *)
InOrderByPhase(differences) ==
  LET sessions == SessionsOf(differences)
      Earliest(s) == Min({PhaseOrder[d.key.base.phase] :
                            d \in {x \in differences : x.key.base.session = s}})
  IN Sorted(sessions, {pair \in sessions \X sessions :
                         \/ Earliest(pair[1]) < Earliest(pair[2])
                         \/ Earliest(pair[1]) = Earliest(pair[2]) /\ pair[1] < pair[2]})

(* The sessions with a difference, in order.                                *)
InOrder(differences) ==
  LET sessions == SessionsOf(differences)
  IN Sorted(sessions, {pair \in sessions \X sessions : pair[1] < pair[2]})

(* The differences of a session, in the order of their keys.                *)
Context(differences, session) ==
  LET here == {d \in differences : d.key.base.session = session}
  IN Sorted(here, {pair \in here \X here : Precedes(pair[1].key, pair[2].key)})

(* align_decision_evidence, and the first difference create makes of it.    *)
Align(before, after) ==
  LET original == IndexEvents(before)
      candidate == IndexEvents(after)
      differences == Differences(original, candidate)
      sessions == InOrder(differences)
      contexts == [n \in DOMAIN sessions |-> Context(differences, sessions[n])]
  IN [contexts |-> contexts,
      aligned |-> Cardinality(DOMAIN original \cup DOMAIN candidate),
      first |-> IF contexts = <<>> THEN None ELSE contexts[1][1].key]

-----------------------------------------------------------------------------
(* The two Runs and their Comparison *)

Init ==
  /\ emitted = [r \in Runs |-> None]
  /\ arrived = [r \in Runs |-> None]
  /\ evidence = [r \in Runs |-> None]
  /\ comparison = None

Numbered(trace) == [i \in DOMAIN trace |-> [trace[i] EXCEPT !.sequence = i]]

(* The generated algorithm numbers the lines it logs from 1.                *)
Execute(r) ==
  /\ emitted[r] = None
  /\ r = "candidate" => evidence["original"] \notin {None, Failed}
  /\ \E trace \in Traces : emitted' = [emitted EXCEPT ![r] = Numbered(trace)]
  /\ UNCHANGED <<arrived, evidence, comparison>>

(* The log is read from the output of the container.                        *)
Carry(r) ==
  /\ emitted[r] # None /\ arrived[r] = None
  /\ \E positions \in Carried[Len(emitted[r])] :
       arrived' = [arrived EXCEPT ![r] =
                     [i \in DOMAIN positions |-> emitted[r][positions[i]]]]
  /\ UNCHANGED <<emitted, evidence, comparison>>

Collect(r) ==
  /\ arrived[r] # None /\ evidence[r] = None
  /\ evidence' = [evidence EXCEPT ![r] = IF Collectable(arrived[r]) THEN arrived[r] ELSE Failed]
  /\ UNCHANGED <<emitted, arrived, comparison>>

(* ComparisonService._events: a Run has evidence, all of it of version 2.   *)
Comparable(events) ==
  /\ events # <<>>
  /\ \A i \in DOMAIN events : events[i].version = 2

(* sorted() looks up every key, KeyError when one is in neither table.      *)
Compare ==
  /\ comparison = None
  /\ \A r \in Runs : evidence[r] \notin {None, Failed}
  /\ LET before == evidence["original"]
         after == evidence["candidate"]
     IN comparison' =
          IF ~(Comparable(before) /\ Comparable(after)) THEN Unsupported
          ELSE IF \E key \in DOMAIN IndexEvents(before) \cup DOMAIN IndexEvents(after) :
                    ~Sortable(key)
               THEN Broken
               ELSE Align(before, after)
  /\ UNCHANGED <<emitted, arrived, evidence>>

Next ==
  \/ \E r \in Runs : Execute(r) \/ Carry(r) \/ Collect(r)
  \/ Compare

Spec == Init /\ [][Next]_vars

-----------------------------------------------------------------------------
(* Properties *)

Collected(r) == evidence[r] \notin {None, Failed}
Compared == comparison \notin {None, Unsupported, Broken}

(* However lines are lost, repeated or moved on their way, the evidence of  *)
(* a Run is what its algorithm logged, in that order, from the beginning:   *)
(* only the end of the log may be missing.                                  *)
CollectedIsPrefix == \A r \in Runs : Collected(r) => IsPrefix(evidence[r], emitted[r])

(* What the Runs decided of one thing in one session: the fields of its     *)
(* events that are decisions, in the order they were logged.                *)
Decided(event) ==
  [field \in UNION {Aspects(event.kind)[d] : d \in DOMAIN Aspects(event.kind)} |->
     event.fields[field]]
EventsOf(events, base) ==
  LET places == {i \in DOMAIN events : Base(events[i]) = base}
  IN [n \in 1..Cardinality(places) |->
        events[CHOOSE i \in places : Cardinality({j \in places : j <= i}) = n]]
Bases == {Base(event) : event \in UNION {ToSet(evidence[r]) : r \in Runs}}
DecidedDifferently(base, n) ==
  LET before == EventsOf(evidence["original"], base)
      after == EventsOf(evidence["candidate"], base)
  IN \/ n \in DOMAIN before \ DOMAIN after
     \/ n \in DOMAIN after \ DOMAIN before
     \/ /\ n \in DOMAIN before \cap DOMAIN after
        /\ Decided(before[n]) # Decided(after[n])

(* The differences of a Comparison are those decisions, and no other, that  *)
(* one of the Runs took and the other did not take or took differently,     *)
(* whatever else happened in the session and whatever was merely observed.  *)
DifferencesAreExact ==
  Compared =>
    LET found == UNION {ToSet(comparison.contexts[n]) : n \in DOMAIN comparison.contexts}
    IN {d.key : d \in found} =
         UNION {{[base |-> base, occurrence |-> n] :
                   n \in {k \in 1..(Len(evidence["original"]) + Len(evidence["candidate"])) :
                            DecidedDifferently(base, k)}} : base \in Bases}

(* Until the first difference, in the order of sessions, the Runs decided   *)
(* alike; and there is one unless they decided alike throughout.            *)
AlikeBeforeFirstDifference ==
  Compared =>
    \A base \in Bases :
      \/ comparison.contexts # <<>> /\ base.session >= comparison.first.base.session
      \/ \A n \in 1..(Len(evidence["original"]) + Len(evidence["candidate"])) :
           ~DecidedDifferently(base, n)

(* docs/comparisons.md: two succeeded Runs with complete evidence of        *)
(* version 2 are comparable.  Checked as a claim that the code violates.    *)
CompleteEvidenceCompares == comparison # Broken

=============================================================================
