------------------------ MODULE MCDecisionComparison ------------------------
(***************************************************************************)
(* Model checking DecisionComparison: two sessions, decisions that differ  *)
(* in what was decided, in what was observed and in whom they are about.   *)
(***************************************************************************)
EXTENDS DecisionComparison

Line(session, phase, kind, fields) ==
  [version |-> 2, sequence |-> 0, session |-> session, phase |-> phase,
   kind |-> kind, source |-> 1, path |-> "config", fields |-> fields]

Predicate(session, observed, outcome) ==
  Line(session, "evaluation", "predicate",
       [asset |-> 1, observed |-> observed, outcome |-> outcome,
        branch |-> IF outcome THEN "then" ELSE "otherwise"])

Cooldown(session, asset, eligible) ==
  Line(session, "portfolio_execution", "cooldown",
       [asset |-> asset, signal_candidate |-> TRUE, eligible |-> eligible,
        stopping_stage |-> IF eligible THEN "none" ELSE "cooldown"])

Selection(session, ranked) ==
  Line(session, "selection", "selection",
       [ranked |-> ranked, evaluated |-> ranked, candidates |-> <<ranked[1]>>,
        present |-> {ranked[1]}, absent |-> {ranked[2]}, stopped |-> {ranked[2]},
        ranks |-> [a \in ToSet(ranked) |-> CHOOSE n \in 1..2 : ranked[n] = a],
        primary_selected |-> <<ranked[1]>>, decision |-> "executed",
        required_count |-> 1])

(* A condition over typed values, as expressions of a Strategy v2 log it.   *)
Condition(session, outcome) ==
  [Line(session, "evaluation", "value_condition", [outcome |-> outcome])
     EXCEPT !.path = "condition"]

LinesOf(session) ==
  {Predicate(session, 1, TRUE), Predicate(session, 2, TRUE), Predicate(session, 1, FALSE),
   Cooldown(session, 1, FALSE)}

OfLength(n, lines) ==
  {trace \in [1..n -> lines] : \A i, j \in 1..n : i <= j => trace[i].session <= trace[j].session}

(* Lines no collector takes: the blocked asset that nothing stopped, the    *)
(* rank that is not the position; and lines of the earlier version.         *)
BadCooldown == [Cooldown(1, 1, FALSE) EXCEPT !.fields.stopping_stage = "none"]
BadSelection == [Selection(1, <<1, 2>>) EXCEPT !.fields.ranked = <<2, 1>>]
OldPredicate == [Predicate(1, 1, TRUE) EXCEPT !.version = 1]

AllTraces ==
  UNION {OfLength(n, LinesOf(1) \cup LinesOf(2)) : n \in 0..2}
    \cup OfLength(3, {Predicate(1, 1, TRUE), Predicate(1, 2, FALSE),
                      Predicate(2, 1, TRUE), Cooldown(2, 2, TRUE)})
    \cup {<<BadCooldown>>, <<BadSelection>>, <<OldPredicate>>,
          <<Predicate(1, 1, TRUE), OldPredicate>>}
    \cup {<<Selection(1, s), Cooldown(1, 1, TRUE)>> : s \in {<<1, 2>>, <<2, 1>>}}

ConditionTraces == OfLength(2, {Condition(1, TRUE), Condition(1, FALSE), Predicate(1, 1, TRUE),
                                Predicate(2, 1, TRUE)})

(* A log arrives as it is, without one of its lines, with one twice, or     *)
(* with two neighbours exchanged.                                           *)
Whole(n) == [i \in 1..n |-> i]
AnyDamage ==
  [n \in 0..3 |->
     {Whole(n)} \cup {RemoveAt(Whole(n), i) : i \in 1..n}
       \cup {InsertAt(Whole(n), i, i) : i \in 1..n}
       \cup {[Whole(n) EXCEPT ![i] = i + 1, ![i + 1] = i] : i \in 1..(n - 1)}]

=============================================================================
