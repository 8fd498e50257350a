-------------------------- MODULE ProgramReference --------------------------
(***************************************************************************)
(* What a temporal program means: the Program Core evaluator               *)
(* (src/src/ruletrade/strategy/v2/program_execution.py), run session by    *)
(* session, each on the result of the one before.  A session is one step.  *)
(***************************************************************************)
EXTENDS TemporalProgram

VARIABLES program, market, results

referenceVars == <<program, market, results>>

(* What execute_program_v2 is given for the first session.                 *)
NoResult(p) ==
  [state    |-> p.initial,
   entered  |-> [k \in Keys |-> Missing],
   truths   |-> [i \in EventsOf(p) |-> "false"],
   counts   |-> [i \in EventsOf(p) |-> 0],
   cutoffs  |-> [i \in EventsOf(p) |-> Missing],
   memory   |-> [m \in Memories |-> Missing],
   decision |-> Retain]

(* The last session before `cutoff' of another week than its own.          *)
LastCompletedWeek(m, cutoff) ==
  LET earlier == {i \in 1..(cutoff - 1) : m.week[i] # m.week[cutoff]}
  IN  IF earlier = {} THEN Missing
      ELSE CHOOSE i \in earlier : \A j \in earlier : j <= i

ValueAt(m, v, r, cutoff) ==
  CASE v.kind = "current_price" -> m.close[v.asset][cutoff]
    [] v.kind = "literal" -> v.literal
    [] v.kind = "remembered" -> r.memory[v.memory]
    [] v.kind = "bars_since_event" ->
         IF r.cutoffs[v.event] = Missing THEN Missing ELSE cutoff - r.cutoffs[v.event]
    [] v.kind = "completed_weekly_price" ->
         LET completed == LastCompletedWeek(m, cutoff)
         IN  IF completed = Missing THEN Missing ELSE m.close[v.asset][completed]

ComparisonHolds(m, e, r, cutoff) ==
  LET l == ValueAt(m, e.left, r, cutoff)
      n == ValueAt(m, e.right, r, cutoff)
  IN  CASE Missing \in {l, n} -> "unknown"
        [] Missing \notin {l, n} /\ Compares(e.operator, l, n) -> "true"
        [] OTHER -> "false"

GuardHolds(e, r) ==
  IF e.guard = Missing \/ r.state[e.guard.key] = e.guard.value THEN "true" ELSE "false"

(* A window includes the session of the event it follows.                  *)
WindowHolds(e, r, cutoff) ==
  CASE e.window = Missing -> "true"
    [] e.window # Missing /\ r.cutoffs[e.window.event] = Missing -> "unknown"
    [] OTHER -> IF cutoff - r.cutoffs[e.window.event] \in 0..e.window.within
                THEN "true" ELSE "false"

ConditionHolds(m, e, r, cutoff) ==
  LET values == {ComparisonHolds(m, e, r, cutoff), GuardHolds(e, r), WindowHolds(e, r, cutoff)}
  IN  CASE "false" \in values -> "false"
        [] values = {"true"} -> "true"
        [] OTHER -> "unknown"

Perform(m, a, r, cutoff) ==
  CASE a.kind = "remember" ->
         LET v == ValueAt(m, a.value, r, cutoff)
         IN  IF v = Missing THEN r ELSE [r EXCEPT !.memory[a.memory] = v]
    [] a.kind = "transition" ->
         IF r.state[a.key] # a.from \/ a.from = a.to THEN r
         ELSE [r EXCEPT !.state[a.key] = a.to, !.entered[a.key] = cutoff]

(* The results that the actions of an event lead to, one after the other.   *)
Performed(m, e, r, cutoff) ==
  LET performed[k \in 0..Len(e.actions)] ==
        IF k = 0 THEN r ELSE Perform(m, e.actions[k], performed[k - 1], cutoff)
  IN  performed

Occurred(trigger, current, previous) ==
  CASE trigger = "while_true" -> current = "true"
    [] trigger \in {"rising_edge", "crosses_above"} -> current = "true" /\ previous # "true"
    [] trigger = "crosses_below" -> current = "false" /\ previous = "true"

(* What is noted of an event, and whether its actions are due.             *)
Observed(p, m, i, r, cutoff) ==
  LET e == p.events[i]
      current == ConditionHolds(m, e, r, cutoff)
      occurs == Occurred(e.trigger, current, r.truths[i])
      count == r.counts[i] + (IF occurs THEN 1 ELSE 0)
      triggered == occurs /\ (e.occurrence = "first" => count = 1)
  IN  [triggered |-> triggered,
       result    |-> [r EXCEPT !.truths[i] = current, !.counts[i] = count,
                               !.cutoffs[i] = IF triggered THEN cutoff ELSE @]]

(* An event commits before the next one is visited.                        *)
Visit(p, m, i, r, cutoff) ==
  LET e == p.events[i]
      observed == Observed(p, m, i, r, cutoff)
  IN  IF observed.triggered
      THEN Performed(m, e, observed.result, cutoff)[Len(e.actions)] ELSE observed.result

(* The results that the events of a session lead to, one after the other.   *)
Visited(p, m, r, cutoff) ==
  LET visited[i \in 0..Len(p.events)] ==
        IF i = 0 THEN r ELSE Visit(p, m, i, visited[i - 1], cutoff)
  IN  visited

(* Overrides by falling priority, then the primary target.                 *)
Decision(p, r) ==
  LET holding == {j \in DOMAIN p.overrides :
                    r.state[p.overrides[j].key] = p.overrides[j].value}
  IN  IF holding = {} THEN p.primary
      ELSE p.overrides[CHOOSE j \in holding : \A k \in holding : j <= k].target

Execute(p, m, r, cutoff) ==
  LET last == Visited(p, m, r, cutoff)[Len(p.events)]
  IN  [last EXCEPT !.decision = Decision(p, last)]

ReferenceInit ==
  /\ program \in Programs
  /\ market \in Markets
  /\ results = <<>>

ExecuteSession ==
  LET done == Len(results)
  IN  /\ done < Len(market.week)
      /\ results' = Append(results,
           Execute(program, market,
                   IF done = 0 THEN NoResult(program) ELSE results[done], done + 1))
      /\ UNCHANGED <<program, market>>

ReferenceSpec == ReferenceInit /\ [][ExecuteSession]_referenceVars

=============================================================================
