-------------------------- MODULE MCTemporalRuntime --------------------------
(***************************************************************************)
(* Model checking TemporalRuntime: programs and snapshots for TLC.         *)
(* The programs are the breakout and weekly breakout state machines of     *)
(* src/src/ruletrade/strategy/v2/corpus.py with prices from 1 to 3 and     *)
(* shorter windows, and others that use what these two do not.             *)
(***************************************************************************)
EXTENDS TemporalRuntime

CONSTANTS q1, q2, phase, level, context, idle, broken, retested, confirmed, expired

Price(asset) == [kind |-> "current_price", asset |-> asset]
Weekly(asset) == [kind |-> "completed_weekly_price", asset |-> asset]
Literal(n) == [kind |-> "literal", literal |-> n]
Level == [kind |-> "remembered", memory |-> level]
Since(i) == [kind |-> "bars_since_event", event |-> i]

CaptureAs(memory, value) == [kind |-> "remember", memory |-> memory, value |-> value]
Capture(value) == CaptureAs(level, value)
Move(from, to) == [kind |-> "transition", key |-> phase, from |-> from, to |-> to]

In(p) == [key |-> phase, value |-> p]
After(i, n) == [event |-> i, within |-> n]
Event(trigger, occurrence, left, operator, right, guard, window, actions) ==
  [trigger |-> trigger, occurrence |-> occurrence, left |-> left, operator |-> operator,
   right |-> right, guard |-> guard, window |-> window, actions |-> actions]
When(p, target) == [key |-> phase, value |-> p, target |-> target]
Machine(events, overrides, primary) ==
  [anchor |-> q1, initial |-> [k \in Keys |-> idle], events |-> events,
   overrides |-> overrides, primary |-> primary]

(* Break above 1, retest below what was remembered, confirm above it.      *)
BreakoutOf(value) == Machine(
  << Event("crosses_above", "first", value, "gt", Literal(1), Missing, Missing,
           <<Capture(Price(q1)), Move(idle, broken)>>),
     Event("while_true", "every", Price(q1), "lt", Level, In(broken), After(1, 2),
           <<Move(broken, retested)>>),
     Event("while_true", "every", Price(q1), "gt", Level, In(retested), After(2, 1),
           <<Move(retested, confirmed)>>),
     Event("while_true", "every", Since(2), "gt", Literal(1), In(retested), Missing,
           <<Move(retested, expired)>>) >>,
  << When(confirmed, q1) >>, Cash)

Breakout == BreakoutOf(Price(q1))
WeeklyBreakout == BreakoutOf(Weekly(q1))

(* Enters and leaves again and again; retains while nothing has happened.  *)
Toggle == Machine(
  << Event("rising_edge", "every", Price(q1), "gte", Literal(2), Missing, Missing,
           <<Move(idle, broken), Move(retested, broken), Capture(Price(q1))>>),
     Event("crosses_below", "every", Price(q1), "eq", Level, In(broken), Missing,
           <<Move(broken, retested)>>) >>,
  << When(retested, Cash), When(broken, q1) >>, Retain)

(* Remembers the completed week on a price, which may come before any week *)
(* is complete; then the week it compares, as the weekly context of        *)
(* corpus.py does, and last what may not have been remembered.             *)
WeeklyContext == Machine(
  << Event("rising_edge", "every", Price(q1), "gte", Literal(2), Missing, Missing,
           <<Capture(Weekly(q1)), Move(idle, broken)>>),
     Event("while_true", "first", Weekly(q1), "gt", Literal(1), Missing, Missing,
           <<CaptureAs(context, Weekly(q1))>>),
     Event("while_true", "first", Price(q1), "lt", Literal(2), In(broken), Missing,
           <<CaptureAs(context, Level), Move(broken, retested)>>) >>,
  << When(broken, q1) >>, Cash)

(* The second event follows the first in the same session, or the next.    *)
FollowUp == Machine(
  << Event("rising_edge", "every", Price(q1), "gt", Literal(1), Missing, Missing,
           <<Move(idle, broken)>>),
     Event("rising_edge", "every", Price(q1), "gt", Literal(1), In(broken), After(1, 1),
           <<Move(broken, confirmed)>>) >>,
  << When(confirmed, q1) >>, Cash)

(* From one asset to another.                                              *)
Rotation == Machine(
  << Event("while_true", "every", Price(q1), "gt", Literal(1), In(idle), Missing,
           <<Move(idle, broken)>>) >>,
  << When(broken, q1) >>, q2)

SingleAssetPrograms == {Breakout, WeeklyBreakout, Toggle, WeeklyContext}

(* Programs for which the code does not do what is said of it.             *)
ContestedPrograms == {FollowUp, Rotation, WeeklyContext}

Snapshots(weeks, prices) ==
  [week : weeks,
   close : [Assets -> [1..5 -> prices]]]

(* Five sessions over two or three weeks, one of them of a single session. *)
WeekPatterns == {<<1, 1, 2, 2, 2>>, <<1, 2, 3, 3, 3>>}
ThreePrices == Snapshots(WeekPatterns, 1..3)

(* All that the contested programs need: three sessions, prices in step.   *)
ShortSnapshots ==
  {[week |-> <<1, 1, 2>>, close |-> [a \in Assets |-> prices]] : prices \in [1..3 -> 1..2]}

=============================================================================
