--------------------------- MODULE TemporalProgram ---------------------------
(***************************************************************************)
(* Temporal programs as the LEAN plan carries them                         *)
(* (src/src/ruletrade/compiler/lean/plan.py), and the market snapshots     *)
(* they run on.  The evaluator of the reference and the generated          *)
(* algorithm both read these.                                              *)
(*                                                                         *)
(* An event is named by its position in the program, a price is a natural  *)
(* number, a trading session is a position in the snapshot.                *)
(***************************************************************************)
EXTENDS Integers, Sequences

CONSTANTS
  Missing,   \* no value: an absent key, a null decimal, an optional field
  Assets,
  Cash,      \* the policy target "cash"
  Retain,    \* the policy target "retain"
  Keys,      \* State keys of the programs
  Phases,    \* values of a State key
  Memories,  \* memory ids
  Programs,  \* the programs that may run
  Markets    \* the snapshots they may run on

Truths == {"true", "false", "unknown"}
Operators == {"gt", "gte", "lt", "lte", "eq", "neq"}
Triggers == {"rising_edge", "while_true", "crosses_above", "crosses_below"}
Targets == Assets \cup {Cash, Retain}
Optional(S) == S \cup {Missing}

Values ==
  [kind : {"current_price", "completed_weekly_price"}, asset : Assets]
    \cup [kind : {"literal"}, literal : Nat]
    \cup [kind : {"remembered"}, memory : Memories]
    \cup [kind : {"bars_since_event"}, event : Nat]

Actions ==
  [kind : {"remember"}, memory : Memories, value : Values]
    \cup [kind : {"transition"}, key : Keys, from : Phases, to : Phases]

(* LeanTemporalEvent with its LeanTemporalCondition: a Comparison, and     *)
(* optionally a State guard and a window after another event.              *)
Events ==
  [trigger    : Triggers,
   occurrence : {"every", "first"},
   left       : Values,
   operator   : Operators,
   right      : Values,
   guard      : Optional([key : Keys, value : Phases]),
   window     : Optional([event : Nat, within : Nat]),
   actions    : Seq(Actions)]

(* Overrides are listed by falling priority, as the lowering sorts them.   *)
ProgramRecords ==
  [anchor    : Assets,
   initial   : [Keys -> Phases],
   events    : Seq(Events),
   overrides : Seq([key : Keys, value : Phases, target : Targets]),
   primary   : Targets]

MarketRecords == [week : Seq(Nat), close : [Assets -> Seq(Nat)]]

EventsOf(p) == DOMAIN p.events

(* validate_program_v2: a program names only events it has.                *)
ReferencesResolve(p) ==
  \A e \in {p.events[i] : i \in EventsOf(p)} :
    /\ e.window # Missing => e.window.event \in EventsOf(p)
    /\ \A v \in {e.left, e.right} \cup {a.value : a \in {e.actions[k] : k \in
                   {k \in DOMAIN e.actions : e.actions[k].kind = "remember"}}} :
         v.kind = "bars_since_event" => v.event \in EventsOf(p)

(* Every asset has a bar in every session of a snapshot.                   *)
Sessions(m) == DOMAIN m.week

ASSUME MissingAssumption ==
  /\ Missing \notin Int \cup Targets \cup Phases
  /\ Missing \notin [key : Keys, value : Phases] \cup [event : Nat, within : Nat]
  /\ {Cash, Retain} \cap Assets = {} /\ Cash # Retain
ASSUME ProgramsAssumption ==
  \A p \in Programs : p \in ProgramRecords /\ ReferencesResolve(p)
ASSUME MarketsAssumption ==
  \A m \in Markets :
    m \in MarketRecords /\ \A a \in Assets : DOMAIN m.close[a] = DOMAIN m.week

Compares(operator, l, r) ==
  \/ operator = "gt" /\ l > r
  \/ operator = "gte" /\ l >= r
  \/ operator = "lt" /\ l < r
  \/ operator = "lte" /\ l <= r
  \/ operator = "eq" /\ l = r
  \/ operator = "neq" /\ l # r

(* A profile with a completed weekly value in a condition keeps weekly     *)
(* aggregates; the others do not.                                          *)
Multiclock(p) ==
  \E i \in EventsOf(p) :
    "completed_weekly_price" \in {p.events[i].left.kind, p.events[i].right.kind}

=============================================================================
