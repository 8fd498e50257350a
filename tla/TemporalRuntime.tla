--------------------------- MODULE TemporalRuntime ---------------------------
(***************************************************************************)
(* The algorithm that src/src/ruletrade/compiler/lean/codegen.py generates *)
(* for a temporal program, run by one LEAN process after another: each     *)
(* fresh process imports a checkpoint that an earlier one emitted and that *)
(* validate_checkpoint (checkpoint.py) accepts.                            *)
(*                                                                         *)
(* A boundary is one call of OnData, taken here statement by statement, so *)
(* that a process may end inside it: what it did since its last checkpoint *)
(* is lost then.  The fields of the algorithm that a checkpoint carries    *)
(* are the record `runtime'; `boundary' counts sessions from 1, where      *)
(* _boundaryIndex counts from 0.  A process resumes at the session after   *)
(* its checkpoint's.                                                       *)
(***************************************************************************)
EXTENDS TemporalProgram

VARIABLES
  program,
  market,
  runtime,   \* the fields that a checkpoint carries
  visit,     \* position inside ExecuteTemporalBoundary; 0 between two bars
  act,       \* position in the actions of a triggered event
  pending,   \* _portfolioRestorePending
  holdings,  \* the assets that the orders submitted so far amount to
  emitted    \* checkpoint and policy decision of every session, as logged

runtimeVars == <<program, market, runtime, visit, act, pending, holdings, emitted>>

Fresh(p) ==
  [boundary  |-> 0,
   state     |-> p.initial,
   entered   |-> [k \in Keys |-> Missing],
   truths    |-> [i \in EventsOf(p) |-> "false"],
   counts    |-> [i \in EventsOf(p) |-> 0],
   cutoffs   |-> [i \in EventsOf(p) |-> Missing],
   memory    |-> [m \in Memories |-> Missing],
   captures  |-> [m \in Memories |-> Missing],
   target    |-> Missing,
   week      |-> Missing,
   weekClose |-> Missing,
   completed |-> Missing]

RuntimeInit ==
  /\ program \in Programs
  /\ market \in Markets
  /\ runtime = Fresh(program)
  /\ visit = 0
  /\ act = 0
  /\ pending = FALSE
  /\ holdings = {}
  /\ emitted = <<>>

-----------------------------------------------------------------------------
(* Values and conditions, as codegen.py writes them out.                   *)

BarsSince(i) ==
  IF runtime.cutoffs[i] = Missing THEN Missing ELSE runtime.boundary - runtime.cutoffs[i]

ValueOf(v) ==
  IF v.kind = "current_price" THEN market.close[v.asset][runtime.boundary]
  ELSE IF v.kind = "literal" THEN v.literal
  ELSE IF v.kind = "remembered" THEN runtime.memory[v.memory]
  ELSE IF v.kind = "bars_since_event" THEN BarsSince(v.event)
  ELSE runtime.completed

AllTruth(left, right) ==
  IF "false" \in {left, right} THEN "false"
  ELSE IF "unknown" \in {left, right} THEN "unknown" ELSE "true"

Truth(holds) == IF holds THEN "true" ELSE "false"

ComparisonTruth(e) ==
  LET left == ValueOf(e.left)
      right == ValueOf(e.right)
  IN  IF left = Missing \/ right = Missing THEN "unknown"
      ELSE Truth(Compares(e.operator, left, right))

StateTruth(e) ==
  Truth(e.guard # Missing => runtime.state[e.guard.key] = e.guard.value)

WindowTruth(e) ==
  IF e.window = Missing THEN "true"
  ELSE LET cutoff == runtime.cutoffs[e.window.event]
       IN  IF cutoff = Missing THEN "unknown"
           ELSE Truth(/\ runtime.boundary > cutoff
                      /\ runtime.boundary - cutoff <= e.window.within)

ConditionTruth(e) == AllTruth(AllTruth(ComparisonTruth(e), StateTruth(e)), WindowTruth(e))

Occurs(trigger, truth, previous) ==
  \/ trigger = "while_true" /\ truth = "true"
  \/ trigger \in {"rising_edge", "crosses_above"} /\ truth = "true" /\ previous # "true"
  \/ trigger = "crosses_below" /\ truth = "false" /\ previous = "true"

-----------------------------------------------------------------------------
(* One boundary.                                                           *)

(* A new ISO week completes the one before; a profile without weekly       *)
(* values skips this.                                                      *)
RollWeek(week, close) ==
  IF ~Multiclock(program) THEN runtime
  ELSE [runtime EXCEPT
          !.completed = IF runtime.week \notin {Missing, week} THEN runtime.weekClose ELSE @,
          !.week = week,
          !.weekClose = close]

(* SetHoldings(asset, 1) leaves the other positions alone.                 *)
SetHoldings(asset) == holdings' = holdings \cup {asset}
Liquidate == holdings' = {}

(* A bar of the anchor arrives: the intended target of the process before  *)
(* is bought again, ahead of the boundary's own decision.                  *)
NextBar ==
  LET session == runtime.boundary + 1
  IN  /\ visit = 0
      /\ session \in Sessions(market)
      /\ runtime' = [RollWeek(market.week[session], market.close[program.anchor][session])
                       EXCEPT !.boundary = session]
      /\ IF pending THEN SetHoldings(runtime.target) ELSE UNCHANGED holdings
      /\ pending' = FALSE
      /\ visit' = 1
      /\ UNCHANGED <<program, market, act, emitted>>

(* On to the k-th action of the event being visited, or to the next event. *)
Proceed(k) ==
  IF k <= Len(program.events[visit].actions)
  THEN act' = k /\ visit' = visit
  ELSE act' = 0 /\ visit' = visit + 1

EvaluateEvent ==
  /\ visit \in EventsOf(program)
  /\ act = 0
  /\ LET e == program.events[visit]
         truth == ConditionTruth(e)
         occurs == Occurs(e.trigger, truth, runtime.truths[visit])
         count == runtime.counts[visit] + 1
         triggered == occurs /\ (e.occurrence = "first" => count = 1)
     IN  /\ runtime' = [runtime EXCEPT
                !.truths[visit] = truth,
                !.counts[visit] = IF occurs THEN count ELSE @,
                !.cutoffs[visit] = IF triggered THEN runtime.boundary ELSE @]
         /\ IF triggered THEN Proceed(1) ELSE act' = 0 /\ visit' = visit + 1
  /\ UNCHANGED <<program, market, pending, holdings, emitted>>

Performing(kind) ==
  /\ visit \in EventsOf(program)
  /\ act \in DOMAIN program.events[visit].actions
  /\ program.events[visit].actions[act].kind = kind
  /\ Proceed(act + 1)
  /\ UNCHANGED <<program, market, pending, holdings, emitted>>

(* An unknown value is not captured, and what was captured before stays.   *)
Remember ==
  /\ Performing("remember")
  /\ LET a == program.events[visit].actions[act]
         value == ValueOf(a.value)
     IN  runtime' = IF value = Missing THEN runtime
                    ELSE [runtime EXCEPT !.memory[a.memory] = value,
                                         !.captures[a.memory] = runtime.boundary]

Transition ==
  /\ Performing("transition")
  /\ LET a == program.events[visit].actions[act]
     IN  runtime' = IF runtime.state[a.key] # a.from THEN runtime
                    ELSE [runtime EXCEPT !.state[a.key] = a.to,
                                         !.entered[a.key] = runtime.boundary]

(* The first matching override decides, or else the primary target.        *)
Matches(j) == runtime.state[program.overrides[j].key] = program.overrides[j].value

Policy(target) ==
  \/ \E j \in DOMAIN program.overrides :
       /\ Matches(j) /\ \A k \in 1..(j - 1) : ~Matches(k)
       /\ target = program.overrides[j].target
  \/ /\ \A j \in DOMAIN program.overrides : ~Matches(j)
     /\ target = program.primary

(* Evidence of a session; a process that replays it logs it again.         *)
Emit(evidence) ==
  emitted' = [k \in DOMAIN emitted \cup {runtime.boundary} |->
                IF k = runtime.boundary THEN evidence ELSE emitted[k]]

(* An order only for a new target, then the checkpoint.                    *)
Decide ==
  /\ visit = Len(program.events) + 1
  /\ \E decision \in Targets :
       /\ Policy(decision)
       /\ LET ordered == decision \notin {Retain, runtime.target}
          IN  /\ runtime' = [runtime EXCEPT !.target = IF ordered THEN decision ELSE @]
              /\ \/ ordered /\ decision \in Assets /\ SetHoldings(decision)
                 \/ ordered /\ decision = Cash /\ Liquidate
                 \/ ~ordered /\ UNCHANGED holdings
       /\ Emit([checkpoint |-> runtime', decision |-> decision])
  /\ visit' = 0
  /\ UNCHANGED <<program, market, act, pending>>

-----------------------------------------------------------------------------
(* The next process.                                                       *)

Remembered(c, i, k) ==
  LET a == program.events[i].actions[k]
  IN  a.kind = "remember" => c.memory[a.memory] # Missing

RequiredMemory(c, i) == \A k \in DOMAIN program.events[i].actions : Remembered(c, i, k)

(* Memory comes with its capture, and nothing lies in the future.          *)
Coherent(c) ==
  /\ \A m \in Memories : c.memory[m] = Missing <=> c.captures[m] = Missing
  /\ \A i \in EventsOf(program) : c.cutoffs[i] # Missing => c.cutoffs[i] <= c.boundary
  /\ \A m \in Memories : c.captures[m] # Missing => c.captures[m] <= c.boundary

(* validate_checkpoint, as far as its verdict depends on the run.          *)
Accepted(c) ==
  /\ Coherent(c)
  /\ \A i \in EventsOf(program) : c.cutoffs[i] # Missing => RequiredMemory(c, i)

(* Mutant: the truths of the session before are not taken over, so         *)
(* that a condition that stays true rises again.                           *)
ImportForgettingTruths(c) ==
  [c EXCEPT !.truths = Fresh(program).truths]

(* Mutant: the aggregates of the week are left out.                        *)
ImportForgettingWeeks(c) ==
  [c EXCEPT !.week = Missing, !.weekClose = Missing, !.completed = Missing]

(* What Initialize assigns, over the fields of a new process.              *)
Import(c) ==
  [Fresh(program) EXCEPT
     !.boundary = c.boundary, !.state = c.state, !.entered = c.entered,
     !.truths = c.truths, !.counts = c.counts, !.cutoffs = c.cutoffs,
     !.memory = c.memory, !.captures = c.captures, !.target = c.target,
     !.week = c.week, !.weekClose = c.weekClose, !.completed = c.completed]

(* Mutant: a process that counts on the account of the process before.     *)
RestoreNever(c) == FALSE

(* The fresh account has to be brought to an asset target, not to cash.    *)
RestoreNeeded(c) == c.target \in Assets

(* Initialize: the settings carry no checkpoint, or an accepted one.       *)
Start(c) ==
  /\ runtime' = Import(c)
  /\ pending' \in BOOLEAN
  /\ pending' <=> RestoreNeeded(c)
  /\ holdings' = {}
  /\ visit' = 0
  /\ act' = 0
  /\ UNCHANGED <<program, market, emitted>>

Restart ==
  \/ Start(Fresh(program))
  \/ \E k \in DOMAIN emitted :
       Accepted(emitted[k].checkpoint) /\ Start(emitted[k].checkpoint)

RuntimeNext == NextBar \/ EvaluateEvent \/ Remember \/ Transition \/ Decide \/ Restart

RuntimeSpec == RuntimeInit /\ [][RuntimeNext]_runtimeVars

-----------------------------------------------------------------------------
(* Properties.                                                             *)

RuntimeRecords(p) ==
  [boundary  : {0} \cup Sessions(market),
   state     : [Keys -> Phases],
   entered   : [Keys -> Optional(Sessions(market))],
   truths    : [EventsOf(p) -> Truths],
   counts    : [EventsOf(p) -> Nat],
   cutoffs   : [EventsOf(p) -> Optional(Sessions(market))],
   memory    : [Memories -> Optional(Int)],
   captures  : [Memories -> Optional(Sessions(market))],
   target    : Optional(Assets \cup {Cash}),
   week      : Optional(Nat),
   weekClose : Optional(Nat),
   completed : Optional(Nat)]

FieldsTypeOK ==
  /\ program \in Programs
  /\ market \in Markets
  /\ runtime \in RuntimeRecords(program)

PositionTypeOK ==
  /\ visit \in 0..Len(program.events) + 1
  /\ act = 0 \/ (visit \in EventsOf(program) /\ act \in DOMAIN program.events[visit].actions)
  /\ visit > 0 => runtime.boundary > 0

BrokerageTypeOK ==
  /\ pending \in BOOLEAN
  /\ pending => visit = 0 /\ runtime.target \in Assets
  /\ holdings \subseteq Assets

LogTypeOK ==
  /\ DOMAIN emitted \subseteq Sessions(market)
  /\ \A k \in DOMAIN emitted :
       /\ emitted[k].checkpoint \in RuntimeRecords(program)
       /\ emitted[k].checkpoint.boundary = k
       /\ emitted[k].decision \in Targets

(* The algorithm never visits an event or an action its program does not   *)
(* have, and no field of a checkpoint names a session still to come.       *)
RuntimeTypeOK == FieldsTypeOK /\ PositionTypeOK /\ BrokerageTypeOK /\ LogTypeOK

(* Before session s there had been no value to take: no week was complete, *)
(* nothing captured, or the event had not triggered.                       *)
NotYet(v, c, s) ==
  \/ /\ v.kind = "completed_weekly_price"
     /\ Multiclock(program) => \A t \in 1..s : market.week[t] = market.week[s]
  \/ /\ v.kind = "remembered"
     /\ c.captures[v.memory] = Missing \/ c.captures[v.memory] >= s
  \/ /\ v.kind = "bars_since_event"
     /\ c.cutoffs[v.event] = Missing \/ c.cutoffs[v.event] >= s

(* In the session its event triggered in, the value was unknown; an event  *)
(* does not trigger as long as a value it compares is.                     *)
Unknown(c, i, k) ==
  LET e == program.events[i]
      a == e.actions[k]
  IN  /\ a.kind = "remember" /\ a.value \notin {e.left, e.right}
      /\ NotYet(a.value, c, c.cutoffs[i])

(* A checkpoint that is logged is coherent, and if memory it requires is   *)
(* missing, then because the event that had to remember it triggered       *)
(* before there was a value: no crash, import or replay loses a memory.    *)
LacksOnlyTheUnknown ==
  \A n \in DOMAIN emitted :
    LET c == emitted[n].checkpoint
    IN  /\ Coherent(c)
        /\ \A i \in EventsOf(program) : c.cutoffs[i] # Missing =>
             \A k \in DOMAIN program.events[i].actions :
               Remembered(c, i, k) \/ Unknown(c, i, k)

(* Every checkpoint that a process logs is one the next process may        *)
(* import.  It is not so of a program with an event that remembers a value *)
(* it does not compare: bridge.py lowers any temporal value, and one that  *)
(* triggers in the first week has no completed week to remember.           *)
CheckpointsAreAccepted == \A n \in DOMAIN emitted : Accepted(emitted[n].checkpoint)

(* Between two bars, the orders of this process amount to the last target  *)
(* the policy decided on, whichever process decided it.                    *)
HoldingsFollowPolicy ==
  visit = 0 /\ ~pending => holdings = {runtime.target} \cap Assets

(* What a session left behind, in the terms of the evaluator.              *)
ResultOf(c, decision) ==
  [state |-> c.state, entered |-> c.entered, truths |-> c.truths, counts |-> c.counts,
   cutoffs |-> c.cutoffs, memory |-> c.memory, decision |-> decision]

Logged == [k \in DOMAIN emitted |-> ResultOf(emitted[k].checkpoint, emitted[k].decision)]

Reference == INSTANCE ProgramReference WITH results <- Logged

(* The logged sessions are those of the reference evaluator, however often *)
(* and wherever the run was interrupted and resumed, replays included.     *)
ImplementsReference == Reference!ReferenceSpec

=============================================================================
