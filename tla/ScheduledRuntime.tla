-------------------------- MODULE ScheduledRuntime --------------------------
(***************************************************************************)
(* The algorithm generated for a v1 strategy: LEAN opens a session, which  *)
(* queues the events due on it, and delivers slices of daily bars; on a    *)
(* slice that has a bar of every subscribed asset the queued events first  *)
(* refresh their sleeves and then execute their rebalances.                *)
(*                                                                         *)
(* A slice is what the algorithm can tell apart: the assets with a bar,    *)
(* the trailing return of each asset (None without enough history), and    *)
(* the conditions that are true.  Sessions are counted from 1.             *)
(***************************************************************************)
EXTENDS LeanLowering

CONSTANTS
  Strategies,   \* the source strategies that are compiled
  Slices,       \* the slices that may be delivered
  MonthOf,      \* the month of each session, 1..12; its length bounds a run
  MaxSlices     \* bound on the slices of a session

ASSUME CalendarAssumption ==
  /\ MonthOf \in Seq(1..12)
  /\ MaxSlices \in Nat

(* What loading a document makes sure of: its list of components names     *)
(* each once, of a primitive of the registry, and a share is a number of   *)
(* parts.                                                                  *)
WellFormed(s) ==
  /\ DOMAIN s = {"order", "node", "wires", "entry"}
  /\ IsFiniteSet(DOMAIN s.node) /\ IsFiniteSet(s.entry)
  /\ Len(s.order) = Cardinality(DOMAIN s.node)
  /\ \A c \in DOMAIN s.node : s.node[c].prim \in Primitives /\ s.node[c].share \in Nat

ASSUME NoSessionAssumption == None \notin Nat

ASSUME StrategiesAssumption == \A s \in Strategies : WellFormed(s)

VARIABLES
  strategy,   \* the source strategy
  plan,       \* what it compiled to, or Refused
  today,      \* the session opened last
  delivered,  \* the slices delivered in it
  warm,       \* IsWarmingUp has become false
  pending,    \* _pendingEvent: event of the plan -> session it was queued for, or None
  session,    \* _tradingSessionIndex
  counted,    \* _lastTradingSessionDate, or None
  snapshot,   \* _targetSnapshot: scheduled sleeve -> asset -> share, or None
  previous,   \* _previousTargets: cooldown -> assets that had a target
  exited,     \* _lastExitSession: cooldown -> asset -> session index, or None
  held        \* the portfolio: asset -> share

sourceVars == <<strategy, plan>>
clockVars == <<today, delivered, warm>>
algoVars == <<snapshot, previous, exited, held>>
vars == <<strategy, plan, today, delivered, warm, pending, session, counted,
          snapshot, previous, exited, held>>

Runs == plan # Refused /\ Generates(plan)

(* A pick by score or a condition makes the algorithm warm up.             *)
NeedsHistory ==
  \/ \E id \in DOMAIN plan.sleeves : plan.sleeves[id].pick.kind = "momentum"
  \/ \E r \in DOMAIN plan.rebalances : plan.rebalances[r].clauses # {}

Init ==
  /\ strategy \in Strategies
  /\ plan = Compile(strategy)
  /\ today = 0
  /\ delivered = 0
  /\ warm = (plan # Refused /\ ~ NeedsHistory)
  /\ session = 0
  /\ counted = None
  /\ held = << >>
  /\ IF plan = Refused
       THEN /\ pending = << >> /\ snapshot = << >> /\ previous = << >> /\ exited = << >>
       ELSE /\ pending = [i \in DOMAIN plan.events |-> None]
            /\ snapshot = [c \in DOMAIN plan.snapshots |-> None]
            /\ previous = [d \in DOMAIN plan.cooldowns |-> {}]
            /\ exited = [d \in DOMAIN plan.cooldowns |->
                           [a \in plan.cooldowns[d].assets |-> None]]

-----------------------------------------------------------------------------
(* The schedule *)

OpensMonth(d) == d = 1 \/ MonthOf[d - 1] # MonthOf[d]

(* Mutant: the quarterly event is queued every month.                      *)
DueEveryMonth(cadence, d) == cadence = "daily" \/ OpensMonth(d)

(* DateRules of an event, and the month a quarterly one returns early on.  *)
Due(cadence, d) ==
  CASE cadence = "daily" -> TRUE
    [] cadence = "monthly" -> OpensMonth(d)
    [] cadence = "quarterly" -> OpensMonth(d) /\ (MonthOf[d] - 1) % 3 = 0

(* One minute after the open, QueueEvent of each event due.                *)
Open ==
  /\ Runs
  /\ today < Len(MonthOf)
  /\ today' = today + 1
  /\ delivered' = 0
  /\ pending' = [i \in DOMAIN pending |->
                   IF warm /\ Due(plan.events[i].cadence, today') THEN today' ELSE pending[i]]
  /\ UNCHANGED <<sourceVars, warm, session, counted, algoVars>>

(* Warming up covers whole sessions before the first that counts.          *)
WarmedUp ==
  /\ Runs
  /\ ~ warm /\ delivered = 0
  /\ warm' = TRUE
  /\ UNCHANGED <<sourceVars, today, delivered, pending, session, counted, algoVars>>

-----------------------------------------------------------------------------
(* Picking assets *)

(* Assets in the order of their score, ties by name.                       *)
Ranked(scores, direction) ==
  LET before(a, b) == IF scores[a] = scores[b] THEN a < b
                      ELSE IF direction = "ascending" THEN scores[a] < scores[b]
                      ELSE scores[a] > scores[b]
  IN SetToSortSeq(DOMAIN scores, before)

(* The scores of the assets that have one and pass the filter.             *)
Eligible(pick, slice) ==
  LET scored == {a \in pick.assets : slice.score[a] # None}
      passed == {a \in scored : pick.threshold = None \/ slice.score[a] > pick.threshold}
  IN [a \in passed |-> slice.score[a]]

(* The first of the ranking.                                               *)
Candidates(pick, slice) ==
  LET ranked == Ranked(Eligible(pick, slice), pick.direction)
  IN {a \in pick.assets : \E i \in DOMAIN ranked : i <= pick.count /\ ranked[i] = a}

(* RuleTradeRandom.Sample: a choice fixed by the component and the seed.   *)
Sample(assets, n, c, seed) ==
  LET sorted == Ascending(assets)
  IN {a \in assets : \E i \in 1..n : sorted[1 + ((c + seed + i) % Len(sorted))] = a}

(* Mutant: counts the session of the exit itself.                          *)
AllowedEarly(state, d, a, required) ==
  \/ state.exited[d][a] = None
  \/ session' - state.exited[d][a] >= required - 1

(* An asset that never left, or left the required sessions ago.            *)
Allowed(state, d, a, required) ==
  \/ state.exited[d][a] = None
  \/ session' - state.exited[d][a] >= required

Fallback(sleeve, chosen) ==
  IF sleeve.fallback # None /\ Cardinality(chosen) < sleeve.pick.count
    THEN {sleeve.fallback} ELSE chosen

(* A policy that requires all, or nothing at all to invest in, ends the    *)
(* execution of the event.                                                 *)
Required(pick, candidates) ==
  IF candidates = {} \/ (pick.policy = "require_full" /\ Cardinality(candidates) < pick.count)
    THEN None ELSE candidates

Gated(state, sleeve, candidates) ==
  IF sleeve.pick.gate # None
    THEN Fallback(sleeve, {a \in candidates : Allowed(state, sleeve.pick.gate, a,
                                        plan.cooldowns[sleeve.pick.gate].required)})
  ELSE IF sleeve.fallback # None THEN Fallback(sleeve, candidates)
  ELSE Required(sleeve.pick, candidates)

(* The assets a sleeve invests in at a rebalance, or None.                 *)
Chosen(state, sleeve, slice, date) ==
  CASE sleeve.pick.kind = "all" -> sleeve.pick.assets
    [] sleeve.pick.kind = "random" ->
         Sample(sleeve.pick.assets, sleeve.pick.count, sleeve.pick.of,
                IF sleeve.pick.resample = "once" THEN 0 ELSE date)
    [] OTHER ->
         Gated(state, sleeve, Candidates(sleeve.pick, slice))

Equally(chosen, weight) ==
  [a \in chosen |-> weight \div Cardinality(chosen)]

Plus(f, g) ==
  LET at(h, a) == IF a \in DOMAIN h THEN h[a] ELSE 0
  IN [a \in DOMAIN f \cup DOMAIN g |-> at(f, a) + at(g, a)]

(* The targets of several parts: what each gives an asset is added up.     *)
AddedUp(parts) ==
  [a \in UNION {DOMAIN parts[i] : i \in DOMAIN parts} |->
     MapThenSumSet(LAMBDA i : parts[i][a], {i \in DOMAIN parts : a \in DOMAIN parts[i]})]

-----------------------------------------------------------------------------
(* RefreshSnapshot and ExecuteEvent *)

(* A shortage without a fallback leaves the snapshot as it was; the gate   *)
(* of a cooldown is not consulted.                                         *)
Retain(retained, sleeve, chosen) ==
  IF sleeve.pick.kind = "momentum" /\ sleeve.fallback = None
     /\ Cardinality(chosen) < sleeve.pick.count
    THEN retained ELSE Equally(chosen, sleeve.weight)

RefreshSnapshot(retained, sleeve, slice) ==
  Retain(retained, sleeve,
         IF sleeve.pick.kind = "all" THEN sleeve.pick.assets
         ELSE Fallback(sleeve, Candidates(sleeve.pick, slice)))

RetainedBy(c) == plan.sleeves[plan.snapshots[c][1]]

(* Each sleeve is refreshed from the slice: in which order does not matter.*)
RefreshEvents(state, ready, slice) ==
  [state EXCEPT !.snapshot = [c \in DOMAIN @ |->
     IF \E i \in ready : c \in ToSet(plan.events[i].refresh)
       THEN RefreshSnapshot(@[c], RetainedBy(c), slice) ELSE @[c]]]

(* The targets of a branch, or None when it returns before it has them;    *)
(* chosen gives the assets of each of its sleeves.                         *)
Targets(state, branch, chosen) ==
  IF \/ \E i \in DOMAIN branch.snapshots : state.snapshot[branch.snapshots[i].id] = None
     \/ \E i \in DOMAIN chosen : chosen[i] = None
  THEN None
  ELSE Plus(AddedUp([i \in DOMAIN branch.snapshots |->
                       LET l == branch.snapshots[i]
                       IN [a \in DOMAIN state.snapshot[l.id] |->
                             Scale(state.snapshot[l.id][a], l.weight)]]),
            AddedUp([i \in DOMAIN chosen |->
                       Equally(chosen[i], plan.sleeves[branch.sleeves[i]].weight)]))

BranchTargets(state, branch, slice, date) ==
  IF branch = None THEN None
  ELSE Targets(state, branch, [i \in DOMAIN branch.sleeves |->
                                 Chosen(state, plan.sleeves[branch.sleeves[i]], slice, date)])

(* Exits are marked against the targets before, then holdings follow.      *)
Settle(state, exits, targets) ==
  LET had(d) == IF d \in exits THEN state.previous[d] ELSE {}
      has(d) == plan.cooldowns[d].assets \cap DOMAIN targets
  IN [state EXCEPT
        !.exited = [d \in DOMAIN @ |-> [a \in DOMAIN @[d] |->
                      IF a \in had(d) \ has(d) THEN session' ELSE @[d][a]]],
        !.previous = [d \in DOMAIN @ |-> IF d \in exits THEN has(d) ELSE @[d]],
        !.held = targets]

(* The branch whose condition is met; no branch is a return.               *)
Taken(rebalance, slice) ==
  IF rebalance.clauses \subseteq slice.true THEN rebalance.then ELSE rebalance.otherwise

(* One rebalance of an event.  A return ends the whole of ExecuteEvent.    *)
Executed(run, branch, targets) ==
  IF targets = None THEN [run EXCEPT !.returned = TRUE]
  ELSE [run EXCEPT !.state = Settle(@, branch.exits, targets)]

ExecuteRebalance(run, branch, slice, date) ==
  IF run.returned THEN run
  ELSE Executed(run, branch, BranchTargets(run.state, branch, slice, date))

ExecuteEvent(state, i, slice) ==
  LET rebalances == plan.events[i].rebalance
      run[k \in 0..Len(rebalances)] ==
        IF k = 0 THEN [state |-> state, returned |-> FALSE]
        ELSE ExecuteRebalance(run[k - 1], Taken(plan.rebalances[rebalances[k]], slice), slice,
                              pending[i])
  IN run[Len(rebalances)].state

-----------------------------------------------------------------------------
(* OnData *)

DataIsReady(slice) == plan.required \subseteq slice.bars

(* All refreshes of the ready events, and then their rebalances.           *)
Handle(state, ready, slice) ==
  LET executed[i \in 0..Len(plan.events)] ==
        IF i = 0 THEN RefreshEvents(state, ready, slice)
        ELSE IF i \in ready THEN ExecuteEvent(executed[i - 1], i, slice)
        ELSE executed[i - 1]
  IN executed[Len(plan.events)]

Ready(slice) ==
  {i \in DOMAIN pending : pending[i] # None /\ DataIsReady(slice)}

(* The session index counts the sessions a slice was seen in, once each.   *)
CountSession ==
  IF DOMAIN plan.cooldowns # {} /\ counted # today
    THEN session' = session + 1 /\ counted' = today
    ELSE UNCHANGED <<session, counted>>

Becomes(state) ==
  /\ snapshot' = state.snapshot
  /\ previous' = state.previous
  /\ exited' = state.exited
  /\ held' = state.held

HandleReady(slice, ready) ==
  /\ pending' = [i \in DOMAIN pending |-> IF i \in ready THEN None ELSE pending[i]]
  /\ Becomes(Handle([snapshot |-> snapshot, previous |-> previous,
                     exited |-> exited, held |-> held], ready, slice))

OnData(slice) ==
  /\ Runs
  /\ today > 0 /\ delivered < MaxSlices
  /\ delivered' = delivered + 1
  /\ UNCHANGED <<sourceVars, today, warm>>
  /\ IF NeedsHistory /\ ~ warm
     THEN UNCHANGED <<pending, session, counted, algoVars>>
     ELSE CountSession /\ HandleReady(slice, Ready(slice))

Next ==
  \/ Open
  \/ WarmedUp
  \/ \E slice \in Slices : OnData(slice)

Spec == Init /\ [][Next]_vars

-----------------------------------------------------------------------------
(* Properties *)

(* Whatever was composed, scaled, retained or replaced by a fallback, a    *)
(* rebalance invests the whole portfolio: require_complete_branch adds up  *)
(* weights at compile time, and the generated algorithm divides them among *)
(* assets known only later.  A cooldown may leave a part uninvested.       *)
WholePortfolioInvested ==
  Runs /\ DOMAIN plan.cooldowns = {} /\ held # << >> =>
    MapThenSumSet(LAMBDA a : held[a], DOMAIN held) = Whole

(* No two rebalances draw on one cooldown: the state of a shared one is    *)
(* observed by the rebalance that comes after it in the document.          *)
CooldownsUnshared(s) ==
  \A d, q, r \in DOMAIN s.node :
    /\ Prim(s, d) = "cooldown" /\ Prim(s, q) = "rebalance" /\ Prim(s, r) = "rebalance"
    /\ d \in Upstream(s, SourceOf(s, q, "targets"))
    /\ d \in Upstream(s, SourceOf(s, r, "targets"))
    => q = r

(* The document order of the components is no part of a strategy's         *)
(* identity (strategy_hash sorts them): strategies that differ in it alone *)
(* compile to the same plan, if both compile.  The plan never changes, so  *)
(* it is looked at before the first session.                               *)
InOrderOfId(s) == [s EXCEPT !.order = Ascending(DOMAIN s.node)]

PlanIgnoresOrder ==
  today = 0 /\ plan # Refused => Compile(InOrderOfId(strategy)) \in {plan, Refused}

(* What the source graph means: the plan's state is read as that of the    *)
(* strategy, by the ids both keep.                                         *)
Reference == INSTANCE ScheduleReference WITH
  due      <- [e \in {x[1] : x \in strategy.entry} |->
                 IF ~ Runs THEN None
                 ELSE pending[CHOOSE i \in DOMAIN plan.events : e \in plan.events[i].sources]],
  sessions <- session,
  kept     <- IF Runs THEN snapshot ELSE [c \in Scheduled(strategy) |-> None],
  targeted <- IF Runs THEN previous
              ELSE [d \in {c \in DOMAIN strategy.node : Prim(strategy, c) = "cooldown"} |-> {}],
  left     <- IF Runs THEN exited
              ELSE [d \in {c \in DOMAIN strategy.node : Prim(strategy, c) = "cooldown"} |->
                      [a \in AssetsBehind(strategy, d) |-> None]]

(* Grouped, lowered and generated, a strategy that runs holds at all times *)
(* what its graph means: the refreshes and rebalances of each session are  *)
(* those of the source, on the same data and in an order that agrees.      *)
ImplementsReference == Reference!Spec

(* The branches of the rebalances an event executes.                       *)
Branches(p) ==
  (UNION {{p.rebalances[r].then, p.rebalances[r].otherwise} :
            r \in UNION {ToSet(p.events[i].rebalance) : i \in DOMAIN p.events}}) \ {None}

Offer(sleeve) == sleeve.pick.assets \cup ({sleeve.fallback} \ {None})

(* The assets of a cooldown are invested in through its own gate only: no  *)
(* other sleeve offers one, and none is retained, for a retained sleeve    *)
(* does not consult a gate.                                                *)
GatedAlone(p) ==
  \A d \in DOMAIN p.cooldowns :
    /\ p.cooldowns[d].required \in Nat
    /\ \A b \in Branches(p) :
         /\ \A i \in DOMAIN b.sleeves :
              LET sleeve == p.sleeves[b.sleeves[i]]
              IN Offer(sleeve) \cap p.cooldowns[d].assets # {} =>
                   /\ sleeve.pick.kind = "momentum" /\ sleeve.pick.gate = d
                   /\ sleeve.fallback \notin p.cooldowns[d].assets
         /\ \A i \in DOMAIN b.snapshots :
              /\ b.snapshots[i].id \in DOMAIN p.snapshots
              /\ Offer(p.sleeves[p.snapshots[b.snapshots[i].id][1]])
                   \cap p.cooldowns[d].assets = {}

(* From one step to the next an asset that is not held is bought only if   *)
(* it has stayed out for the sessions required, however slices come.       *)
CooldownRespected ==
  [][\A d \in DOMAIN exited : \A a \in DOMAIN exited[d] :
       (a \notin DOMAIN held /\ a \in DOMAIN held' /\ exited[d][a] # None)
       => session' - exited[d][a] >= plan.cooldowns[d].required]_vars

=============================================================================
