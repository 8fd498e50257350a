-------------------------- MODULE ScheduleReference -------------------------
(***************************************************************************)
(* What a v1 strategy means, on its own graph and without a compiler.      *)
(*                                                                         *)
(* On a slice with a bar of every asset the events that fell due are       *)
(* handled.  Sleeves with a schedule of their own are refreshed before any *)
(* rebalance; a rebalance whose targets cannot be computed leaves the      *)
(* portfolio as it is, and any other replaces it.  An asset that leaves    *)
(* the targets of a cooled rebalance is blocked for the sessions required. *)
(***************************************************************************)
EXTENDS StrategyGraph, TLC

CONSTANTS Strategies, Slices, MonthOf, MaxSlices

VARIABLES
  strategy,
  today, delivered, warm,
  due,       \* event component -> the session it fell due in, or None
  sessions,  \* the sessions seen
  kept,      \* scheduled sleeve -> its local targets, or None
  targeted,  \* cooldown -> the assets of its last targets
  left,      \* cooldown -> asset -> the session it left in, or None
  held

vars == <<strategy, today, delivered, warm, due, sessions, kept, targeted, left, held>>

Nodes(prim) == {c \in DOMAIN strategy.node : Prim(strategy, c) = prim}

EventsOf == {e[1] : e \in strategy.entry}

Init ==
  /\ strategy \in Strategies
  /\ today = 0 /\ delivered = 0 /\ warm \in BOOLEAN
  /\ due = [e \in EventsOf |-> None]
  /\ sessions = 0
  /\ kept = [c \in Scheduled(strategy) |-> None]
  /\ targeted = [d \in Nodes("cooldown") |-> {}]
  /\ left = [d \in Nodes("cooldown") |-> [a \in AssetsBehind(strategy, d) |-> None]]
  /\ held = << >>

FallsDue(e, d) ==
  LET opens == d = 1 \/ MonthOf[d] # MonthOf[d - 1]
  IN CASE Prim(strategy, e) = "daily" -> TRUE
       [] Prim(strategy, e) = "monthly" -> opens
       [] Prim(strategy, e) = "quarterly" -> opens /\ MonthOf[d] \in {1, 4, 7, 10}

Day ==
  /\ today < Len(MonthOf)
  /\ today' = today + 1
  /\ delivered' = 0
  /\ due' = [e \in EventsOf |-> IF warm /\ FallsDue(e, today') THEN today' ELSE due[e]]
  /\ UNCHANGED <<strategy, warm, sessions, kept, targeted, left, held>>

WarmedUp ==
  /\ warm' = TRUE
  /\ UNCHANGED <<strategy, today, delivered, due, sessions, kept, targeted, left, held>>

-----------------------------------------------------------------------------
(* evaluate_trailing_return_top_n and its kin *)

(* The best count of the eligible assets.                                  *)
TopOf(c, slice) ==
  LET rank == SourceOf(strategy, c, "ranked")
      scores == SourceOf(strategy, rank, "scores")
      screened == Prim(strategy, scores) = "filter"
      score == IF screened THEN SourceOf(strategy, scores, "scores") ELSE scores
      universe == strategy.node[SourceOf(strategy, score, "assets")].assets
      eligible == {a \in universe : slice.score[a] # None
                     /\ (screened => slice.score[a] > strategy.node[scores].threshold)}
      better(a, b) ==
        \/ slice.score[a] = slice.score[b] /\ a < b
        \/ IF strategy.node[rank].direction = "ascending"
             THEN slice.score[a] < slice.score[b] ELSE slice.score[a] > slice.score[b]
  IN {a \in eligible : Cardinality({b \in eligible : better(b, a)}) < strategy.node[c].count}

(* evaluate_cooldown: the candidates that have waited long enough.         *)
Rested(d, candidates, now) ==
  {a \in candidates : left[d][a] = None \/ now - left[d][a] >= strategy.node[d].duration}

Drawn(c, date) ==
  LET pool == Ascending(strategy.node[SourceOf(strategy, c, "assets")].assets)
      seed == IF strategy.node[c].resample = "once" THEN 0 ELSE date
  IN {pool[1 + ((c + seed + i) % Len(pool))] : i \in 1..strategy.node[c].count}

(* The assets an equal weighting shares out to; None on a shortage.        *)
Selected(c, slice, date, now) ==
  LET top == TopOf(c, slice)
  IN CASE Prim(strategy, c) \in {"asset_set", "universe"} -> strategy.node[c].assets
       [] Prim(strategy, c) = "random_select" -> Drawn(c, date)
       [] Prim(strategy, c) = "cooldown" ->
            Rested(c, TopOf(SourceOf(strategy, c, "candidates"), slice), now)
       [] Prim(strategy, c) = "top_n" ->
            IF Cardinality(top) = strategy.node[c].count THEN top
            ELSE IF strategy.node[c].policy = "choose_all" /\ top # {} THEN top
            ELSE None

Share(assets, total) == [a \in assets |-> total \div Cardinality(assets)]

Add(f, g) ==
  IF None \in {f, g} THEN None
  ELSE LET of(h, a) == IF a \in DOMAIN h THEN h[a] ELSE 0
       IN [a \in DOMAIN f \cup DOMAIN g |-> of(f, a) + of(g, a)]

Scaled(f, share) ==
  IF f = None THEN None ELSE [a \in DOMAIN f |-> (f[a] * share) \div Whole]

(* The targets a component computes; None when it cannot.                  *)
Targets(component, slice, date, now, snapshots) ==
  LET targets[c \in DOMAIN strategy.node] ==
        LET of(port) == targets[SourceOf(strategy, c, port)]
            node == strategy.node[c]
        IN CASE node.prim = "equal_weight" ->
                  LET assets == Selected(SourceOf(strategy, c, "assets"), slice, date, now)
                  IN IF assets = None THEN None ELSE Share(assets, node.share)
             [] node.prim = "merge_targets" -> Add(of("left"), of("right"))
             [] node.prim = "portfolio" ->
                  FoldSet(LAMBDA d, sum : Add(sum, targets[d]), << >>,
                          SourcesOf(strategy, c, "sleeves"))
             [] node.prim = "portfolio_sleeve" ->
                  Scaled(IF c \in Scheduled(strategy) THEN snapshots[c] ELSE of("local_targets"),
                         node.share)
             [] node.prim = "fallback" ->
                  LET primary == SourceOf(strategy, c, "primary")
                      top == SourceOf(strategy, primary, "assets")
                  IN IF Cardinality(TopOf(top, slice)) = strategy.node[top].count
                       THEN of("primary") ELSE Share(node.assets, strategy.node[primary].share)
  IN targets[component]

-----------------------------------------------------------------------------
(* Handling what is due *)

(* Every asset of the strategy has a bar.                                  *)
Observed(slice) ==
  UNION {strategy.node[c].assets : c \in DOMAIN strategy.node} \subseteq slice.bars

Handled(slice) ==
  IF Observed(slice) THEN {e \in EventsOf : due[e] # None} ELSE {}

Refreshed(handled, slice) ==
  [c \in DOMAIN kept |->
     LET by == {e \in handled : <<e, c>> \in strategy.entry}
         local == Targets(SourceOf(strategy, c, "local_targets"), slice, 0, 0, kept)
     IN IF by # {} /\ local # None THEN local ELSE kept[c]]

(* The targets of a rebalance, or of the branch a rule takes.              *)
Wanted(r, slice, date, now, snapshots) ==
  LET node == strategy.node[r]
      target == IF Prim(strategy, r) = "rebalance" THEN SourceOf(strategy, r, "targets")
                ELSE IF node.clauses \subseteq slice.true THEN node.then
                ELSE node.otherwise
  IN IF target = None THEN None ELSE Targets(target, slice, date, now, snapshots)

Cooled(r) ==
  {d \in Nodes("cooldown") : Prim(strategy, r) = "rebalance"
     /\ d \in Upstream(strategy, SourceOf(strategy, r, "targets"))}

(* At most one rebalance is due at a time in the strategies studied here.  *)
DueRebalances(handled) ==
  {x \in strategy.entry : x[1] \in handled /\ Prim(strategy, x[2]) \in {"rebalance", "rule"}}

Slice(slice) ==
  /\ today > 0
  /\ delivered < MaxSlices
  /\ delivered' = delivered + 1
  /\ sessions' = IF warm /\ delivered = 0 /\ Nodes("cooldown") # {} THEN sessions + 1 ELSE sessions
  /\ UNCHANGED <<strategy, today, warm>>
  /\ LET handled == Handled(slice)
         rebalances == DueRebalances(handled)
         entry == CHOOSE x \in rebalances : TRUE
         now == sessions'
         wanted == Wanted(entry[2], slice, due[entry[1]], now, kept')
         gone(d) == targeted[d] \ DOMAIN wanted
     IN /\ due' = [e \in EventsOf |-> IF e \in handled THEN None ELSE due[e]]
        /\ kept' = Refreshed(handled, slice)
        /\ IF rebalances = {} \/ wanted = None
           THEN UNCHANGED <<targeted, left, held>>
           ELSE /\ held' = wanted
                /\ targeted' = [d \in DOMAIN targeted |->
                     IF d \in Cooled(entry[2]) THEN DOMAIN wanted \cap AssetsBehind(strategy, d)
                     ELSE targeted[d]]
                /\ left' = [d \in DOMAIN left |-> [a \in DOMAIN left[d] |->
                     IF d \in Cooled(entry[2]) /\ a \in gone(d) THEN now ELSE left[d][a]]]

Next == Day \/ WarmedUp \/ \E slice \in Slices : Slice(slice)

Spec == Init /\ [][Next]_vars

=============================================================================
