------------------------- MODULE MCScheduledRuntime -------------------------
(* Small strategies of the shapes in strategy/v1/fixtures.py, each also in *)
(* the variants of one changed wire and of two swapped components.         *)
EXTENDS ScheduledRuntime

Node(prim) ==
  [prim |-> prim, assets |-> {}, count |-> 1, policy |-> "require_full",
   direction |-> "descending", threshold |-> None, resample |-> "per_event",
   duration |-> 1, share |-> 120, day |-> 1, clauses |-> {}, then |-> None, otherwise |-> None]

Set(assets) == [Node("asset_set") EXCEPT !.assets = assets]
Filter == [Node("filter") EXCEPT !.threshold = 0]
Top(n, policy) == [Node("top_n") EXCEPT !.count = n, !.policy = policy]
Weights(share) == [Node("equal_weight") EXCEPT !.share = share]
PortfolioSleeve(share) == [Node("portfolio_sleeve") EXCEPT !.share = share]

Wire(from, to, port) == [from |-> from, to |-> to, port |-> port]

Strategy(nodes, wires, entry) ==
  [order |-> [i \in DOMAIN nodes |-> i], node |-> nodes, wires |-> wires, entry |-> entry]

(* A random part and a fixed part, monthly.                                *)
Golden ==
  Strategy(<<Node("monthly"), Set({1, 2}), Node("random_select"), Weights(84),
             Set({3}), Weights(36), Node("merge_targets"), Node("rebalance")>>,
           {Wire(2, 3, "assets"), Wire(3, 4, "assets"), Wire(5, 6, "assets"),
            Wire(4, 7, "left"), Wire(6, 7, "right"), Wire(7, 8, "targets")},
           {<<1, 8>>})

Momentum2(policy) ==
  Strategy(<<Node("daily"), Set({1, 2, 3}), Node("trailing_return"), Filter, Node("rank"),
             Top(2, policy), Weights(120), Node("rebalance")>>,
           {Wire(2, 3, "assets"), Wire(3, 4, "scores"), Wire(4, 5, "scores"),
            Wire(5, 6, "ranked"), Wire(6, 7, "assets"), Wire(7, 8, "targets")},
           {<<1, 8>>})

(* A growth sleeve with a fallback beside a defensive one.                 *)
SleevesOn(entry) ==
  Strategy(<<Node("monthly"), Set({1, 2}), Node("trailing_return"), Filter, Node("rank"),
             Top(2, "require_full"), Weights(120), [Node("fallback") EXCEPT !.assets = {3}],
             PortfolioSleeve(84), Set({2, 3}), Weights(120), PortfolioSleeve(36),
             Node("portfolio"), Node("rebalance"), Node("quarterly")>>,
           {Wire(2, 3, "assets"), Wire(3, 4, "scores"), Wire(4, 5, "scores"),
            Wire(5, 6, "ranked"), Wire(6, 7, "assets"), Wire(7, 8, "primary"),
            Wire(8, 9, "local_targets"), Wire(10, 11, "assets"),
            Wire(11, 12, "local_targets"), Wire(9, 13, "sleeves"), Wire(12, 13, "sleeves"),
            Wire(13, 14, "targets")},
           entry)

SharedSchedule == SleevesOn({<<1, 14>>, <<15, 14>>})
IndependentSchedules == SleevesOn({<<1, 9>>, <<15, 12>>, <<15, 14>>})
DefensiveFirst == SleevesOn({<<15, 9>>, <<1, 12>>, <<1, 14>>})

Cooldown ==
  Strategy(<<Node("daily"), Set({1, 2}), Node("trailing_return"), Node("rank"),
             Top(1, "require_full"), [Node("cooldown") EXCEPT !.duration = 2],
             Weights(120), Node("rebalance")>>,
           {Wire(2, 3, "assets"), Wire(3, 4, "scores"), Wire(4, 5, "ranked"),
            Wire(5, 6, "candidates"), Wire(6, 7, "assets"), Wire(7, 8, "targets")},
           {<<1, 8>>})

Rule(otherwise) ==
  Strategy(<<Node("daily"), Set({1}), Weights(120), Set({2, 3}), Weights(120),
             [Node("rule") EXCEPT !.clauses = {"up"}, !.assets = {1}, !.then = 3,
                                  !.otherwise = otherwise]>>,
           {Wire(2, 3, "assets"), Wire(4, 5, "assets")},
           {<<1, 6>>})

Fixtures ==
  {Golden, Momentum2("require_full"), Momentum2("choose_all"), SharedSchedule,
   IndependentSchedules, DefensiveFirst, Cooldown, Rule(5), Rule(None)}

(* One wire left out, or taken from another component of the same output.  *)
Rewired(s) ==
  LET out(c) == PortsOf(Prim(s, c)).out
  IN {[s EXCEPT !.wires = @ \ {w}] : w \in s.wires}
     \cup {[s EXCEPT !.wires = (@ \ {w}) \cup {[w EXCEPT !.from = c]}] :
             <<w, c>> \in {x \in s.wires \X DOMAIN s.node : out(x[1].from) = out(x[2])}}

Swapped(s) ==
  {[s EXCEPT !.order = [@ EXCEPT ![i] = s.order[j], ![j] = s.order[i]]] :
     i, j \in DOMAIN s.order}

(* One equal weighting of another share.                                   *)
Reweighted(s) ==
  {[s EXCEPT !.node[c].share = 60] : c \in {d \in DOMAIN s.node : Prim(s, d) = "equal_weight"}}

MCStrategies ==
  UNION {{s} \cup Rewired(s) \cup Swapped(s) \cup Reweighted(s) : s \in Fixtures}

ASSUME MCStrategiesAssumption ==
  \A s \in MCStrategies :
    CooldownsUnshared(s) /\ (Compile(s) # Refused => GatedAlone(Compile(s)))

(* Both sleeves of a portfolio take the same equal weighting.              *)
SharedWeights ==
  Strategy(<<Node("monthly"), Set({1, 2}), Weights(120), PortfolioSleeve(84),
             PortfolioSleeve(36), Node("portfolio"), Node("rebalance")>>,
           {Wire(2, 3, "assets"), Wire(3, 4, "local_targets"), Wire(3, 5, "local_targets"),
            Wire(4, 6, "sleeves"), Wire(5, 6, "sleeves"), Wire(6, 7, "targets")},
           {<<1, 7>>})

(* A cooldown within a sleeve that has a schedule of its own.              *)
CooledSleeve ==
  Strategy(<<Node("daily"), Set({1, 2}), Node("trailing_return"), Node("rank"),
             Top(1, "require_full"), [Node("cooldown") EXCEPT !.duration = 2],
             Weights(120), PortfolioSleeve(84), Set({3}), Weights(120), PortfolioSleeve(36),
             Node("portfolio"), Node("rebalance")>>,
           {Wire(2, 3, "assets"), Wire(3, 4, "scores"), Wire(4, 5, "ranked"),
            Wire(5, 6, "candidates"), Wire(6, 7, "assets"), Wire(7, 8, "local_targets"),
            Wire(9, 10, "assets"), Wire(10, 11, "local_targets"),
            Wire(8, 12, "sleeves"), Wire(11, 12, "sleeves"), Wire(12, 13, "targets")},
           {<<1, 8>>, <<1, 13>>})

(* Two rebalances apply one weighting behind a cooldown that comes between *)
(* them in the order of the ids; here they are listed in the other order.  *)
SharedCooldown ==
  [Strategy(<<Node("daily"), Set({1, 2}), Node("trailing_return"), Node("rank"),
              Top(1, "require_full"), Node("rebalance"), [Node("cooldown") EXCEPT !.duration = 2],
              Weights(120), Node("rebalance")>>,
            {Wire(2, 3, "assets"), Wire(3, 4, "scores"), Wire(4, 5, "ranked"),
             Wire(5, 7, "candidates"), Wire(7, 8, "assets"), Wire(8, 6, "targets"),
             Wire(8, 9, "targets")},
            {<<1, 6>>, <<1, 9>>})
   EXCEPT !.order = <<1, 2, 3, 4, 5, 9, 7, 8, 6>>]

(* Each shows one property of the runtime to fail of what compiles.        *)
MCContested == {SharedWeights, CooledSleeve, SharedCooldown}

Bars(bars, one, two, three, true) ==
  [bars |-> bars, score |-> <<one, two, three>>, true |-> true]

MCSlices ==
  {Bars(1..3, 2, 1, -1, {"up"}),
   Bars(1..3, 1, 2, 0, {}),
   Bars(1..3, -1, 1, None, {}),
   Bars(1..2, 2, 1, -1, {"up"})}

MCMonthOf == <<3, 4, 4, 7>>

=============================================================================
