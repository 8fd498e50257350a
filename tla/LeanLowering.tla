---------------------------- MODULE LeanLowering ----------------------------
(***************************************************************************)
(* The backend of the compiler: Strategy IR is lowered to the plan the     *)
(* generated algorithm is printed from.                                    *)
(*                                                                         *)
(*   plan.sleeves     equal-weight operation -> what is picked, from where,*)
(*                    the share it is given and its fallback               *)
(*   plan.snapshots   scheduled sleeve -> the sleeves it retains           *)
(*   plan.rebalances  component -> its branches                            *)
(*   plan.events      the scheduled events, in the order of their ids      *)
(*   plan.cooldowns   cooldown -> the assets and the sessions required     *)
(*                                                                         *)
(* A strategy the pipeline refuses has no plan.                            *)
(***************************************************************************)
EXTENDS StrategyIR, TLC

CONSTANT Refused

Bad == [kind |-> "bad"]

-----------------------------------------------------------------------------
(* What an equal weighting is taken over *)

IsSet(s, c) == Prim(s, c) \in {"asset_set", "universe"}

(* The set a trailing return scores; None when it scores none.             *)
ScoredSet(s, score, assets) ==
  IF Prim(s, score) = "trailing_return" /\ IsSet(s, assets) THEN s.node[assets].assets ELSE None

ScoresOf(s, scores) ==
  IF Prim(s, scores) = "filter" THEN SourceOf(s, scores, "scores") ELSE scores

(* The chain Top N, rank, filter (if there is one), trailing return, set.  *)
MomentumPick(s, c, rank, scores, assets, gate) ==
  IF assets = None THEN Bad
  ELSE [kind |-> "momentum", assets |-> assets,
        count |-> s.node[c].count, policy |-> s.node[c].policy,
        direction |-> s.node[rank].direction,
        threshold |-> IF Prim(s, scores) = "filter" THEN s.node[scores].threshold ELSE None,
        gate |-> gate, of |-> c]

Ranking(s, c, rank, scores, gate) ==
  MomentumPick(s, c, rank, scores,
               ScoredSet(s, ScoresOf(s, scores), SourceOf(s, ScoresOf(s, scores), "assets")), gate)

TopPick(s, c, rank, gate) == Ranking(s, c, rank, SourceOf(s, rank, "scores"), gate)

RandomPick(s, c, set) ==
  IF IsSet(s, set)
    THEN [kind |-> "random", assets |-> s.node[set].assets, count |-> s.node[c].count,
          resample |-> s.node[c].resample, of |-> c]
    ELSE Bad

PickFrom(s, c) ==
  CASE IsSet(s, c) -> [kind |-> "all", assets |-> s.node[c].assets]
    [] Prim(s, c) = "random_select" -> RandomPick(s, c, SourceOf(s, c, "assets"))
    [] Prim(s, c) = "top_n" -> TopPick(s, c, SourceOf(s, c, "ranked"), None)
    [] Prim(s, c) = "cooldown" ->
         LET top == SourceOf(s, c, "candidates")
         IN TopPick(s, top, SourceOf(s, top, "ranked"), c)
    [] OTHER -> Bad

(* lower_sleeve: how the assets of an equal weighting are picked, or Bad.  *)
Pick(s, id) ==
  IF Part(id) = "targets" THEN [kind |-> "all", assets |-> s.node[Component(id)].assets]
  ELSE PickFrom(s, SourceOf(s, Component(id), "assets"))

-----------------------------------------------------------------------------
(* lower_targets *)

Scale(a, b) == (a * b) \div Whole

(* A leaf for an equal weighting; a fallback stands behind momentum only.  *)
Sleeve(s, id, pick, scale, sleeve, fallback) ==
  IF pick.kind = "bad" \/ (fallback # None /\ pick.kind # "momentum") THEN Bad
  ELSE [kind |-> "sleeve", id |-> id, pick |-> pick,
        weight |-> Scale(TotalWeight(s, id), scale), sleeve |-> sleeve, fallback |-> fallback]

(* The leaves of an operation, in the order they are visited: sleeves,     *)
(* uses of a snapshot, and observers of exits.  Below are the leaves of    *)
(* the operations it is computed from.                                     *)
LeavesFrom(s, ops, below, id, scale, sleeve) ==
  LET op == ops[id]
  IN CASE op.op = "merge" ->
            below[<<op.args[1], scale, sleeve>>] \o below[<<op.args[2], scale, sleeve>>]
       [] op.op = "scale" ->
            IF sleeve # None THEN <<Bad>>
            ELSE IF ops[op.args[1]].op = "retain"
              THEN <<[kind |-> "snapshot", id |-> Component(op.args[1]),
                      weight |-> Scale(scale, s.node[op.of].share)]>>
              ELSE below[<<op.args[1], Scale(scale, s.node[op.of].share), op.of>>]
       [] op.op = "equal_weight" -> <<Sleeve(s, id, Pick(s, id), scale, sleeve, None)>>
       [] op.op = "first_non_empty" ->
            <<Sleeve(s, op.args[1], Pick(s, op.args[1]), scale, sleeve,
                     Sole(s.node[op.of].assets))>>
       [] op.op = "observe" ->
            Append(below[<<op.args[1], scale, sleeve>>], [kind |-> "exit", id |-> op.of])
       [] OTHER -> <<Bad>>

(* Valid operations form no cycle: as many rounds as there are operations  *)
(* reach the leaves of each.                                               *)
LowerTargets(s, ops) ==
  LET lowered[k \in 0..Cardinality(DOMAIN ops)] ==
        [at \in (DOMAIN ops) \X Nat \X (DOMAIN s.node \cup {None}) |->
           IF k = 0 THEN <<Bad>>
           ELSE LeavesFrom(s, ops, lowered[k - 1], at[1], at[2], at[3])]
  IN lowered[Cardinality(DOMAIN ops)]

(* The targets an effect applies and those a scheduled sleeve retains.     *)
Roots(ops) ==
  UNION {ToSet(ops[id].args) :
           id \in {x \in DOMAIN ops : ops[x].op \in {"rebalance", "predicate_rebalance", "retain"}}}

LeavesOf(s, ops) == [id \in Roots(ops) |-> LowerTargets(s, ops)[<<id, Whole, None>>]]

OfKind(leaves, kind) == SelectSeq(leaves, LAMBDA l : l.kind = kind)

-----------------------------------------------------------------------------
(* What lowering refuses.  Below, leaves is LeavesOf the strategy.         *)

(* lower_snapshot *)
RetainedLowers(ops, leaves, c) ==
  \A l \in ToSet(leaves[ops[Own(c)].args[1]]) : l.kind \in {"sleeve", "exit"}

(* Mutant: each branch has some weight.                                    *)
SomeWeight(leaves) ==
  /\ \A i \in DOMAIN leaves : leaves[i].kind # "bad"
  /\ OfKind(leaves, "sleeve") \o OfKind(leaves, "snapshot") # <<>>

(* require_complete_branch *)
Complete(leaves) ==
  /\ \A i \in DOMAIN leaves : leaves[i].kind # "bad"
  /\ MapThenSumSet(LAMBDA i : IF leaves[i].kind = "exit" THEN 0 ELSE leaves[i].weight,
                   DOMAIN leaves) = Whole

EntryLowers(s, ops, leaves, e) ==
  /\ ops[e[1]].op # "daily" => s.node[Component(e[1])].day = 1
  /\ IF ops[e[2]].op = "retain" THEN RetainedLowers(ops, leaves, Component(e[2]))
     ELSE \A b \in ToSet(ops[e[2]].args) : Complete(leaves[b])

-----------------------------------------------------------------------------
(* lower_strategy_ir_to_lean_plan *)

Entries(ir) ==
  SetToSortSeq(ir.entry, LAMBDA e, f : \/ Component(e[1]) < Component(f[1])
                                       \/ e[1] = f[1] /\ Component(e[2]) < Component(f[2]))

(* Everything lowered, in the order it is: a snapshot is lowered the first *)
(* time it is met, before the leaf that uses it.                           *)
Lowered(ir, leaves) ==
  LET below(seen, c) ==
        IF c \in seen.snapshots THEN seen
        ELSE [snapshots |-> seen.snapshots \cup {c},
              leaves |-> seen.leaves \o leaves[ir.ops[Own(c)].args[1]]]
      leaf(seen, l) ==
        [(IF l.kind = "snapshot" THEN below(seen, l.id) ELSE seen) EXCEPT !.leaves = Append(@, l)]
      target(seen, e) ==
        IF ir.ops[e[2]].op = "retain" THEN below(seen, Component(e[2]))
        ELSE FoldLeft(LAMBDA acc, b : FoldLeft(leaf, acc, leaves[b]), seen, ir.ops[e[2]].args)
  IN FoldLeft(target, [snapshots |-> {}, leaves |-> <<>>], Entries(ir)).leaves

(* A sleeve is kept under the id of its equal weighting: one lowered again *)
(* at another scale replaces the one before.                               *)
Sleeves(lowered) ==
  FoldLeft(LAMBDA kept, l : IF l.kind = "sleeve" THEN (l.id :> l) @@ kept ELSE kept,
           << >>, lowered)

SleeveIds(sleeves) == [i \in DOMAIN sleeves |-> sleeves[i].id]

Branch(leaves) ==
  [sleeves   |-> SleeveIds(OfKind(leaves, "sleeve")),
   snapshots |-> OfKind(leaves, "snapshot"),
   exits     |-> {l.id : l \in ToSet(OfKind(leaves, "exit"))}]

Rebalance(s, op, leaves) ==
  [clauses   |-> IF op.op = "rebalance" THEN {} ELSE s.node[op.of].clauses,
   then      |-> Branch(leaves[op.args[1]]),
   otherwise |-> IF Len(op.args) = 2 THEN Branch(leaves[op.args[2]]) ELSE None]

(* The cooldown states of the gates that were lowered.                     *)
Cooldowns(s, lowered) ==
  LET gates == {l.pick : l \in {x \in ToSet(OfKind(lowered, "sleeve")) :
                                  x.pick.kind = "momentum" /\ x.pick.gate # None}}
  IN [d \in {p.gate : p \in gates} |->
        [assets |-> (CHOOSE p \in gates : p.gate = d).assets, required |-> s.node[d].duration]]

(* normalize_lean_plan: the monthly events of one day are one event, and   *)
(* so are the quarterly ones; it has the least of their ids.               *)
Together(s, e, f) ==
  \/ e = f
  \/ Prim(s, e) # "daily" /\ Prim(s, f) = Prim(s, e) /\ s.node[f].day = s.node[e].day

EventOf(s, ir, g) ==
  LET targets(names) == Ascending({Component(e[2]) : e \in {x \in ir.entry :
                                      Component(x[1]) \in g /\ ir.ops[x[2]].op \in names}})
  IN [id |-> Min(g), sources |-> g, cadence |-> Prim(s, Min(g)),
      refresh |-> targets({"retain"}),
      rebalance |-> targets({"rebalance", "predicate_rebalance"})]

Grouped(s, ir, events) ==
  LET with(e) == {f \in events : Together(s, e, f)}
      ids == Ascending({Min(with(e)) : e \in events})
  IN [i \in DOMAIN ids |-> EventOf(s, ir, with(ids[i]))]

(* An observer reads the state of a gate that was lowered beneath it.      *)
ExitsKnown(plan, lowered) ==
  \A l \in ToSet(OfKind(lowered, "exit")) : l.id \in DOMAIN plan.cooldowns

Plan(s, ir, leaves, lowered) ==
  [events     |-> Grouped(s, ir, {Component(e[1]) : e \in ir.entry}),
   sleeves    |-> Sleeves(lowered),
   snapshots  |-> [c \in Scheduled(s) |->
                     SleeveIds(OfKind(leaves[ir.ops[Own(c)].args[1]], "sleeve"))],
   rebalances |-> [r \in {Component(e[2]) : e \in {x \in ir.entry :
                                                      ir.ops[x[2]].op # "retain"}} |->
                     Rebalance(s, ir.ops[Own(r)], leaves)],
   cooldowns  |-> Cooldowns(s, lowered),
   required   |-> RequiredAssets(s)]

Checked(plan, lowered) == IF ExitsKnown(plan, lowered) THEN plan ELSE Refused

Normalized(s, ir, leaves, lowered) == Checked(Plan(s, ir, leaves, lowered), lowered)

Lower(s, ir, leaves) ==
  IF \A e \in ir.entry : EntryLowers(s, ir.ops, leaves, e)
    THEN Normalized(s, ir, leaves, Lowered(ir, leaves)) ELSE Refused

(* Lowering reads what the IR keeps of the strategy, and that is not the   *)
(* order of its document.                                                  *)
Unordered(s) == [node |-> s.node, wires |-> s.wires, entry |-> s.entry]

LowerIR(s, ir) ==
  IF ValidIR(s, ir) /\ RequiredAssets(s) # {}
    THEN Lower(Unordered(s), ir, LeavesOf(Unordered(s), ir.ops)) ELSE Refused

(* compile_strategy_to_lean_plan *)
Compile(s) ==
  IF Valid(s) /\ Desugars(s) THEN LowerIR(s, Desugared(s)) ELSE Refused

(* generate_csharp: what it raises on.  A snapshot retains one sleeve that *)
(* is not random, a cooldown is not within a portfolio sleeve, and the     *)
(* cooldowns take their sessions from one first asset.                     *)
Generates(plan) ==
  /\ Cardinality({Min(plan.cooldowns[d].assets) : d \in DOMAIN plan.cooldowns}) <= 1
  /\ \A c \in DOMAIN plan.snapshots :
       /\ Len(plan.snapshots[c]) = 1
       /\ plan.sleeves[plan.snapshots[c][1]].pick.kind # "random"
  /\ \A r \in DOMAIN plan.rebalances :
       \A b \in {plan.rebalances[r].then, plan.rebalances[r].otherwise} \ {None} :
         \A i \in DOMAIN b.sleeves :
           LET sleeve == plan.sleeves[b.sleeves[i]]
           IN ~ (sleeve.pick.kind = "momentum" /\ sleeve.pick.gate # None /\ sleeve.sleeve # None)

=============================================================================
