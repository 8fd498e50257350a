------------------------ MODULE StructuralAuthoring ------------------------
(***************************************************************************)
(* Authoring of a v1 strategy: the service is given a whole Canonical      *)
(* strategy and one operation and answers with a whole candidate, or with  *)
(* a refusal.  A strategy is that of StrategyGraph with what authoring     *)
(* edits beside the graph:                                                 *)
(*                                                                         *)
(*   strategy.sets        definition id -> its assets                      *)
(*   strategy.universes   definition id -> the asset set it is over, or    *)
(*                        None when a provider names its members           *)
(*   node.ref             the definition a component names                 *)
(*   node.setting         the threshold a filter is configured with        *)
(*   node.condition       the threshold of its condition expression        *)
(*                                                                         *)
(* An operation is the set of its candidates: none when it does not apply, *)
(* else one.                                                               *)
(***************************************************************************)
EXTENDS LeanLowering

CONSTANTS
  Starts,         \* the strategies authoring begins with
  Symbols,        \* the sets of assets a request names
  Signals,        \* the assets of a condition
  Names,          \* the names of a group
  Numbers,        \* the counts, lookbacks and durations of a request
  Thresholds,
  Shares,         \* the allocations of a sleeve
  Batches,        \* the mutations of a composition
  MaxOperations   \* bound: how many operations are applied

VARIABLES
  strategy,
  operations,     \* how many were applied
  composed        \* whether one of them was a composition

vars == <<strategy, operations, composed>>

-----------------------------------------------------------------------------
(* Components and what surrounds them *)

Plain(prim) ==
  [prim |-> prim, assets |-> {}, ref |-> None, name |-> None, lookback |-> 1, count |-> 1,
   policy |-> "require_full", direction |-> "descending", setting |-> 0, condition |-> None,
   threshold |-> None, resample |-> "per_event", duration |-> 1, share |-> Whole, day |-> 1,
   clauses |-> {}, then |-> None, otherwise |-> None]

Named(c, role) ==
  LET rank == [cooldown |-> 1, defensive_asset_set |-> 2, defensive_assets |-> 3,
               defensive_sleeve |-> 4, defensive_weights |-> 5, fallback |-> 6,
               fallback_assets |-> 7, growth_sleeve |-> 8, portfolio |-> 9,
               qualification |-> 10, rank |-> 11, top_n |-> 12, trailing_return |-> 13]
  IN c + rank[role] * (IF c % 1000 = 0 THEN 20 ELSE 1)

(* Ids in use: components and definitions share them.                      *)
Occupied(s) == DOMAIN s.node \cup DOMAIN s.sets

Free(s, ids) == ids \cap Occupied(s) = {}

Wire(from, to, port) == [from |-> from, to |-> to, port |-> port]

WiresTo(s, c, port) == {w \in s.wires : w.to = c /\ w.port = port}
WiresFrom(s, c) == {w \in s.wires : w.from = c}

Entered(f, key, value) == [x \in DOMAIN f \cup {key} |-> IF x = key THEN value ELSE f[x]]
Dropped(f, key) == [x \in DOMAIN f \ {key} |-> f[x]]

(* Components with these ids at the end of the document.                   *)
With(s, ids, nodes) ==
  LET added(c) == nodes[CHOOSE i \in DOMAIN ids : ids[i] = c]
  IN [s EXCEPT !.order = @ \o ids,
               !.node = [c \in DOMAIN @ \cup ToSet(ids) |->
                           IF c \in ToSet(ids) THEN added(c) ELSE @[c]]]

Without(s, c) ==
  [s EXCEPT !.order = RemoveAt(@, Position(s, c)), !.node = Dropped(@, c)]

Rewired(s, w, wires) == [s EXCEPT !.wires = (@ \ {w}) \cup wires]

(* A component put between the ends of a wire.                             *)
Through(w, c, port) == {Wire(w.from, c, port), Wire(c, w.to, w.port)}

(* A component with one wire in and one out, from and to components of     *)
(* these primitives, taken out again.                                      *)
Bypassed(s, c, froms, tos) ==
  {[Without(s, c) EXCEPT !.wires = (@ \ {w[1], w[2]}) \cup {Wire(w[1].from, w[2].to, w[2].port)}] :
     w \in {x \in {y \in s.wires : y.to = c} \X WiresFrom(s, c) :
              /\ {y \in s.wires : c \in {y.from, y.to}} = {x[1], x[2]}
              /\ Prim(s, x[1].from) \in froms
              /\ Prim(s, x[2].to) \in tos}}

(* A field of a component of these primitives replaced.                    *)
Edited(s, c, prims, field, value) ==
  IF Prim(s, c) \in prims THEN {[s EXCEPT !.node[c][field] = value]} ELSE {}

-----------------------------------------------------------------------------
(* What the service checks of a candidate *)

(* The strategy the compiler reads: references replaced by what they name, *)
(* a condition expression before a configured threshold.                   *)
AssetsOf(s, n) ==
  CASE n.prim \in {"asset_set", "fallback"} -> IF n.ref \in DOMAIN s.sets THEN s.sets[n.ref] ELSE {}
    [] n.prim = "universe" ->
         IF s.universes[n.ref] = None THEN {} ELSE s.sets[s.universes[n.ref]]
    [] OTHER -> n.assets

Resolved(s) ==
  [s EXCEPT !.node = [c \in DOMAIN @ |->
     [@[c] EXCEPT !.assets = AssetsOf(s, s.node[c]),
                  !.threshold = IF s.node[c].prim # "filter" THEN None
                                ELSE IF s.node[c].condition # None THEN s.node[c].condition
                                ELSE s.node[c].setting]]]

(* The sizes of the asset sets a component selects from: what comes from a *)
(* universe has none, and sets of different sizes are no bound.            *)
SetSizes(s, c) ==
  {Cardinality(AssetsOf(s, s.node[d])) : d \in {u \in Upstream(s, c) : Prim(s, u) = "asset_set"}}

Selections == {"top_n", "random_select"}

(* _validate_authoring_invariants *)
CountsWithinSets(s) ==
  \A c \in DOMAIN s.node :
    Prim(s, c) \in Selections /\ Cardinality(SetSizes(s, c)) = 1 =>
      \A size \in SetSizes(s, c) : s.node[c].count <= size

RefsKnown(s) ==
  /\ \A c \in DOMAIN s.node :
       /\ Prim(s, c) \in {"asset_set", "fallback"} => s.node[c].ref \in DOMAIN s.sets
       /\ Prim(s, c) = "universe" => s.node[c].ref \in DOMAIN s.universes
  /\ \A u \in DOMAIN s.universes : s.universes[u] # None => s.universes[u] \in DOMAIN s.sets

Consistent(s) == RefsKnown(s) /\ Valid(Resolved(s))

Accepted(s) == CountsWithinSets(s) /\ Consistent(s)

-----------------------------------------------------------------------------
(* Where a recipe applies: the wire it cuts, of none or one *)

QualificationSlots(s, rank) ==
  {w \in WiresTo(s, rank, "scores") :
     Prim(s, rank) = "rank" /\ Prim(s, w.from) = "trailing_return"}

(* An equal weighting with one wire out, directly to a rebalance.          *)
Rebalanced(s, c) ==
  /\ Cardinality(WiresFrom(s, c)) = 1
  /\ \A w \in WiresFrom(s, c) : Prim(s, w.to) = "rebalance"

ChooseSlots(s, weight) ==
  {w \in WiresTo(s, weight, "assets") :
     /\ Prim(s, weight) = "equal_weight"
     /\ Rebalanced(s, weight)
     /\ Prim(s, w.from) = "asset_set"}

FallbackSlots(s, weight) ==
  LET top  == SourceOf(s, weight, "assets")
      rank == SourceOf(s, top, "ranked")
  IN {w \in WiresFrom(s, weight) :
        /\ Prim(s, weight) = "equal_weight"
        /\ Rebalanced(s, weight)
        /\ Prim(s, top) = "top_n"
        /\ Prim(s, SourceOf(s, rank, "scores")) = "filter"}

(* Mutant: an allocation that feeds a fallback is not told apart.          *)
AllocatedSlots(s, top) ==
  {w \in WiresFrom(s, top) :
     /\ Prim(s, top) = "top_n" /\ Cardinality(WiresFrom(s, top)) = 1
     /\ Prim(s, w.to) = "equal_weight" /\ Cardinality(WiresFrom(s, w.to)) = 1}

CooldownSlots(s, top) ==
  {w \in WiresFrom(s, top) :
     /\ Prim(s, top) = "top_n" /\ Cardinality(WiresFrom(s, top)) = 1
     /\ Prim(s, w.to) = "equal_weight" /\ Cardinality(WiresFrom(s, w.to)) = 1
     /\ \A x \in WiresFrom(s, w.to) : Prim(s, x.to) # "fallback"}

PortfolioSlots(s, target) ==
  {w \in WiresFrom(s, target) :
     /\ Prim(s, target) \in {"equal_weight", "fallback"}
     /\ Rebalanced(s, target)
     /\ \A c \in DOMAIN s.node : Prim(s, c) \notin {"portfolio", "portfolio_sleeve"}}

-----------------------------------------------------------------------------
(* Recipes *)

AddQualification(s, rank, threshold) ==
  LET id == Named(rank, "qualification")
  IN {Rewired(With(s, <<id>>, <<[Plain("filter") EXCEPT !.setting = threshold]>>),
              w, Through(w, id, "scores")) :
        w \in {x \in QualificationSlots(s, rank) : id \notin DOMAIN s.node}}

RemoveQualification(s, c) ==
  IF Prim(s, c) = "filter" THEN Bypassed(s, c, {"trailing_return"}, {"rank"}) ELSE {}

ChooseAssets(s, weight, lookback, count) ==
  LET ret  == Named(weight, "trailing_return")
      rank == Named(weight, "rank")
      top  == Named(weight, "top_n")
  IN {Rewired(With(s, <<ret, rank, top>>,
                   <<[Plain("trailing_return") EXCEPT !.lookback = lookback], Plain("rank"),
                     [Plain("top_n") EXCEPT !.count = count]>>),
              w, {Wire(w.from, ret, "assets"), Wire(ret, rank, "scores"),
                  Wire(rank, top, "ranked"), Wire(top, weight, "assets")}) :
        w \in {x \in ChooseSlots(s, weight) :
                 /\ count <= Cardinality(s.sets[s.node[x.from].ref])
                 /\ Free(s, {ret, rank, top})}}

AddFallback(s, weight, assets) ==
  LET id  == Named(weight, "fallback")
      set == Named(weight, "fallback_assets")
  IN {[Rewired(With(s, <<id>>, <<[Plain("fallback") EXCEPT !.ref = set]>>),
               w, Through(w, id, "primary")) EXCEPT !.sets = Entered(@, set, assets)] :
        w \in {x \in FallbackSlots(s, weight) : Free(s, {id, set})}}

(* Mutant: the asset set stays behind.                                     *)
RemoveFallbackOnly(s, c) ==
  IF Prim(s, c) = "fallback"
    THEN Bypassed(s, c, {"equal_weight"}, {"rebalance", "portfolio_sleeve"}) ELSE {}

(* The asset set goes with the fallback, unless a component shares it.     *)
RemoveFallback(s, c) ==
  IF Prim(s, c) = "fallback" /\ \A d \in DOMAIN s.node \ {c} : s.node[d].ref # s.node[c].ref
    THEN {[t EXCEPT !.sets = Dropped(@, s.node[c].ref)] :
            t \in Bypassed(s, c, {"equal_weight"}, {"rebalance", "portfolio_sleeve"})}
    ELSE {}

(* Mutant: the gate is appended to the document.                           *)
AddCooldownLast(s, top, duration) ==
  LET id == Named(top, "cooldown")
  IN {Rewired(With(s, <<id>>, <<[Plain("cooldown") EXCEPT !.duration = duration]>>),
              w, Through(w, id, "candidates")) :
        w \in {x \in CooldownSlots(s, top) : Free(s, {id})}}

(* The gate is put before the allocation in the document.                  *)
AddCooldown(s, top, duration) ==
  LET id == Named(top, "cooldown")
  IN {[Rewired(s, w, Through(w, id, "candidates"))
         EXCEPT !.order = InsertAt(@, Position(s, w.to), id),
                !.node = Entered(@, id, [Plain("cooldown") EXCEPT !.duration = duration])] :
        w \in {x \in CooldownSlots(s, top) : Free(s, {id})}}

RemoveCooldown(s, c) ==
  IF Prim(s, c) = "cooldown" THEN Bypassed(s, c, {"top_n"}, {"equal_weight"}) ELSE {}

GrowthDefensive(s, target, share, assets) ==
  LET set     == Named(target, "defensive_assets")
      growth  == Named(target, "growth_sleeve")
      members == Named(target, "defensive_asset_set")
      weights == Named(target, "defensive_weights")
      sleeve  == Named(target, "defensive_sleeve")
      whole   == Named(target, "portfolio")
      group(name, part) == [Plain("portfolio_sleeve") EXCEPT !.name = name, !.share = part]
  IN {[Rewired(With(s, <<growth, members, weights, sleeve, whole>>,
                    <<group("Growth", share), [Plain("asset_set") EXCEPT !.ref = set],
                      Plain("equal_weight"), group("Defensive", Whole - share),
                      Plain("portfolio")>>),
               w, {Wire(target, growth, "local_targets"), Wire(members, weights, "assets"),
                   Wire(weights, sleeve, "local_targets"), Wire(growth, whole, "sleeves"),
                   Wire(sleeve, whole, "sleeves"), Wire(whole, w.to, "targets")})
         EXCEPT !.sets = Entered(@, set, assets)] :
        w \in {x \in PortfolioSlots(s, target) :
                 Free(s, {set, growth, members, weights, sleeve, whole})}}

-----------------------------------------------------------------------------
(* Predicates: a rebalance becomes a rule that names its targets *)

Ruled(s, c, assets, then, otherwise) ==
  [s EXCEPT !.node[c] = [@ EXCEPT !.prim = "rule", !.clauses = {"condition"}, !.assets = assets,
                                  !.then = then, !.otherwise = otherwise]]

AddPredicate(s, c, asset) ==
  {Rewired(Ruled(s, c, {asset}, w.from, None), w, {}) :
     w \in {x \in WiresTo(s, c, "targets") : Prim(s, c) = "rebalance"}}

(* _is_predicate_v1_rule *)
IsPredicate(s, c) == Prim(s, c) = "rule" /\ s.node[c].otherwise = None

UpdatePredicate(s, c, asset) ==
  IF IsPredicate(s, c) THEN {[s EXCEPT !.node[c].assets = {asset}]} ELSE {}

RemovePredicate(s, c) ==
  IF IsPredicate(s, c)
    THEN {[s EXCEPT !.node[c] = Plain("rebalance"),
                    !.wires = @ \cup {Wire(s.node[c].then, c, "targets")}]}
    ELSE {}

(* The output of a sleeve is a contribution, not targets.                  *)
GivesTargets(s, c) == PortsOf(Prim(s, c)).out = "targets" /\ Prim(s, c) # "portfolio_sleeve"

CommitPredicateBranches(s, c, then, otherwise, asset) ==
  IF /\ Prim(s, c) \in {"rebalance", "rule"}
     /\ GivesTargets(s, then)
     /\ otherwise # None => GivesTargets(s, otherwise)
    THEN {[Ruled(s, c, {asset}, then, otherwise) EXCEPT !.wires = @ \ WiresTo(s, c, "targets")]}
    ELSE {}

-----------------------------------------------------------------------------
(* Edits of one value *)

Rename(s, c, name) ==
  IF \E d \in DOMAIN s.node \ {c} : Prim(s, d) = "portfolio_sleeve" /\ s.node[d].name = name
    THEN {} ELSE Edited(s, c, {"portfolio_sleeve"}, "name", name)

UpdateAssetSet(s, set, assets) ==
  IF \E c \in DOMAIN s.node : Prim(s, c) = "asset_set" /\ s.node[c].ref = set
    THEN {[s EXCEPT !.sets[set] = assets]} ELSE {}

UpdateSelectionCount(s, c, count) ==
  IF Cardinality(SetSizes(s, c)) = 1 /\ \E size \in SetSizes(s, c) : count > size
    THEN {} ELSE Edited(s, c, Selections, "count", count)

UpdateAllocations(s, share) ==
  LET sleeves == {w.from : w \in {x \in s.wires : x.port = "sleeves" /\ Prim(s, x.to) = "portfolio"}}
  IN IF Cardinality(sleeves) = 2
       THEN {[s EXCEPT !.node[x[1]].share = share, !.node[x[2]].share = Whole - share] :
               x \in {y \in sleeves \X sleeves : y[1] # y[2]}}
       ELSE {}

UpdateSchedule(s, c, cadence) ==
  IF Prim(s, c) \in Events THEN {[s EXCEPT !.node[c].prim = cadence, !.node[c].day = 1]} ELSE {}

(* What the compiler does not desugar is refused.                          *)
Executable(candidates) == {s \in candidates : Accepted(s) /\ Desugars(Resolved(s))}

UpdateCondition(s, c, asset, threshold) ==
  Executable(Edited(s, c, {"rule"}, "assets", {asset})
             \cup Edited(s, c, {"filter"}, "condition", threshold))

UpdateSelectionSemantics(s, rank, top, direction, count, policy) ==
  IF Prim(s, rank) = "rank" /\ Prim(s, top) = "top_n"
    THEN Executable({[s EXCEPT !.node[rank].direction = direction,
                               !.node[top].count = count, !.node[top].policy = policy]})
    ELSE {}

UpdateLookback(s, c, lookback) == Edited(s, c, {"trailing_return"}, "lookback", lookback)

UpdateThreshold(s, c, threshold) == Edited(s, c, {"filter"}, "setting", threshold)

UpdateDuration(s, c, duration) == Edited(s, c, {"cooldown"}, "duration", duration)

UpdateUniverse(s, c, universe) == Edited(s, c, {"universe"}, "ref", universe)

UpdateFallbackSet(s, c, set) ==
  IF Cardinality(s.sets[set]) = 1 THEN Edited(s, c, {"fallback"}, "ref", set) ELSE {}

-----------------------------------------------------------------------------
(* Semantic intents: the operations by what they mean for the strategy.    *)
(* Only a selection with its lookback takes two operations, the second on  *)
(* what the service accepted of the first; a predicate is refused.         *)

IntentsOver(components) ==
  UNION {
    {[kind |-> "configure_selection", target |-> c, count |-> k, measure |-> d, lookback |-> l] :
       c \in components, k \in Numbers, d \in components \cup {None}, l \in Numbers \cup {None}},
    {[kind |-> "configure_eligibility", target |-> c, threshold |-> t] :
       c \in components, t \in Thresholds},
    {[kind |-> "configure_predicate", target |-> c] : c \in components},
    {[kind |-> "configure_allocation", share |-> share] : share \in Shares},
    {[kind |-> "configure_constraint", target |-> c, duration |-> k] :
       c \in components, k \in Numbers},
    {[kind |-> "configure_timing", target |-> c, cadence |-> cadence] :
       c \in components, cadence \in Events},
    {[kind |-> "attach_fallback", target |-> c, asset |-> asset] :
       c \in components, asset \in Signals},
    {[kind |-> "create_portfolio_split", target |-> c, share |-> share, assets |-> assets] :
       c \in components, share \in Shares, assets \in Symbols}}

ConfigureSelection(s, i) ==
  LET counted == {t \in UpdateSelectionCount(s, i.target, i.count) : Accepted(t)}
  IN IF i.lookback = None THEN counted
     ELSE UNION {UpdateLookback(t, i.measure, i.lookback) :
                   t \in {x \in counted : i.measure # None}}

(* apply_semantic_intent *)
Intended(s, i) ==
  CASE i.kind = "configure_selection" -> ConfigureSelection(s, i)
    [] i.kind = "configure_eligibility" -> UpdateThreshold(s, i.target, i.threshold)
    [] i.kind = "configure_predicate" -> {}
    [] i.kind = "configure_allocation" -> UpdateAllocations(s, i.share)
    [] i.kind = "configure_constraint" -> UpdateDuration(s, i.target, i.duration)
    [] i.kind = "configure_timing" -> UpdateSchedule(s, i.target, i.cadence)
    [] i.kind = "attach_fallback" -> AddFallback(s, i.target, {i.asset})
    [] i.kind = "create_portfolio_split" -> GrowthDefensive(s, i.target, i.share, i.assets)

-----------------------------------------------------------------------------
(* What the service offers: the components an operation is said to apply   *)
(* to.  Most offers look at the surroundings of the component, only that   *)
(* of removing a qualification tries the operation.                        *)

(* structural_authoring_capabilities *)
Offered(s) ==
  [add_qualification    |-> {c \in DOMAIN s.node : QualificationSlots(s, c) # {}},
   remove_qualification |-> {c \in DOMAIN s.node : \E t \in RemoveQualification(s, c) : Accepted(t)},
   choose               |-> {c \in DOMAIN s.node : ChooseSlots(s, c) # {}},
   add_fallback         |-> {c \in DOMAIN s.node : FallbackSlots(s, c) # {}},
   remove_fallback      |-> {c \in DOMAIN s.node : RemoveFallback(s, c) # {}},
   add_cooldown         |-> {c \in DOMAIN s.node : CooldownSlots(s, c) # {}},
   remove_cooldown      |-> {c \in DOMAIN s.node : RemoveCooldown(s, c) # {}},
   growth_defensive     |-> {c \in DOMAIN s.node : PortfolioSlots(s, c) # {}},
   add_predicate        |-> {c \in DOMAIN s.node : Prim(s, c) = "rebalance"},
   remove_predicate     |-> {c \in DOMAIN s.node : IsPredicate(s, c)}]

-----------------------------------------------------------------------------
(* Composition: a batch of mutations, applied together or not at all.  A   *)
(* mutation names a component by its id, or by a negative number when the  *)
(* batch itself creates it.                                                *)

Stems == <<"assets", "asset_set", "cooldown", "equal_weight", "fallback", "filter",
           "merge_targets", "portfolio", "portfolio_sleeve", "random_select", "rank", "top_n",
           "trailing_return", "universe">>

Numbered(stem, k) ==
  100000 + 10000 * (CHOOSE i \in DOMAIN Stems : Stems[i] = stem) + 1000 * k

(* Mutant: the first id of a stem, whether or not it is in use.            *)
FirstId(occupied, stem) == Numbered(stem, 1)

(* _generated_id *)
GeneratedId(occupied, stem) ==
  Numbered(stem, CHOOSE k \in 1..(Cardinality(occupied) + 1) :
    /\ Numbered(stem, k) \notin occupied
    /\ \A j \in 1..(k - 1) : Numbered(stem, j) \in occupied)

(* A batch so far: the strategy, the ids taken, what a reference stands    *)
(* for and which of the ids are of asset sets.                             *)
Begun(s) == [s |-> s, occupied |-> Occupied(s), made |-> << >>, sets |-> {}]

Creatable == (DOMAIN SelectionPorts \cup DOMAIN AllocationPorts) \ {"rebalance", "rule"}

FieldsOf(prim) ==
  CASE prim \in {"asset_set", "fallback", "universe"} -> {"ref"}
    [] prim = "random_select" -> {"count", "resample"}
    [] prim = "trailing_return" -> {"lookback"}
    [] prim = "filter" -> {"setting"}
    [] prim = "rank" -> {"direction"}
    [] prim = "top_n" -> {"count", "policy"}
    [] prim = "cooldown" -> {"duration"}
    [] prim = "equal_weight" -> {"share"}
    [] prim = "portfolio_sleeve" -> {"name", "share"}
    [] OTHER -> {}

Addressed(b, a) == IF a \in DOMAIN b.made THEN b.made[a] ELSE a

Made(b, ref, id) ==
  [b EXCEPT !.made = Entered(@, ref, id), !.occupied = @ \cup {id}]

CreateComponent(b, m) ==
  LET id == GeneratedId(b.occupied, m.prim)
  IN IF m.ref \notin DOMAIN b.made /\ m.prim \in Creatable
       THEN {[Made(b, m.ref, id) EXCEPT !.s = With(b.s, <<id>>, <<Plain(m.prim)>>)]} ELSE {}

CreateAssetSet(b, m) ==
  LET id == GeneratedId(b.occupied, "assets")
  IN IF m.ref \notin DOMAIN b.made
       THEN {[Made(b, m.ref, id) EXCEPT !.s.sets = Entered(@, id, m.assets), !.sets = @ \cup {id}]}
       ELSE {}

SetField(b, m) ==
  LET c == Addressed(b, m.target)
      value == IF m.field = "ref" THEN Addressed(b, m.value) ELSE m.value
  IN IF c \in DOMAIN b.s.node /\ m.field \in FieldsOf(Prim(b.s, c))
       THEN {[b EXCEPT !.s.node[c][m.field] = value]} ELSE {}

(* _validate_connection *)
Connect(b, m) ==
  LET w == Wire(Addressed(b, m.from), Addressed(b, m.to), m.port)
      output == PortsOf(Prim(b.s, w.from)).out
  IN IF /\ output # None
        /\ <<w.port, output>> \in PortsOf(Prim(b.s, w.to)).in
        /\ w \notin b.s.wires
        /\ w.port # "sleeves" => WiresTo(b.s, w.to, w.port) = {}
       THEN {[b EXCEPT !.s.wires = @ \cup {w}]} ELSE {}

Disconnect(b, m) ==
  LET w == Wire(Addressed(b, m.from), Addressed(b, m.to), m.port)
  IN IF w \in b.s.wires THEN {[b EXCEPT !.s.wires = @ \ {w}]} ELSE {}

RemoveComponent(b, m) ==
  LET c == Addressed(b, m.target)
  IN IF c \in DOMAIN b.s.node
       THEN {[b EXCEPT !.s = [Without(b.s, c) EXCEPT !.wires = {w \in @ : c \notin {w.from, w.to}}]]}
       ELSE {}

Mutated(b, m) ==
  CASE m.kind = "create_component" -> CreateComponent(b, m)
    [] m.kind = "create_asset_set" -> CreateAssetSet(b, m)
    [] m.kind = "set_component_field" -> SetField(b, m)
    [] m.kind = "connect" -> Connect(b, m)
    [] m.kind = "disconnect" -> Disconnect(b, m)
    [] m.kind = "remove_component" -> RemoveComponent(b, m)

MutationKinds ==
  {"create_component", "create_asset_set", "set_component_field", "connect", "disconnect",
   "remove_component"}

(* apply_composition: every asset set it creates is named by a component;  *)
(* the counts are not compared with the sets.                              *)
Composed(s, batch) ==
  LET after[k \in 0..Len(batch)] ==
        IF k = 0 THEN {Begun(s)} ELSE UNION {Mutated(b, batch[k]) : b \in after[k - 1]}
  IN {b.s : b \in {x \in after[Len(batch)] :
                     /\ x.sets \subseteq {x.s.node[c].ref : c \in DOMAIN x.s.node}
                     /\ Consistent(x.s)}}

-----------------------------------------------------------------------------
(* Specification *)

(* A component whose configuration is that of its primitive: a rebalance   *)
(* has none, and only three primitives name a definition.                  *)
Configured(n) ==
  /\ DOMAIN n = DOMAIN Plain(n.prim)
  /\ n.prim = "rebalance" => n = Plain("rebalance")
  /\ n.prim \notin {"asset_set", "fallback", "universe"} => n.ref = None

Functional(f) == f = [x \in DOMAIN f |-> f[x]]

(* What loading a document makes sure of: each component is listed once.   *)
Loaded(s) ==
  /\ Functional(s)
  /\ DOMAIN s = {"order", "node", "wires", "entry", "sets", "universes"}
  /\ s.order \in Seq(DOMAIN s.node) /\ ToSet(s.order) = DOMAIN s.node
  /\ \A i, j \in DOMAIN s.order : s.order[i] = s.order[j] => i = j
  /\ Functional(s.node) /\ DOMAIN s.node \subseteq Nat
  /\ \A c \in DOMAIN s.node : Configured(s.node[c])
  /\ \A w \in s.wires : w = Wire(w.from, w.to, w.port)
  /\ Functional(s.sets) /\ IsFiniteSet(DOMAIN s.sets)

ASSUME StartsAssumption == \A s \in Starts : Loaded(s) /\ Consistent(s)

ASSUME NoIdAssumption == None \notin Nat

ASSUME BatchesAssumption ==
  \A batch \in Batches :
    Len(batch) \in Nat /\ \A i \in 1..Len(batch) : batch[i].kind \in MutationKinds

StructuralInit ==
  /\ strategy \in Starts
  /\ operations = 0
  /\ composed = FALSE

(* apply_structural_operation: a candidate replaces the strategy.          *)
Replace(candidates, composing) ==
  /\ strategy' \in candidates
  /\ operations' = operations + 1
  /\ composed' = (composed \/ composing)

Author(candidates) == Replace({s \in candidates : Accepted(s)}, FALSE)

Components == DOMAIN strategy.node
Sets == DOMAIN strategy.sets

Compose == \E batch \in Batches : Replace(Composed(strategy, batch), TRUE)

CommitBranches ==
  \E c, then \in Components, otherwise \in Components \cup {None} : \E asset \in Signals :
    Replace({s \in CommitPredicateBranches(strategy, c, then, otherwise, asset) : Accepted(s)}, TRUE)

Structure(c) ==
  \/ \E t \in Thresholds : Author(AddQualification(strategy, c, t))
  \/ Author(RemoveQualification(strategy, c))
  \/ \E k, n \in Numbers : Author(ChooseAssets(strategy, c, k, n))
  \/ \E assets \in Symbols :
       Cardinality(assets) = 1 /\ Author(AddFallback(strategy, c, assets))
  \/ Author(RemoveFallback(strategy, c))
  \/ \E k \in Numbers : Author(AddCooldown(strategy, c, k))
  \/ Author(RemoveCooldown(strategy, c))
  \/ \E share \in Shares, assets \in Symbols : Author(GrowthDefensive(strategy, c, share, assets))

Predicates(c) ==
  \/ \E asset \in Signals : Author(AddPredicate(strategy, c, asset))
  \/ \E asset \in Signals : Author(UpdatePredicate(strategy, c, asset))
  \/ Author(RemovePredicate(strategy, c))

Values(c) ==
  \/ \E name \in Names : Author(Rename(strategy, c, name))
  \/ \E k \in Numbers : Author(UpdateLookback(strategy, c, k))
  \/ \E t \in Thresholds : Author(UpdateThreshold(strategy, c, t))
  \/ \E k \in Numbers : Author(UpdateSelectionCount(strategy, c, k))
  \/ \E when \in {"once", "per_event"} :
       Author(Edited(strategy, c, {"random_select"}, "resample", when))
  \/ \E cadence \in Events : Author(UpdateSchedule(strategy, c, cadence))
  \/ \E k \in Numbers : Author(UpdateDuration(strategy, c, k))
  \/ \E set \in Sets : Author(UpdateFallbackSet(strategy, c, set))

Meanings(c) ==
  \/ \E asset \in Signals, t \in Thresholds : Author(UpdateCondition(strategy, c, asset, t))
  \/ \E universe \in DOMAIN strategy.universes : Author(UpdateUniverse(strategy, c, universe))
  \/ \E top \in Components, k \in Numbers :
       \E direction \in {"descending", "ascending"}, policy \in {"require_full", "choose_all"} :
         Author(UpdateSelectionSemantics(strategy, c, top, direction, k, policy))

(* POST /v1/canonical/strategies/semantic-intents/apply *)
ApplyIntent == \E intent \in IntentsOver(Components) : Author(Intended(strategy, intent))

StructuralNext ==
  /\ operations < MaxOperations
  /\ \/ ApplyIntent
     \/ Compose
     \/ CommitBranches
     \/ \E c \in Components : Structure(c) \/ Predicates(c) \/ Values(c) \/ Meanings(c)
     \/ \E set \in Sets, assets \in Symbols : Author(UpdateAssetSet(strategy, set, assets))
     \/ \E share \in Shares : Author(UpdateAllocations(strategy, share))

StructuralSpec == StructuralInit /\ [][StructuralNext]_vars

-----------------------------------------------------------------------------
(* Properties *)

(* A strategy lists each of its components once, every reference and wire  *)
(* in it resolves, and it is one the semantic validation accepts, whatever *)
(* sequence of operations and generated ids led to it.                     *)
StructuralTypeOK ==
  /\ Len(strategy.order) = Cardinality(DOMAIN strategy.node)
  /\ ToSet(strategy.order) = DOMAIN strategy.node
  /\ Consistent(strategy)

(* What a recipe adds, the remove operation for the id it generated takes  *)
(* away again: graph, definitions and the order of the document are those  *)
(* of before (docs/authoring.md:62, "unambiguous inverse").                *)
Undone(added, removed(_)) ==
  \A s \in added : Accepted(s) => \E t \in removed(s) : Accepted(t) /\ t = strategy

UndoRestores ==
  \A c \in Components :
    /\ \A t \in Thresholds :
         Undone(AddQualification(strategy, c, t),
                LAMBDA s : RemoveQualification(s, Named(c, "qualification")))
    /\ \A assets \in Symbols :
         Undone(AddFallback(strategy, c, assets), LAMBDA s : RemoveFallback(s, Named(c, "fallback")))
    /\ \A k \in Numbers :
         Undone(AddCooldown(strategy, c, k), LAMBDA s : RemoveCooldown(s, Named(c, "cooldown")))
    /\ \A asset \in Signals :
         Undone(AddPredicate(strategy, c, asset), LAMBDA s : RemovePredicate(s, c))

(* An operation the capabilities offer for a component is accepted for     *)
(* some input: what the offer looks at, around the component, is enough    *)
(* for the whole strategy to stay valid.  It is not when an id the         *)
(* operation would generate is taken, or when what it would delete is      *)
(* named by a rule or by a universe, which the offers do not look at.      *)
SomeAccepted(candidates) == \E s \in candidates : Accepted(s)

NamedElsewhere(s, c) ==
  \/ \E r \in DOMAIN s.node : Prim(s, r) = "rule" /\ c \in {s.node[r].then, s.node[r].otherwise}
  \/ \E u \in DOMAIN s.universes : s.universes[u] = s.node[c].ref

OfferedAreAccepted(s, offered) ==
  /\ \A c \in offered.add_qualification :
       Free(s, {Named(c, "qualification")}) =>
         SomeAccepted(UNION {AddQualification(s, c, t) : t \in Thresholds})
  /\ \A c \in offered.choose :
       Free(s, {Named(c, "trailing_return"), Named(c, "rank"), Named(c, "top_n")}) =>
         SomeAccepted(ChooseAssets(s, c, 1, 1))
  /\ \A c \in offered.add_fallback :
       Free(s, {Named(c, "fallback"), Named(c, "fallback_assets")}) =>
         SomeAccepted(UNION {AddFallback(s, c, {a}) : a \in Signals})
  /\ \A c \in offered.remove_fallback :
       ~ NamedElsewhere(s, c) => SomeAccepted(RemoveFallback(s, c))
  /\ \A c \in offered.add_cooldown :
       Free(s, {Named(c, "cooldown")}) => SomeAccepted(AddCooldown(s, c, 1))
  /\ \A c \in offered.remove_cooldown : SomeAccepted(RemoveCooldown(s, c))
  /\ \A c \in offered.add_predicate :
       SomeAccepted(UNION {AddPredicate(s, c, a) : a \in Signals})
  /\ \A c \in offered.remove_predicate : SomeAccepted(RemovePredicate(s, c))

OffersAreAccepted == OfferedAreAccepted(strategy, Offered(strategy))

(* What the recipes build compiles, and its plan can be printed: each      *)
(* operation is checked by itself, and it is the sequence of them that     *)
(* must not lead where desugaring, the analysis, the lowering or the       *)
(* generator refuses to follow.  Two refusals of the compiler are left out *)
(* of the claim, because a client may ask for them with accepted requests: *)
(* that more assets are chosen than a universe has (validate_strategy_ir), *)
(* and a cooldown beside a rule or a portfolio.                            *)
CooldownAlone(s) ==
  (\E c \in DOMAIN s.node : Prim(s, c) = "cooldown") =>
     \A d \in DOMAIN s.node : Prim(s, d) \notin {"rule", "portfolio"}

Printable(plan) == plan # Refused /\ Generates(plan)

RecipesStayExecutable ==
  /\ ~ composed
  /\ CooldownAlone(strategy)
  /\ CountsFit(Resolved(strategy))
  => Printable(Compile(Resolved(strategy)))

=============================================================================
