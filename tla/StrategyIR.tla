----------------------------- MODULE StrategyIR -----------------------------
(***************************************************************************)
(* The frontend of the compiler: a valid v1 strategy is desugared into the *)
(* operations of the Strategy IR, which are validated again and analysed   *)
(* for what they require.                                                  *)
(*                                                                         *)
(* The id of an operation is <<component, part>>: part is "" for the       *)
(* operation that carries the component's own id and the text after the    *)
(* dollar sign for one derived from it.                                    *)
(***************************************************************************)
EXTENDS StrategyGraph

-----------------------------------------------------------------------------
(* Desugaring *)

Component(id) == id[1]
Part(id) == id[2]

Derived(c, part) == <<c, part>>
Own(c) == Derived(c, "")

(* A loop over the components meets them in the order of the document, and *)
(* knows only the cooldowns it has met.                                    *)
CooldownsMet(s, r) ==
  {d \in DOMAIN s.node :
     /\ Prim(s, d) = "cooldown"
     /\ Position(s, d) < Position(s, r)
     /\ d \in Upstream(s, SourceOf(s, r, "targets"))}

(* The rebalances at which the exits of a cooldown are observed.           *)
ObserversOf(s, d) ==
  {r \in DOMAIN s.node : Prim(s, r) = "rebalance" /\ d \in CooldownsMet(s, r)}

(* A sleeve feeds a portfolio through its scaled targets; one with its own *)
(* schedule does if it was met before the portfolio.                       *)
Contribution(s, portfolio, c) ==
  IF c \in Scheduled(s) /\ Position(s, c) < Position(s, portfolio)
    THEN Derived(c, "scaled") ELSE Own(c)

OperationIds(s) ==
  {Own(c) : c \in DOMAIN s.node}
  \cup {Derived(c, part) : c \in {d \in DOMAIN s.node : Prim(s, d) = "fallback"},
                             part \in {"assets", "targets"}}
  \cup {Derived(c, "scaled") : c \in Scheduled(s)}
  \cup {Derived(d, "observe") : d \in {c \in DOMAIN s.node : ObserversOf(s, c) # {}}}

Op(name, c, args) == [op |-> name, of |-> c, args |-> args]

(* Mutant: the sleeves of a portfolio stay in the order of the document.   *)
MembersAsListed(s, c) ==
  SelectSeq(s.order, LAMBDA d : d \in SourcesOf(s, c, "sleeves"))

Members(s, c) == Ascending(SourcesOf(s, c, "sleeves"))

(* The operation a component becomes.                                      *)
OwnOperation(s, c) ==
  LET prim == Prim(s, c)
      from(port) == Own(SourceOf(s, c, port))
  IN CASE prim \in Events \cup {"asset_set", "universe"} -> Op(prim, c, <<>>)
       [] prim \in {"random_select", "trailing_return", "equal_weight"} ->
            Op(prim, c, <<from("assets")>>)
       [] prim \in {"filter", "rank"} -> Op(prim, c, <<from("scores")>>)
       [] prim = "top_n" -> Op(prim, c, <<from("ranked")>>)
       [] prim = "cooldown" -> Op("gate", c, <<from("candidates")>>)
       [] prim = "merge_targets" -> Op("merge", c, <<from("left"), from("right")>>)
       [] prim = "fallback" ->
            Op("first_non_empty", c, <<from("primary"), Derived(c, "targets")>>)
       [] prim = "portfolio_sleeve" ->
            Op(IF c \in Scheduled(s) THEN "retain" ELSE "scale", c, <<from("local_targets")>>)
       [] prim = "portfolio" ->
            Op("merge", c, [i \in DOMAIN Members(s, c) |-> Contribution(s, c, Members(s, c)[i])])
       [] prim = "rebalance" ->
            Op("rebalance", c,
               IF CooldownsMet(s, c) = {} THEN <<from("targets")>>
               ELSE <<Derived(Sole(CooldownsMet(s, c)), "observe")>>)
       [] prim = "rule" ->
            Op("predicate_rebalance", c,
               IF s.node[c].otherwise = None THEN <<Own(s.node[c].then)>>
               ELSE <<Own(s.node[c].then), Own(s.node[c].otherwise)>>)

(* The operations derived from a fallback, a scheduled sleeve, a cooldown. *)
DerivedOperation(s, id) ==
  CASE Part(id) = "assets" -> Op("asset_set", Component(id), <<>>)
    [] Part(id) = "targets" -> Op("equal_weight", Component(id), <<Derived(Component(id), "assets")>>)
    [] Part(id) = "scaled" -> Op("scale", Component(id), <<Own(Component(id))>>)
    [] Part(id) = "observe" ->
         Op("observe", Component(id),
            <<Own(SourceOf(s, Sole(ObserversOf(s, Component(id))), "targets"))>>)

(* What desugaring itself refuses; a universe whose members a provider     *)
(* would name is one without assets.                                       *)
Desugars(s) ==
  /\ \A c \in DOMAIN s.node : Prim(s, c) = "universe" => s.node[c].assets # {}
  /\ \A c \in DOMAIN s.node :
       Prim(s, c) = "rebalance" => Cardinality(CooldownsMet(s, c)) <= 1
  /\ \A c \in DOMAIN s.node : Prim(s, c) = "rule" =>
       "portfolio_sleeve" \notin {Prim(s, s.node[c].then), Prim(s, s.node[c].otherwise)}

(* The share of an equal weighting: a fallback takes that of its primary.  *)
TotalWeight(s, id) ==
  s.node[IF Part(id) = "targets" THEN SourceOf(s, Component(id), "primary") ELSE Component(id)].share

Desugared(s) ==
  [ops   |-> [id \in OperationIds(s) |->
                IF Part(id) = "" THEN OwnOperation(s, Component(id)) ELSE DerivedOperation(s, id)],
   entry |-> {<<Own(e[1]), Own(e[2])>> : e \in s.entry}]

-----------------------------------------------------------------------------
(* validate_strategy_ir *)

ResultType(op) ==
  CASE op \in Events -> "event"
    [] op \in {"asset_set", "universe", "random_select", "top_n", "gate"} -> "assets"
    [] op \in {"trailing_return", "filter"} -> "scores"
    [] op = "rank" -> "ranked"
    [] op \in {"equal_weight", "scale", "retain", "merge", "first_non_empty", "observe"} -> "targets"
    [] op \in {"rebalance", "predicate_rebalance"} -> "effect"

OperandType(op) ==
  CASE op \in {"random_select", "trailing_return", "gate", "equal_weight"} -> "assets"
    [] op \in {"filter", "rank"} -> "scores"
    [] op = "top_n" -> "ranked"
    [] OTHER -> "targets"

OperandsTyped(ir) ==
  \A id \in DOMAIN ir.ops : \A a \in ToSet(ir.ops[id].args) :
    a \in DOMAIN ir.ops /\ ResultType(ir.ops[a].op) = OperandType(ir.ops[id].op)

(* No more assets are asked for than the set they are drawn from has.      *)
CountsFit(s) ==
  \A c \in DOMAIN s.node : Prim(s, c) \in {"random_select", "top_n"} =>
    \A d \in Upstream(s, c) :
      Prim(s, d) \in {"asset_set", "universe"} => s.node[c].count <= Cardinality(s.node[d].assets)

EntrypointOperations(ir) ==
  /\ ir.entry # {}
  /\ \A e \in ir.entry :
       /\ ir.ops[e[1]].op \in Events
       /\ ir.ops[e[2]].op \in {"retain", "rebalance", "predicate_rebalance"}
  /\ \A id \in DOMAIN ir.ops : ir.ops[id].op = "retain" => \E e \in ir.entry : e[2] = id

(* Each last exit is kept by one gate and one observer.                    *)
StateObserved(s) ==
  \A d \in DOMAIN s.node : Prim(s, d) = "cooldown" => Cardinality(ObserversOf(s, d)) = 1

(* The operations an entrypoint leads to.                                  *)
Reachable(ir) ==
  Reached(UNION {ToSet(ir.ops[id].args) \X {id} : id \in DOMAIN ir.ops},
          Cardinality(DOMAIN ir.ops), UNION {{e[1], e[2]} : e \in ir.entry})

ValidIR(s, ir) ==
  /\ OperandsTyped(ir)
  /\ CountsFit(s)
  /\ EntrypointOperations(ir)
  /\ StateObserved(s)
  /\ Reachable(ir) = DOMAIN ir.ops

-----------------------------------------------------------------------------
(* analyze_strategy_ir *)

(* Every asset of a set, a fallback or a rule's condition is subscribed.   *)
RequiredAssets(s) ==
  UNION {s.node[c].assets :
           c \in {d \in DOMAIN s.node :
                    Prim(s, d) \in {"asset_set", "universe", "fallback", "rule"}}}

=============================================================================
