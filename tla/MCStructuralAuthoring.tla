----------------------- MODULE MCStructuralAuthoring -----------------------
(* Small strategies of the shapes in strategy/v1/fixtures.py.  An id that  *)
(* is a multiple of 1000 is one the document gives.                        *)
EXTENDS StructuralAuthoring

At(k) == 1000 * k

SetNode(set) == [Plain("asset_set") EXCEPT !.ref = set]
TopNode(n) == [Plain("top_n") EXCEPT !.count = n]

(* The components are given the ids 1000, 2000, ... in order.              *)
Document(nodes, wires, entry, sets, universes) ==
  [order |-> [i \in DOMAIN nodes |-> At(i)],
   node |-> [c \in {At(i) : i \in DOMAIN nodes} |-> nodes[c \div 1000]],
   wires |-> {Wire(At(w[1]), At(w[2]), w[3]) : w \in wires},
   entry |-> {<<At(entry[1]), At(entry[2])>>},
   sets |-> sets, universes |-> universes]

Direct ==
  Document(<<Plain("monthly"), SetNode(At(50)), Plain("equal_weight"), Plain("rebalance")>>,
           {<<2, 3, "assets">>, <<3, 4, "targets">>}, <<1, 4>>,
           At(50) :> {1, 2}, << >>)

FilteredMomentum ==
  Document(<<Plain("daily"), SetNode(At(50)), Plain("trailing_return"), Plain("filter"),
             Plain("rank"), TopNode(1), Plain("equal_weight"), Plain("rebalance")>>,
           {<<2, 3, "assets">>, <<3, 4, "scores">>, <<4, 5, "scores">>, <<5, 6, "ranked">>,
            <<6, 7, "assets">>, <<7, 8, "targets">>}, <<1, 8>>,
           At(50) :> {1, 2} @@ At(51) :> {3}, << >>)

RandomOfUniverse ==
  Document(<<Plain("daily"), [Plain("universe") EXCEPT !.ref = At(60)], Plain("random_select"),
             Plain("equal_weight"), Plain("rebalance")>>,
           {<<2, 3, "assets">>, <<3, 4, "assets">>, <<4, 5, "targets">>}, <<1, 5>>,
           At(50) :> {1, 2}, At(60) :> At(50) @@ At(61) :> None)

(* A momentum sleeve beside a defensive one, the fixture of a strategy     *)
(* that came through growth and defensive already.                         *)
TwoSleeves ==
  LET group(name, share) == [Plain("portfolio_sleeve") EXCEPT !.name = name, !.share = share]
  IN Document(<<Plain("monthly"), SetNode(At(50)), Plain("trailing_return"), Plain("filter"),
                Plain("rank"), TopNode(1), Plain("equal_weight"),
                [Plain("fallback") EXCEPT !.ref = At(51)], group("Momentum", 84), SetNode(At(52)),
                Plain("equal_weight"), group("Safe", 36), Plain("portfolio"),
                Plain("rebalance")>>,
              {<<2, 3, "assets">>, <<3, 4, "scores">>, <<4, 5, "scores">>, <<5, 6, "ranked">>,
               <<6, 7, "assets">>, <<7, 8, "primary">>, <<8, 9, "local_targets">>,
               <<10, 11, "assets">>, <<11, 12, "local_targets">>, <<9, 13, "sleeves">>,
               <<12, 13, "sleeves">>, <<13, 14, "targets">>}, <<1, 14>>,
              At(50) :> {1, 2} @@ At(51) :> {3} @@ At(52) :> {2, 3}, << >>)

(* A universe with the id authoring gives to the asset set of a fallback:   *)
(* an operation looks only at the ids of components and asset sets, and     *)
(* the component that names the universe keeps the fallback from being      *)
(* removed.                                                                 *)
NamedUniverse ==
  LET id == Named(At(7), "fallback_assets")
  IN Document(<<Plain("daily"), SetNode(At(50)), Plain("trailing_return"), Plain("filter"),
                Plain("rank"), TopNode(1), Plain("equal_weight"), Plain("rebalance"),
                [Plain("universe") EXCEPT !.ref = id]>>,
              {<<2, 3, "assets">>, <<3, 4, "scores">>, <<4, 5, "scores">>, <<5, 6, "ranked">>,
               <<6, 7, "assets">>, <<7, 8, "targets">>}, <<1, 8>>,
              At(50) :> {1, 2}, id :> None)

MCNamedUniverse == {NamedUniverse}

MCStarts == {Direct, FilteredMomentum, RandomOfUniverse, TwoSleeves}

Create(ref, prim) == [kind |-> "create_component", ref |-> ref, prim |-> prim]
Connected(kind, from, to, port) == [kind |-> kind, from |-> from, to |-> to, port |-> port]

(* A second set of assets merged into the targets of the direct strategy:  *)
(* the batch creates two components of one primitive.                      *)
MergeBatch ==
  <<[kind |-> "create_asset_set", ref |-> -9, assets |-> {3}],
    Create(-1, "asset_set"), Create(-2, "equal_weight"), Create(-3, "merge_targets"),
    Create(-4, "asset_set"), Create(-5, "equal_weight"),
    [kind |-> "set_component_field", target |-> -1, field |-> "ref", value |-> -9],
    [kind |-> "set_component_field", target |-> -4, field |-> "ref", value |-> -9],
    [kind |-> "set_component_field", target |-> -2, field |-> "share", value |-> 60],
    [kind |-> "set_component_field", target |-> -5, field |-> "share", value |-> 60],
    Connected("connect", -1, -2, "assets"), Connected("connect", -4, -5, "assets"),
    Connected("disconnect", At(3), At(4), "targets"),
    Connected("connect", -2, -3, "left"), Connected("connect", -5, -3, "right"),
    Connected("connect", -3, At(4), "targets")>>

(* The filter taken out of the momentum strategy.                          *)
UnfilterBatch ==
  <<[kind |-> "remove_component", target |-> At(4)],
    Connected("connect", At(3), At(5), "scores")>>

(* A component nothing uses yet; the batch may be applied twice.           *)
SpareBatch ==
  <<Create(-1, "asset_set"),
    [kind |-> "set_component_field", target |-> -1, field |-> "ref", value |-> At(50)]>>

(* An asset set no component names, an event, and an input in use.         *)
UnusedBatch == <<[kind |-> "create_asset_set", ref |-> -9, assets |-> {3}]>>
EventBatch == <<Create(-1, "daily")>>
OccupiedBatch == <<Connected("connect", At(3), At(4), "targets")>>

MCBatches ==
  {MergeBatch, UnfilterBatch, SpareBatch, UnusedBatch, EventBatch,
   OccupiedBatch}

=============================================================================
