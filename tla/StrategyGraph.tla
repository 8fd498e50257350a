--------------------------- MODULE StrategyGraph ---------------------------
(***************************************************************************)
(* A v1 Canonical Strategy: components wired through typed ports, and      *)
(* entrypoints that join an event to what it refreshes or rebalances.      *)
(*                                                                         *)
(*   strategy.order  the component ids as the document lists them          *)
(*   strategy.node   component id -> its primitive and configuration       *)
(*   strategy.wires  records [from, to, port]                              *)
(*   strategy.entry  pairs <<event, target>>                               *)
(*                                                                         *)
(* A component id is a number, ordered as the source orders the texts; a   *)
(* share of the portfolio is a number of parts out of Whole.  An asset     *)
(* set, a universe and what they name are the set of assets of the node.   *)
(***************************************************************************)
EXTENDS Reachability, Sequences, FiniteSets, SequencesExt, FiniteSetsExt

CONSTANTS None, Whole

ASSUME WholeAssumption == Whole \in Nat \ {0}

-----------------------------------------------------------------------------
(* The primitive registry *)

Ports(ins, out) == [in |-> ins, out |-> out]

Events == {"daily", "monthly", "quarterly"}

SelectionPorts ==
  [asset_set       |-> Ports({}, "assets"),
   universe        |-> Ports({}, "assets"),
   random_select   |-> Ports({<<"assets", "assets">>}, "assets"),
   trailing_return |-> Ports({<<"assets", "assets">>}, "scores"),
   filter          |-> Ports({<<"scores", "scores">>}, "scores"),
   rank            |-> Ports({<<"scores", "scores">>}, "ranked"),
   top_n           |-> Ports({<<"ranked", "ranked">>}, "assets"),
   cooldown        |-> Ports({<<"candidates", "assets">>}, "assets")]

AllocationPorts ==
  [equal_weight     |-> Ports({<<"assets", "assets">>}, "targets"),
   merge_targets    |-> Ports({<<"left", "targets">>, <<"right", "targets">>}, "targets"),
   fallback         |-> Ports({<<"primary", "targets">>}, "targets"),
   portfolio_sleeve |-> Ports({<<"local_targets", "targets">>}, "targets"),
   portfolio        |-> Ports({<<"sleeves", "targets">>}, "targets"),
   rebalance        |-> Ports({<<"targets", "targets">>}, None),
   rule             |-> Ports({}, None)]

PortsOf(prim) ==
  IF prim \in DOMAIN SelectionPorts THEN SelectionPorts[prim]
  ELSE IF prim \in DOMAIN AllocationPorts THEN AllocationPorts[prim]
  ELSE Ports({}, None)

Primitives == Events \cup DOMAIN SelectionPorts \cup DOMAIN AllocationPorts

ASSUME NoneAssumption == None \notin Primitives

-----------------------------------------------------------------------------
(* Reading the graph *)

Prim(s, c) == IF c \in DOMAIN s.node THEN s.node[c].prim ELSE None

SourcesOf(s, c, port) ==
  {w.from : w \in {x \in s.wires : x.to = c /\ x.port = port}}

(* The element of a set that has one.                                      *)
Sole(S) == CHOOSE x \in S : TRUE

(* What feeds a port that takes one connection, or None.                   *)
SourceOf(s, c, port) ==
  IF SourcesOf(s, c, port) = {} THEN None ELSE Sole(SourcesOf(s, c, port))

(* The components a component is computed from, itself included.           *)
Upstream(s, c) == Reached({<<w.from, w.to>> : w \in s.wires}, Len(s.order), {c})

(* The assets of the sets a component draws on.                            *)
AssetsBehind(s, c) ==
  UNION {s.node[d].assets : d \in {u \in Upstream(s, c) : Prim(s, u) \in {"asset_set", "universe"}}}

(* A set of numbers as a sequence.                                         *)
Ascending(S) ==
  [i \in 1..Cardinality(S) |-> CHOOSE x \in S : Cardinality({y \in S : y < x}) = i - 1]

Position(s, c) == CHOOSE i \in DOMAIN s.order : s.order[i] = c

(* The sleeves an entrypoint refreshes on a schedule of their own.         *)
Scheduled(s) == {e[2] : e \in {x \in s.entry : Prim(s, x[2]) = "portfolio_sleeve"}}

-----------------------------------------------------------------------------
(* collect_semantic_issues *)

Connections(s) ==
  /\ \A w \in s.wires :
       /\ {w.from, w.to} \subseteq DOMAIN s.node
       /\ PortsOf(Prim(s, w.from)).out # None
       /\ <<w.port, PortsOf(Prim(s, w.from)).out>> \in PortsOf(Prim(s, w.to)).in
  /\ \A w, x \in s.wires :
       w.to = x.to /\ w.port = x.port /\ w.port # "sleeves" => w = x

Acyclic(s) ==
  \A w \in s.wires : w.to \notin Upstream(s, w.from)

InputsConnected(s) ==
  \A c \in DOMAIN s.node : \A p \in PortsOf(Prim(s, c)).in : SourcesOf(s, c, p[1]) # {}

CooldownInput(s) ==
  \A c \in DOMAIN s.node :
    Prim(s, c) = "cooldown" => Prim(s, SourceOf(s, c, "candidates")) = "top_n"

(* Fallback v0: one asset, behind equal weights over a filtered Top N.     *)
FallbackInput(s) ==
  \A c \in DOMAIN s.node : Prim(s, c) = "fallback" =>
    LET primary == SourceOf(s, c, "primary")
        top     == SourceOf(s, primary, "assets")
        rank    == SourceOf(s, top, "ranked")
    IN /\ Cardinality(s.node[c].assets) = 1
       /\ Prim(s, primary) = "equal_weight"
       /\ Prim(s, top) = "top_n"
       /\ Prim(s, SourceOf(s, rank, "scores")) = "filter"

(* The local targets of a sleeve, as far as they are equal weights.        *)
LocalTargets(s, c) ==
  LET local == SourceOf(s, c, "local_targets")
  IN IF Prim(s, local) = "fallback" THEN SourceOf(s, local, "primary") ELSE local

SleeveTotals(s) ==
  \A c \in DOMAIN s.node :
    /\ Prim(s, c) = "portfolio_sleeve"
    /\ Prim(s, LocalTargets(s, c)) = "equal_weight"
    => s.node[LocalTargets(s, c)].share = Whole

(* Portfolio v0: two sleeves that share out the whole portfolio.           *)
PortfolioMembers(s) ==
  \A c \in DOMAIN s.node : Prim(s, c) = "portfolio" =>
    LET members == SourcesOf(s, c, "sleeves")
    IN /\ Cardinality(members) = 2
       /\ \A d \in members : Prim(s, d) = "portfolio_sleeve"
       /\ MapThenSumSet(LAMBDA d : s.node[d].share, members) = Whole

EntrypointsKnown(s) ==
  \A e \in s.entry : Prim(s, e[1]) \in Events /\ e[2] \in DOMAIN s.node

(* The targets a rule's actions name are targets of a component.           *)
RulesTyped(s) ==
  \A c \in DOMAIN s.node : Prim(s, c) = "rule" =>
    /\ s.node[c].clauses # {}
    /\ PortsOf(Prim(s, s.node[c].then)).out = "targets"
    /\ s.node[c].otherwise # None => PortsOf(Prim(s, s.node[c].otherwise)).out = "targets"

Valid(s) ==
  /\ Connections(s)
  /\ InputsConnected(s)
  /\ Acyclic(s)
  /\ CooldownInput(s)
  /\ FallbackInput(s)
  /\ SleeveTotals(s)
  /\ PortfolioMembers(s)
  /\ EntrypointsKnown(s)
  /\ RulesTyped(s)

=============================================================================
