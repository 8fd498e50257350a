----------------------- MODULE ScheduledRuntimeProofs -----------------------
(***************************************************************************)
(* Theorems about the v1 compiler and the algorithm it generates, for any  *)
(* strategies, slices and calendar.                                        *)
(***************************************************************************)
EXTENDS ScheduledRuntime, Foundations, SequenceTheorems

(* Strategies that differ in the order of the document alone.              *)
Reordered(s, t) == Unordered(s) = Unordered(t) /\ Len(s.order) = Len(t.order)

-----------------------------------------------------------------------------
(* What the order of the document is not part of *)

LEMMA SameGraph ==
  ASSUME NEW s, NEW t, Reordered(s, t)
  PROVE  /\ s.node = t.node /\ s.wires = t.wires /\ s.entry = t.entry
         /\ \A c : Prim(s, c) = Prim(t, c)
         /\ \A c, port : SourcesOf(s, c, port) = SourcesOf(t, c, port)
         /\ \A c, port : SourceOf(s, c, port) = SourceOf(t, c, port)
         /\ \A c : Upstream(s, c) = Upstream(t, c)
         /\ Scheduled(s) = Scheduled(t)
         /\ \A c : Members(s, c) = Members(t, c)
<1>1. s.node = t.node /\ s.wires = t.wires /\ s.entry = t.entry
  BY DEF Reordered, Unordered
<1>2. ASSUME NEW c PROVE Prim(s, c) = Prim(t, c)
  BY <1>1 DEF Prim
<1>3. ASSUME NEW c, NEW port PROVE SourcesOf(s, c, port) = SourcesOf(t, c, port)
  BY <1>1 DEF SourcesOf
<1>4. ASSUME NEW c, NEW port PROVE SourceOf(s, c, port) = SourceOf(t, c, port)
  BY <1>3 DEF SourceOf
<1>5. ASSUME NEW c PROVE Upstream(s, c) = Upstream(t, c)
  <2>1. {<<w.from, w.to>> : w \in s.wires} = {<<w.from, w.to>> : w \in t.wires}
    BY <1>1
  <2>2. QED
    BY <2>1 DEF Upstream, Reordered
<1>6. Scheduled(s) = Scheduled(t)
  BY <1>1, <1>2 DEF Scheduled
<1>7. ASSUME NEW c PROVE Members(s, c) = Members(t, c)
  BY <1>3 DEF Members
<1>8. QED
  BY <1>1, <1>2, <1>3, <1>4, <1>5, <1>6, <1>7

(* A rebalance observes the same cooldowns in either order, when the state  *)
(* of each is observed in both.                                             *)
LEMMA SameCooldowns ==
  ASSUME NEW s, NEW t, Reordered(s, t), WellFormed(s), CooldownsUnshared(s),
         StateObserved(s), StateObserved(t),
         NEW r \in DOMAIN s.node, Prim(s, r) = "rebalance"
  PROVE  CooldownsMet(s, r) \subseteq CooldownsMet(t, r)
<1> USE SameGraph
<1>1. SUFFICES ASSUME NEW d \in CooldownsMet(s, r) PROVE d \in CooldownsMet(t, r)
  OBVIOUS
<1>2. /\ d \in DOMAIN s.node /\ Prim(s, d) = "cooldown"
      /\ d \in Upstream(s, SourceOf(s, r, "targets"))
  BY DEF CooldownsMet
<1>3. Cardinality(ObserversOf(t, d)) = 1
  BY <1>2 DEF StateObserved
<1>4. ObserversOf(t, d) # {}
  BY <1>3, FS_EmptySet
<1>5. PICK q \in DOMAIN t.node : Prim(t, q) = "rebalance" /\ d \in CooldownsMet(t, q)
  BY <1>4 DEF ObserversOf
<1>6. d \in Upstream(t, SourceOf(t, q, "targets"))
  BY <1>5 DEF CooldownsMet
<1>7. q = r
  BY <1>2, <1>5, <1>6 DEF CooldownsUnshared
<1>8. QED
  BY <1>5, <1>7

-----------------------------------------------------------------------------
(* The operations of a valid strategy *)

LEMMA OwnOperationOf ==
  ASSUME NEW s, NEW c \in DOMAIN s.node
  PROVE  Own(c) \in OperationIds(s) /\ Desugared(s).ops[Own(c)] = OwnOperation(s, c)
<1>1. Own(c) \in OperationIds(s)
  BY DEF OperationIds
<1>2. Component(Own(c)) = c /\ Part(Own(c)) = ""
  BY DEF Own, Derived, Component, Part
<1>3. QED
  BY <1>1, <1>2 DEF Desugared

LEMMA DerivedOperationOf ==
  ASSUME NEW s, NEW id \in OperationIds(s), Part(id) # ""
  PROVE  Desugared(s).ops[id] = DerivedOperation(s, id)
BY DEF Desugared

(* An operation carries the id of a component or is derived from one.       *)
LEMMA OperationCases ==
  ASSUME NEW s, NEW id \in OperationIds(s)
  PROVE  \/ \E c \in DOMAIN s.node : id = Own(c)
         \/ /\ Part(id) \in {"assets", "targets"}
            /\ Component(id) \in DOMAIN s.node /\ Prim(s, Component(id)) = "fallback"
         \/ Part(id) = "scaled" /\ Component(id) \in Scheduled(s)
         \/ Part(id) = "observe"
<1>1. CASE id \in {Own(c) : c \in DOMAIN s.node}
  BY <1>1
<1>2. ASSUME NEW c \in DOMAIN s.node, Prim(s, c) = "fallback",
             NEW part \in {"assets", "targets"}, id = Derived(c, part)
      PROVE  Component(id) = c /\ Part(id) = part
  BY <1>2 DEF Derived, Component, Part
<1>3. ASSUME NEW c \in Scheduled(s), id = Derived(c, "scaled")
      PROVE  Component(id) = c /\ Part(id) = "scaled"
  BY <1>3 DEF Derived, Component, Part
<1>4. ASSUME NEW c, id = Derived(c, "observe") PROVE Part(id) = "observe"
  BY <1>4 DEF Derived, Part
<1>5. \/ id \in {Own(c) : c \in DOMAIN s.node}
      \/ \E c \in DOMAIN s.node, part \in {"assets", "targets"} :
           Prim(s, c) = "fallback" /\ id = Derived(c, part)
      \/ \E c \in Scheduled(s) : id = Derived(c, "scaled")
      \/ \E c : id = Derived(c, "observe")
  BY DEF OperationIds
<1>6. QED
  BY <1>1, <1>2, <1>3, <1>4, <1>5

LEMMA MergeArguments ==
  ASSUME NEW s, WellFormed(s), Valid(s), NEW c \in DOMAIN s.node,
         Prim(s, c) \in {"portfolio", "merge_targets"}
  PROVE  OwnOperation(s, c).op = "merge" /\ DOMAIN OwnOperation(s, c).args = 1..2
<1>1. CASE Prim(s, c) = "portfolio"
  <2>1. Cardinality(SourcesOf(s, c, "sleeves")) = 2
    BY <1>1 DEF Valid, PortfolioMembers
  <2>2. DOMAIN Members(s, c) = 1..2
    BY <2>1 DEF Members, Ascending
  <2>3. OwnOperation(s, c) = Op("merge", c, [i \in DOMAIN Members(s, c) |->
                                               Contribution(s, c, Members(s, c)[i])])
    BY <1>1 DEF OwnOperation, Events
  <2>4. QED
    BY <2>2, <2>3 DEF Op
<1>2. CASE Prim(s, c) = "merge_targets"
  <2>1. OwnOperation(s, c) = Op("merge", c, <<Own(SourceOf(s, c, "left")),
                                              Own(SourceOf(s, c, "right"))>>)
    BY <1>2 DEF OwnOperation, Events
  <2>2. QED
    BY <2>1 DEF Op
<1>3. QED
  BY <1>1, <1>2

(* What lowering relies on of the operands of targets.                      *)
Operable(s, op) ==
  /\ op.op = "merge" => DOMAIN op.args = 1..2
  /\ op.op = "scale" => DOMAIN op.args = 1..1 /\ op.of \in DOMAIN s.node
  /\ op.op \in {"observe", "retain"} => DOMAIN op.args = 1..1
  /\ op.op = "first_non_empty" =>
       \A i \in DOMAIN op.args : Desugared(s).ops[op.args[i]].op = "equal_weight"

LEMMA FallbackTargets ==
  ASSUME NEW s, NEW c \in DOMAIN s.node, Prim(s, c) = "fallback", NEW id, id = Derived(c, "targets")
  PROVE  Desugared(s).ops[id].op = "equal_weight"
<1>1. id \in OperationIds(s)
  BY DEF OperationIds
<1>2. Part(id) = "targets"
  BY DEF Derived, Part
<1>3. Desugared(s).ops[id] = DerivedOperation(s, id)
  BY <1>1, <1>2, DerivedOperationOf
<1>4. DerivedOperation(s, id) = Op("equal_weight", Component(id), <<Derived(Component(id), "assets")>>)
  BY <1>2 DEF DerivedOperation
<1>5. QED
  BY <1>3, <1>4 DEF Op

LEMMA FallbackOperands ==
  ASSUME NEW s, Valid(s), NEW c \in DOMAIN s.node, Prim(s, c) = "fallback"
  PROVE  Operable(s, OwnOperation(s, c))
<1> DEFINE primary == SourceOf(s, c, "primary")
<1>1. Prim(s, primary) = "equal_weight"
  BY DEF Valid, FallbackInput
<1>2. primary \in DOMAIN s.node
  BY <1>1, NoneAssumption DEF Prim, Primitives, AllocationPorts
<1>3. OwnOperation(s, primary) = Op("equal_weight", primary, <<Own(SourceOf(s, primary, "assets"))>>)
  BY <1>1 DEF OwnOperation, Events
<1>4. Desugared(s).ops[Own(primary)].op = "equal_weight"
  BY <1>2, <1>3, OwnOperationOf DEF Op
<1>5. Desugared(s).ops[Derived(c, "targets")].op = "equal_weight"
  BY FallbackTargets
<1>6. OwnOperation(s, c) = Op("first_non_empty", c, <<Own(primary), Derived(c, "targets")>>)
  BY DEF OwnOperation, Events
<1> HIDE DEF primary
<1>7. QED
  BY <1>4, <1>5, <1>6 DEF Op, Operable

LEMMA OwnOperands ==
  ASSUME NEW s, WellFormed(s), Valid(s), NEW c \in DOMAIN s.node
  PROVE  Operable(s, OwnOperation(s, c))
<1>1. Prim(s, c) \in Primitives
  BY DEF WellFormed, Prim
<1>2. CASE Prim(s, c) \in {"portfolio", "merge_targets"}
  BY <1>2, MergeArguments DEF Operable
<1>3. CASE Prim(s, c) = "fallback"
  BY <1>3, FallbackOperands
<1>4. CASE Prim(s, c) = "portfolio_sleeve"
  <2>1. OwnOperation(s, c) = Op(IF c \in Scheduled(s) THEN "retain" ELSE "scale", c,
                                <<Own(SourceOf(s, c, "local_targets"))>>)
    BY <1>4 DEF OwnOperation, Events
  <2>2. QED
    BY <2>1 DEF Op, Operable
<1>5. CASE Prim(s, c) \notin {"portfolio", "merge_targets", "fallback", "portfolio_sleeve"}
  <2>1. OwnOperation(s, c).op \notin {"merge", "scale", "observe", "retain", "first_non_empty"}
    BY <1>1, <1>5 DEF OwnOperation, Events, Op, Primitives, SelectionPorts, AllocationPorts
  <2>2. QED
    BY <2>1 DEF Operable
<1>6. QED
  BY <1>2, <1>3, <1>4, <1>5

LEMMA Operands ==
  ASSUME NEW s, WellFormed(s), Valid(s), NEW id \in OperationIds(s)
  PROVE  Operable(s, Desugared(s).ops[id])
<1>1. ASSUME NEW c \in DOMAIN s.node, id = Own(c) PROVE Operable(s, Desugared(s).ops[id])
  BY <1>1, OwnOperationOf, OwnOperands
<1>2. CASE Part(id) = "assets"
  <2>1. Desugared(s).ops[id] = Op("asset_set", Component(id), <<>>)
    BY <1>2, DerivedOperationOf DEF DerivedOperation
  <2>2. QED
    BY <2>1 DEF Op, Operable
<1>3. CASE Part(id) = "targets"
  <2>1. Desugared(s).ops[id] = Op("equal_weight", Component(id), <<Derived(Component(id), "assets")>>)
    BY <1>3, DerivedOperationOf DEF DerivedOperation
  <2>2. QED
    BY <2>1 DEF Op, Operable
<1>4. CASE Part(id) = "scaled" /\ Component(id) \in Scheduled(s)
  <2>1. Component(id) \in DOMAIN s.node
    BY <1>4, NoneAssumption DEF Scheduled, Prim, Primitives, AllocationPorts
  <2>2. Desugared(s).ops[id] = Op("scale", Component(id), <<Own(Component(id))>>)
    BY <1>4, DerivedOperationOf DEF DerivedOperation
  <2>3. QED
    BY <2>1, <2>2 DEF Op, Operable
<1>5. CASE Part(id) = "observe"
  <2>1. \E x : Desugared(s).ops[id] = Op("observe", Component(id), <<x>>)
    BY <1>5, DerivedOperationOf DEF DerivedOperation
  <2>2. QED
    BY <2>1 DEF Op, Operable
<1>6. QED
  BY <1>1, <1>2, <1>3, <1>4, <1>5, OperationCases

-----------------------------------------------------------------------------
(* Lowering *)

Below(s) == DOMAIN s.node \cup {None}

(* The rounds of lowering the targets.                                      *)
Rounds(s, ops, n, g) ==
  /\ \A id \in DOMAIN ops, scale \in Nat, sleeve \in Below(s) : g[0][<<id, scale, sleeve>>] = <<Bad>>
  /\ \A k \in 1..n : \A id \in DOMAIN ops, scale \in Nat, sleeve \in Below(s) :
       g[k][<<id, scale, sleeve>>] = LeavesFrom(s, ops, g[k - 1], id, scale, sleeve)

LEMMA LoweredInRounds ==
  ASSUME NEW s, NEW ops, NEW n \in Nat, n = Cardinality(DOMAIN ops)
  PROVE  \E g : Rounds(s, ops, n, g) /\ LowerTargets(s, ops) = g[n]
<1> DEFINE Round(k, before) ==
             [at \in (DOMAIN ops) \X Nat \X (DOMAIN s.node \cup {None}) |->
                IF k = 0 THEN <<Bad>>
                ELSE LeavesFrom(s, ops, before, at[1], at[2], at[3])]
           Solves(f, m) == f = [k \in 0..m |-> Round(k, f[k - 1])]
           S == {m \in Nat : \E f : Solves(f, m)}
<1>a. ASSUME NEW x, NEW y PROVE Round(0, x) = Round(0, y)
  OBVIOUS
<1>b. ASSUME NEW x, NEW id \in DOMAIN ops, NEW scale \in Nat, NEW sleeve \in Below(s)
      PROVE  Round(0, x)[<<id, scale, sleeve>>] = <<Bad>>
  BY DEF Below
<1>c. ASSUME NEW k \in Nat \ {0}, NEW x,
             NEW id \in DOMAIN ops, NEW scale \in Nat, NEW sleeve \in Below(s)
      PROVE  Round(k, x)[<<id, scale, sleeve>>] = LeavesFrom(s, ops, x, id, scale, sleeve)
  BY DEF Below
<1> DEFINE h == CHOOSE f : Solves(f, n)
<1>d. LowerTargets(s, ops) = h[n]
  BY DEF LowerTargets
<1> HIDE DEF Round, h
<1>1. 0 \in S
  <2> DEFINE f == [k \in 0..0 |-> Round(0, 0)]
  <2>1. f = [k \in 0..0 |-> Round(k, f[k - 1])]
    BY <1>a
  <2> HIDE DEF f
  <2>2. QED
    BY <2>1
<1>2. ASSUME NEW m \in Nat, m \in S PROVE m + 1 \in S
  <2>1. PICK f : Solves(f, m)
    BY <1>2
  <2> DEFINE g == [k \in 0..(m + 1) |-> IF k \in 0..m THEN f[k] ELSE Round(m + 1, f[m])]
  <2>2. ASSUME NEW k \in 0..(m + 1) PROVE g[k] = Round(k, g[k - 1])
    <3>1. CASE k = 0
      <4>1. g[k] = f[k]
        BY <3>1
      <4>2. QED
        BY <2>1, <3>1, <4>1, <1>a
    <3>2. CASE k \in 1..m
      <4>1. g[k] = f[k] /\ g[k - 1] = f[k - 1]
        BY <3>2
      <4>2. QED
        BY <2>1, <3>2, <4>1
    <3>3. CASE k = m + 1
      <4>1. k \notin 0..m /\ k - 1 = m /\ m \in 0..m /\ m \in 0..(m + 1)
        BY <3>3
      <4>2. g[k] = Round(m + 1, f[m]) /\ g[k - 1] = f[m]
        BY <4>1
      <4>3. QED
        BY <3>3, <4>1, <4>2
    <3>4. QED
      BY <3>1, <3>2, <3>3
  <2>3. Solves(g, m + 1)
    <3>1. g = [k \in 0..(m + 1) |-> g[k]]
      OBVIOUS
    <3> HIDE DEF g
    <3>2. QED
      BY <2>2, <3>1
  <2> HIDE DEF g, Solves
  <2>4. QED
    BY <2>3
<1> HIDE DEF S
<1>3. n \in S
  BY <1>1, <1>2, NaturalSteps
<1>4. \E f : Solves(f, n)
  BY <1>3 DEF S
<1> HIDE DEF Solves
<1>5. Solves(h, n)
  BY <1>4 DEF h
<1>6. h = [k \in 0..n |-> Round(k, h[k - 1])]
  BY <1>5 DEF Solves
<1>7. \A k \in 0..n : h[k] = Round(k, h[k - 1])
  BY <1>6
<1>8. ASSUME NEW id \in DOMAIN ops, NEW scale \in Nat, NEW sleeve \in Below(s)
      PROVE  h[0][<<id, scale, sleeve>>] = <<Bad>>
  <2>1. h[0] = Round(0, h[0 - 1])
    BY <1>7
  <2>2. QED
    BY <2>1, <1>b
<1>9. ASSUME NEW k \in 1..n, NEW id \in DOMAIN ops, NEW scale \in Nat, NEW sleeve \in Below(s)
      PROVE  h[k][<<id, scale, sleeve>>] = LeavesFrom(s, ops, h[k - 1], id, scale, sleeve)
  <2>1. k \in 0..n /\ k \in Nat \ {0}
    OBVIOUS
  <2>2. h[k] = Round(k, h[k - 1])
    BY <1>7, <2>1
  <2>3. Round(k, h[k - 1])[<<id, scale, sleeve>>] = LeavesFrom(s, ops, h[k - 1], id, scale, sleeve)
    BY <1>c, <2>1
  <2>4. QED
    BY <2>2, <2>3
<1>10. QED
  BY <1>d, <1>8, <1>9 DEF Rounds

IsSeq(leaves) == \E S : leaves \in Seq(S)

HasBad(leaves) == \E i \in DOMAIN leaves : leaves[i].kind = "bad"

LEMMA Joined ==
  ASSUME NEW x, NEW y, IsSeq(x), IsSeq(y)
  PROVE  IsSeq(x \o y) /\ (HasBad(x) \/ HasBad(y) => HasBad(x \o y))
<1>1. PICK X : x \in Seq(X)
  BY DEF IsSeq
<1>2. PICK Y : y \in Seq(Y)
  BY DEF IsSeq
<1>3. x \in Seq(X \cup Y) /\ y \in Seq(X \cup Y)
  BY <1>1, <1>2
<1> DEFINE Z == X \cup Y
<1> HIDE DEF Z
<1>4. x \in Seq(Z) /\ y \in Seq(Z)
  BY <1>3 DEF Z
<1>5. x \o y \in Seq(Z)
  BY <1>4
<1>6. ASSUME NEW i \in DOMAIN x, x[i].kind = "bad" PROVE HasBad(x \o y)
  <2>1. i \in DOMAIN (x \o y) /\ (x \o y)[i] = x[i]
    BY <1>4
  <2>2. QED
    BY <1>6, <2>1 DEF HasBad
<1>7. ASSUME NEW i \in DOMAIN y, y[i].kind = "bad" PROVE HasBad(x \o y)
  <2>1. (Len(x) + i) \in DOMAIN (x \o y) /\ (x \o y)[Len(x) + i] = y[i]
    BY <1>4
  <2>2. QED
    BY <1>7, <2>1 DEF HasBad
<1>8. QED
  BY <1>5, <1>6, <1>7 DEF IsSeq, HasBad

LEMMA Extended ==
  ASSUME NEW x, IsSeq(x), NEW l
  PROVE  IsSeq(Append(x, l)) /\ (HasBad(x) => HasBad(Append(x, l)))
<1>1. PICK X : x \in Seq(X)
  BY DEF IsSeq
<1> DEFINE Z == X \cup {l}
<1>2. x \in Seq(Z) /\ l \in Z
  BY <1>1
<1> HIDE DEF Z
<1>3. Append(x, l) \in Seq(Z)
  BY <1>2
<1>4. ASSUME NEW i \in DOMAIN x, x[i].kind = "bad" PROVE HasBad(Append(x, l))
  <2>1. i \in DOMAIN Append(x, l) /\ Append(x, l)[i] = x[i]
    BY <1>2
  <2>2. QED
    BY <1>4, <2>1 DEF HasBad
<1>5. QED
  BY <1>3, <1>4 DEF IsSeq, HasBad

LEMMA Single ==
  ASSUME NEW l
  PROVE  IsSeq(<<l>>) /\ (l.kind = "bad" => HasBad(<<l>>))
<1>1. <<l>> \in Seq({l}) /\ 1 \in DOMAIN <<l>> /\ <<l>>[1] = l
  OBVIOUS
<1>2. QED
  BY <1>1 DEF IsSeq, HasBad

(* Operations whose operands can be lowered.                                *)
Shaped(s, ops) ==
  \A id \in DOMAIN ops :
    /\ ops[id].op = "merge" => ops[id].args[1] \in DOMAIN ops /\ ops[id].args[2] \in DOMAIN ops
    /\ ops[id].op = "scale" =>
         /\ ops[id].args[1] \in DOMAIN ops
         /\ ops[id].of \in DOMAIN s.node
         /\ s.node[ops[id].of].share \in Nat
    /\ ops[id].op = "observe" => ops[id].args[1] \in DOMAIN ops

LEMMA ScaleType ==
  ASSUME NEW a \in Nat, NEW b \in Nat
  PROVE  Scale(a, b) \in Nat
<1>1. a * b \in Nat
  OBVIOUS
<1>2. QED
  BY <1>1, WholeAssumption DEF Scale

(* Below an operation are sequences of leaves.                              *)
Sequences(s, ops, below) ==
  \A id \in DOMAIN ops, scale \in Nat, sleeve \in Below(s) : IsSeq(below[<<id, scale, sleeve>>])

LEMMA LeavesAreSequence ==
  ASSUME NEW s, NEW ops, Shaped(s, ops), NEW below, Sequences(s, ops, below),
         NEW id \in DOMAIN ops, NEW scale \in Nat, NEW sleeve \in Below(s)
  PROVE  IsSeq(LeavesFrom(s, ops, below, id, scale, sleeve))
<1> DEFINE L == LeavesFrom(s, ops, below, id, scale, sleeve)
<1>1. CASE ops[id].op = "merge"
  <2> DEFINE x == below[<<ops[id].args[1], scale, sleeve>>]
             y == below[<<ops[id].args[2], scale, sleeve>>]
  <2>1. IsSeq(x) /\ IsSeq(y)
    BY <1>1 DEF Shaped, Sequences
  <2>2. L = x \o y
    BY <1>1 DEF LeavesFrom
  <2> HIDE DEF x, y
  <2>3. QED
    BY <2>1, <2>2, Joined
<1>2. CASE ops[id].op = "scale"
  <2> DEFINE share == s.node[ops[id].of].share
             x == below[<<ops[id].args[1], Scale(scale, share), ops[id].of>>]
             l == [kind |-> "snapshot", id |-> Component(ops[id].args[1]),
                   weight |-> Scale(scale, share)]
  <2>1. L = IF sleeve # None THEN <<Bad>>
            ELSE IF ops[ops[id].args[1]].op = "retain" THEN <<l>> ELSE x
    BY <1>2 DEF LeavesFrom
  <2>2. share \in Nat /\ ops[id].args[1] \in DOMAIN ops /\ ops[id].of \in Below(s)
    BY <1>2 DEF Shaped, Below
  <2> HIDE DEF share, l
  <2>3. Scale(scale, share) \in Nat
    BY <2>2, ScaleType
  <2>4. IsSeq(x)
    BY <2>2, <2>3 DEF Sequences
  <2> HIDE DEF x
  <2>5. QED
    BY <2>1, <2>4, Single
<1>3. CASE ops[id].op = "observe"
  <2> DEFINE x == below[<<ops[id].args[1], scale, sleeve>>]
             l == [kind |-> "exit", id |-> ops[id].of]
  <2>1. IsSeq(x)
    BY <1>3 DEF Shaped, Sequences
  <2>2. L = Append(x, l)
    BY <1>3 DEF LeavesFrom
  <2> HIDE DEF x, l
  <2>3. QED
    BY <2>1, <2>2, Extended
<1>4. CASE ops[id].op \notin {"merge", "scale", "observe"}
  <2>1. \E l : L = <<l>>
    BY <1>4 DEF LeavesFrom
  <2>2. QED
    BY <2>1, Single
<1>5. QED
  BY <1>1, <1>2, <1>3, <1>4

(* An operation whose leaves cannot all be lowered.                         *)
Spoils(s, below, id) ==
  \A scale \in Nat, sleeve \in Below(s) : HasBad(below[<<id, scale, sleeve>>])

LEMMA SpoiledAbove ==
  ASSUME NEW s, NEW ops, Shaped(s, ops), NEW below, Sequences(s, ops, below),
         NEW id \in DOMAIN ops, NEW scale \in Nat, NEW sleeve \in Below(s),
         \/ ops[id].op = "retain"
         \/ /\ ops[id].op = "merge"
            /\ Spoils(s, below, ops[id].args[1]) \/ Spoils(s, below, ops[id].args[2])
         \/ /\ ops[id].op = "scale" /\ ops[ops[id].args[1]].op # "retain"
            /\ Spoils(s, below, ops[id].args[1])
         \/ ops[id].op = "observe" /\ Spoils(s, below, ops[id].args[1])
  PROVE  HasBad(LeavesFrom(s, ops, below, id, scale, sleeve))
<1> DEFINE L == LeavesFrom(s, ops, below, id, scale, sleeve)
<1>b. HasBad(<<Bad>>)
  BY Single DEF Bad
<1>1. CASE ops[id].op = "merge"
  <2> DEFINE x == below[<<ops[id].args[1], scale, sleeve>>]
             y == below[<<ops[id].args[2], scale, sleeve>>]
  <2>1. IsSeq(x) /\ IsSeq(y) /\ (HasBad(x) \/ HasBad(y))
    BY <1>1 DEF Shaped, Sequences, Spoils
  <2>2. L = x \o y
    BY <1>1 DEF LeavesFrom
  <2> HIDE DEF x, y
  <2>3. QED
    BY <2>1, <2>2, Joined
<1>2. CASE ops[id].op = "scale"
  <2> DEFINE share == s.node[ops[id].of].share
             x == below[<<ops[id].args[1], Scale(scale, share), ops[id].of>>]
  <2>1. L = <<Bad>> \/ L = x
    BY <1>2 DEF LeavesFrom
  <2>2. share \in Nat /\ ops[id].of \in Below(s)
    BY <1>2 DEF Shaped, Below
  <2> HIDE DEF share
  <2>3. Scale(scale, share) \in Nat
    BY <2>2, ScaleType
  <2>4. HasBad(x)
    BY <1>2, <2>2, <2>3 DEF Spoils
  <2> HIDE DEF x
  <2>5. QED
    BY <2>1, <2>4, <1>b
<1>3. CASE ops[id].op = "observe"
  <2> DEFINE x == below[<<ops[id].args[1], scale, sleeve>>]
             l == [kind |-> "exit", id |-> ops[id].of]
  <2>1. IsSeq(x) /\ HasBad(x)
    BY <1>3 DEF Shaped, Sequences, Spoils
  <2>2. L = Append(x, l)
    BY <1>3 DEF LeavesFrom
  <2> HIDE DEF x, l
  <2>3. QED
    BY <2>1, <2>2, Extended
<1>4. CASE ops[id].op = "retain"
  <2>1. L = <<Bad>>
    BY <1>4 DEF LeavesFrom
  <2>2. QED
    BY <2>1, <1>b
<1>5. QED
  BY <1>1, <1>2, <1>3, <1>4

LEMMA RoundsAreSequences ==
  ASSUME NEW s, NEW ops, Shaped(s, ops), NEW n \in Nat, NEW g, Rounds(s, ops, n, g)
  PROVE  \A k \in 0..n : Sequences(s, ops, g[k])
<1> DEFINE S == {k \in Nat : k <= n => Sequences(s, ops, g[k])}
<1>1. 0 \in S
  <2>1. IsSeq(<<Bad>>)
    BY Single
  <2>2. QED
    BY <2>1 DEF Rounds, Sequences
<1>2. ASSUME NEW k \in Nat, k \in S PROVE k + 1 \in S
  <2>1. SUFFICES ASSUME k + 1 <= n,
                        NEW id \in DOMAIN ops, NEW scale \in Nat, NEW sleeve \in Below(s)
                 PROVE  IsSeq(g[k + 1][<<id, scale, sleeve>>])
    BY DEF Sequences
  <2>2. k + 1 \in 1..n /\ (k + 1) - 1 = k /\ Sequences(s, ops, g[k])
    BY <1>2, <2>1
  <2>3. g[k + 1][<<id, scale, sleeve>>] = LeavesFrom(s, ops, g[k], id, scale, sleeve)
    BY <2>2 DEF Rounds
  <2>4. QED
    BY <2>2, <2>3, LeavesAreSequence
<1> HIDE DEF S
<1>3. Nat \subseteq S
  BY <1>1, <1>2, NaturalSteps
<1>4. QED
  BY <1>3 DEF S

(* What spoils its consumers: an operation spoiled in every round.          *)
Spoiled(s, n, g, id) == \A k \in 0..n : Spoils(s, g[k], id)

LEMMA SpoiledConsumers ==
  ASSUME NEW s, NEW ops, Shaped(s, ops), NEW n \in Nat, NEW g, Rounds(s, ops, n, g),
         NEW id \in DOMAIN ops,
         \/ ops[id].op = "retain"
         \/ /\ ops[id].op = "merge"
            /\ Spoiled(s, n, g, ops[id].args[1]) \/ Spoiled(s, n, g, ops[id].args[2])
         \/ /\ ops[id].op = "scale" /\ ops[ops[id].args[1]].op # "retain"
            /\ Spoiled(s, n, g, ops[id].args[1])
         \/ ops[id].op = "observe" /\ Spoiled(s, n, g, ops[id].args[1])
  PROVE  Spoiled(s, n, g, id)
<1>1. SUFFICES ASSUME NEW k \in 0..n, NEW scale \in Nat, NEW sleeve \in Below(s)
               PROVE  HasBad(g[k][<<id, scale, sleeve>>])
  BY DEF Spoiled, Spoils
<1>2. CASE k = 0
  <2>1. HasBad(<<Bad>>)
    BY Single DEF Bad
  <2>2. QED
    BY <1>2, <2>1 DEF Rounds
<1>3. CASE k \in 1..n
  <2>1. k - 1 \in 0..n
    BY <1>3
  <2>2. Sequences(s, ops, g[k - 1])
    BY <2>1, RoundsAreSequences
  <2>3. g[k][<<id, scale, sleeve>>] = LeavesFrom(s, ops, g[k - 1], id, scale, sleeve)
    BY <1>3 DEF Rounds
  <2>4. \A x : Spoiled(s, n, g, x) => Spoils(s, g[k - 1], x)
    BY <2>1 DEF Spoiled
  <2>5. QED
    BY <2>2, <2>3, <2>4, SpoiledAbove
<1>4. QED
  BY <1>2, <1>3

-----------------------------------------------------------------------------
(* What a compiled strategy has no longer *)

LEMMA FiniteOperations ==
  ASSUME NEW s, WellFormed(s)
  PROVE  DOMAIN Desugared(s).ops = OperationIds(s) /\ Cardinality(OperationIds(s)) \in Nat
<1> DEFINE own == ""
           Parts == {own, "assets", "targets", "scaled", "observe"}
<1>a. \A c : Own(c) = Derived(c, own)
  BY Zenon DEF Own
<1> HIDE DEF own
<1>1. IsFiniteSet(DOMAIN s.node) /\ IsFiniteSet(Parts)
  <2>1. IsFiniteSet({own} \cup {"assets"})
    BY FS_Singleton, FS_AddElement
  <2>2. IsFiniteSet(({own} \cup {"assets"}) \cup {"targets"})
    BY <2>1, FS_AddElement
  <2>3. IsFiniteSet((({own} \cup {"assets"}) \cup {"targets"}) \cup {"scaled"})
    BY <2>2, FS_AddElement
  <2>4. IsFiniteSet(((({own} \cup {"assets"}) \cup {"targets"}) \cup {"scaled"}) \cup {"observe"})
    BY <2>3, FS_AddElement
  <2>5. Parts = ((({own} \cup {"assets"}) \cup {"targets"}) \cup {"scaled"}) \cup {"observe"}
    OBVIOUS
  <2>6. QED
    BY <2>4, <2>5 DEF WellFormed
<1>2. IsFiniteSet((DOMAIN s.node) \X Parts)
  BY <1>1, FS_Product
<1>3. Scheduled(s) \subseteq DOMAIN s.node
  BY NoneAssumption DEF Scheduled, Prim, Primitives, AllocationPorts
<1>4. OperationIds(s) \subseteq (DOMAIN s.node) \X Parts
  BY <1>3, <1>a DEF OperationIds, Derived
<1>5. IsFiniteSet(OperationIds(s))
  BY <1>2, <1>4, FS_Subset
<1>6. QED
  BY <1>5, FS_CardinalityType DEF Desugared

LEMMA CompiledStrategy ==
  ASSUME NEW s, Compile(s) # Refused
  PROVE  /\ Valid(s) /\ Desugars(s) /\ ValidIR(s, Desugared(s))
         /\ \A e \in Desugared(s).entry :
              EntryLowers(Unordered(s), Desugared(s).ops,
                          LeavesOf(Unordered(s), Desugared(s).ops), e)
BY DEF Compile, LowerIR, Lower

(* The operations computed from targets.                                    *)
LEMMA OwnConsumers ==
  ASSUME NEW s, WellFormed(s), NEW c \in DOMAIN s.node,
         ToSet(OwnOperation(s, c).args) # {}, OperandType(OwnOperation(s, c).op) = "targets"
  PROVE  OwnOperation(s, c).op \in {"merge", "scale", "first_non_empty", "retain",
                                    "rebalance", "predicate_rebalance"}
<1>1. Prim(s, c) \in Primitives
  BY DEF WellFormed, Prim
<1>2. CASE Prim(s, c) \in Events \cup {"asset_set", "universe"}
  <2>1. OwnOperation(s, c) = Op(Prim(s, c), c, <<>>)
    BY <1>2 DEF OwnOperation, Events
  <2>2. OwnOperation(s, c).args = <<>>
    BY <2>1 DEF Op
  <2>3. ToSet(<<>>) = {}
    BY DEF ToSet
  <2>4. QED
    BY <2>2, <2>3
<1>3. CASE Prim(s, c) \notin Events \cup {"asset_set", "universe"}
  <2> DEFINE picks == {"random_select", "trailing_return", "equal_weight", "filter", "rank"}
             parts == {"merge_targets", "fallback", "portfolio_sleeve", "portfolio",
                       "rebalance", "rule"}
             prim == Prim(s, c)
             op == OwnOperation(s, c).op
  <2>1. prim \in picks \cup {"top_n", "cooldown"} \cup parts
    BY <1>1, <1>3 DEF Primitives, Events, SelectionPorts, AllocationPorts
  <2>2. CASE prim \in picks
    <3>1. op = prim
      BY <2>2 DEF OwnOperation, Events, Op
    <3> HIDE DEF op
    <3>2. OperandType(op) # "targets"
      BY <2>2, <3>1 DEF OperandType
    <3>3. QED
      BY <3>2 DEF op
  <2>3. CASE prim \in {"top_n", "cooldown"}
    <3>1. op \in {"top_n", "gate"}
      BY <2>3 DEF OwnOperation, Events, Op
    <3> HIDE DEF op
    <3>2. OperandType(op) # "targets"
      BY <3>1 DEF OperandType
    <3>3. QED
      BY <3>2 DEF op
  <2>4. CASE prim \in parts
    BY <2>4 DEF OwnOperation, Events, Op
  <2>5. QED
    BY <2>1, <2>2, <2>3, <2>4
<1>4. QED
  BY <1>2, <1>3

LEMMA Consumers ==
  ASSUME NEW s, WellFormed(s), NEW id \in OperationIds(s),
         ToSet(Desugared(s).ops[id].args) # {}, OperandType(Desugared(s).ops[id].op) = "targets"
  PROVE  Desugared(s).ops[id].op \in {"merge", "scale", "observe", "first_non_empty", "retain",
                                      "rebalance", "predicate_rebalance"}
<1>1. ASSUME NEW c \in DOMAIN s.node, id = Own(c)
      PROVE  Desugared(s).ops[id].op \in {"merge", "scale", "first_non_empty", "retain",
                                          "rebalance", "predicate_rebalance"}
  BY <1>1, OwnOperationOf, OwnConsumers
<1>2. CASE Part(id) = "assets"
  <2>1. Desugared(s).ops[id] = Op("asset_set", Component(id), <<>>)
    BY <1>2, DerivedOperationOf DEF DerivedOperation
  <2>2. Desugared(s).ops[id].args = <<>>
    BY <2>1 DEF Op
  <2>3. ToSet(<<>>) = {}
    BY DEF ToSet
  <2>4. QED
    BY <2>2, <2>3
<1>3. CASE Part(id) = "targets"
  <2>1. Desugared(s).ops[id] = Op("equal_weight", Component(id), <<Derived(Component(id), "assets")>>)
    BY <1>3, DerivedOperationOf DEF DerivedOperation
  <2>2. Desugared(s).ops[id].op = "equal_weight"
    BY <2>1 DEF Op
  <2>3. QED
    BY <2>2 DEF OperandType
<1>4. CASE Part(id) = "scaled"
  <2>1. Desugared(s).ops[id] = Op("scale", Component(id), <<Own(Component(id))>>)
    BY <1>4, DerivedOperationOf DEF DerivedOperation
  <2>2. QED
    BY <2>1 DEF Op
<1>5. CASE Part(id) = "observe"
  <2>1. \E x : Desugared(s).ops[id] = Op("observe", Component(id), <<x>>)
    BY <1>5, DerivedOperationOf DEF DerivedOperation
  <2>2. QED
    BY <2>1 DEF Op
<1>6. QED
  BY <1>1, <1>2, <1>3, <1>4, <1>5, OperationCases

LEMMA ShapedOperations ==
  ASSUME NEW s, WellFormed(s), Valid(s), OperandsTyped(Desugared(s))
  PROVE  Shaped(Unordered(s), Desugared(s).ops)
<1> DEFINE ops == Desugared(s).ops
<1>1. ASSUME NEW id \in DOMAIN ops, NEW i \in DOMAIN ops[id].args
      PROVE  ops[id].args[i] \in DOMAIN ops
  BY <1>1 DEF OperandsTyped, ToSet
<1>2. \A id \in DOMAIN ops : Operable(s, ops[id])
  BY FiniteOperations, Operands
<1>3. Unordered(s).node = s.node
  BY DEF Unordered
<1> HIDE DEF ops
<1>4. Shaped(Unordered(s), ops)
  BY <1>1, <1>2, <1>3 DEF Shaped, Operable, WellFormed
<1>5. QED
  BY <1>4 DEF ops

LEMMA EntryOf ==
  ASSUME NEW s, NEW e \in Desugared(s).entry
  PROVE  \E f \in s.entry : e[1] = Own(f[1]) /\ e[2] = Own(f[2])
<1>1. e \in {<<Own(f[1]), Own(f[2])>> : f \in s.entry}
  BY DEF Desugared
<1>2. PICK f \in s.entry : e = <<Own(f[1]), Own(f[2])>>
  BY <1>1
<1>3. QED
  BY <1>2

LEMMA OwnComponent ==
  ASSUME NEW c
  PROVE  Component(Own(c)) = c
BY DEF Own, Derived, Component

(* The targets of an entrypoint have no bad leaf.                           *)
LEMMA EntryTargetsLower ==
  ASSUME NEW s, WellFormed(s), Compile(s) # Refused, NEW e \in Desugared(s).entry,
         e[2] \in OperationIds(s),
         NEW a \in ToSet(Desugared(s).ops[e[2]].args)
  PROVE  ~ HasBad(LeavesOf(Unordered(s), Desugared(s).ops)[a])
<1> DEFINE ops == Desugared(s).ops
           leaves == LeavesOf(Unordered(s), ops)
<1>1. EntryLowers(Unordered(s), ops, leaves, e)
  BY CompiledStrategy
<1>2. Operable(s, ops[e[2]])
  BY CompiledStrategy, Operands
<1>3. PICK c : e[2] = Own(c)
  BY EntryOf
<1>4. Own(Component(e[2])) = e[2]
  BY <1>3, OwnComponent
<1> HIDE DEF leaves
<1>5. CASE ops[e[2]].op = "retain"
  <2>1. RetainedLowers(ops, leaves, Component(e[2]))
    BY <1>1, <1>5 DEF EntryLowers
  <2>2. DOMAIN ops[e[2]].args = 1..1
    BY <1>2, <1>5 DEF Operable
  <2> HIDE DEF ops
  <2>3. a = ops[e[2]].args[1]
    BY <2>2 DEF ops, ToSet
  <2>4. \A l \in ToSet(leaves[a]) : l.kind \in {"sleeve", "exit"}
    BY <2>1, <2>3, <1>4 DEF RetainedLowers
  <2>5. ~ HasBad(leaves[a])
    BY <2>4 DEF HasBad, ToSet
  <2>6. QED
    BY <2>5 DEF leaves, ops
<1>6. CASE ops[e[2]].op # "retain"
  <2>1. Complete(leaves[a])
    BY <1>1, <1>6 DEF EntryLowers
  <2>2. ~ HasBad(leaves[a])
    BY <2>1 DEF Complete, HasBad
  <2>3. QED
    BY <2>2 DEF leaves
<1>7. QED
  BY <1>5, <1>6

(* A portfolio merges no targets that a sleeve retains: it takes them       *)
(* scaled.  What reaches an entrypoint has no bad leaf, and a valid IR has  *)
(* nothing else.                                                            *)
LEMMA MergesLower ==
  ASSUME NEW s, WellFormed(s), Compile(s) # Refused,
         NEW id \in OperationIds(s), Desugared(s).ops[id].op = "merge", NEW i \in 1..2
  PROVE  Desugared(s).ops[Desugared(s).ops[id].args[i]].op # "retain"
<1> DEFINE ir == Desugared(s)
           ops == ir.ops
           u == Unordered(s)
           n == Cardinality(DOMAIN ops)
           Effects == {"rebalance", "predicate_rebalance", "retain"}
<1>1. Valid(s) /\ OperandsTyped(ir) /\ EntrypointOperations(ir) /\ Reachable(ir) = DOMAIN ops
  BY CompiledStrategy DEF ValidIR
<1>2. DOMAIN ops = OperationIds(s) /\ n \in Nat
  BY FiniteOperations
<1>3. Shaped(u, ops)
  BY <1>1, ShapedOperations
<1>4. PICK g : Rounds(u, ops, n, g) /\ LowerTargets(u, ops) = g[n]
  BY <1>2, LoweredInRounds
<1>5. \A x \in DOMAIN ops : Operable(s, ops[x])
  BY <1>1, <1>2, Operands
<1>6. \A x \in DOMAIN ops : \A a \in ToSet(ops[x].args) :
        a \in DOMAIN ops /\ ResultType(ops[a].op) = OperandType(ops[x].op)
  BY <1>1 DEF OperandsTyped
<1>7. ASSUME NEW x \in DOMAIN ops, ToSet(ops[x].args) # {}, OperandType(ops[x].op) = "targets"
      PROVE  ops[x].op \in {"merge", "scale", "observe", "first_non_empty"} \cup Effects
  BY <1>2, <1>7, Consumers
<1>8. \A e \in ir.entry : {e[1], e[2]} \subseteq DOMAIN ops
  <2>1. \A e \in s.entry : {e[1], e[2]} \subseteq DOMAIN s.node
    BY <1>1, NoneAssumption DEF Valid, EntrypointsKnown, Prim, Primitives
  <2>2. ASSUME NEW e \in ir.entry
        PROVE  \E f \in s.entry : e[1] = Own(f[1]) /\ e[2] = Own(f[2])
    BY EntryOf
  <2>3. QED
    BY <2>1, <2>2, <1>2, OwnOperationOf
<1>9. ASSUME NEW x \in DOMAIN ops, NEW e \in ir.entry, e[2] = x, ops[x].op \in Effects,
             NEW a \in ToSet(ops[x].args)
      PROVE  ~ Spoiled(u, n, g, a)
  <2>1. ~ HasBad(LeavesOf(u, ops)[a])
    BY <1>2, <1>9, EntryTargetsLower
  <2>2. a \in Roots(ops)
    BY <1>9 DEF Roots
  <2>3. LeavesOf(u, ops)[a] = g[n][<<a, Whole, None>>]
    BY <2>2, <1>4 DEF LeavesOf
  <2>4. n \in 0..n /\ Whole \in Nat /\ None \in Below(u)
    BY <1>2, WholeAssumption DEF Below
  <2> HIDE DEF ops, u, n
  <2>5. QED
    BY <2>1, <2>3, <2>4 DEF Spoiled, Spoils
<1> HIDE DEF ir, ops, u, n
<1> DEFINE D == {x \in DOMAIN ops : ops[x].op \in {"merge", "scale", "observe"} /\ Spoiled(u, n, g, x)}
           C == {x \in (DOMAIN ops) \ D : ops[x].op \in Effects => \E e \in ir.entry : e[2] = x}
<1>10. ASSUME NEW x \in DOMAIN ops, NEW a \in ToSet(ops[x].args) \cap D, x \in C PROVE  FALSE
  <2>1. OperandType(ops[x].op) = "targets"
    BY <1>6 DEF ResultType, Events
  <2>2. ops[x].op \in {"merge", "scale", "observe", "first_non_empty"} \cup Effects
    BY <2>1, <1>7
  <2>3. ops[a].op \in {"merge", "scale", "observe"} /\ Spoiled(u, n, g, a)
    BY <1>10
  <2>4. PICK j \in DOMAIN ops[x].args : a = ops[x].args[j]
    BY <1>10 DEF ToSet
  <2>5. CASE ops[x].op = "merge"
    <3>1. j \in 1..2
      BY <2>4, <2>5, <1>5 DEF Operable
    <3>2. Spoiled(u, n, g, x)
      BY <3>1, <2>3, <2>4, <2>5, <1>2, <1>3, <1>4, SpoiledConsumers
    <3>3. QED
      BY <3>2, <2>5, <1>10
  <2>6. CASE ops[x].op \in {"scale", "observe"}
    <3>1. j = 1
      BY <2>4, <2>6, <1>5 DEF Operable
    <3>2. Spoiled(u, n, g, x)
      BY <3>1, <2>3, <2>4, <2>6, <1>2, <1>3, <1>4, SpoiledConsumers
    <3>3. QED
      BY <3>2, <2>6, <1>10
  <2>7. CASE ops[x].op = "first_non_empty"
    <3>1. ops[a].op = "equal_weight"
      BY <2>4, <2>7, <1>5 DEF Operable, ops, ir
    <3>2. QED
      BY <3>1, <2>3
  <2>8. CASE ops[x].op \in Effects
    BY <2>3, <2>8, <1>9, <1>10
  <2>9. QED
    BY <2>2, <2>5, <2>6, <2>7, <2>8
<1> DEFINE edges == UNION {ToSet(ops[x].args) \X {x} : x \in DOMAIN ops}
<1>11. Neighbours(edges, C) \subseteq C
  <2>1. SUFFICES ASSUME NEW d \in edges, d[2] \in C PROVE d[1] \in C
    BY DEF Neighbours
  <2>2. PICK x \in DOMAIN ops : d \in ToSet(ops[x].args) \X {x}
    BY <2>1
  <2>3. d[1] \in ToSet(ops[x].args) /\ d[2] = x
    BY <2>2
  <2> DEFINE a == d[1]
  <2>4. a \in DOMAIN ops /\ ResultType(ops[a].op) = OperandType(ops[x].op)
    BY <2>3, <1>6
  <2>5. a \notin D
    BY <1>10, <2>1, <2>3
  <2>6. OperandType(ops[x].op) # "effect"
    BY DEF OperandType
  <2>7. ops[a].op \notin {"rebalance", "predicate_rebalance"}
    BY <2>4, <2>6 DEF ResultType, Events
  <2>8. ops[a].op = "retain" => \E e \in ir.entry : e[2] = a
    BY <1>1, <2>4 DEF EntrypointOperations, ops
  <2>9. QED
    BY <2>4, <2>5, <2>7, <2>8
<1> DEFINE start == UNION {{e[1], e[2]} : e \in ir.entry}
<1>12. start \subseteq C
  <2>1. SUFFICES ASSUME NEW e \in ir.entry PROVE e[1] \in C /\ e[2] \in C
    OBVIOUS
  <2>2. e[1] \in DOMAIN ops /\ e[2] \in DOMAIN ops
    BY <1>8
  <2>3. ops[e[1]].op \in Events /\ ops[e[2]].op \in Effects
    BY <1>1 DEF EntrypointOperations, ops
  <2>4. QED
    BY <2>2, <2>3 DEF Events
<1> HIDE DEF C
<1>13. Reached(edges, n, start) \subseteq C
  BY <1>2, <1>11, <1>12, ReachedWithin
<1>14. Reachable(ir) = Reached(edges, n, start)
  BY DEF Reachable, ops, n
<1>15. id \in DOMAIN ops /\ id \in C
  BY <1>1, <1>2, <1>13, <1>14
<1>16. SUFFICES ASSUME ops[ops[id].args[i]].op = "retain" PROVE FALSE
  BY DEF ops, ir
<1>17. ops[id].op = "merge"
  BY DEF ops, ir
<1>18. ops[id].args[i] \in DOMAIN ops
  <2>1. i \in DOMAIN ops[id].args
    BY <1>5, <1>15, <1>17 DEF Operable
  <2>2. QED
    BY <2>1, <1>6, <1>15 DEF ToSet
<1>19. Spoiled(u, n, g, ops[id].args[i])
  BY <1>2, <1>3, <1>4, <1>16, <1>18, SpoiledConsumers
<1>20. Spoiled(u, n, g, id)
  BY <1>2, <1>3, <1>4, <1>15, <1>17, <1>19, SpoiledConsumers
<1>21. QED
  BY <1>15, <1>17, <1>20 DEF C

-----------------------------------------------------------------------------
(* One plan for one strategy *)

LEMMA Contributions ==
  ASSUME NEW s, WellFormed(s), Compile(s) # Refused,
         NEW c \in DOMAIN s.node, Prim(s, c) = "portfolio", NEW i \in DOMAIN Members(s, c)
  PROVE  Contribution(s, c, Members(s, c)[i]) =
           IF Members(s, c)[i] \in Scheduled(s) THEN Derived(Members(s, c)[i], "scaled")
           ELSE Own(Members(s, c)[i])
<1> DEFINE m == Members(s, c)[i]
<1>1. SUFFICES ASSUME m \in Scheduled(s), Contribution(s, c, m) = Own(m) PROVE FALSE
  BY DEF Contribution
<1>2. OwnOperation(s, c) = Op("merge", c, [j \in DOMAIN Members(s, c) |->
                                             Contribution(s, c, Members(s, c)[j])])
  BY DEF OwnOperation, Events
<1>3. OwnOperation(s, c).op = "merge" /\ OwnOperation(s, c).args[i] = Own(m)
  BY <1>1, <1>2 DEF Op
<1>4. Desugared(s).ops[Own(c)] = OwnOperation(s, c) /\ Own(c) \in OperationIds(s)
  BY OwnOperationOf
<1>5. i \in 1..2
  <2>1. Valid(s)
    BY CompiledStrategy
  <2>2. DOMAIN OwnOperation(s, c).args = 1..2
    BY <2>1, MergeArguments
  <2>3. QED
    BY <1>2, <2>2 DEF Op
<1>6. Prim(s, m) = "portfolio_sleeve" /\ m \in DOMAIN s.node
  BY <1>1, NoneAssumption DEF Scheduled, Prim, Primitives, AllocationPorts
<1>7. OwnOperation(s, m) = Op(IF m \in Scheduled(s) THEN "retain" ELSE "scale", m,
                              <<Own(SourceOf(s, m, "local_targets"))>>)
  BY <1>6 DEF OwnOperation, Events
<1>8. OwnOperation(s, m).op = "retain"
  BY <1>1, <1>7 DEF Op
<1>9. Desugared(s).ops[Own(m)].op = "retain"
  BY <1>6, <1>8, OwnOperationOf
<1> HIDE DEF m
<1>10. QED
  BY <1>3, <1>4, <1>5, <1>9, MergesLower

(* Either order of the document leaves the same operations.                 *)
LEMMA SameOperations ==
  ASSUME NEW s, NEW t, Reordered(s, t), WellFormed(s), WellFormed(t), CooldownsUnshared(s),
         Compile(s) # Refused, Compile(t) # Refused
  PROVE  Desugared(s) = Desugared(t)
<1>g. /\ s.node = t.node /\ s.wires = t.wires /\ s.entry = t.entry
      /\ \A c : Prim(s, c) = Prim(t, c)
      /\ \A c, port : SourceOf(s, c, port) = SourceOf(t, c, port)
      /\ \A c : Upstream(s, c) = Upstream(t, c)
      /\ Scheduled(s) = Scheduled(t)
      /\ \A c : Members(s, c) = Members(t, c)
  BY SameGraph
<1>1. StateObserved(s) /\ StateObserved(t)
  BY CompiledStrategy DEF ValidIR
<1>2. CooldownsUnshared(t) /\ Reordered(t, s)
  BY <1>g DEF CooldownsUnshared, Reordered
<1>3. ASSUME NEW r \in DOMAIN s.node, Prim(s, r) = "rebalance"
      PROVE  CooldownsMet(s, r) = CooldownsMet(t, r)
  <2>1. CooldownsMet(s, r) \subseteq CooldownsMet(t, r)
    BY <1>1, <1>3, SameCooldowns
  <2>2. CooldownsMet(t, r) \subseteq CooldownsMet(s, r)
    BY <1>1, <1>2, <1>3, <1>g, SameCooldowns
  <2>3. QED
    BY <2>1, <2>2
<1>4. ASSUME NEW d PROVE ObserversOf(s, d) = ObserversOf(t, d)
  BY <1>3, <1>g DEF ObserversOf
<1>5. OperationIds(s) = OperationIds(t)
  BY <1>4, <1>g DEF OperationIds
<1>6. ASSUME NEW c \in DOMAIN s.node PROVE OwnOperation(s, c) = OwnOperation(t, c)
  <2>1. CASE Prim(s, c) = "portfolio"
    <3>1. /\ OwnOperation(s, c) = Op("merge", c, [i \in DOMAIN Members(s, c) |->
                                                    Contribution(s, c, Members(s, c)[i])])
          /\ OwnOperation(t, c) = Op("merge", c, [i \in DOMAIN Members(t, c) |->
                                                    Contribution(t, c, Members(t, c)[i])])
      BY <2>1, <1>g DEF OwnOperation, Events
    <3>2. ASSUME NEW i \in DOMAIN Members(s, c)
          PROVE  Contribution(s, c, Members(s, c)[i]) = Contribution(t, c, Members(t, c)[i])
      <4>1. Contribution(s, c, Members(s, c)[i]) =
              IF Members(s, c)[i] \in Scheduled(s) THEN Derived(Members(s, c)[i], "scaled")
              ELSE Own(Members(s, c)[i])
        BY <2>1, Contributions
      <4>2. Contribution(t, c, Members(t, c)[i]) =
              IF Members(t, c)[i] \in Scheduled(t) THEN Derived(Members(t, c)[i], "scaled")
              ELSE Own(Members(t, c)[i])
        BY <2>1, <1>g, Contributions
      <4>3. QED
        BY <4>1, <4>2, <1>g
    <3>3. QED
      BY <3>1, <3>2, <1>g
  <2>2. CASE Prim(s, c) = "rebalance"
    <3>1. CooldownsMet(s, c) = CooldownsMet(t, c)
      BY <2>2, <1>3
    <3>2. QED
      BY <2>2, <3>1, <1>g DEF OwnOperation, Events
  <2>3. CASE Prim(s, c) \notin {"portfolio", "rebalance"}
    <3>1. Prim(s, c) \in Primitives
      BY DEF WellFormed, Prim
    <3>2. QED
      BY <2>3, <3>1, <1>g DEF OwnOperation, Events, Primitives, SelectionPorts, AllocationPorts
  <2>4. QED
    BY <2>1, <2>2, <2>3
<1>7. ASSUME NEW id \in OperationIds(s) PROVE Desugared(s).ops[id] = Desugared(t).ops[id]
  <2>1. ASSUME NEW c \in DOMAIN s.node, id = Own(c) PROVE Desugared(s).ops[id] = Desugared(t).ops[id]
    BY <2>1, <1>6, <1>g, OwnOperationOf
  <2>2. CASE Part(id) = "assets"
    <3>1. DerivedOperation(s, id) = DerivedOperation(t, id)
      BY <2>2 DEF DerivedOperation
    <3>2. QED
      BY <2>2, <3>1, <1>5, DerivedOperationOf
  <2>3. CASE Part(id) = "targets"
    <3>1. DerivedOperation(s, id) = DerivedOperation(t, id)
      BY <2>3 DEF DerivedOperation
    <3>2. QED
      BY <2>3, <3>1, <1>5, DerivedOperationOf
  <2>4. CASE Part(id) = "scaled"
    <3>1. DerivedOperation(s, id) = DerivedOperation(t, id)
      BY <2>4 DEF DerivedOperation
    <3>2. QED
      BY <2>4, <3>1, <1>5, DerivedOperationOf
  <2>5. CASE Part(id) = "observe"
    <3>1. DerivedOperation(s, id) = DerivedOperation(t, id)
      BY <2>5, <1>4, <1>g DEF DerivedOperation
    <3>2. QED
      BY <2>5, <3>1, <1>5, DerivedOperationOf
  <2>6. QED
    BY <2>1, <2>2, <2>3, <2>4, <2>5, OperationCases
<1>8. Desugared(s).ops = Desugared(t).ops
  <2>1. /\ Desugared(s).ops = [id \in OperationIds(s) |-> Desugared(s).ops[id]]
        /\ Desugared(t).ops = [id \in OperationIds(t) |-> Desugared(t).ops[id]]
    BY DEF Desugared
  <2>2. QED
    BY <2>1, <1>5, <1>7
<1>9. Desugared(s).entry = Desugared(t).entry
  BY <1>g DEF Desugared
<1>10. /\ Desugared(s) = [ops |-> Desugared(s).ops, entry |-> Desugared(s).entry]
       /\ Desugared(t) = [ops |-> Desugared(t).ops, entry |-> Desugared(t).entry]
  BY DEF Desugared
<1>11. QED
  BY <1>8, <1>9, <1>10

LEMMA SamePlan ==
  ASSUME NEW s, NEW t, Reordered(s, t), WellFormed(s), WellFormed(t), CooldownsUnshared(s),
         Compile(s) # Refused, Compile(t) # Refused
  PROVE  Compile(s) = Compile(t)
<1>1. Desugared(s) = Desugared(t) /\ Unordered(s) = Unordered(t)
  BY SameOperations DEF Reordered
<1>2. Compile(s) = Lower(Unordered(s), Desugared(s), LeavesOf(Unordered(s), Desugared(s).ops))
  BY DEF Compile, LowerIR
<1>3. Compile(t) = Lower(Unordered(t), Desugared(t), LeavesOf(Unordered(t), Desugared(t).ops))
  BY DEF Compile, LowerIR
<1>4. QED
  BY <1>1, <1>2, <1>3

-----------------------------------------------------------------------------
(* The order of the document *)

(* Strategies that only the order of the document's components tells apart *)
(* have one strategy_hash; sorted or not they compile to one plan, if both *)
(* compile.  A cooldown that two rebalances draw on is observed by the one *)
(* that comes after it in the document: the hypothesis excludes it.        *)
THEOREM OrderIgnored ==
  ASSUME \A s \in Strategies : CooldownsUnshared(s)
  PROVE  Spec => []PlanIgnoresOrder
<1> DEFINE Compiled == strategy \in Strategies /\ plan = Compile(strategy)
<1>1. Init => Compiled
  BY DEF Init
<1>2. Compiled /\ [Next]_vars => Compiled'
  <2>1. SUFFICES ASSUME Compiled, [Next]_vars PROVE UNCHANGED sourceVars
    BY DEF sourceVars
  <2>2. QED
    BY <2>1 DEF Next, Open, WarmedUp, OnData, vars, sourceVars
<1>3. Compiled => PlanIgnoresOrder
  <2> DEFINE t == InOrderOfId(strategy)
  <2>1. SUFFICES ASSUME Compiled, plan # Refused, Compile(t) # Refused
                 PROVE  Compile(t) = plan
    BY DEF PlanIgnoresOrder
  <2>2. WellFormed(strategy) /\ CooldownsUnshared(strategy)
    BY <2>1, StrategiesAssumption
  <2> DEFINE nodes == DOMAIN strategy.node
  <2>3. t.node = strategy.node /\ t.wires = strategy.wires /\ t.entry = strategy.entry
        /\ t.order = Ascending(nodes) /\ DOMAIN t = DOMAIN strategy
    BY <2>2 DEF WellFormed, InOrderOfId
  <2>4. Cardinality(nodes) \in Nat
    BY <2>2, FS_CardinalityType DEF WellFormed
  <2>5. Len(t.order) = Cardinality(nodes)
    BY <2>3, <2>4 DEF Ascending
  <2> HIDE DEF t, nodes
  <2>6. WellFormed(t)
    BY <2>2, <2>3, <2>5 DEF WellFormed, nodes
  <2>7. Reordered(strategy, t)
    BY <2>2, <2>3, <2>5 DEF Reordered, Unordered, WellFormed, nodes
  <2>8. QED
    BY <2>1, <2>2, <2>6, <2>7, SamePlan
<1>4. QED
  BY <1>1, <1>2, <1>3, PTL DEF Spec

-----------------------------------------------------------------------------
(* Lists of a plan *)

LEMMA FiniteImage ==
  ASSUME NEW S, IsFiniteSet(S), NEW f
  PROVE  IsFiniteSet({f[x] : x \in S})
<1> DEFINE T == {f[x] : x \in S}
           g == [x \in S |-> f[x]]
<1>1. g \in Surjection(S, T)
  BY DEF Surjection
<1>2. QED
  BY <1>1, FS_Surjection

LEMMA AscendingList ==
  ASSUME NEW S, IsFiniteSet(S)
  PROVE  Len(Ascending(S)) \in Nat /\ DOMAIN Ascending(S) = 1..Len(Ascending(S))
<1>1. Cardinality(S) \in Nat
  BY FS_CardinalityType
<1>2. QED
  BY <1>1 DEF Ascending

(* What compiles is a plan of the strategy's entrypoints.                  *)
LEMMA PlanCompiled ==
  ASSUME NEW s, Compile(s) # Refused
  PROVE  \E leaves, lowered : Compile(s) = Plan(Unordered(s), Desugared(s), leaves, lowered)
<1>1. Compile(s) = LowerIR(s, Desugared(s))
  BY DEF Compile
<1>2. Compile(s) = Lower(Unordered(s), Desugared(s), LeavesOf(Unordered(s), Desugared(s).ops))
  BY <1>1 DEF LowerIR
<1> DEFINE leaves == LeavesOf(Unordered(s), Desugared(s).ops)
           lowered == Lowered(Desugared(s), leaves)
<1>3. Compile(s) = Normalized(Unordered(s), Desugared(s), leaves, lowered)
  BY <1>2 DEF Lower
<1>4. Compile(s) = Plan(Unordered(s), Desugared(s), leaves, lowered)
  BY <1>3 DEF Normalized, Checked
<1>5. QED
  BY <1>4

LEMMA EventsListed ==
  ASSUME NEW s, WellFormed(s), Compile(s) # Refused
  PROVE  /\ Len(Compile(s).events) \in Nat
         /\ DOMAIN Compile(s).events = 1..Len(Compile(s).events)
         /\ \A i \in DOMAIN Compile(s).events :
              /\ Len(Compile(s).events[i].rebalance) \in Nat
              /\ DOMAIN Compile(s).events[i].rebalance
                   = 1..Len(Compile(s).events[i].rebalance)
<1> DEFINE ir == Desugared(s)
           u == Unordered(s)
           events == {Component(e[1]) : e \in ir.entry}
           with(e) == {f \in events : Together(u, e, f)}
           ids == Ascending({Min(with(e)) : e \in events})
           grouped == Grouped(u, ir, events)
<1>1. PICK leaves, lowered : Compile(s) = Plan(u, ir, leaves, lowered)
  BY PlanCompiled
<1>2. Compile(s).events = grouped
  BY <1>1 DEF Plan
<1>3. grouped = [i \in DOMAIN ids |-> EventOf(u, ir, with(ids[i]))]
  BY DEF Grouped
<1>4. IsFiniteSet(ir.entry)
  <2> DEFINE f == [e \in s.entry |-> <<Own(e[1]), Own(e[2])>>]
  <2>1. IsFiniteSet({f[e] : e \in s.entry})
    BY FiniteImage DEF WellFormed
  <2>2. ir.entry = {f[e] : e \in s.entry}
    BY DEF Desugared
  <2>3. QED
    BY <2>1, <2>2
<1> HIDE DEF ir
<1>5. IsFiniteSet(events)
  <2> DEFINE f == [e \in ir.entry |-> Component(e[1])]
  <2>1. IsFiniteSet({f[e] : e \in ir.entry})
    BY <1>4, FiniteImage
  <2>2. events = {f[e] : e \in ir.entry}
    OBVIOUS
  <2>3. QED
    BY <2>1, <2>2
<1> HIDE DEF events
<1>6. IsFiniteSet({Min(with(e)) : e \in events})
  <2> DEFINE f == [e \in events |-> Min(with(e))]
  <2>1. IsFiniteSet({f[e] : e \in events})
    BY <1>5, FiniteImage
  <2>2. {Min(with(e)) : e \in events} = {f[e] : e \in events}
    OBVIOUS
  <2>3. QED
    BY <2>1, <2>2
<1>7. Len(ids) \in Nat /\ DOMAIN ids = 1..Len(ids)
  BY <1>6, AscendingList
<1> HIDE DEF ids
<1>8. DOMAIN grouped = 1..Len(ids) /\ Len(grouped) = Len(ids)
  BY <1>3, <1>7
<1>9. ASSUME NEW i \in DOMAIN grouped
      PROVE  /\ Len(grouped[i].rebalance) \in Nat
             /\ DOMAIN grouped[i].rebalance = 1..Len(grouped[i].rebalance)
  <2> DEFINE g == with(ids[i])
             kinds == {"rebalance", "predicate_rebalance"}
             led == {x \in ir.entry : Component(x[1]) \in g /\ ir.ops[x[2]].op \in kinds}
             f == [e \in led |-> Component(e[2])]
  <2>1. grouped[i] = EventOf(u, ir, g)
    BY <1>3, <1>9, <1>8, <1>7
  <2>2. EventOf(u, ir, g).rebalance = Ascending({Component(e[2]) : e \in led})
    BY DEF EventOf
  <2>3. IsFiniteSet(led)
    BY <1>4, FS_Subset
  <2> HIDE DEF led, g
  <2>4. IsFiniteSet({f[e] : e \in led})
    BY <2>3, FiniteImage
  <2>5. {Component(e[2]) : e \in led} = {f[e] : e \in led}
    OBVIOUS
  <2> HIDE DEF f
  <2>6. QED
    BY <2>1, <2>2, <2>4, <2>5, AscendingList
<1> HIDE DEF grouped
<1>10. QED
  BY <1>2, <1>7, <1>8, <1>9

-----------------------------------------------------------------------------
(* Cooldowns *)

(* The session index an exit is noted with is one already counted.         *)
ExitsDated(exits, now) ==
  /\ DOMAIN exits = DOMAIN plan.cooldowns
  /\ \A d \in DOMAIN exits :
       /\ DOMAIN exits[d] = plan.cooldowns[d].assets
       /\ \A a \in DOMAIN exits[d] : exits[d][a] = None \/ exits[d][a] \in 0..now

(* What is retained was offered.                                           *)
SnapshotsOffered(snapshots) ==
  /\ DOMAIN snapshots = DOMAIN plan.snapshots
  /\ \A c \in DOMAIN snapshots :
       snapshots[c] = None \/ DOMAIN snapshots[c] \subseteq Offer(RetainedBy(c))

CooldownInv ==
  /\ strategy \in Strategies
  /\ plan = Compile(strategy)
  /\ session \in Nat
  /\ plan # Refused => ExitsDated(exited, session) /\ SnapshotsOffered(snapshot)

(* An asset of a cooldown that is given targets at this point of a slice   *)
(* never left, or left the required sessions ago.                          *)
Rests(state, targets) ==
  \A d \in DOMAIN plan.cooldowns : \A a \in plan.cooldowns[d].assets :
    a \in DOMAIN targets =>
      \/ state.exited[d][a] = None
      \/ session' - state.exited[d][a] >= plan.cooldowns[d].required

(* The state between two steps of a slice: an exit is that of before or of *)
(* now, and what was bought since had rested.                              *)
Steady(state) ==
  /\ state = [snapshot |-> state.snapshot, previous |-> state.previous,
              exited |-> state.exited, held |-> state.held]
  /\ SnapshotsOffered(state.snapshot)
  /\ ExitsDated(state.exited, session')
  /\ \A d \in DOMAIN plan.cooldowns : \A a \in plan.cooldowns[d].assets :
       exited[d][a] # None =>
         /\ state.exited[d][a] \in {exited[d][a], session'}
         /\ a \notin DOMAIN held /\ a \in DOMAIN state.held =>
              session' - exited[d][a] >= plan.cooldowns[d].required

(* What holds throughout the handling of a slice.                          *)
Handling ==
  /\ session' \in Nat
  /\ ExitsDated(exited, session')
  /\ GatedAlone(plan)
  /\ None \notin DOMAIN plan.cooldowns

LEMMA CandidatesOffered ==
  ASSUME NEW sleeve, NEW slice
  PROVE  /\ Candidates(sleeve.pick, slice) \subseteq sleeve.pick.assets
         /\ Fallback(sleeve, Candidates(sleeve.pick, slice)) \subseteq Offer(sleeve)
BY DEF Candidates, Fallback, Offer

LEMMA RefreshSteady ==
  ASSUME NEW state, Steady(state), NEW ready, NEW slice
  PROVE  Steady(RefreshEvents(state, ready, slice))
<1> DEFINE t == RefreshEvents(state, ready, slice)
<1>1. /\ t.previous = state.previous /\ t.exited = state.exited /\ t.held = state.held
      /\ t = [snapshot |-> t.snapshot, previous |-> t.previous,
              exited |-> t.exited, held |-> t.held]
      /\ t.snapshot = [c \in DOMAIN state.snapshot |->
                         IF \E i \in ready : c \in ToSet(plan.events[i].refresh)
                           THEN RefreshSnapshot(state.snapshot[c], RetainedBy(c), slice)
                           ELSE state.snapshot[c]]
  BY DEF RefreshEvents, Steady
<1> HIDE DEF t
<1>2. ASSUME NEW c, NEW sleeve
      PROVE  \/ RefreshSnapshot(c, sleeve, slice) = c
             \/ DOMAIN RefreshSnapshot(c, sleeve, slice) \subseteq Offer(sleeve)
  BY CandidatesOffered DEF RefreshSnapshot, Retain, Equally, Offer
<1>3. SnapshotsOffered(t.snapshot)
  BY <1>1, <1>2 DEF Steady, SnapshotsOffered
<1>4. QED
  BY <1>1, <1>3 DEF Steady, t

(* An exit is noted now, and what is held are targets that had rested.     *)
LEMMA SettledSteady ==
  ASSUME NEW state, NEW exits, NEW targets, Handling, Steady(state), Rests(state, targets)
  PROVE  Steady(Settle(state, exits, targets))
<1> DEFINE t == Settle(state, exits, targets)
           has(d) == plan.cooldowns[d].assets \cap DOMAIN targets
           had(d) == IF d \in exits THEN state.previous[d] ELSE {}
<1>1. /\ t.snapshot = state.snapshot /\ t.held = targets
      /\ t = [snapshot |-> t.snapshot, previous |-> t.previous,
              exited |-> t.exited, held |-> t.held]
      /\ t.exited = [d \in DOMAIN state.exited |-> [a \in DOMAIN state.exited[d] |->
                       IF a \in had(d) \ has(d) THEN session' ELSE state.exited[d][a]]]
  <2>1. DOMAIN state = {"snapshot", "previous", "exited", "held"}
    BY DEF Steady
  <2>2. DOMAIN t = DOMAIN state
    BY DEF Settle
  <2>3. /\ t.snapshot = state.snapshot /\ t.held = targets
        /\ t.exited = [d \in DOMAIN state.exited |-> [a \in DOMAIN state.exited[d] |->
                         IF a \in had(d) \ has(d) THEN session' ELSE state.exited[d][a]]]
    BY <2>1 DEF Settle
  <2>4. t = [x \in {"snapshot", "previous", "exited", "held"} |-> t[x]]
    BY <2>1, <2>2 DEF Settle
  <2> HIDE DEF t
  <2>5. t = [snapshot |-> t.snapshot, previous |-> t.previous,
             exited |-> t.exited, held |-> t.held]
    BY <2>4
  <2>6. QED
    BY <2>3, <2>5
<1> HIDE DEF t, had, has
<1>2. ASSUME NEW d \in DOMAIN plan.cooldowns, NEW a \in plan.cooldowns[d].assets
      PROVE  /\ d \in DOMAIN state.exited /\ a \in DOMAIN state.exited[d]
             /\ t.exited[d][a] \in {state.exited[d][a], session'}
  <2>1. d \in DOMAIN state.exited /\ a \in DOMAIN state.exited[d]
    BY DEF Steady, ExitsDated
  <2>2. t.exited[d] = [b \in DOMAIN state.exited[d] |->
                         IF b \in had(d) \ has(d) THEN session' ELSE state.exited[d][b]]
    BY <1>1, <2>1
  <2>3. t.exited[d][a] = IF a \in had(d) \ has(d) THEN session' ELSE state.exited[d][a]
    BY <2>1, <2>2
  <2>4. QED
    BY <2>1, <2>3
<1>3. ExitsDated(t.exited, session')
  <2>1. DOMAIN t.exited = DOMAIN plan.cooldowns
    BY <1>1 DEF Steady, ExitsDated
  <2>2. ASSUME NEW d \in DOMAIN t.exited PROVE DOMAIN t.exited[d] = plan.cooldowns[d].assets
    BY <1>1, <2>1 DEF Steady, ExitsDated
  <2>3. session' \in 0..session'
    BY DEF Handling
  <2>4. ASSUME NEW d \in DOMAIN t.exited, NEW a \in DOMAIN t.exited[d]
        PROVE  t.exited[d][a] = None \/ t.exited[d][a] \in 0..session'
    <3>1. d \in DOMAIN plan.cooldowns /\ a \in plan.cooldowns[d].assets
      BY <2>1, <2>2
    <3>2. t.exited[d][a] \in {state.exited[d][a], session'}
      BY <1>2, <3>1
    <3>3. state.exited[d][a] = None \/ state.exited[d][a] \in 0..session'
      BY <1>2, <3>1 DEF Steady, ExitsDated
    <3>4. QED
      BY <2>3, <3>2, <3>3
  <2>5. QED
    BY <2>1, <2>2, <2>4 DEF ExitsDated
<1>4. ASSUME NEW d \in DOMAIN plan.cooldowns, NEW a \in plan.cooldowns[d].assets,
             exited[d][a] # None
      PROVE  t.exited[d][a] \in {exited[d][a], session'}
  BY <1>2, <1>4 DEF Steady
<1>5. ASSUME NEW d \in DOMAIN plan.cooldowns, NEW a \in plan.cooldowns[d].assets,
             exited[d][a] # None, a \in DOMAIN t.held
      PROVE  session' - exited[d][a] >= plan.cooldowns[d].required
  <2>1. exited[d][a] \in 0..session' /\ session' \in Nat
    BY <1>5 DEF Handling, ExitsDated
  <2>2. plan.cooldowns[d].required \in Nat
    BY DEF Handling, GatedAlone
  <2>3. state.exited[d][a] \in {exited[d][a], session'}
    BY <1>5 DEF Steady
  <2>4. state.exited[d][a] # None
    BY <1>5, <2>3, NoSessionAssumption DEF Handling
  <2>5. session' - state.exited[d][a] >= plan.cooldowns[d].required
    BY <1>1, <1>5, <2>4 DEF Rests
  <2>6. QED
    BY <2>1, <2>2, <2>3, <2>5
<1>6. SnapshotsOffered(t.snapshot)
  BY <1>1 DEF Steady
<1>7. Steady(t)
  BY <1>1, <1>3, <1>4, <1>5, <1>6 DEF Steady
<1>8. QED
  BY <1>7 DEF t

LEMMA CooldownsNamed ==
  ASSUME NEW s, Compile(s) # Refused
  PROVE  None \notin DOMAIN Compile(s).cooldowns
<1>1. PICK leaves, lowered : Compile(s) = Plan(Unordered(s), Desugared(s), leaves, lowered)
  BY PlanCompiled
<1>2. Compile(s).cooldowns = Cooldowns(Unordered(s), lowered)
  BY <1>1 DEF Plan
<1>3. None \notin DOMAIN Cooldowns(Unordered(s), lowered)
  BY DEF Cooldowns
<1>4. QED
  BY <1>2, <1>3

(* What a sleeve invests in it offers, and through a gate what the gate    *)
(* lets pass.                                                              *)
LEMMA ChosenGated ==
  ASSUME NEW state, NEW sleeve, NEW slice, NEW date,
         Chosen(state, sleeve, slice, date) # None, NEW a \in Chosen(state, sleeve, slice, date)
  PROVE  /\ a \in Offer(sleeve)
         /\ sleeve.pick.kind = "momentum" /\ sleeve.pick.gate # None /\ a # sleeve.fallback =>
              Allowed(state, sleeve.pick.gate, a, plan.cooldowns[sleeve.pick.gate].required)
<1> DEFINE pick == sleeve.pick
           candidates == Candidates(pick, slice)
           gate == pick.gate
           passed == {x \in candidates : Allowed(state, gate, x, plan.cooldowns[gate].required)}
<1>1. candidates \subseteq pick.assets
  BY CandidatesOffered
<1>2. CASE pick.kind = "all"
  BY <1>2 DEF Chosen, Offer
<1>3. CASE pick.kind = "random"
  <2>1. Chosen(state, sleeve, slice, date) =
          Sample(pick.assets, pick.count, pick.of, IF pick.resample = "once" THEN 0 ELSE date)
    BY <1>3 DEF Chosen
  <2>2. QED
    BY <1>3, <2>1 DEF Sample, Offer
<1>4. CASE pick.kind \notin {"all", "random"}
  <2>1. Chosen(state, sleeve, slice, date) = Gated(state, sleeve, candidates)
    BY <1>4 DEF Chosen
  <2>2. CASE gate # None
    <3>1. a \in Fallback(sleeve, passed)
      BY <2>1, <2>2 DEF Gated
    <3>2. a \in passed \/ (sleeve.fallback # None /\ a = sleeve.fallback)
      BY <3>1 DEF Fallback
    <3>3. QED
      BY <1>1, <3>2 DEF Offer
  <2>3. CASE gate = None
    <3>1. Gated(state, sleeve, candidates)
            = IF sleeve.fallback # None THEN Fallback(sleeve, candidates)
              ELSE Required(pick, candidates)
      BY <2>3 DEF Gated
    <3>2. a \in Offer(sleeve)
      BY <1>1, <2>1, <3>1 DEF Fallback, Required, Offer
    <3>3. QED
      BY <2>3, <3>2
  <2>4. QED
    BY <2>2, <2>3
<1>5. QED
  BY <1>2, <1>3, <1>4

LEMMA TargetsRest ==
  ASSUME NEW state, NEW branch \in Branches(plan), NEW slice, NEW date,
         Handling, Steady(state), BranchTargets(state, branch, slice, date) # None
  PROVE  Rests(state, BranchTargets(state, branch, slice, date))
<1> DEFINE sleeve(i) == plan.sleeves[branch.sleeves[i]]
           chosen == [i \in DOMAIN branch.sleeves |-> Chosen(state, sleeve(i), slice, date)]
           retained == [i \in DOMAIN branch.snapshots |->
                          LET l == branch.snapshots[i]
                          IN [a \in DOMAIN state.snapshot[l.id] |->
                                Scale(state.snapshot[l.id][a], l.weight)]]
           given == [i \in DOMAIN chosen |-> Equally(chosen[i], sleeve(i).weight)]
           targets == BranchTargets(state, branch, slice, date)
<1>1. targets = Targets(state, branch, chosen)
  BY DEF BranchTargets
<1>2. /\ \A i \in DOMAIN branch.snapshots : state.snapshot[branch.snapshots[i].id] # None
      /\ \A i \in DOMAIN chosen : chosen[i] # None
      /\ targets = Plus(AddedUp(retained), AddedUp(given))
  BY <1>1 DEF Targets
<1>3. ASSUME NEW f, NEW g PROVE DOMAIN Plus(f, g) = (DOMAIN f) \cup (DOMAIN g)
  BY DEF Plus
<1>4. ASSUME NEW parts PROVE DOMAIN AddedUp(parts) = UNION {DOMAIN parts[i] : i \in DOMAIN parts}
  BY DEF AddedUp
<1>5. DOMAIN targets = (UNION {DOMAIN retained[i] : i \in DOMAIN retained})
                         \cup (UNION {DOMAIN given[i] : i \in DOMAIN given})
  <2> DEFINE fromRetained == AddedUp(retained)
             fromGiven == AddedUp(given)
  <2> HIDE DEF retained, given, targets
  <2>1. DOMAIN fromRetained = UNION {DOMAIN retained[i] : i \in DOMAIN retained}
        /\ DOMAIN fromGiven = UNION {DOMAIN given[i] : i \in DOMAIN given}
    BY <1>4
  <2>2. targets = Plus(fromRetained, fromGiven)
    BY <1>2
  <2> HIDE DEF fromRetained, fromGiven
  <2>3. DOMAIN targets = (DOMAIN fromRetained) \cup (DOMAIN fromGiven)
    BY <1>3, <2>2
  <2>4. QED
    BY <2>1, <2>3
<1>6. ASSUME NEW i \in DOMAIN branch.snapshots
      PROVE  DOMAIN retained[i] = DOMAIN state.snapshot[branch.snapshots[i].id]
  OBVIOUS
<1>7. ASSUME NEW i \in DOMAIN branch.sleeves
      PROVE  DOMAIN given[i] = chosen[i] /\ chosen[i] = Chosen(state, sleeve(i), slice, date)
  BY DEF Equally
<1>8. DOMAIN retained = DOMAIN branch.snapshots /\ DOMAIN given = DOMAIN branch.sleeves
      /\ DOMAIN chosen = DOMAIN branch.sleeves
  OBVIOUS
<1> HIDE DEF retained, given, chosen, targets
<1>9. SUFFICES ASSUME NEW d \in DOMAIN plan.cooldowns, NEW a \in plan.cooldowns[d].assets,
                      a \in DOMAIN targets
               PROVE  \/ state.exited[d][a] = None
                      \/ session' - state.exited[d][a] >= plan.cooldowns[d].required
  BY DEF Rests, targets
<1>10. ASSUME NEW i \in DOMAIN branch.snapshots, a \in DOMAIN retained[i] PROVE FALSE
  <2> DEFINE c == branch.snapshots[i].id
  <2>1. c \in DOMAIN plan.snapshots
        /\ Offer(plan.sleeves[plan.snapshots[c][1]]) \cap plan.cooldowns[d].assets = {}
    BY DEF Handling, GatedAlone
  <2>2. DOMAIN state.snapshot[c] \subseteq Offer(RetainedBy(c))
    BY <1>2, <2>1 DEF Steady, SnapshotsOffered
  <2>3. a \in Offer(plan.sleeves[plan.snapshots[c][1]])
    BY <1>6, <1>10, <2>2 DEF RetainedBy
  <2>4. QED
    BY <2>1, <2>3
<1>11. PICK i \in DOMAIN branch.sleeves : a \in DOMAIN given[i]
  BY <1>5, <1>8, <1>9, <1>10
<1>12. a \in Chosen(state, sleeve(i), slice, date) /\ Chosen(state, sleeve(i), slice, date) # None
  BY <1>2, <1>7, <1>8, <1>11
<1>13. a \in Offer(sleeve(i))
  BY <1>12, ChosenGated
<1>14. /\ sleeve(i).pick.kind = "momentum" /\ sleeve(i).pick.gate = d
       /\ sleeve(i).fallback \notin plan.cooldowns[d].assets
  BY <1>13 DEF Handling, GatedAlone
<1>15. d # None /\ a # sleeve(i).fallback
  BY <1>14 DEF Handling
<1>16. Allowed(state, d, a, plan.cooldowns[d].required)
  BY <1>12, <1>14, <1>15, ChosenGated
<1>17. QED
  BY <1>16 DEF Allowed

LEMMA RebalanceSteady ==
  ASSUME NEW run, run = [state |-> run.state, returned |-> run.returned], Steady(run.state),
         NEW branch \in Branches(plan) \cup {None}, NEW slice, NEW date, Handling
  PROVE  LET t == ExecuteRebalance(run, branch, slice, date)
         IN t = [state |-> t.state, returned |-> t.returned] /\ Steady(t.state)
<1> DEFINE t == ExecuteRebalance(run, branch, slice, date)
           targets == BranchTargets(run.state, branch, slice, date)
<1>1. CASE run.returned
  <2>1. t = run
    BY <1>1 DEF ExecuteRebalance
  <2>2. QED
    BY <2>1
<1>2. CASE ~ run.returned /\ targets = None
  <2>1. t = [run EXCEPT !.returned = TRUE]
    BY <1>2 DEF ExecuteRebalance, Executed
  <2>2. t.state = run.state /\ t = [state |-> t.state, returned |-> t.returned]
    BY <2>1
  <2>3. QED
    BY <2>2
<1>3. CASE ~ run.returned /\ targets # None
  <2>1. branch \in Branches(plan)
    BY <1>3 DEF BranchTargets
  <2>2. Rests(run.state, targets)
    BY <1>3, <2>1, TargetsRest
  <2>3. Steady(Settle(run.state, branch.exits, targets))
    BY <2>2, SettledSteady
  <2>4. t = [run EXCEPT !.state = Settle(@, branch.exits, targets)]
    BY <1>3 DEF ExecuteRebalance, Executed
  <2> HIDE DEF t, targets
  <2>5. t.state = Settle(run.state, branch.exits, targets)
        /\ t = [state |-> t.state, returned |-> t.returned]
    BY <2>4
  <2>6. QED
    BY <2>3, <2>5 DEF t
<1>4. QED
  BY <1>1, <1>2, <1>3

(* The rebalances of an event, one after the other.                        *)
LEMMA RunSteps ==
  ASSUME NEW state, NEW i, NEW slice, Len(plan.events[i].rebalance) \in Nat
  PROVE  \E g : /\ g[0] = [state |-> state, returned |-> FALSE]
                /\ \A k \in 1..Len(plan.events[i].rebalance) : g[k] = ExecuteRebalance(g[k - 1], Taken(plan.rebalances[plan.events[i].rebalance[k]], slice),
                                             slice, pending[i])
                /\ ExecuteEvent(state, i, slice) = g[Len(plan.events[i].rebalance)].state
<1> DEFINE n == Len(plan.events[i].rebalance)
           start == [state |-> state, returned |-> FALSE]
           Step(run, k) == ExecuteRebalance(run, Taken(plan.rebalances[plan.events[i].rebalance[k]], slice),
                                             slice, pending[i])
           Solves(f, m) == f = [k \in 0..m |-> IF k = 0 THEN start ELSE Step(f[k - 1], k)]
           S == {m \in Nat : \E f : Solves(f, m)}
           h == CHOOSE f : Solves(f, n)
<1>1. ExecuteEvent(state, i, slice) = h[Len(plan.events[i].rebalance)].state
  BY DEF ExecuteEvent
<1> HIDE DEF Step, start, n, h
<1>2. 0 \in S
  <2>1. Solves([k \in 0..0 |-> start], 0)
    OBVIOUS
  <2>2. QED
    BY <2>1
<1>3. ASSUME NEW m \in Nat, m \in S PROVE m + 1 \in S
  <2>1. PICK f : Solves(f, m)
    BY <1>3
  <2> DEFINE g == [k \in 0..(m + 1) |-> IF k \in 0..m THEN f[k] ELSE Step(f[m], m + 1)]
  <2>2. ASSUME NEW k \in 0..(m + 1)
        PROVE  g[k] = IF k = 0 THEN start ELSE Step(g[k - 1], k)
    <3>1. CASE k = 0
      BY <2>1, <3>1
    <3>2. CASE k \in 1..m
      <4>1. g[k] = f[k] /\ g[k - 1] = f[k - 1]
        BY <3>2
      <4>2. QED
        BY <2>1, <3>2, <4>1
    <3>3. CASE k = m + 1
      <4>1. k \notin 0..m /\ k - 1 = m /\ m \in 0..m /\ m \in 0..(m + 1) /\ k # 0
        BY <3>3
      <4>2. g[k] = Step(f[m], m + 1) /\ g[k - 1] = f[m]
        BY <4>1
      <4>3. QED
        BY <3>3, <4>1, <4>2
    <3>4. QED
      BY <3>1, <3>2, <3>3
  <2>3. Solves(g, m + 1)
    <3>1. g = [k \in 0..(m + 1) |-> g[k]]
      OBVIOUS
    <3> HIDE DEF g
    <3>2. QED
      BY <2>2, <3>1
  <2> HIDE DEF g, Solves
  <2>4. QED
    BY <2>3
<1> HIDE DEF S
<1>4. n \in S
  BY <1>2, <1>3, NaturalSteps DEF n
<1>5. \E f : Solves(f, n)
  BY <1>4 DEF S
<1> HIDE DEF Solves
<1>6. Solves(h, n)
  BY <1>5 DEF h
<1>7. h = [k \in 0..n |-> IF k = 0 THEN start ELSE Step(h[k - 1], k)]
  BY <1>6 DEF Solves
<1>8. n \in Nat
  BY DEF n
<1>9. h[0] = start
  BY <1>7, <1>8
<1>10. ASSUME NEW k \in 1..n PROVE h[k] = Step(h[k - 1], k)
  <2>1. k \in 0..n /\ k # 0
    OBVIOUS
  <2>2. QED
    BY <1>7, <2>1
<1>11. QED
  BY <1>1, <1>9, <1>10 DEF Step, start, n

(* The ready events, one after the other.                                  *)
LEMMA HandleSteps ==
  ASSUME NEW state, NEW ready, NEW slice, Len(plan.events) \in Nat
  PROVE  \E g : /\ g[0] = RefreshEvents(state, ready, slice)
                /\ \A k \in 1..Len(plan.events) : g[k] = IF k \in ready THEN ExecuteEvent(g[k - 1], k, slice) ELSE g[k - 1]
                /\ Handle(state, ready, slice) = g[Len(plan.events)]
<1> DEFINE n == Len(plan.events)
           start == RefreshEvents(state, ready, slice)
           Step(run, k) == IF k \in ready THEN ExecuteEvent(run, k, slice) ELSE run
           Solves(f, m) == f = [k \in 0..m |-> IF k = 0 THEN start ELSE Step(f[k - 1], k)]
           S == {m \in Nat : \E f : Solves(f, m)}
           h == CHOOSE f : Solves(f, n)
<1>1. Handle(state, ready, slice) = h[Len(plan.events)]
  BY DEF Handle
<1> HIDE DEF Step, start, n, h
<1>2. 0 \in S
  <2>1. Solves([k \in 0..0 |-> start], 0)
    OBVIOUS
  <2>2. QED
    BY <2>1
<1>3. ASSUME NEW m \in Nat, m \in S PROVE m + 1 \in S
  <2>1. PICK f : Solves(f, m)
    BY <1>3
  <2> DEFINE g == [k \in 0..(m + 1) |-> IF k \in 0..m THEN f[k] ELSE Step(f[m], m + 1)]
  <2>2. ASSUME NEW k \in 0..(m + 1)
        PROVE  g[k] = IF k = 0 THEN start ELSE Step(g[k - 1], k)
    <3>1. CASE k = 0
      BY <2>1, <3>1
    <3>2. CASE k \in 1..m
      <4>1. g[k] = f[k] /\ g[k - 1] = f[k - 1]
        BY <3>2
      <4>2. QED
        BY <2>1, <3>2, <4>1
    <3>3. CASE k = m + 1
      <4>1. k \notin 0..m /\ k - 1 = m /\ m \in 0..m /\ m \in 0..(m + 1) /\ k # 0
        BY <3>3
      <4>2. g[k] = Step(f[m], m + 1) /\ g[k - 1] = f[m]
        BY <4>1
      <4>3. QED
        BY <3>3, <4>1, <4>2
    <3>4. QED
      BY <3>1, <3>2, <3>3
  <2>3. Solves(g, m + 1)
    <3>1. g = [k \in 0..(m + 1) |-> g[k]]
      OBVIOUS
    <3> HIDE DEF g
    <3>2. QED
      BY <2>2, <3>1
  <2> HIDE DEF g, Solves
  <2>4. QED
    BY <2>3
<1> HIDE DEF S
<1>4. n \in S
  BY <1>2, <1>3, NaturalSteps DEF n
<1>5. \E f : Solves(f, n)
  BY <1>4 DEF S
<1> HIDE DEF Solves
<1>6. Solves(h, n)
  BY <1>5 DEF h
<1>7. h = [k \in 0..n |-> IF k = 0 THEN start ELSE Step(h[k - 1], k)]
  BY <1>6 DEF Solves
<1>8. n \in Nat
  BY DEF n
<1>9. h[0] = start
  BY <1>7, <1>8
<1>10. ASSUME NEW k \in 1..n PROVE h[k] = Step(h[k - 1], k)
  <2>1. k \in 0..n /\ k # 0
    OBVIOUS
  <2>2. QED
    BY <1>7, <2>1
<1>11. QED
  BY <1>1, <1>9, <1>10 DEF Step, start, n

(* Every rebalance an event executes keeps to the rests, so the event does.*)
LEMMA EventSteady ==
  ASSUME NEW state, Steady(state), Handling, NEW i \in DOMAIN plan.events, NEW slice,
         Len(plan.events[i].rebalance) \in Nat,
         DOMAIN plan.events[i].rebalance = 1..Len(plan.events[i].rebalance)
  PROVE  Steady(ExecuteEvent(state, i, slice))
<1> DEFINE rebalances == plan.events[i].rebalance
           n == Len(rebalances)
           branch(k) == Taken(plan.rebalances[rebalances[k]], slice)
           Kept(run) == /\ run = [state |-> run.state, returned |-> run.returned]
                        /\ Steady(run.state)
<1>1. PICK g : /\ g[0] = [state |-> state, returned |-> FALSE]
               /\ \A k \in 1..n : g[k] = ExecuteRebalance(g[k - 1], branch(k), slice, pending[i])
               /\ ExecuteEvent(state, i, slice) = g[n].state
  BY RunSteps
<1>2. ASSUME NEW k \in 1..n PROVE branch(k) \in Branches(plan) \cup {None}
  <2>1. rebalances[k] \in ToSet(rebalances)
    BY DEF ToSet
  <2>2. branch(k) \in {plan.rebalances[rebalances[k]].then, plan.rebalances[rebalances[k]].otherwise}
    BY DEF Taken
  <2> HIDE DEF branch
  <2> DEFINE executed == UNION {ToSet(plan.events[j].rebalance) : j \in DOMAIN plan.events}
             branches(r) == {plan.rebalances[r].then, plan.rebalances[r].otherwise}
  <2>3. rebalances[k] \in executed
    BY <2>1
  <2> HIDE DEF executed, rebalances
  <2>4. branch(k) \in UNION {branches(r) : r \in executed}
    BY <2>2, <2>3
  <2>5. Branches(plan) = (UNION {branches(r) : r \in executed}) \ {None}
    BY DEF Branches, executed
  <2> HIDE DEF branches
  <2>6. QED
    BY <2>4, <2>5
<1> DEFINE S == {k \in Nat : k <= n => Kept(g[k])}
<1>3. 0 \in S
  BY <1>1
<1> HIDE DEF branch
<1>4. ASSUME NEW k \in Nat, k \in S PROVE k + 1 \in S
  <2>1. SUFFICES ASSUME k + 1 <= n PROVE Kept(g[k + 1])
    OBVIOUS
  <2>2. k + 1 \in 1..n /\ k <= n /\ (k + 1) - 1 = k
    BY <2>1
  <2>3. Kept(g[k])
    BY <1>4, <2>2
  <2>4. g[k + 1] = ExecuteRebalance(g[k], branch(k + 1), slice, pending[i])
    BY <1>1, <2>2
  <2>5. branch(k + 1) \in Branches(plan) \cup {None}
    BY <1>2, <2>2
  <2>6. QED
    BY <2>3, <2>4, <2>5, RebalanceSteady
<1> HIDE DEF S
<1>5. n \in S
  BY <1>3, <1>4, NaturalSteps
<1>6. Kept(g[n])
  BY <1>5 DEF S
<1>7. QED
  BY <1>1, <1>6

(* So does a slice, whatever events are ready on it.                       *)
LEMMA HandleSteady ==
  ASSUME NEW state, Steady(state), Handling, NEW ready, NEW slice, Len(plan.events) \in Nat,
         DOMAIN plan.events = 1..Len(plan.events),
         \A i \in DOMAIN plan.events :
           /\ Len(plan.events[i].rebalance) \in Nat
           /\ DOMAIN plan.events[i].rebalance = 1..Len(plan.events[i].rebalance)
  PROVE  Steady(Handle(state, ready, slice))
<1> DEFINE n == Len(plan.events)
<1>1. PICK g : /\ g[0] = RefreshEvents(state, ready, slice)
               /\ \A k \in 1..n : g[k] = IF k \in ready THEN ExecuteEvent(g[k - 1], k, slice)
                                         ELSE g[k - 1]
               /\ Handle(state, ready, slice) = g[n]
  BY HandleSteps
<1> DEFINE S == {k \in Nat : k <= n => Steady(g[k])}
<1>2. 0 \in S
  BY <1>1, RefreshSteady
<1>3. ASSUME NEW k \in Nat, k \in S PROVE k + 1 \in S
  <2>1. SUFFICES ASSUME k + 1 <= n PROVE Steady(g[k + 1])
    OBVIOUS
  <2>2. k + 1 \in 1..n /\ k <= n /\ (k + 1) - 1 = k
    BY <2>1
  <2>3. Steady(g[k])
    BY <1>3, <2>2
  <2>4. g[k + 1] = IF k + 1 \in ready THEN ExecuteEvent(g[k], k + 1, slice) ELSE g[k]
    BY <1>1, <2>2
  <2>5. Steady(ExecuteEvent(g[k], k + 1, slice))
    BY <2>2, <2>3, EventSteady
  <2>6. QED
    BY <2>3, <2>4, <2>5
<1> HIDE DEF S
<1>4. n \in S
  BY <1>2, <1>3, NaturalSteps
<1>5. QED
  BY <1>1, <1>4 DEF S

(* The state in which a slice is delivered, which its steps set out from.  *)
AtHand == [snapshot |-> snapshot, previous |-> previous, exited |-> exited, held |-> held]

LEMMA CooldownInit == Init => CooldownInv
<1> SUFFICES ASSUME Init PROVE CooldownInv
  OBVIOUS
<1>1. ASSUME plan # Refused PROVE ExitsDated(exited, session) /\ SnapshotsOffered(snapshot)
  <2>1. /\ snapshot = [c \in DOMAIN plan.snapshots |-> None]
        /\ exited = [d \in DOMAIN plan.cooldowns |-> [a \in plan.cooldowns[d].assets |-> None]]
    BY <1>1 DEF Init
  <2>2. QED
    BY <2>1 DEF ExitsDated, SnapshotsOffered
<1>2. strategy \in Strategies /\ plan = Compile(strategy) /\ session = 0
  BY DEF Init
<1>3. QED
  BY <1>1, <1>2 DEF CooldownInv

(* A slice that is handled starts from a steady state and ends in one.     *)
LEMMA SliceSteady ==
  ASSUME NEW slice, NEW ready, CooldownInv, Runs, CountSession, GatedAlone(plan)
  PROVE  Handling /\ Steady(Handle(AtHand, ready, slice))
<1>1. plan = Compile(strategy) /\ plan # Refused /\ strategy \in Strategies /\ session \in Nat
  BY DEF CooldownInv, Runs
<1>2. session' \in {session, session + 1}
  BY DEF CountSession
<1>3. session' \in Nat /\ 0..session \subseteq 0..session'
  BY <1>1, <1>2
<1>4. ExitsDated(exited, session')
  <2>1. ExitsDated(exited, session)
    BY <1>1 DEF CooldownInv
  <2>2. QED
    BY <1>3, <2>1 DEF ExitsDated
<1>5. Handling
  BY <1>1, <1>3, <1>4, CooldownsNamed DEF Handling
<1>6. Steady(AtHand)
  <2>1. SnapshotsOffered(snapshot)
    BY <1>1 DEF CooldownInv
  <2>2. /\ AtHand.snapshot = snapshot /\ AtHand.exited = exited /\ AtHand.held = held
        /\ AtHand = [snapshot |-> AtHand.snapshot, previous |-> AtHand.previous,
                     exited |-> AtHand.exited, held |-> AtHand.held]
    BY DEF AtHand
  <2>3. QED
    BY <1>4, <2>1, <2>2 DEF Steady
<1>7. WellFormed(strategy)
  BY <1>1, StrategiesAssumption
<1>8. QED
  BY <1>1, <1>5, <1>6, <1>7, EventsListed, HandleSteady

LEMMA SliceRespected ==
  ASSUME CooldownInv, [Next]_vars, plan # Refused => GatedAlone(plan)
  PROVE  /\ CooldownInv'
         /\ \A d \in DOMAIN exited : \A a \in DOMAIN exited[d] :
              (a \notin DOMAIN held /\ a \in DOMAIN held' /\ exited[d][a] # None)
              => session' - exited[d][a] >= plan.cooldowns[d].required
<1>1. CASE UNCHANGED <<sourceVars, session, algoVars>>
  BY <1>1 DEF CooldownInv, sourceVars, algoVars, ExitsDated, SnapshotsOffered, RetainedBy
<1>2. ASSUME NEW slice \in Slices, OnData(slice) PROVE
         \/ UNCHANGED <<sourceVars, session, algoVars>>
         \/ Runs /\ UNCHANGED sourceVars /\ CountSession /\ HandleReady(slice, Ready(slice))
  BY <1>2 DEF OnData
<1>3. CASE UNCHANGED vars
  BY <1>1, <1>3 DEF vars, sourceVars, algoVars
<1>4. CASE Open
  BY <1>1, <1>4 DEF Open
<1>5. CASE WarmedUp
  BY <1>1, <1>5 DEF WarmedUp
<1>6. ASSUME NEW slice \in Slices, NEW ready, Runs, UNCHANGED sourceVars, CountSession,
             HandleReady(slice, ready)
      PROVE  /\ CooldownInv'
             /\ \A d \in DOMAIN exited : \A a \in DOMAIN exited[d] :
                  (a \notin DOMAIN held /\ a \in DOMAIN held' /\ exited[d][a] # None)
                  => session' - exited[d][a] >= plan.cooldowns[d].required
  <2> DEFINE t == Handle(AtHand, ready, slice)
  <2>1. Handling /\ Steady(t)
    BY <1>6, SliceSteady DEF Runs
  <2>2. snapshot' = t.snapshot /\ exited' = t.exited /\ held' = t.held
    BY <1>6 DEF HandleReady, Becomes, AtHand
  <2> HIDE DEF t
  <2>3. strategy' = strategy /\ plan' = plan /\ session' \in Nat
    BY <1>6, <2>1 DEF sourceVars, Handling
  <2>4. ExitsDated(t.exited, session') /\ SnapshotsOffered(t.snapshot)
    BY <2>1 DEF Steady
  <2>5. CooldownInv'
    BY <2>2, <2>3, <2>4 DEF CooldownInv, ExitsDated, SnapshotsOffered, RetainedBy
  <2>6. ASSUME NEW d \in DOMAIN exited, NEW a \in DOMAIN exited[d],
               a \notin DOMAIN held, a \in DOMAIN held', exited[d][a] # None
        PROVE  session' - exited[d][a] >= plan.cooldowns[d].required
    <3>1. d \in DOMAIN plan.cooldowns /\ a \in plan.cooldowns[d].assets
      BY <2>1 DEF Handling, ExitsDated
    <3>2. QED
      BY <2>1, <2>2, <2>6, <3>1 DEF Steady
  <2>7. QED
    BY <2>5, <2>6
<1>7. QED
  BY <1>1, <1>2, <1>3, <1>4, <1>5, <1>6 DEF Next

(* Given that the assets of a cooldown are invested in through its own     *)
(* gate only, whatever sessions and slices come an asset that has left is  *)
(* bought again only after the sessions its cooldown requires: between     *)
(* CaptureCooldownExits and the gate's test of the session index nothing   *)
(* forgets an exit or dates it later than the session it happened in.      *)
THEOREM CooldownsRespected ==
  ASSUME \A s \in Strategies : Compile(s) # Refused => GatedAlone(Compile(s))
  PROVE  Spec => CooldownRespected
<1>1. Init => CooldownInv
  BY CooldownInit
<1>2. CooldownInv => (plan # Refused => GatedAlone(plan))
  BY DEF CooldownInv
<1>3. CooldownInv /\ [Next]_vars => CooldownInv'
  BY <1>2, SliceRespected
<1>4. CooldownInv /\ [Next]_vars =>
        [\A d \in DOMAIN exited : \A a \in DOMAIN exited[d] :
           (a \notin DOMAIN held /\ a \in DOMAIN held' /\ exited[d][a] # None)
           => session' - exited[d][a] >= plan.cooldowns[d].required]_vars
  BY <1>2, SliceRespected
<1>5. QED
  BY <1>1, <1>3, <1>4, PTL DEF Spec, CooldownRespected

=============================================================================
