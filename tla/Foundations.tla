---------------------------- MODULE Foundations -----------------------------
(***************************************************************************)
(* What several proofs of this project rest on: least and greatest natural *)
(* numbers, induction stated of a set, and what a traversal reaches.       *)
(***************************************************************************)
EXTENDS Reachability, WellFoundedInduction, FiniteSetTheorems, TLAPS

Smaller == {p \in Nat \X Nat : p[1] < p[2]}

LEMMA LeastNatural ==
  ASSUME NEW S \in SUBSET Nat, S # {}
  PROVE  \E n \in S : \A m \in S : n <= m
<1>1. IsWellFoundedOn(OpToRel(<, Nat), Nat)
  BY NatLessThanWellFounded
<1>2. IsWellFoundedOn(Smaller, Nat)
  BY <1>1 DEF OpToRel, Smaller
<1>3. PICK n \in S : \A m \in S : <<m, n>> \notin Smaller
  BY <1>2, WFMin
<1>4. ASSUME NEW m \in S PROVE n <= m
  <2>1. m < n => <<m, n>> \in Smaller
    BY DEF Smaller
  <2>2. QED
    BY <1>3, <2>1
<1>5. QED
  BY <1>4

(* A bounded set has a greatest number.                                     *)
LEMMA GreatestNatural ==
  ASSUME NEW n \in Nat, NEW S \in SUBSET (0..n), S # {}
  PROVE  \E m \in S : \A k \in S : m >= k
<1> DEFINE Below == {n - k : k \in S}
<1>1. Below \in SUBSET Nat /\ Below # {}
  <2>1. \A k \in S : n - k \in Nat
    OBVIOUS
  <2>2. \E k \in S : n - k \in Below
    OBVIOUS
  <2>3. QED
    BY <2>1, <2>2
<1> HIDE DEF Below
<1>2. PICK d \in Below : \A j \in Below : d <= j
  BY <1>1, LeastNatural
<1>3. PICK m \in S : d = n - m
  BY DEF Below
<1>4. ASSUME NEW k \in S PROVE m >= k
  <2>1. n - k \in Below
    BY DEF Below
  <2>2. n - m <= n - k
    BY <1>2, <1>3, <2>1
  <2>3. QED
    BY <2>2
<1>5. QED
  BY <1>4

(* A set with 0 and all successors has every number.                        *)
LEMMA NaturalSteps ==
  ASSUME NEW S, 0 \in S, \A n \in Nat : n \in S => n + 1 \in S
  PROVE  Nat \subseteq S
<1> SUFFICES ASSUME Nat \ S # {} PROVE FALSE
  OBVIOUS
<1>1. PICK n \in Nat \ S : \A m \in Nat \ S : n <= m
  BY LeastNatural
<1>2. n # 0 /\ n - 1 \in Nat
  BY <1>1
<1>3. n - 1 \in S
  BY <1>1, <1>2
<1>4. QED
  BY <1>1, <1>2, <1>3

-----------------------------------------------------------------------------
(* Reachability *)

(* The sets a traversal grows through.                                      *)
LEMMA ReachedSteps ==
  ASSUME NEW edges, NEW n \in Nat, NEW start
  PROVE  \E g : /\ g[0] = start
                /\ \A k \in 1..n : g[k] = Grown(edges, g[k - 1])
                /\ Reached(edges, n, start) = g[n]
<1> DEFINE Solves(f, m) ==
             f = [k \in 0..m |-> IF k = 0 THEN start ELSE Grown(edges, f[k - 1])]
           S == {m \in Nat : \E f : Solves(f, m)}
<1>1. 0 \in S
  <2>1. Solves([k \in 0..0 |-> start], 0)
    OBVIOUS
  <2>2. QED
    BY <2>1
<1>2. ASSUME NEW m \in Nat, m \in S PROVE m + 1 \in S
  <2>1. PICK f : Solves(f, m)
    BY <1>2
  <2> DEFINE g == [k \in 0..(m + 1) |->
                     IF k \in 0..m THEN f[k] ELSE Grown(edges, f[m])]
  <2>2. ASSUME NEW k \in 0..(m + 1)
        PROVE  g[k] = IF k = 0 THEN start ELSE Grown(edges, g[k - 1])
    <3>1. CASE k = 0
      BY <2>1, <3>1
    <3>2. CASE k \in 1..m
      <4>1. g[k] = f[k] /\ g[k - 1] = f[k - 1]
        BY <3>2
      <4>2. QED
        BY <2>1, <3>2, <4>1
    <3>3. CASE k = m + 1
      <4>1. k \notin 0..m /\ k - 1 = m /\ m \in 0..m /\ m \in 0..(m + 1) /\ k # 0
        BY <3>3
      <4>2. g[k] = Grown(edges, f[m]) /\ g[k - 1] = f[m]
        BY <4>1
      <4>3. QED
        BY <3>3, <4>1, <4>2
    <3>4. QED
      BY <3>1, <3>2, <3>3
  <2>3. Solves(g, m + 1)
    <3>1. g = [k \in 0..(m + 1) |-> g[k]]
      OBVIOUS
    <3> HIDE DEF g
    <3>2. QED
      BY <2>2, <3>1
  <2> HIDE DEF g, Solves
  <2>4. QED
    BY <2>3
<1> HIDE DEF S
<1>3. n \in S
  BY <1>1, <1>2, NaturalSteps
<1>4. \E f : Solves(f, n)
  BY <1>3 DEF S
<1> DEFINE h == CHOOSE f : Solves(f, n)
<1>5. Reached(edges, n, start) = h[n]
  BY DEF Reached
<1> HIDE DEF Solves
<1>6. Solves(h, n)
  BY <1>4
<1> HIDE DEF h
<1>7. h = [k \in 0..n |->
             IF k = 0 THEN start ELSE Grown(edges, h[k - 1])]
  BY <1>6 DEF Solves
<1>8. h[0] = start
  BY <1>7
<1>9. ASSUME NEW k \in 1..n PROVE h[k] = Grown(edges, h[k - 1])
  <2>1. k \in 0..n /\ k # 0
    OBVIOUS
  <2>2. QED
    BY <1>7, <2>1
<1>10. QED
  BY <1>5, <1>8, <1>9

(* A set that holds the start and no edge leads out of holds all reached.   *)
LEMMA ReachedWithin ==
  ASSUME NEW edges, NEW n \in Nat, NEW start, NEW C,
         start \subseteq C, Neighbours(edges, C) \subseteq C
  PROVE  Reached(edges, n, start) \subseteq C
<1>1. PICK g : /\ g[0] = start
               /\ \A k \in 1..n : g[k] = Grown(edges, g[k - 1])
               /\ Reached(edges, n, start) = g[n]
  BY ReachedSteps
<1> DEFINE S == {k \in Nat : k <= n => g[k] \subseteq C}
<1>2. 0 \in S
  BY <1>1
<1>3. ASSUME NEW k \in Nat, k \in S PROVE k + 1 \in S
  <2>1. SUFFICES ASSUME k + 1 <= n PROVE g[k + 1] \subseteq C
    OBVIOUS
  <2>2. k + 1 \in 1..n /\ (k + 1) - 1 = k /\ g[k] \subseteq C
    BY <1>3, <2>1
  <2>3. g[k + 1] = Grown(edges, g[k])
    BY <1>1, <2>2
  <2>4. Grown(edges, g[k]) \subseteq C
    BY <2>2 DEF Grown, Neighbours
  <2>5. QED
    BY <2>2, <2>3, <2>4
<1> HIDE DEF S
<1>4. n \in S
  BY <1>2, <1>3, NaturalSteps
<1>5. QED
  BY <1>1, <1>4 DEF S

(* Along as many edges as there are places, no edge leads out of what is    *)
(* reached: a set that still grows has a place more each time.              *)
LEMMA ReachedClosed ==
  ASSUME NEW edges, NEW V, IsFiniteSet(V), NEW n \in Nat, Cardinality(V) <= n,
         NEW start, start \subseteq V, start # {}, Neighbours(edges, V) \subseteq V
  PROVE  /\ start \subseteq Reached(edges, n, start)
         /\ Neighbours(edges, Reached(edges, n, start)) \subseteq Reached(edges, n, start)
         /\ Reached(edges, n, start) \subseteq V
<1>1. PICK g : /\ g[0] = start
               /\ \A k \in 1..n : g[k] = Grown(edges, g[k - 1])
               /\ Reached(edges, n, start) = g[n]
  BY ReachedSteps
<1> DEFINE Closed(S) == Neighbours(edges, S) \subseteq S
           P(k) == /\ start \subseteq g[k] /\ g[k] \subseteq V
                   /\ Closed(g[k]) \/ Cardinality(g[k]) >= k + 1
           A == {k \in Nat : k <= n => P(k)}
<1>2. P(0)
  <2>1. IsFiniteSet(start) /\ Cardinality(start) \in Nat
    BY FS_Subset, FS_CardinalityType
  <2>2. Cardinality(start) # 0
    BY <2>1, FS_EmptySet
  <2>3. QED
    BY <1>1, <2>1, <2>2
<1>3. ASSUME NEW k \in Nat, k \in A PROVE k + 1 \in A
  <2>1. SUFFICES ASSUME k + 1 <= n PROVE P(k + 1)
    OBVIOUS
  <2>2. P(k) /\ k + 1 \in 1..n /\ (k + 1) - 1 = k
    BY <1>3, <2>1
  <2>3. g[k + 1] = g[k] \cup Neighbours(edges, g[k])
    BY <1>1, <2>2 DEF Grown
  <2>4. Neighbours(edges, g[k]) \subseteq Neighbours(edges, V)
    BY <2>2 DEF Neighbours
  <2>5. start \subseteq g[k + 1] /\ g[k + 1] \subseteq V
    BY <2>2, <2>3, <2>4
  <2>6. CASE Closed(g[k])
    BY <2>3, <2>5, <2>6
  <2>7. CASE ~ Closed(g[k])
    <3>1. IsFiniteSet(g[k]) /\ IsFiniteSet(g[k + 1])
      BY <2>2, <2>5, FS_Subset
    <3>2. g[k] \subseteq g[k + 1] /\ g[k] # g[k + 1]
      BY <2>3, <2>7
    <3>3. /\ Cardinality(g[k]) <= Cardinality(g[k + 1])
          /\ Cardinality(g[k]) # Cardinality(g[k + 1])
      BY <3>1, <3>2, FS_Subset
    <3>4. Cardinality(g[k]) \in Nat /\ Cardinality(g[k + 1]) \in Nat
      BY <3>1, FS_CardinalityType
    <3>5. Cardinality(g[k]) >= k + 1
      BY <2>2, <2>7
    <3>6. Cardinality(g[k + 1]) >= (k + 1) + 1
      BY <3>3, <3>4, <3>5
    <3>7. QED
      BY <2>5, <3>6
  <2>8. QED
    BY <2>6, <2>7
<1>4. 0 \in A
  BY <1>2
<1> HIDE DEF A
<1>5. n \in A
  BY <1>3, <1>4, NaturalSteps
<1>6. P(n)
  BY <1>5 DEF A
<1>7. CASE ~ Closed(g[n])
  <2>1. Cardinality(g[n]) >= n + 1
    BY <1>6, <1>7
  <2>2. Cardinality(g[n]) <= Cardinality(V) /\ Cardinality(g[n]) \in Nat /\ Cardinality(V) \in Nat
    BY <1>6, FS_Subset, FS_CardinalityType
  <2>3. QED
    BY <2>1, <2>2
<1>8. QED
  BY <1>1, <1>6, <1>7

=============================================================================
