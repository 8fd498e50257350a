--------------------- MODULE StructuralAuthoringProofs ---------------------
(***************************************************************************)
(* Theorems about the structural authoring of v1 strategies, for any       *)
(* strategies to begin with, any requests and any batches.                 *)
(***************************************************************************)
EXTENDS StructuralAuthoring, Foundations, SequenceTheorems

-----------------------------------------------------------------------------
(* Lists without repetition *)

Lists(order, D) ==
  /\ order \in Seq(D)
  /\ ToSet(order) = D
  /\ \A i, j \in DOMAIN order : order[i] = order[j] => i = j

(* A list has as many entries as it lists.                                  *)
LEMMA ListLength ==
  ASSUME NEW order, NEW D, Lists(order, D)
  PROVE  IsFiniteSet(D) /\ Cardinality(D) = Len(order)
<1>1. Len(order) \in Nat /\ DOMAIN order = 1..Len(order)
  BY DEF Lists
<1>2. order \in Bijection(1..Len(order), D)
  <2>1. order \in [1..Len(order) -> D]
    BY <1>1 DEF Lists
  <2>2. \A i, j \in 1..Len(order) : order[i] = order[j] => i = j
    BY <1>1 DEF Lists
  <2>3. \A d \in D : \E i \in 1..Len(order) : order[i] = d
    BY <1>1 DEF Lists, ToSet
  <2>4. QED
    BY <2>1, <2>2, <2>3 DEF Bijection, Injection, Surjection, IsInjective
<1>3. ExistsBijection(1..Len(order), D)
  BY <1>2 DEF ExistsBijection
<1>4. QED
  BY <1>1, <1>3, FS_CountingElements, FS_NatBijection

LEMMA ListJoined ==
  ASSUME NEW order, NEW D, Lists(order, D), NEW ids, NEW E, Lists(ids, E), D \cap E = {}
  PROVE  Lists(order \o ids, D \cup E)
<1> DEFINE U == D \cup E
           joined == order \o ids
<1>1. order \in Seq(U) /\ ids \in Seq(U)
  BY DEF Lists
<1>2. /\ joined \in Seq(U) /\ Len(joined) = Len(order) + Len(ids)
      /\ \A i \in 1..Len(joined) :
           joined[i] = IF i <= Len(order) THEN order[i] ELSE ids[i - Len(order)]
  BY <1>1
<1>3. Len(order) \in Nat /\ Len(ids) \in Nat /\ DOMAIN joined = 1..Len(joined)
  BY <1>1, <1>2
<1> HIDE DEF joined
<1>4. \A i \in 1..Len(order) : order[i] \in D
  BY DEF Lists
<1>5. \A i \in 1..Len(ids) : ids[i] \in E
  BY DEF Lists
<1>6. ASSUME NEW i \in DOMAIN joined, NEW j \in DOMAIN joined, joined[i] = joined[j]
      PROVE  i = j
  <2>1. CASE i <= Len(order) /\ j <= Len(order)
    BY <1>2, <1>3, <1>6, <2>1 DEF Lists
  <2>2. CASE i > Len(order) /\ j > Len(order)
    <3>1. i - Len(order) \in DOMAIN ids /\ j - Len(order) \in DOMAIN ids
      BY <1>2, <1>3, <2>2
    <3>2. ids[i - Len(order)] = ids[j - Len(order)]
      BY <1>2, <1>3, <1>6, <2>2
    <3>3. i - Len(order) = j - Len(order)
      BY <3>1, <3>2 DEF Lists
    <3>4. QED
      BY <3>3, <1>3
  <2>3. CASE ~ (i <= Len(order) <=> j <= Len(order))
    <3>1. \A k \in DOMAIN joined : k <= Len(order) => joined[k] \in D
      BY <1>2, <1>3, <1>4
    <3>2. \A k \in DOMAIN joined : k > Len(order) => joined[k] \in E
      <4>1. SUFFICES ASSUME NEW k \in DOMAIN joined, k > Len(order) PROVE joined[k] \in E
        OBVIOUS
      <4>2. k - Len(order) \in 1..Len(ids) /\ joined[k] = ids[k - Len(order)]
        BY <4>1, <1>2, <1>3
      <4>3. QED
        BY <4>2, <1>5
    <3>3. QED
      BY <2>3, <3>1, <3>2, <1>6, <1>3
  <2>4. QED
    BY <2>1, <2>2, <2>3, <1>3
<1>7. ToSet(joined) = U
  <2>1. ASSUME NEW d \in D PROVE d \in ToSet(joined)
    <3>1. PICK i \in DOMAIN order : d = order[i]
      BY DEF Lists, ToSet
    <3>2. i \in DOMAIN joined /\ joined[i] = d
      BY <3>1, <1>2, <1>3 DEF Lists
    <3>3. QED
      BY <3>2 DEF ToSet
  <2>2. ASSUME NEW e \in E PROVE e \in ToSet(joined)
    <3>1. PICK i \in DOMAIN ids : e = ids[i]
      BY DEF Lists, ToSet
    <3>2. Len(order) + i \in DOMAIN joined /\ joined[Len(order) + i] = e
      BY <3>1, <1>2, <1>3 DEF Lists
    <3>3. QED
      BY <3>2 DEF ToSet
  <2>3. ToSet(joined) \subseteq U
    BY <1>2, <1>3 DEF ToSet
  <2>4. QED
    BY <2>1, <2>2, <2>3
<1>8. QED
  BY <1>2, <1>6, <1>7 DEF Lists, joined

LEMMA EntriesJoined ==
  ASSUME NEW U, NEW f \in Seq(U), NEW g \in Seq(U), NEW m \in Nat, NEW n \in Nat,
         Len(f) = m, Len(g) = n
  PROVE  /\ f \o g \in Seq(U) /\ Len(f \o g) = m + n
         /\ \A j \in 1..(m + n) : (f \o g)[j] = IF j <= m THEN f[j] ELSE g[j - m]
OBVIOUS

(* An entry more, and one less.                                             *)
Longer(list, U, order, i, e) ==
  /\ list \in Seq(U) /\ Len(list) = Len(order) + 1
  /\ \A j \in 1..(Len(order) + 1) :
       list[j] = IF j < i THEN order[j] ELSE IF j = i THEN e ELSE order[j - 1]

Shorter(list, U, order, i) ==
  /\ list \in Seq(U) /\ Len(list) = Len(order) - 1
  /\ \A j \in 1..(Len(order) - 1) : list[j] = IF j < i THEN order[j] ELSE order[j + 1]

LEMMA EntriesInserted ==
  ASSUME NEW U, NEW order \in Seq(U), NEW i \in 1..Len(order), NEW e \in U
  PROVE  Longer(InsertAt(order, i, e), U, order, i, e)
<1> DEFINE n == Len(order)
           before == SubSeq(order, 1, i - 1)
           after == SubSeq(order, i, n)
<1>1. n \in Nat
  OBVIOUS
<1>2. /\ before \in Seq(U) /\ Len(before) = i - 1
      /\ \A j \in 1..(i - 1) : before[j] = order[j]
  BY <1>1, SubSeqProperties
<1>3. /\ after \in Seq(U) /\ Len(after) = n - i + 1
      /\ \A j \in 1..(n - i + 1) : after[j] = order[i + j - 1]
  BY <1>1, SubSeqProperties
<1>4. InsertAt(order, i, e) = before \o <<e>> \o after
  BY DEF InsertAt
<1>5. <<e>> \in Seq(U) /\ Len(<<e>>) = 1 /\ <<e>>[1] = e
  OBVIOUS
<1> HIDE DEF before, after
<1> DEFINE front == before \o <<e>>
<1>6. /\ front \in Seq(U) /\ Len(front) = i
      /\ \A j \in 1..i : front[j] = IF j < i THEN order[j] ELSE e
  BY <1>2, <1>5
<1> HIDE DEF front
<1> DEFINE whole == front \o after
<1>7. /\ whole \in Seq(U) /\ Len(whole) = n + 1
      /\ \A j \in 1..(n + 1) : whole[j] = IF j <= i THEN front[j] ELSE after[j - i]
  <2> DEFINE p == n - i + 1
  <2>1. i \in Nat /\ p \in Nat /\ i + p = n + 1
    BY <1>1
  <2>2. Len(after) = p /\ after \in Seq(U) /\ front \in Seq(U) /\ Len(front) = i
    BY <1>3, <1>6
  <2> HIDE DEF p, n
  <2>3. /\ front \o after \in Seq(U) /\ Len(front \o after) = i + p
        /\ \A j \in 1..(i + p) : (front \o after)[j] = IF j <= i THEN front[j] ELSE after[j - i]
    BY ONLY <2>1, <2>2
  <2>4. QED
    BY <2>1, <2>3
<1> HIDE DEF whole
<1>8. ASSUME NEW j \in 1..(n + 1)
      PROVE  whole[j] = IF j < i THEN order[j] ELSE IF j = i THEN e ELSE order[j - 1]
  <2>1. CASE j <= i
    BY <1>6, <1>7, <2>1
  <2>2. CASE j > i
    <3>1. j - i \in 1..(n - i + 1) /\ i + (j - i) - 1 = j - 1
      BY <1>1, <2>2
    <3>2. QED
      BY <1>3, <1>7, <2>2, <3>1
  <2>3. QED
    BY <2>1, <2>2
<1>9. InsertAt(order, i, e) = whole
  BY <1>4 DEF whole, front
<1>10. QED
  BY <1>7, <1>8, <1>9 DEF Longer

LEMMA EntriesRemoved ==
  ASSUME NEW U, NEW order \in Seq(U), NEW i \in 1..Len(order)
  PROVE  Shorter(RemoveAt(order, i), U, order, i)
<1> DEFINE n == Len(order)
           before == SubSeq(order, 1, i - 1)
           after == SubSeq(order, i + 1, n)
<1>1. n \in Nat
  OBVIOUS
<1>2. /\ before \in Seq(U) /\ Len(before) = i - 1
      /\ \A j \in 1..(i - 1) : before[j] = order[j]
  BY <1>1, SubSeqProperties
<1>3. /\ after \in Seq(U) /\ Len(after) = n - i
      /\ \A j \in 1..(n - i) : after[j] = order[i + j]
  BY <1>1, SubSeqProperties
<1>4. RemoveAt(order, i) = before \o after
  BY DEF RemoveAt
<1> HIDE DEF before, after
<1> DEFINE whole == before \o after
<1>5. /\ whole \in Seq(U) /\ Len(whole) = n - 1
      /\ \A j \in 1..(n - 1) : whole[j] = IF j <= i - 1 THEN before[j] ELSE after[j - (i - 1)]
  <2> DEFINE m == i - 1
             p == n - i
  <2>1. m \in Nat /\ p \in Nat /\ m + p = n - 1
    BY <1>1
  <2>2. before \in Seq(U) /\ after \in Seq(U) /\ Len(before) = m /\ Len(after) = p
    BY <1>2, <1>3
  <2> HIDE DEF m, p, n
  <2>3. /\ before \o after \in Seq(U) /\ Len(before \o after) = m + p
        /\ \A j \in 1..(m + p) : (before \o after)[j] = IF j <= m THEN before[j] ELSE after[j - m]
    BY ONLY <2>1, <2>2, SMTT(30)
  <2>4. QED
    BY <2>1, <2>3 DEF m
<1> HIDE DEF whole
<1>6. ASSUME NEW j \in 1..(n - 1)
      PROVE  whole[j] = IF j < i THEN order[j] ELSE order[j + 1]
  <2>1. CASE j < i
    BY <1>2, <1>5, <2>1
  <2>2. CASE j >= i
    <3>1. j - (i - 1) \in 1..(n - i) /\ i + (j - (i - 1)) = j + 1
      BY <1>1, <2>2
    <3>2. QED
      BY <1>3, <1>5, <2>2, <3>1
  <2>3. QED
    BY <2>1, <2>2
<1>7. RemoveAt(order, i) = whole
  BY <1>4 DEF whole
<1>8. QED
  BY <1>5, <1>6, <1>7 DEF Shorter

LEMMA ListInserted ==
  ASSUME NEW order, NEW D, Lists(order, D), NEW e, e \notin D, NEW i \in DOMAIN order
  PROVE  Lists(InsertAt(order, i, e), D \cup {e})
<1> DEFINE U == D \cup {e}
           list == InsertAt(order, i, e)
           n == Len(order)
<1>1. order \in Seq(U) /\ e \in U /\ n \in Nat /\ DOMAIN order = 1..n
  BY DEF Lists
<1>e. i \in 1..Len(order)
  BY <1>1
<1> HIDE DEF U
<1>2. /\ list \in Seq(U) /\ Len(list) = n + 1
      /\ \A j \in 1..(n + 1) : list[j] = IF j < i THEN order[j] ELSE IF j = i THEN e ELSE order[j - 1]
  <2>1. Longer(list, U, order, i, e)
    BY <1>1, <1>e, EntriesInserted, Zenon
  <2>2. QED
    BY <2>1 DEF Longer
<1>3. DOMAIN list = 1..(n + 1)
  BY <1>2
<1> HIDE DEF list
<1>4. \A j \in 1..n : order[j] # e
  BY <1>1 DEF Lists
<1>5. ASSUME NEW j \in 1..(n + 1), NEW k \in 1..(n + 1), list[j] = list[k]
      PROVE  j = k
  <2> DEFINE at(x) == IF x < i THEN x ELSE x - 1
  <2>1. \A x \in 1..(n + 1) : x # i => at(x) \in 1..n /\ list[x] = order[at(x)]
    BY <1>1, <1>2
  <2>2. j = i <=> k = i
    BY <1>2, <1>4, <1>5, <2>1
  <2>3. CASE j # i
    <3>1. at(j) = at(k)
      BY <2>1, <2>2, <2>3, <1>5, <1>1 DEF Lists
    <3>2. QED
      BY <3>1, <2>2, <2>3, <1>1
  <2>4. QED
    BY <2>2, <2>3
<1>6. ASSUME NEW d \in U PROVE d \in ToSet(list)
  <2>1. CASE d = e
    <3>1. i \in 1..(n + 1) /\ list[i] = e
      BY <1>1, <1>2
    <3>2. QED
      BY <2>1, <3>1, <1>3 DEF ToSet
  <2>2. CASE d \in D
    <3>1. PICK x \in 1..n : order[x] = d
      BY <1>1, <2>2 DEF Lists, ToSet
    <3>2. \/ x \in 1..(n + 1) /\ list[x] = d
          \/ x + 1 \in 1..(n + 1) /\ list[x + 1] = d
      BY <1>1, <1>2, <3>1
    <3>3. QED
      BY <3>2, <1>3 DEF ToSet
  <2>3. QED
    BY <2>1, <2>2 DEF U
<1>7. ToSet(list) \subseteq U
  BY <1>2, <1>3 DEF ToSet
<1>8. Lists(list, U)
  BY <1>2, <1>3, <1>5, <1>6, <1>7 DEF Lists
<1>9. QED
  BY <1>8 DEF list, U

LEMMA ListRemoved ==
  ASSUME NEW order, NEW D, Lists(order, D), NEW i \in DOMAIN order
  PROVE  Lists(RemoveAt(order, i), D \ {order[i]})
<1> DEFINE list == RemoveAt(order, i)
           n == Len(order)
           U == D \ {order[i]}
<1>1. order \in Seq(D) /\ n \in Nat /\ DOMAIN order = 1..n
  BY DEF Lists
<1>2. /\ list \in Seq(D) /\ Len(list) = n - 1
      /\ \A j \in 1..(n - 1) : list[j] = IF j < i THEN order[j] ELSE order[j + 1]
  BY <1>1, EntriesRemoved DEF Shorter
<1>3. DOMAIN list = 1..(n - 1)
  BY <1>2
<1> HIDE DEF list
<1> DEFINE at(x) == IF x < i THEN x ELSE x + 1
<1>4. \A x \in 1..(n - 1) : at(x) \in 1..n /\ at(x) # i /\ list[x] = order[at(x)]
  BY <1>1, <1>2, SMTT(30)
<1>5. \A x, y \in 1..n : order[x] = order[y] => x = y
  BY <1>1 DEF Lists
<1>6. \A x \in 1..(n - 1) : list[x] \in U
  BY <1>1, <1>4, <1>5
<1>7. list \in Seq(U)
  <2>1. list = [x \in 1..(n - 1) |-> list[x]]
    BY <1>2, <1>3
  <2>2. n - 1 \in Nat
    BY <1>1
  <2>3. [x \in 1..(n - 1) |-> list[x]] \in Seq(U)
    BY <1>6, <2>2
  <2>4. QED
    BY <2>1, <2>3
<1>8. ASSUME NEW x \in 1..(n - 1), NEW y \in 1..(n - 1), list[x] = list[y] PROVE x = y
  <2>1. at(x) = at(y)
    BY <1>4, <1>5, <1>8
  <2>2. QED
    BY <2>1, <1>1
<1>9. ASSUME NEW d \in U PROVE d \in ToSet(list)
  <2>1. PICK x \in 1..n : order[x] = d
    BY <1>1 DEF Lists, ToSet
  <2>2. x # i
    BY <2>1
  <2>3. \/ x \in 1..(n - 1) /\ list[x] = d
        \/ x - 1 \in 1..(n - 1) /\ list[x - 1] = d
    BY <1>1, <1>2, <2>1, <2>2
  <2>4. QED
    BY <2>3, <1>3 DEF ToSet
<1>10. ToSet(list) \subseteq U
  BY <1>3, <1>6 DEF ToSet
<1>11. QED
  BY <1>3, <1>7, <1>8, <1>9, <1>10 DEF Lists, list

(* What was inserted comes out again.                                       *)
LEMMA InsertedRemoved ==
  ASSUME NEW order, NEW D, Lists(order, D), NEW e, NEW i \in DOMAIN order
  PROVE  RemoveAt(InsertAt(order, i, e), i) = order
<1> DEFINE U == D \cup {e}
           list == InsertAt(order, i, e)
           n == Len(order)
           out == RemoveAt(list, i)
<1>1. order \in Seq(U) /\ e \in U /\ n \in Nat /\ DOMAIN order = 1..n
  BY DEF Lists
<1>e. i \in 1..Len(order)
  BY <1>1
<1> HIDE DEF U
<1>2. /\ list \in Seq(U) /\ Len(list) = n + 1
      /\ \A j \in 1..(n + 1) : list[j] = IF j < i THEN order[j] ELSE IF j = i THEN e ELSE order[j - 1]
  <2>1. Longer(list, U, order, i, e)
    BY <1>1, <1>e, EntriesInserted, Zenon
  <2>2. QED
    BY <2>1 DEF Longer
<1> HIDE DEF list
<1>3. /\ out \in Seq(U) /\ Len(out) = n
      /\ \A j \in 1..n : out[j] = IF j < i THEN list[j] ELSE list[j + 1]
  <2>1. i \in 1..Len(list) /\ Len(list) - 1 = n
    BY <1>1, <1>2
  <2>2. /\ out \in Seq(U) /\ Len(out) = Len(list) - 1
        /\ \A j \in 1..(Len(list) - 1) : out[j] = IF j < i THEN list[j] ELSE list[j + 1]
    BY <1>2, <2>1, EntriesRemoved DEF Shorter
  <2>3. QED
    BY <2>1, <2>2
<1> HIDE DEF out
<1>4. ASSUME NEW j \in 1..n PROVE out[j] = order[j]
  <2>1. j \in 1..(n + 1) /\ j + 1 \in 1..(n + 1) /\ (j + 1) - 1 = j
    BY <1>1
  <2>2. CASE j < i
    BY <1>2, <1>3, <2>1, <2>2
  <2>3. CASE ~ (j < i)
    <3>1. ~ (j + 1 < i) /\ j + 1 # i
      BY <1>1, <2>3
    <3>2. list[j + 1] = order[j]
      BY <1>2, <2>1, <3>1
    <3>3. QED
      BY <1>3, <2>3, <3>2
  <2>4. QED
    BY <2>2, <2>3
<1>5. out = order
  BY <1>1, <1>3, <1>4
<1>6. QED
  BY <1>5 DEF out, list

LEMMA AppendedRemoved ==
  ASSUME NEW order, NEW D, Lists(order, D), NEW e
  PROVE  RemoveAt(order \o <<e>>, Len(order) + 1) = order
<1> DEFINE U == D \cup {e}
           list == order \o <<e>>
           n == Len(order)
           out == RemoveAt(list, n + 1)
<1>1. order \in Seq(U) /\ e \in U /\ n \in Nat /\ DOMAIN order = 1..n
  BY DEF Lists
<1>e. DOMAIN order = 1..Len(order)
  BY <1>1
<1> HIDE DEF U
<1>2. list \in Seq(U) /\ Len(list) = n + 1 /\ \A j \in 1..n : list[j] = order[j]
  BY <1>1
<1> HIDE DEF list
<1>3. out \in Seq(U) /\ Len(out) = n /\ \A j \in 1..n : out[j] = list[j]
  <2>1. n + 1 \in 1..Len(list) /\ Len(list) - 1 = n
    BY <1>1, <1>2
  <2>2. /\ out \in Seq(U) /\ Len(out) = Len(list) - 1
        /\ \A j \in 1..(Len(list) - 1) : out[j] = IF j < n + 1 THEN list[j] ELSE list[j + 1]
    BY <1>2, <2>1, EntriesRemoved DEF Shorter
  <2>3. QED
    BY <2>1, <2>2
<1> HIDE DEF out
<1>4. out = order
  BY <1>1, <1>2, <1>3
<1>5. QED
  BY <1>4 DEF out, list

-----------------------------------------------------------------------------
(* The parts of a loaded document, each of which an operation replaces      *)

Fields == {"order", "node", "wires", "entry", "sets", "universes"}

Listed(order, node) ==
  /\ Lists(order, DOMAIN node)
  /\ Functional(node) /\ DOMAIN node \subseteq Nat
  /\ \A c \in DOMAIN node : Configured(node[c])

Shaped(wires) == \A w \in wires : w = Wire(w.from, w.to, w.port)

Definitions(sets) == Functional(sets) /\ IsFiniteSet(DOMAIN sets)

(* No operation touches the universes.                                      *)
Universes == {s.universes : s \in Starts}

Kept(s) == Loaded(s) /\ s.universes \in Universes

LEMMA KeptParts ==
  ASSUME NEW s
  PROVE  Kept(s) <=> /\ Functional(s) /\ DOMAIN s = Fields
                     /\ Listed(s.order, s.node) /\ Shaped(s.wires) /\ Definitions(s.sets)
                     /\ s.universes \in Universes
BY DEF Kept, Loaded, Listed, Lists, Shaped, Definitions, Fields

LEMMA GraphReplaced ==
  ASSUME NEW s, Kept(s), NEW order, NEW node, Listed(order, node)
  PROVE  Kept([s EXCEPT !.order = order, !.node = node])
<1> DEFINE t == [s EXCEPT !.order = order, !.node = node]
<1>1. /\ DOMAIN t = Fields /\ t.order = order /\ t.node = node /\ t.wires = s.wires /\ t.sets = s.sets
      /\ t.universes = s.universes
  BY KeptParts DEF Fields
<1>2. Functional(t)
  BY DEF Functional
<1> HIDE DEF t
<1>3. Kept(t)
  BY <1>1, <1>2, KeptParts
<1>4. QED
  BY <1>3 DEF t

LEMMA NodesReplaced ==
  ASSUME NEW s, Kept(s), NEW node, Listed(s.order, node)
  PROVE  Kept([s EXCEPT !.node = node])
<1> DEFINE t == [s EXCEPT !.node = node]
<1>1. /\ DOMAIN t = Fields /\ t.order = s.order /\ t.node = node /\ t.wires = s.wires /\ t.sets = s.sets
      /\ t.universes = s.universes
  BY KeptParts DEF Fields
<1>2. Functional(t)
  BY DEF Functional
<1> HIDE DEF t
<1>3. Kept(t)
  BY <1>1, <1>2, KeptParts
<1>4. QED
  BY <1>3 DEF t

LEMMA WiresReplaced ==
  ASSUME NEW s, Kept(s), NEW wires, Shaped(wires)
  PROVE  Kept([s EXCEPT !.wires = wires])
<1> DEFINE t == [s EXCEPT !.wires = wires]
<1>1. /\ DOMAIN t = Fields /\ t.order = s.order /\ t.node = s.node /\ t.wires = wires /\ t.sets = s.sets
      /\ t.universes = s.universes
  BY KeptParts DEF Fields
<1>2. Functional(t)
  BY DEF Functional
<1> HIDE DEF t
<1>3. Kept(t)
  BY <1>1, <1>2, KeptParts
<1>4. QED
  BY <1>3 DEF t

LEMMA SetsReplaced ==
  ASSUME NEW s, Kept(s), NEW sets, Definitions(sets)
  PROVE  Kept([s EXCEPT !.sets = sets])
<1> DEFINE t == [s EXCEPT !.sets = sets]
<1>1. /\ DOMAIN t = Fields /\ t.order = s.order /\ t.node = s.node /\ t.wires = s.wires /\ t.sets = sets
      /\ t.universes = s.universes
  BY KeptParts DEF Fields
<1>2. Functional(t)
  BY DEF Functional
<1> HIDE DEF t
<1>3. Kept(t)
  BY <1>1, <1>2, KeptParts
<1>4. QED
  BY <1>3 DEF t

(* A definition entered, changed or dropped.                                *)
LEMMA DefinitionsKept ==
  ASSUME NEW sets, Definitions(sets), NEW key, NEW value
  PROVE  /\ Definitions(Entered(sets, key, value))
         /\ Definitions(Dropped(sets, key))
         /\ Definitions([sets EXCEPT ![key] = value])
<1>1. /\ Functional(Entered(sets, key, value)) /\ Functional(Dropped(sets, key))
      /\ Functional([sets EXCEPT ![key] = value])
  BY DEF Functional, Entered, Dropped
<1>2. /\ DOMAIN Entered(sets, key, value) = (DOMAIN sets) \cup {key}
      /\ DOMAIN Dropped(sets, key) = (DOMAIN sets) \ {key}
      /\ DOMAIN [sets EXCEPT ![key] = value] = DOMAIN sets
  BY DEF Entered, Dropped
<1>3. IsFiniteSet((DOMAIN sets) \cup {key}) /\ IsFiniteSet((DOMAIN sets) \ {key})
  BY FS_Singleton, FS_Union, FS_Difference DEF Definitions
<1>4. QED
  BY <1>1, <1>2, <1>3 DEF Definitions

(* Nodes entered at the end of the document.                                *)
LEMMA WithKept ==
  ASSUME NEW s, Kept(s), NEW ids, NEW E, Lists(ids, E), E \subseteq Nat,
         E \cap DOMAIN s.node = {}, NEW nodes, \A i \in DOMAIN ids : Configured(nodes[i])
  PROVE  Kept(With(s, ids, nodes))
<1> DEFINE added(c) == nodes[CHOOSE i \in DOMAIN ids : ids[i] = c]
           node == [c \in DOMAIN s.node \cup ToSet(ids) |->
                      IF c \in ToSet(ids) THEN added(c) ELSE s.node[c]]
           order == s.order \o ids
<1>1. With(s, ids, nodes) = [s EXCEPT !.order = order, !.node = node]
  BY KeptParts DEF With, Fields
<1>2. ToSet(ids) = E
  BY DEF Lists
<1>3. ASSUME NEW c \in E PROVE Configured(added(c))
  <2>1. \E i \in DOMAIN ids : ids[i] = c
    BY <1>2 DEF ToSet
  <2>2. QED
    BY <2>1
<1> HIDE DEF added
<1>4. Listed(s.order, s.node)
  BY KeptParts
<1>5. DOMAIN node = DOMAIN s.node \cup E /\ Functional(node)
  BY <1>2 DEF Functional
<1>6. Lists(order, DOMAIN node)
  BY <1>4, <1>5, ListJoined DEF Listed
<1>7. ASSUME NEW c \in DOMAIN node PROVE Configured(node[c])
  BY <1>2, <1>3, <1>4, <1>5 DEF Listed
<1>8. Listed(order, node)
  BY <1>4, <1>5, <1>6, <1>7 DEF Listed
<1> HIDE DEF order, node
<1>9. Kept([s EXCEPT !.order = order, !.node = node])
  BY <1>8, GraphReplaced, Zenon
<1>10. QED
  BY <1>1, <1>9

LEMMA PositionKnown ==
  ASSUME NEW s, Kept(s), NEW c \in DOMAIN s.node
  PROVE  Position(s, c) \in DOMAIN s.order /\ s.order[Position(s, c)] = c
<1>1. \E i \in DOMAIN s.order : s.order[i] = c
  BY KeptParts DEF Listed, Lists, ToSet
<1>2. QED
  BY <1>1 DEF Position

LEMMA WithoutKept ==
  ASSUME NEW s, Kept(s), NEW c \in DOMAIN s.node
  PROVE  Kept(Without(s, c))
<1> DEFINE node == Dropped(s.node, c)
           order == RemoveAt(s.order, Position(s, c))
<1>1. Without(s, c) = [s EXCEPT !.order = order, !.node = node]
  BY KeptParts DEF Without, Fields
<1>2. Listed(s.order, s.node)
  BY KeptParts
<1>3. /\ DOMAIN node = (DOMAIN s.node) \ {c} /\ Functional(node)
      /\ \A d \in DOMAIN node : node[d] = s.node[d]
  BY DEF Dropped, Functional
<1>4. Lists(order, DOMAIN node)
  BY <1>2, <1>3, PositionKnown, ListRemoved DEF Listed
<1>5. Listed(order, node)
  BY <1>2, <1>3, <1>4 DEF Listed
<1> HIDE DEF order, node
<1>6. Kept([s EXCEPT !.order = order, !.node = node])
  BY <1>5, GraphReplaced, Zenon
<1>7. QED
  BY <1>1, <1>6

(* A component replaced by another with the configuration of its primitive. *)
LEMMA NodeReplaced ==
  ASSUME NEW s, Kept(s), NEW c, NEW n, c \in DOMAIN s.node => Configured(n)
  PROVE  Kept([s EXCEPT !.node = [s.node EXCEPT ![c] = n]])
<1> DEFINE node == [s.node EXCEPT ![c] = n]
<1>1. Listed(s.order, s.node)
  BY KeptParts
<1>2. DOMAIN node = DOMAIN s.node /\ Functional(node)
  BY DEF Functional
<1>3. \A d \in DOMAIN s.node : node[d] = IF d = c THEN n ELSE s.node[d]
  BY DEF Functional
<1> HIDE DEF node
<1>4. Listed(s.order, node)
  BY <1>1, <1>2, <1>3 DEF Listed
<1>5. QED
  BY <1>4, NodesReplaced DEF node

-----------------------------------------------------------------------------
(* Components and wires *)

LEMMA PlainConfigured ==
  ASSUME NEW prim
  PROVE  /\ Plain(prim).prim = prim /\ Plain(prim).ref = None
         /\ Configured(Plain(prim))
<1>1. Plain(prim).prim = prim /\ Plain(prim).ref = None
  BY DEF Plain
<1>2. QED
  BY <1>1 DEF Configured

LEMMA SamePlainFields ==
  ASSUME NEW prim, NEW other
  PROVE  DOMAIN Plain(prim) = DOMAIN Plain(other) /\ {"prim", "ref"} \subseteq DOMAIN Plain(prim)
BY DEF Plain

Referring == {"asset_set", "fallback", "universe"}

(* A value edited in a component other than a rebalance.                    *)
LEMMA ValueEdited ==
  ASSUME NEW n, Configured(n), n.prim # "rebalance", NEW field, field # "prim",
         field = "ref" => n.prim \in Referring, NEW value
  PROVE  Configured([n EXCEPT ![field] = value]) /\ [n EXCEPT ![field] = value].prim = n.prim
<1> DEFINE m == [n EXCEPT ![field] = value]
<1>1. "prim" \in DOMAIN n /\ "ref" \in DOMAIN n
  BY SamePlainFields DEF Configured
<1>2. DOMAIN m = DOMAIN n /\ m.prim = n.prim /\ (field # "ref" => m.ref = n.ref)
  BY <1>1
<1> HIDE DEF m
<1>3. Configured(m)
  BY <1>2 DEF Configured, Referring
<1>4. QED
  BY <1>2, <1>3 DEF m

LEMMA WireEnds ==
  ASSUME NEW from, NEW to, NEW port
  PROVE  /\ Wire(from, to, port).from = from /\ Wire(from, to, port).to = to
         /\ Wire(from, to, port).port = port
BY DEF Wire

LEMMA WireShaped ==
  ASSUME NEW from, NEW to, NEW port
  PROVE  Shaped({Wire(from, to, port)})
BY WireEnds DEF Shaped

LEMMA ShapedTogether ==
  ASSUME NEW W, NEW V, Shaped(W), Shaped(V)
  PROVE  Shaped(W \cup V) /\ \A U \in SUBSET W : Shaped(U)
BY DEF Shaped

LEMMA ThroughShaped ==
  ASSUME NEW w, NEW c, NEW port
  PROVE  Shaped(Through(w, c, port))
BY WireEnds DEF Shaped, Through

LEMMA RewiredKept ==
  ASSUME NEW s, Kept(s), NEW w, NEW wires, Shaped(wires)
  PROVE  Kept(Rewired(s, w, wires))
<1> DEFINE after == (s.wires \ {w}) \cup wires
<1>1. Shaped(after)
  BY KeptParts DEF Shaped
<1>2. Rewired(s, w, wires) = [s EXCEPT !.wires = after]
  BY KeptParts DEF Rewired, Fields
<1> HIDE DEF after
<1>3. Kept([s EXCEPT !.wires = after])
  BY <1>1, WiresReplaced, Zenon
<1>4. QED
  BY <1>2, <1>3

(* What a component is named in a strategy is known.                        *)
LEMMA KnownPrimitive ==
  ASSUME NEW s, NEW c, NEW prims, prims \subseteq Primitives, Prim(s, c) \in prims
  PROVE  c \in DOMAIN s.node /\ s.node[c].prim \in prims
BY NoneAssumption DEF Prim

LEMMA BypassedKept ==
  ASSUME NEW s, Kept(s), NEW c \in DOMAIN s.node, NEW froms, NEW tos,
         NEW t \in Bypassed(s, c, froms, tos)
  PROVE  Kept(t)
<1> DEFINE r == Without(s, c)
<1>1. PICK w, v : t = [r EXCEPT !.wires = (r.wires \ {w, v}) \cup {Wire(w.from, v.to, v.port)}]
  <2>1. PICK w \in {x \in {y \in s.wires : y.to = c} \X WiresFrom(s, c) :
              /\ {y \in s.wires : c \in {y.from, y.to}} = {x[1], x[2]}
              /\ Prim(s, x[1].from) \in froms
              /\ Prim(s, x[2].to) \in tos} :
          t = [r EXCEPT !.wires = (@ \ {w[1], w[2]}) \cup {Wire(w[1].from, w[2].to, w[2].port)}]
    BY DEF Bypassed
  <2>2. "wires" \in DOMAIN r
    BY WithoutKept, KeptParts DEF Fields
  <2>3. t = [r EXCEPT !.wires = (r.wires \ {w[1], w[2]}) \cup {Wire(w[1].from, w[2].to, w[2].port)}]
    BY <2>1, <2>2
  <2>4. QED
    BY <2>3
<1> DEFINE after == (r.wires \ {w, v}) \cup {Wire(w.from, v.to, v.port)}
<1>2. Kept(r)
  BY WithoutKept
<1> HIDE DEF r
<1>3. Shaped(after)
  BY <1>2, KeptParts, WireEnds DEF Shaped
<1> HIDE DEF after
<1>4. Kept([r EXCEPT !.wires = after])
  BY <1>2, <1>3, WiresReplaced, Zenon
<1>5. QED
  BY <1>1, <1>4 DEF after

LEMMA EditedKept ==
  ASSUME NEW s, Kept(s), NEW c, NEW prims, prims \subseteq Primitives, "rebalance" \notin prims,
         NEW field, field # "prim", field = "ref" => prims \subseteq Referring,
         NEW value, NEW t \in Edited(s, c, prims, field, value)
  PROVE  Kept(t)
<1> DEFINE n == [s.node[c] EXCEPT ![field] = value]
<1>1. Prim(s, c) \in prims /\ t = [s EXCEPT !.node[c][field] = value]
  BY DEF Edited
<1>2. c \in DOMAIN s.node /\ s.node[c].prim \in prims
  BY <1>1, KnownPrimitive
<1>3. Configured(s.node[c]) /\ "node" \in DOMAIN s
  BY <1>2, KeptParts DEF Listed, Fields
<1>4. Configured(n)
  BY <1>2, <1>3, ValueEdited
<1>5. t = [s EXCEPT !.node = [s.node EXCEPT ![c] = n]]
  BY <1>1, <1>2, <1>3
<1> HIDE DEF n
<1>6. Kept([s EXCEPT !.node = [s.node EXCEPT ![c] = n]])
  BY <1>4, NodeReplaced
<1>7. QED
  BY <1>5, <1>6

-----------------------------------------------------------------------------
(* What a consistent strategy says of its wires                             *)

LEMMA ResolvedGraph ==
  ASSUME NEW s, Kept(s)
  PROVE  /\ Resolved(s).wires = s.wires /\ Resolved(s).order = s.order
         /\ Resolved(s).entry = s.entry
         /\ DOMAIN Resolved(s).node = DOMAIN s.node
         /\ \A c : Prim(Resolved(s), c) = Prim(s, c)
<1> DEFINE value(c) == IF s.node[c].prim # "filter" THEN None
                       ELSE IF s.node[c].condition # None THEN s.node[c].condition
                       ELSE s.node[c].setting
           node == [c \in DOMAIN s.node |->
                      [s.node[c] EXCEPT !.assets = AssetsOf(s, s.node[c]), !.threshold = value(c)]]
<1>1. DOMAIN s = {"order", "node", "wires", "entry", "sets", "universes"}
  BY KeptParts DEF Fields
<1>2. Resolved(s) = [s EXCEPT !.node = node]
  BY <1>1 DEF Resolved
<1>3. DOMAIN node = DOMAIN s.node /\ \A c \in DOMAIN s.node : node[c].prim = s.node[c].prim
  <2> HIDE DEF value
  <2>1. \A c \in DOMAIN s.node : "prim" \in DOMAIN s.node[c]
    BY KeptParts, SamePlainFields DEF Listed, Configured
  <2>2. QED
    BY <2>1
<1> HIDE DEF node
<1>4. Resolved(s).node = node
  BY <1>1, <1>2
<1>5. /\ Resolved(s).wires = s.wires /\ Resolved(s).order = s.order
      /\ Resolved(s).entry = s.entry
  BY <1>1, <1>2
<1>6. QED
  BY <1>3, <1>4, <1>5 DEF Prim

LEMMA Connected ==
  ASSUME NEW s, Kept(s), Consistent(s), NEW w \in s.wires
  PROVE  /\ w.from \in DOMAIN s.node /\ w.to \in DOMAIN s.node
         /\ PortsOf(Prim(s, w.from)).out # None
         /\ <<w.port, PortsOf(Prim(s, w.from)).out>> \in PortsOf(Prim(s, w.to)).in
         /\ \A x \in s.wires : w.to = x.to /\ w.port = x.port /\ w.port # "sleeves" => w = x
<1>1. Connections(Resolved(s))
  BY DEF Consistent, Valid
<1>2. /\ {w.from, w.to} \subseteq DOMAIN s.node
      /\ PortsOf(Prim(s, w.from)).out # None
      /\ <<w.port, PortsOf(Prim(s, w.from)).out>> \in PortsOf(Prim(s, w.to)).in
  BY <1>1, ResolvedGraph DEF Connections
<1>3. \A x \in s.wires : w.to = x.to /\ w.port = x.port /\ w.port # "sleeves" => w = x
  BY <1>1, ResolvedGraph DEF Connections
<1>4. QED
  BY <1>2, <1>3

-----------------------------------------------------------------------------
(* Names of what a recipe adds                                              *)

LEMMA NamedApart ==
  ASSUME NEW c \in Nat
  PROVE  \E k \in {1, 20} :
           /\ Named(c, "cooldown") = c + k
           /\ Named(c, "defensive_asset_set") = c + 2 * k
           /\ Named(c, "defensive_assets") = c + 3 * k
           /\ Named(c, "defensive_sleeve") = c + 4 * k
           /\ Named(c, "defensive_weights") = c + 5 * k
           /\ Named(c, "fallback") = c + 6 * k
           /\ Named(c, "fallback_assets") = c + 7 * k
           /\ Named(c, "growth_sleeve") = c + 8 * k
           /\ Named(c, "portfolio") = c + 9 * k
           /\ Named(c, "qualification") = c + 10 * k
           /\ Named(c, "rank") = c + 11 * k
           /\ Named(c, "top_n") = c + 12 * k
           /\ Named(c, "trailing_return") = c + 13 * k
<1> DEFINE k == IF c % 1000 = 0 THEN 20 ELSE 1
<1>1. k \in {1, 20}
  OBVIOUS
<1>2. /\ Named(c, "cooldown") = c + 1 * k
      /\ Named(c, "defensive_asset_set") = c + 2 * k
      /\ Named(c, "defensive_assets") = c + 3 * k
      /\ Named(c, "defensive_sleeve") = c + 4 * k
      /\ Named(c, "defensive_weights") = c + 5 * k
      /\ Named(c, "fallback") = c + 6 * k
      /\ Named(c, "fallback_assets") = c + 7 * k
  BY DEF Named
<1>3. /\ Named(c, "growth_sleeve") = c + 8 * k
      /\ Named(c, "portfolio") = c + 9 * k
      /\ Named(c, "qualification") = c + 10 * k
      /\ Named(c, "rank") = c + 11 * k
      /\ Named(c, "top_n") = c + 12 * k
      /\ Named(c, "trailing_return") = c + 13 * k
  BY DEF Named
<1> HIDE DEF k
<1>4. 1 * k = k
  BY <1>1
<1>5. QED
  BY <1>1, <1>2, <1>3, <1>4

(* One, three and five components.                                          *)
LEMMA OneListed ==
  ASSUME NEW a \in Nat
  PROVE  Lists(<<a>>, {a})
BY DEF Lists, ToSet

LEMMA ThreeListed ==
  ASSUME NEW a \in Nat, NEW b \in Nat, NEW c \in Nat, a # b, a # c, b # c
  PROVE  Lists(<<a, b, c>>, {a, b, c})
BY DEF Lists, ToSet

LEMMA FiveListed ==
  ASSUME NEW a \in Nat, NEW b \in Nat, NEW c \in Nat, NEW d \in Nat, NEW e \in Nat,
         a < b, b < c, c < d, d < e
  PROVE  Lists(<<d, a, c, b, e>>, {a, b, c, d, e})
BY DEF Lists, ToSet

-----------------------------------------------------------------------------
(* Each operation answers with loaded documents                             *)

(* One component put on a wire.                                             *)
LEMMA AddedKept ==
  ASSUME NEW s, Kept(s), NEW id \in Nat, id \notin DOMAIN s.node, NEW n, Configured(n), NEW w,
         NEW port
  PROVE  Kept(Rewired(With(s, <<id>>, <<n>>), w, Through(w, id, port)))
<1> DEFINE r == With(s, <<id>>, <<n>>)
<1>1. Lists(<<id>>, {id}) /\ {id} \cap DOMAIN s.node = {} /\ {id} \subseteq Nat
  BY OneListed
<1>2. \A i \in DOMAIN <<id>> : Configured(<<n>>[i])
  OBVIOUS
<1>3. Kept(r)
  BY <1>1, <1>2, WithKept, Zenon
<1> HIDE DEF r
<1>4. Kept(Rewired(r, w, Through(w, id, port)))
  BY <1>3, RewiredKept, ThroughShaped
<1>5. QED
  BY <1>4 DEF r

LEMMA QualificationKept ==
  ASSUME NEW s, Kept(s), Consistent(s), NEW c, NEW v,
         NEW t \in AddQualification(s, c, v)
  PROVE  Kept(t)
<1> DEFINE id == Named(c, "qualification")
           n == [Plain("filter") EXCEPT !.setting = v]
<1>1. PICK w \in QualificationSlots(s, c) :
        /\ id \notin DOMAIN s.node
        /\ t = Rewired(With(s, <<id>>, <<n>>), w, Through(w, id, "scores"))
  BY DEF AddQualification
<1>2. c \in DOMAIN s.node
  BY <1>1, Connected DEF QualificationSlots, WiresTo
<1>3. c \in Nat
  BY <1>2, KeptParts DEF Listed
<1>4. id \in Nat
  BY <1>3, NamedApart
<1>5. Configured(n)
  BY PlainConfigured, ValueEdited
<1> HIDE DEF n, id
<1>6. Kept(Rewired(With(s, <<id>>, <<n>>), w, Through(w, id, "scores")))
  BY <1>1, <1>4, <1>5, AddedKept, Zenon
<1>7. QED
  BY <1>1, <1>6

LEMMA TakenOutKept ==
  ASSUME NEW s, Kept(s), NEW c
  PROVE  /\ \A t \in RemoveQualification(s, c) : Kept(t)
         /\ \A t \in RemoveFallback(s, c) : Kept(t)
         /\ \A t \in RemoveCooldown(s, c) : Kept(t)
<1>1. {"filter", "fallback", "cooldown"} \subseteq Primitives
  BY DEF Primitives, SelectionPorts, AllocationPorts
<1>2. Prim(s, c) \in {"filter", "fallback", "cooldown"} => c \in DOMAIN s.node
  BY <1>1, KnownPrimitive
<1>3. \A t \in RemoveQualification(s, c) : Kept(t)
  BY <1>2, BypassedKept DEF RemoveQualification
<1>4. \A t \in RemoveCooldown(s, c) : Kept(t)
  BY <1>2, BypassedKept DEF RemoveCooldown
<1>5. ASSUME NEW t \in RemoveFallback(s, c) PROVE Kept(t)
  <2>1. PICK r \in Bypassed(s, c, {"equal_weight"}, {"rebalance", "portfolio_sleeve"}) :
          c \in DOMAIN s.node /\ t = [r EXCEPT !.sets = Dropped(@, s.node[c].ref)]
    BY <1>2 DEF RemoveFallback
  <2>2. Kept(r)
    BY <2>1, BypassedKept
  <2> DEFINE sets == Dropped(r.sets, s.node[c].ref)
  <2>3. Definitions(sets)
    BY <2>2, KeptParts, DefinitionsKept
  <2>4. t = [r EXCEPT !.sets = sets]
    BY <2>1, <2>2, KeptParts DEF Fields
  <2> HIDE DEF sets
  <2>5. Kept([r EXCEPT !.sets = sets])
    BY <2>2, <2>3, SetsReplaced, Zenon
  <2>6. QED
    BY <2>4, <2>5
<1>6. QED
  BY <1>3, <1>4, <1>5

LEMMA ChosenKept ==
  ASSUME NEW s, Kept(s), Consistent(s), NEW c, NEW k, NEW n,
         NEW t \in ChooseAssets(s, c, k, n)
  PROVE  Kept(t)
<1> DEFINE ret  == Named(c, "trailing_return")
           rank == Named(c, "rank")
           top  == Named(c, "top_n")
           one == [Plain("trailing_return") EXCEPT !.lookback = k]
           two == Plain("rank")
           three == [Plain("top_n") EXCEPT !.count = n]
           r == With(s, <<ret, rank, top>>, <<one, two, three>>)
           wires(w) == {Wire(w.from, ret, "assets"), Wire(ret, rank, "scores"),
                        Wire(rank, top, "ranked"), Wire(top, c, "assets")}
<1>1. PICK w \in ChooseSlots(s, c) :
        Free(s, {ret, rank, top}) /\ t = Rewired(r, w, wires(w))
  BY DEF ChooseAssets
<1>2. c \in DOMAIN s.node
  BY <1>1, Connected DEF ChooseSlots, WiresTo
<1>3. c \in Nat
  BY <1>2, KeptParts DEF Listed
<1>4. ret \in Nat /\ rank \in Nat /\ top \in Nat /\ ret # rank /\ ret # top /\ rank # top
  BY <1>3, NamedApart
<1>5. Configured(one) /\ Configured(two) /\ Configured(three)
  BY PlainConfigured, ValueEdited
<1> HIDE DEF one, two, three, ret, rank, top
<1>6. Kept(r)
  <2> DEFINE E == {ret, rank, top}
  <2>1. Lists(<<ret, rank, top>>, E) /\ E \subseteq Nat
    BY <1>4, ThreeListed
  <2>2. E \cap DOMAIN s.node = {}
    BY <1>1 DEF Free, Occupied
  <2>3. \A i \in DOMAIN <<ret, rank, top>> : Configured(<<one, two, three>>[i])
    BY <1>5
  <2> HIDE DEF E
  <2>4. QED
    BY <2>1, <2>2, <2>3, WithKept, Zenon
<1>7. Shaped(wires(w))
  BY WireEnds DEF Shaped
<1> HIDE DEF r, wires
<1>8. QED
  BY <1>1, <1>6, <1>7, RewiredKept

LEMMA FallbackKept ==
  ASSUME NEW s, Kept(s), Consistent(s), NEW c, NEW assets,
         NEW t \in AddFallback(s, c, assets)
  PROVE  Kept(t)
<1> DEFINE id == Named(c, "fallback")
           set == Named(c, "fallback_assets")
           n == [Plain("fallback") EXCEPT !.ref = set]
           q(w) == Rewired(With(s, <<id>>, <<n>>), w, Through(w, id, "primary"))
<1>1. PICK w \in FallbackSlots(s, c) :
        Free(s, {id, set}) /\ t = [q(w) EXCEPT !.sets = Entered(@, set, assets)]
  BY DEF AddFallback
<1>2. c \in DOMAIN s.node
  BY <1>1, Connected DEF FallbackSlots, WiresFrom
<1>3. c \in Nat
  BY <1>2, KeptParts DEF Listed
<1>4. id \in Nat
  BY <1>3, NamedApart
<1>5. Configured(n)
  BY PlainConfigured, ValueEdited DEF Referring
<1> HIDE DEF n, id, set
<1>6. id \notin DOMAIN s.node
  BY <1>1 DEF Free, Occupied
<1>7. Kept(q(w))
  BY <1>4, <1>5, <1>6, AddedKept, Zenon
<1> DEFINE p == q(w)
           sets == Entered(p.sets, set, assets)
<1>8. Definitions(sets)
  BY <1>7, KeptParts, DefinitionsKept
<1>9. t = [p EXCEPT !.sets = sets]
  BY <1>1, <1>7, KeptParts DEF Fields
<1> HIDE DEF q, p, sets
<1>10. Kept([p EXCEPT !.sets = sets])
  BY <1>7, <1>8, SetsReplaced, Zenon DEF p
<1>11. QED
  BY <1>9, <1>10

LEMMA CooldownKept ==
  ASSUME NEW s, Kept(s), Consistent(s), NEW c, NEW k,
         NEW t \in AddCooldown(s, c, k)
  PROVE  Kept(t)
<1> DEFINE id == Named(c, "cooldown")
           n == [Plain("cooldown") EXCEPT !.duration = k]
           r(w) == Rewired(s, w, Through(w, id, "candidates"))
<1>1. PICK w \in CooldownSlots(s, c) :
        /\ Free(s, {id})
        /\ t = [r(w) EXCEPT !.order = InsertAt(@, Position(s, w.to), id), !.node = Entered(@, id, n)]
  BY DEF AddCooldown
<1>2. w \in s.wires /\ w.from = c
  BY <1>1 DEF CooldownSlots, WiresFrom
<1>3. c \in DOMAIN s.node /\ w.to \in DOMAIN s.node
  BY <1>2, Connected
<1>4. c \in Nat
  BY <1>3, KeptParts DEF Listed
<1>5. id \in Nat
  BY <1>4, NamedApart
<1>6. Configured(n)
  BY PlainConfigured, ValueEdited
<1> HIDE DEF n, id
<1>7. Kept(r(w)) /\ r(w).order = s.order /\ r(w).node = s.node
  <2>1. Kept(r(w))
    BY RewiredKept, ThroughShaped
  <2>2. r(w).order = s.order /\ r(w).node = s.node
    BY KeptParts DEF Rewired, Fields
  <2>3. QED
    BY <2>1, <2>2
<1> DEFINE p == r(w)
           i == Position(s, w.to)
           order == InsertAt(s.order, i, id)
           node == Entered(s.node, id, n)
<1>8. Listed(s.order, s.node) /\ i \in DOMAIN s.order
  BY <1>3, PositionKnown, KeptParts
<1>9. id \notin DOMAIN s.node
  BY <1>1 DEF Free, Occupied
<1>10. Lists(order, (DOMAIN s.node) \cup {id})
  BY <1>8, <1>9, ListInserted DEF Listed
<1>11. /\ DOMAIN node = (DOMAIN s.node) \cup {id} /\ Functional(node)
       /\ \A d \in DOMAIN node : node[d] = IF d = id THEN n ELSE s.node[d]
  BY DEF Entered, Functional
<1>12. t = [p EXCEPT !.order = order, !.node = node]
  BY <1>1, <1>7, KeptParts DEF Fields
<1> HIDE DEF order, node, r, p
<1>13. Listed(order, node)
  BY <1>5, <1>6, <1>8, <1>10, <1>11 DEF Listed
<1>14. Kept([p EXCEPT !.order = order, !.node = node])
  BY <1>7, <1>13, GraphReplaced, Zenon DEF p
<1>15. QED
  BY <1>12, <1>14

LEMMA SplitKept ==
  ASSUME NEW s, Kept(s), Consistent(s), NEW c, NEW share, NEW assets,
         NEW t \in GrowthDefensive(s, c, share, assets)
  PROVE  Kept(t)
<1> DEFINE set     == Named(c, "defensive_assets")
           growth  == Named(c, "growth_sleeve")
           members == Named(c, "defensive_asset_set")
           weights == Named(c, "defensive_weights")
           sleeve  == Named(c, "defensive_sleeve")
           whole   == Named(c, "portfolio")
           group(name, part) == [Plain("portfolio_sleeve") EXCEPT !.name = name, !.share = part]
           one == group("Growth", share)
           two == [Plain("asset_set") EXCEPT !.ref = set]
           three == Plain("equal_weight")
           four == group("Defensive", Whole - share)
           five == Plain("portfolio")
           r == With(s, <<growth, members, weights, sleeve, whole>>, <<one, two, three, four, five>>)
           wires(w) == {Wire(c, growth, "local_targets"), Wire(members, weights, "assets"),
                        Wire(weights, sleeve, "local_targets"), Wire(growth, whole, "sleeves"),
                        Wire(sleeve, whole, "sleeves"), Wire(whole, w.to, "targets")}
           q(w) == Rewired(r, w, wires(w))
<1>1. PICK w \in PortfolioSlots(s, c) :
        /\ Free(s, {set, growth, members, weights, sleeve, whole})
        /\ t = [q(w) EXCEPT !.sets = Entered(@, set, assets)]
  BY DEF GrowthDefensive
<1>2. c \in DOMAIN s.node
  BY <1>1, Connected DEF PortfolioSlots, WiresFrom
<1>3. c \in Nat
  BY <1>2, KeptParts DEF Listed
<1>4. /\ members \in Nat /\ sleeve \in Nat /\ weights \in Nat /\ growth \in Nat /\ whole \in Nat
      /\ members < sleeve /\ sleeve < weights /\ weights < growth /\ growth < whole
  BY <1>3, NamedApart
<1>5. /\ Configured(one) /\ Configured(two) /\ Configured(three)
      /\ Configured(four) /\ Configured(five)
  <2>1. ASSUME NEW name, NEW part PROVE Configured(group(name, part))
    <3> DEFINE m == [Plain("portfolio_sleeve") EXCEPT !.name = name]
    <3>1. Configured(m) /\ m.prim = "portfolio_sleeve"
      BY PlainConfigured, ValueEdited
    <3>2. group(name, part) = [m EXCEPT !.share = part]
      OBVIOUS
    <3> HIDE DEF m, group
    <3>3. Configured([m EXCEPT !.share = part])
      BY <3>1, ValueEdited
    <3>4. QED
      BY <3>2, <3>3
  <2>2. Configured(two)
    BY PlainConfigured, ValueEdited DEF Referring
  <2>3. QED
    BY <2>1, <2>2, PlainConfigured
<1> HIDE DEF one, two, three, four, five, set, growth, members, weights, sleeve, whole
<1>6. Kept(r)
  <2> DEFINE E == {members, sleeve, weights, growth, whole}
             ids == <<growth, members, weights, sleeve, whole>>
             nodes == <<one, two, three, four, five>>
  <2>1. Lists(ids, E) /\ E \subseteq Nat
    BY <1>4, FiveListed
  <2>2. E \cap DOMAIN s.node = {}
    BY <1>1 DEF Free, Occupied
  <2>3. ASSUME NEW i \in DOMAIN ids PROVE Configured(nodes[i])
    <3>1. i \in 1..5
      OBVIOUS
    <3>2. i = 1 \/ i = 2 \/ i = 3 \/ i = 4 \/ i = 5
      BY <3>1
    <3>3. QED
      BY <1>5, <3>2
  <2> HIDE DEF E, ids, nodes
  <2>4. Kept(With(s, ids, nodes))
    BY <2>1, <2>2, <2>3, WithKept, Zenon
  <2>5. QED
    BY <2>4 DEF ids, nodes
<1>7. Shaped(wires(w))
  BY WireEnds DEF Shaped
<1> HIDE DEF r, wires
<1>8. Kept(q(w))
  BY <1>6, <1>7, RewiredKept
<1> DEFINE p == q(w)
           sets == Entered(p.sets, set, assets)
<1>9. Definitions(sets)
  BY <1>8, KeptParts, DefinitionsKept
<1>10. t = [p EXCEPT !.sets = sets]
  BY <1>1, <1>8, KeptParts DEF Fields
<1> HIDE DEF q, p, sets
<1>11. Kept([p EXCEPT !.sets = sets])
  BY <1>8, <1>9, SetsReplaced, Zenon DEF p
<1>12. QED
  BY <1>10, <1>11

(* A rebalance or a rule that becomes a rule.                               *)
LEMMA RuledKept ==
  ASSUME NEW s, Kept(s), NEW c, Prim(s, c) \in {"rebalance", "rule"}, NEW assets, NEW then,
         NEW otherwise
  PROVE  /\ Kept(Ruled(s, c, assets, then, otherwise))
         /\ Ruled(s, c, assets, then, otherwise).wires = s.wires
<1>1. {"rebalance", "rule"} \subseteq Primitives
  BY DEF Primitives, AllocationPorts
<1>2. c \in DOMAIN s.node /\ s.node[c].prim \in {"rebalance", "rule"}
  BY <1>1, KnownPrimitive
<1>3. Configured(s.node[c]) /\ DOMAIN s = Fields
  BY <1>2, KeptParts DEF Listed
<1> DEFINE m == s.node[c]
           n == [m EXCEPT !.prim = "rule", !.clauses = {"condition"}, !.assets = assets,
                          !.then = then, !.otherwise = otherwise]
<1>4. Ruled(s, c, assets, then, otherwise) = [s EXCEPT !.node = [s.node EXCEPT ![c] = n]]
  BY <1>2, <1>3 DEF Ruled, Fields
<1>5. Configured(n)
  <2>1. m.ref = None
    BY <1>2, <1>3 DEF Configured
  <2>2. "prim" \in DOMAIN m /\ "ref" \in DOMAIN m
    BY <1>3, SamePlainFields DEF Configured
  <2>3. DOMAIN n = DOMAIN m /\ n.prim = "rule" /\ n.ref = None
    BY <2>1, <2>2
  <2>4. DOMAIN m = DOMAIN Plain("rule")
    BY <1>3, SamePlainFields DEF Configured
  <2> HIDE DEF n, m
  <2>5. QED
    BY <2>3, <2>4 DEF Configured
<1> HIDE DEF n
<1>6. Kept([s EXCEPT !.node = [s.node EXCEPT ![c] = n]])
  BY <1>5, NodeReplaced
<1>7. QED
  BY <1>3, <1>4, <1>6 DEF Fields

LEMMA PredicatesKept ==
  ASSUME NEW s, Kept(s), NEW c, NEW asset
  PROVE  /\ \A t \in AddPredicate(s, c, asset) : Kept(t)
         /\ \A t \in UpdatePredicate(s, c, asset) : Kept(t)
         /\ \A t \in RemovePredicate(s, c) : Kept(t)
         /\ \A then, otherwise :
              \A t \in CommitPredicateBranches(s, c, then, otherwise, asset) : Kept(t)
<1>1. ASSUME NEW t \in AddPredicate(s, c, asset) PROVE Kept(t)
  <2>1. PICK w : Prim(s, c) = "rebalance" /\ t = Rewired(Ruled(s, c, {asset}, w.from, None), w, {})
    BY <1>1 DEF AddPredicate
  <2>2. Kept(Ruled(s, c, {asset}, w.from, None))
    BY <2>1, RuledKept
  <2>3. Shaped({})
    BY DEF Shaped
  <2>4. QED
    BY <2>1, <2>2, <2>3, RewiredKept
<1>2. {"rule"} \subseteq Primitives
  BY DEF Primitives, AllocationPorts
<1>3. ASSUME NEW t \in UpdatePredicate(s, c, asset) PROVE Kept(t)
  <2>1. t \in Edited(s, c, {"rule"}, "assets", {asset})
    BY <1>3 DEF UpdatePredicate, IsPredicate, Edited
  <2>2. QED
    BY <2>1, <1>2, EditedKept
<1>4. ASSUME NEW t \in RemovePredicate(s, c) PROVE Kept(t)
  <2> DEFINE node == [s.node EXCEPT ![c] = Plain("rebalance")]
             r == [s EXCEPT !.node = node]
             wires == s.wires \cup {Wire(s.node[c].then, c, "targets")}
  <2>1. DOMAIN s = Fields
    BY KeptParts
  <2>2. t = [r EXCEPT !.wires = wires]
    BY <1>4, <2>1 DEF RemovePredicate, Fields
  <2>3. Kept(r)
    BY NodeReplaced, PlainConfigured
  <2>4. Shaped(wires)
    BY KeptParts, WireShaped, ShapedTogether
  <2> HIDE DEF r, wires
  <2>5. Kept([r EXCEPT !.wires = wires])
    BY <2>3, <2>4, WiresReplaced, Zenon
  <2>6. QED
    BY <2>2, <2>5
<1>5. ASSUME NEW then, NEW otherwise, NEW t \in CommitPredicateBranches(s, c, then, otherwise, asset)
      PROVE  Kept(t)
  <2> DEFINE r == Ruled(s, c, {asset}, then, otherwise)
             wires == s.wires \ WiresTo(s, c, "targets")
  <2>1. Prim(s, c) \in {"rebalance", "rule"} /\ t = [r EXCEPT !.wires = @ \ WiresTo(s, c, "targets")]
    BY <1>5 DEF CommitPredicateBranches
  <2>2. Kept(r) /\ r.wires = s.wires
    BY <2>1, RuledKept
  <2> HIDE DEF r
  <2>3. t = [r EXCEPT !.wires = wires]
    BY <2>1, <2>2, KeptParts DEF Fields
  <2>4. Shaped(wires)
    BY KeptParts DEF Shaped
  <2> HIDE DEF wires
  <2>5. Kept([r EXCEPT !.wires = wires])
    BY <2>2, <2>4, WiresReplaced, Zenon
  <2>6. QED
    BY <2>3, <2>5
<1>6. QED
  BY <1>1, <1>3, <1>4, <1>5

LEMMA ValuesKept ==
  ASSUME NEW s, Kept(s), NEW c, NEW value
  PROVE  /\ \A t \in Rename(s, c, value) : Kept(t)
         /\ \A t \in UpdateLookback(s, c, value) : Kept(t)
         /\ \A t \in UpdateThreshold(s, c, value) : Kept(t)
         /\ \A t \in UpdateSelectionCount(s, c, value) : Kept(t)
         /\ \A t \in Edited(s, c, {"random_select"}, "resample", value) : Kept(t)
         /\ \A t \in UpdateDuration(s, c, value) : Kept(t)
         /\ \A t \in UpdateFallbackSet(s, c, value) : Kept(t)
         /\ \A t \in UpdateUniverse(s, c, value) : Kept(t)
<1>1. {"portfolio_sleeve", "trailing_return", "filter", "top_n", "random_select", "cooldown",
       "fallback", "universe"} \subseteq Primitives
  BY DEF Primitives, SelectionPorts, AllocationPorts
<1>2. /\ \A t \in Edited(s, c, {"portfolio_sleeve"}, "name", value) : Kept(t)
      /\ \A t \in Edited(s, c, {"trailing_return"}, "lookback", value) : Kept(t)
      /\ \A t \in Edited(s, c, {"filter"}, "setting", value) : Kept(t)
      /\ \A t \in Edited(s, c, {"random_select"}, "resample", value) : Kept(t)
  BY <1>1, EditedKept
<1>3. /\ \A t \in Edited(s, c, {"cooldown"}, "duration", value) : Kept(t)
      /\ \A t \in Edited(s, c, Selections, "count", value) : Kept(t)
  BY <1>1, EditedKept DEF Selections
<1>4. /\ \A t \in Edited(s, c, {"fallback"}, "ref", value) : Kept(t)
      /\ \A t \in Edited(s, c, {"universe"}, "ref", value) : Kept(t)
  BY <1>1, EditedKept DEF Referring
<1>5. /\ \A t \in Rename(s, c, value) : Kept(t)
      /\ \A t \in UpdateLookback(s, c, value) : Kept(t)
      /\ \A t \in UpdateThreshold(s, c, value) : Kept(t)
  BY <1>2 DEF Rename, UpdateLookback, UpdateThreshold
<1>6. /\ \A t \in UpdateSelectionCount(s, c, value) : Kept(t)
      /\ \A t \in UpdateDuration(s, c, value) : Kept(t)
  BY <1>3 DEF UpdateSelectionCount, UpdateDuration
<1>7. /\ \A t \in UpdateFallbackSet(s, c, value) : Kept(t)
      /\ \A t \in UpdateUniverse(s, c, value) : Kept(t)
  BY <1>4 DEF UpdateFallbackSet, UpdateUniverse
<1>8. QED
  BY <1>2, <1>5, <1>6, <1>7

LEMMA ConditionKept ==
  ASSUME NEW s, Kept(s), NEW c, NEW asset, NEW threshold,
         NEW t \in UpdateCondition(s, c, asset, threshold)
  PROVE  Kept(t)
<1>1. {"rule"} \subseteq Primitives /\ {"filter"} \subseteq Primitives
  BY DEF Primitives, SelectionPorts, AllocationPorts
<1>2. /\ \A r \in Edited(s, c, {"rule"}, "assets", {asset}) : Kept(r)
      /\ \A r \in Edited(s, c, {"filter"}, "condition", threshold) : Kept(r)
  BY <1>1, EditedKept
<1>3. QED
  BY <1>2 DEF UpdateCondition, Executable

LEMMA ScheduleKept ==
  ASSUME NEW s, Kept(s), NEW c, NEW cadence \in Events, NEW t \in UpdateSchedule(s, c, cadence)
  PROVE  Kept(t)
<1> DEFINE m == s.node[c]
           n == [m EXCEPT !.prim = cadence, !.day = 1]
<1>1. Prim(s, c) \in Events /\ t = [s EXCEPT !.node[c].prim = cadence, !.node[c].day = 1]
  BY DEF UpdateSchedule
<1>2. c \in DOMAIN s.node /\ m.prim \in Events
  BY <1>1, KnownPrimitive DEF Primitives
<1>3. Configured(m) /\ DOMAIN s = Fields
  BY <1>2, KeptParts DEF Listed
<1>4. t = [s EXCEPT !.node = [s.node EXCEPT ![c] = n]]
  BY <1>1, <1>2, <1>3 DEF Fields
<1>5. Configured(n)
  <2>1. m.ref = None
    BY <1>2, <1>3 DEF Configured, Events
  <2>2. "prim" \in DOMAIN m /\ "ref" \in DOMAIN m
    BY <1>3, SamePlainFields DEF Configured
  <2>3. DOMAIN n = DOMAIN m /\ n.prim = cadence /\ n.ref = None
    BY <2>1, <2>2
  <2>4. DOMAIN m = DOMAIN Plain(cadence)
    BY <1>3, SamePlainFields DEF Configured
  <2>5. cadence # "rebalance"
    BY DEF Events
  <2> HIDE DEF n, m
  <2>6. QED
    BY <2>3, <2>4, <2>5 DEF Configured
<1> HIDE DEF n
<1>6. Kept([s EXCEPT !.node = [s.node EXCEPT ![c] = n]])
  BY <1>5, NodeReplaced
<1>7. QED
  BY <1>4, <1>6

LEMMA AssetSetKept ==
  ASSUME NEW s, Kept(s), NEW set, NEW assets, NEW t \in UpdateAssetSet(s, set, assets)
  PROVE  Kept(t)
<1> DEFINE sets == [s.sets EXCEPT ![set] = assets]
<1>1. t = [s EXCEPT !.sets = sets]
  BY KeptParts DEF UpdateAssetSet, Fields
<1>2. Definitions(sets)
  BY KeptParts, DefinitionsKept
<1> HIDE DEF sets
<1>3. Kept([s EXCEPT !.sets = sets])
  BY <1>2, SetsReplaced, Zenon
<1>4. QED
  BY <1>1, <1>3

(* Two components edited.                                                   *)
LEMMA TwoReplaced ==
  ASSUME NEW s, Kept(s), NEW a \in DOMAIN s.node, NEW b \in DOMAIN s.node,
         NEW n, Configured(n), NEW m, Configured(m)
  PROVE  Kept([s EXCEPT !.node = [s.node EXCEPT ![a] = n, ![b] = m]])
<1> DEFINE r == [s EXCEPT !.node = [s.node EXCEPT ![a] = n]]
           t == [r EXCEPT !.node = [r.node EXCEPT ![b] = m]]
<1>1. Kept(r)
  BY NodeReplaced, Zenon
<1>2. DOMAIN s = Fields
  BY KeptParts
<1>3. t = [s EXCEPT !.node = [s.node EXCEPT ![a] = n, ![b] = m]]
  BY <1>2 DEF Fields
<1>4. r.node = [s.node EXCEPT ![a] = n]
  BY <1>2 DEF Fields
<1> HIDE DEF r
<1>5. Kept(t)
  BY <1>1, NodeReplaced, Zenon
<1> HIDE DEF t
<1>6. QED
  BY <1>3, <1>5

LEMMA AllocationsKept ==
  ASSUME NEW s, Kept(s), Consistent(s), NEW share, NEW t \in UpdateAllocations(s, share)
  PROVE  Kept(t)
<1> DEFINE sleeves == {w.from : w \in {x \in s.wires : x.port = "sleeves" /\ Prim(s, x.to) = "portfolio"}}
<1>1. PICK x \in sleeves \X sleeves :
        x[1] # x[2] /\ t = [s EXCEPT !.node[x[1]].share = share, !.node[x[2]].share = Whole - share]
  BY DEF UpdateAllocations
<1>2. ASSUME NEW c \in sleeves
      PROVE  c \in DOMAIN s.node /\ s.node[c].prim # "rebalance"
  <2>1. PICK w \in s.wires : w.from = c
    OBVIOUS
  <2>2. c \in DOMAIN s.node /\ PortsOf(Prim(s, c)).out # None
    BY <2>1, Connected
  <2>3. PortsOf("rebalance").out = None
    BY DEF PortsOf, SelectionPorts, AllocationPorts, Ports
  <2>4. QED
    BY <2>2, <2>3 DEF Prim
<1> DEFINE a == x[1]
           b == x[2]
           n == [s.node[a] EXCEPT !.share = share]
           m == [s.node[b] EXCEPT !.share = Whole - share]
<1>3. a \in sleeves /\ b \in sleeves /\ a # b
  BY <1>1
<1>4. a \in DOMAIN s.node /\ b \in DOMAIN s.node
  BY <1>2, <1>3
<1>5. Configured(n) /\ Configured(m)
  <2>1. /\ Configured(s.node[a]) /\ s.node[a].prim # "rebalance"
        /\ Configured(s.node[b]) /\ s.node[b].prim # "rebalance"
    BY <1>2, <1>3, <1>4, KeptParts DEF Listed
  <2>2. QED
    BY <2>1, ValueEdited
<1>6. t = [s EXCEPT !.node = [s.node EXCEPT ![a] = n, ![b] = m]]
  BY <1>1, <1>3, <1>4, KeptParts DEF Fields
<1> HIDE DEF a, b, n, m
<1>7. Kept([s EXCEPT !.node = [s.node EXCEPT ![a] = n, ![b] = m]])
  BY <1>4, <1>5, TwoReplaced, Zenon
<1>8. QED
  BY <1>6, <1>7

LEMMA SemanticsKept ==
  ASSUME NEW s, Kept(s), NEW rank, NEW top, NEW direction, NEW count, NEW policy,
         NEW t \in UpdateSelectionSemantics(s, rank, top, direction, count, policy)
  PROVE  Kept(t)
<1>1. /\ Prim(s, rank) = "rank" /\ Prim(s, top) = "top_n"
      /\ t = [s EXCEPT !.node[rank].direction = direction,
                       !.node[top].count = count, !.node[top].policy = policy]
  BY DEF UpdateSelectionSemantics, Executable
<1>2. {"rank"} \subseteq Primitives /\ {"top_n"} \subseteq Primitives
  BY DEF Primitives, SelectionPorts
<1>3. /\ rank \in DOMAIN s.node /\ s.node[rank].prim = "rank"
      /\ top \in DOMAIN s.node /\ s.node[top].prim = "top_n"
  <2>1. Prim(s, rank) \in {"rank"} /\ Prim(s, top) \in {"top_n"}
    BY <1>1
  <2>2. rank \in DOMAIN s.node /\ s.node[rank].prim \in {"rank"}
    BY <1>2, <2>1, KnownPrimitive
  <2>3. top \in DOMAIN s.node /\ s.node[top].prim \in {"top_n"}
    BY <1>2, <2>1, KnownPrimitive
  <2>4. QED
    BY <2>2, <2>3
<1> DEFINE n == [s.node[rank] EXCEPT !.direction = direction]
           k == [s.node[top] EXCEPT !.count = count]
           m == [k EXCEPT !.policy = policy]
<1>4. Configured(s.node[rank]) /\ Configured(s.node[top])
  BY <1>3, KeptParts DEF Listed
<1>5. Configured(n)
  BY <1>3, <1>4, ValueEdited
<1>6. Configured(k) /\ k.prim = "top_n"
  BY <1>3, <1>4, ValueEdited
<1>7. t = [s EXCEPT !.node = [s.node EXCEPT ![rank] = n, ![top] = m]]
  <2>1. rank # top /\ DOMAIN s = Fields
    BY <1>3, KeptParts
  <2>2. m = [s.node[top] EXCEPT !.count = count, !.policy = policy]
    OBVIOUS
  <2> HIDE DEF m
  <2>3. QED
    BY <1>1, <1>3, <2>1, <2>2 DEF Fields
<1> HIDE DEF n, k
<1>8. Configured(m)
  BY <1>6, ValueEdited
<1> HIDE DEF m
<1>9. Kept([s EXCEPT !.node = [s.node EXCEPT ![rank] = n, ![top] = m]])
  BY <1>3, <1>5, <1>8, TwoReplaced, Zenon
<1>10. QED
  BY <1>7, <1>9

LEMMA IntentsKept ==
  ASSUME NEW s, Kept(s), Consistent(s), NEW components, NEW i \in IntentsOver(components),
         NEW t \in Intended(s, i)
  PROVE  Kept(t)
<1>1. \A r \in UpdateSelectionCount(s, i.target, i.count) : Kept(r)
  BY ValuesKept
<1>2. CASE i.kind = "configure_selection"
  <2>1. t \in ConfigureSelection(s, i)
    BY <1>2 DEF Intended
  <2>2. CASE i.lookback = None
    BY <1>1, <2>1, <2>2 DEF ConfigureSelection
  <2>3. CASE i.lookback # None
    <3>1. PICK r \in UpdateSelectionCount(s, i.target, i.count) :
            t \in UpdateLookback(r, i.measure, i.lookback)
      BY <2>1, <2>3 DEF ConfigureSelection
    <3>2. QED
      BY <1>1, <3>1, ValuesKept
  <2>4. QED
    BY <2>2, <2>3
<1>3. CASE i.kind = "configure_eligibility"
  BY <1>3, ValuesKept DEF Intended
<1>4. CASE i.kind = "configure_predicate"
  BY <1>4 DEF Intended
<1>5. CASE i.kind = "configure_allocation"
  BY <1>5, AllocationsKept DEF Intended
<1>6. CASE i.kind = "configure_constraint"
  BY <1>6, ValuesKept DEF Intended
<1>7. CASE i.kind = "configure_timing"
  <2>1. i.cadence \in Events
    BY <1>7 DEF IntentsOver
  <2>2. t \in UpdateSchedule(s, i.target, i.cadence)
    BY <1>7 DEF Intended
  <2>3. QED
    BY <2>1, <2>2, ScheduleKept
<1>8. CASE i.kind = "attach_fallback"
  BY <1>8, FallbackKept DEF Intended
<1>9. CASE i.kind = "create_portfolio_split"
  BY <1>9, SplitKept DEF Intended
<1>10. QED
  BY <1>2, <1>3, <1>4, <1>5, <1>6, <1>7, <1>8, <1>9 DEF IntentsOver

-----------------------------------------------------------------------------
(* Ids a batch generates                                                    *)

LEMMA StemPlace ==
  ASSUME NEW stem \in Creatable \cup {"assets"}
  PROVE  (CHOOSE i \in DOMAIN Stems : Stems[i] = stem) \in 1..14
<1>1. stem \in {"assets", "asset_set", "cooldown", "equal_weight", "fallback", "filter",
                "merge_targets", "portfolio", "portfolio_sleeve", "random_select", "rank", "top_n",
                "trailing_return", "universe"}
  BY DEF Creatable, SelectionPorts, AllocationPorts
<1>2. DOMAIN Stems = 1..14
  BY DEF Stems
<1>3. /\ Stems[1] = "assets" /\ Stems[2] = "asset_set" /\ Stems[3] = "cooldown"
      /\ Stems[4] = "equal_weight" /\ Stems[5] = "fallback" /\ Stems[6] = "filter"
      /\ Stems[7] = "merge_targets" /\ Stems[8] = "portfolio" /\ Stems[9] = "portfolio_sleeve"
      /\ Stems[10] = "random_select" /\ Stems[11] = "rank" /\ Stems[12] = "top_n"
      /\ Stems[13] = "trailing_return" /\ Stems[14] = "universe"
  BY DEF Stems
<1>4. \E i \in DOMAIN Stems : Stems[i] = stem
  BY <1>1, <1>2, <1>3
<1>5. QED
  BY <1>2, <1>4

LEMMA NumbersApart ==
  ASSUME NEW stem \in Creatable \cup {"assets"}, NEW k \in Nat
  PROVE  /\ Numbered(stem, k) \in Nat
         /\ \A j \in Nat : Numbered(stem, j) = Numbered(stem, k) => j = k
<1> DEFINE p == CHOOSE i \in DOMAIN Stems : Stems[i] = stem
<1>1. p \in 1..14
  BY StemPlace
<1>2. \A j : Numbered(stem, j) = 100000 + 10000 * p + 1000 * j
  BY DEF Numbered
<1> HIDE DEF p
<1>3. QED
  BY <1>1, <1>2

(* An id that is generated is new: of as many as are taken and one more,    *)
(* one is free.                                                             *)
LEMMA GeneratedFresh ==
  ASSUME NEW occupied, IsFiniteSet(occupied), NEW stem \in Creatable \cup {"assets"}
  PROVE  GeneratedId(occupied, stem) \in Nat /\ GeneratedId(occupied, stem) \notin occupied
<1> DEFINE N == Cardinality(occupied) + 1
           K == {k \in 1..N : Numbered(stem, k) \notin occupied}
           Least(k) == /\ Numbered(stem, k) \notin occupied
                       /\ \A j \in 1..(k - 1) : Numbered(stem, j) \in occupied
<1>1. Cardinality(occupied) \in Nat /\ N \in Nat
  BY FS_CardinalityType
<1>2. K # {}
  <2>1. SUFFICES ASSUME \A k \in 1..N : Numbered(stem, k) \in occupied PROVE FALSE
    OBVIOUS
  <2> DEFINE f == [k \in 1..N |-> Numbered(stem, k)]
  <2>2. f \in [1..N -> occupied]
    BY <2>1
  <2>3. IsFiniteSet(1..N) /\ Cardinality(1..N) = N
    BY <1>1, FS_Interval
  <2>4. Cardinality(occupied) < Cardinality(1..N)
    BY <1>1, <2>3
  <2> DEFINE S == 1..N
  <2> HIDE DEF f, S
  <2>5. \E x, y \in S : x # y /\ f[x] = f[y]
    BY <2>2, <2>3, <2>4, FS_PigeonHole DEF S
  <2>6. PICK x \in 1..N, y \in 1..N : x # y /\ f[x] = f[y]
    BY <2>5 DEF S
  <2>7. x \in Nat /\ y \in Nat /\ Numbered(stem, x) = Numbered(stem, y)
    BY <2>6 DEF f
  <2>8. QED
    BY <2>6, <2>7, NumbersApart
<1>3. PICK k \in K : \A j \in K : k <= j
  <2>1. K \in SUBSET Nat
    BY <1>1
  <2> HIDE DEF K
  <2>2. QED
    BY <1>2, <2>1, LeastNatural
<1>4. k \in 1..N /\ Least(k)
  <2>1. \A j \in 1..(k - 1) : j \in 1..N /\ ~ (k <= j)
    BY <1>1
  <2>2. QED
    BY <1>3, <2>1
<1> DEFINE h == CHOOSE i \in 1..N : Least(i)
<1>5. GeneratedId(occupied, stem) = Numbered(stem, h)
  BY DEF GeneratedId
<1>6. h \in 1..N /\ Numbered(stem, h) \notin occupied
  <2> HIDE DEF Least
  <2>1. h \in 1..N /\ Least(h)
    BY <1>4
  <2>2. QED
    BY <2>1 DEF Least
<1> HIDE DEF h
<1>7. Numbered(stem, h) \in Nat
  BY <1>1, <1>6, NumbersApart
<1>8. QED
  BY <1>5, <1>6, <1>7

-----------------------------------------------------------------------------
(* A batch                                                                  *)

Keys == {"s", "occupied", "made", "sets"}

Assembled(b) ==
  /\ DOMAIN b = Keys
  /\ Kept(b.s)
  /\ Occupied(b.s) \subseteq b.occupied
  /\ IsFiniteSet(b.occupied)

LEMMA BegunAssembled ==
  ASSUME NEW s, Kept(s)
  PROVE  Assembled(Begun(s))
<1>1. IsFiniteSet(DOMAIN s.node) /\ IsFiniteSet(DOMAIN s.sets)
  BY KeptParts, ListLength DEF Listed, Definitions
<1>2. IsFiniteSet(Occupied(s))
  BY <1>1, FS_Union DEF Occupied
<1>3. QED
  BY <1>2 DEF Assembled, Begun, Keys

(* A strategy that takes no id more in its place.                           *)
LEMMA StrategyReplaced ==
  ASSUME NEW b, Assembled(b), NEW t, Kept(t), Occupied(t) \subseteq b.occupied
  PROVE  Assembled([b EXCEPT !.s = t])
<1> DEFINE x == [b EXCEPT !.s = t]
<1>1. DOMAIN x = Keys /\ x.s = t /\ x.occupied = b.occupied
  BY DEF Assembled, Keys
<1> HIDE DEF x
<1>2. Assembled(x)
  BY <1>1 DEF Assembled
<1>3. QED
  BY <1>2 DEF x

LEMMA ComponentCreated ==
  ASSUME NEW b, Assembled(b), NEW m, NEW r \in CreateComponent(b, m)
  PROVE  Assembled(r)
<1> DEFINE id == GeneratedId(b.occupied, m.prim)
           t == With(b.s, <<id>>, <<Plain(m.prim)>>)
<1>1. m.prim \in Creatable /\ r = [Made(b, m.ref, id) EXCEPT !.s = t]
  BY DEF CreateComponent
<1>2. id \in Nat /\ id \notin b.occupied
  BY <1>1, GeneratedFresh DEF Assembled
<1> HIDE DEF id
<1>3. id \notin DOMAIN b.s.node
  BY <1>2 DEF Assembled, Occupied
<1>4. Kept(t) /\ DOMAIN t.node = DOMAIN b.s.node \cup {id} /\ t.sets = b.s.sets
  <2>1. Lists(<<id>>, {id}) /\ {id} \cap DOMAIN b.s.node = {} /\ {id} \subseteq Nat
    BY <1>2, <1>3, OneListed
  <2>2. \A i \in DOMAIN <<id>> : Configured(<<Plain(m.prim)>>[i])
    BY PlainConfigured
  <2>3. Kept(b.s)
    BY DEF Assembled
  <2>4. Kept(t)
    BY <2>1, <2>2, <2>3, WithKept, Zenon
  <2>5. ToSet(<<id>>) = {id}
    BY <2>1 DEF Lists
  <2>6. DOMAIN t.node = DOMAIN b.s.node \cup {id} /\ t.sets = b.s.sets
    BY <2>3, <2>5, KeptParts DEF With, Fields
  <2>7. QED
    BY <2>4, <2>6
<1> HIDE DEF t
<1>5. DOMAIN r = Keys /\ r.s = t /\ r.occupied = b.occupied \cup {id}
  BY <1>1 DEF Made, Assembled, Keys
<1>6. IsFiniteSet(b.occupied \cup {id})
  BY FS_Singleton, FS_Union DEF Assembled
<1>7. Occupied(t) \subseteq b.occupied \cup {id}
  BY <1>4 DEF Occupied, Assembled
<1>8. QED
  BY <1>4, <1>5, <1>6, <1>7 DEF Assembled

LEMMA AssetSetCreated ==
  ASSUME NEW b, Assembled(b), NEW m, NEW r \in CreateAssetSet(b, m)
  PROVE  Assembled(r)
<1> DEFINE id == GeneratedId(b.occupied, "assets")
           sets == Entered(b.s.sets, id, m.assets)
           t == [b.s EXCEPT !.sets = sets]
<1>1. r = [Made(b, m.ref, id) EXCEPT !.s.sets = Entered(@, id, m.assets), !.sets = @ \cup {id}]
  BY DEF CreateAssetSet
<1> HIDE DEF id
<1>2. Kept(b.s) /\ DOMAIN b.s = Fields /\ Definitions(b.s.sets)
  BY KeptParts DEF Assembled
<1>3. Made(b, m.ref, id).s = b.s /\ DOMAIN Made(b, m.ref, id) = Keys
      /\ Made(b, m.ref, id).occupied = b.occupied \cup {id}
  BY DEF Made, Assembled, Keys
<1>4. DOMAIN r = Keys /\ r.s = t /\ r.occupied = b.occupied \cup {id}
  BY <1>1, <1>2, <1>3 DEF Keys, Fields
<1>5. t.node = b.s.node /\ t.sets = sets /\ DOMAIN sets = (DOMAIN b.s.sets) \cup {id}
  BY <1>2 DEF Fields, Entered
<1>6. Kept(t)
  <2>1. Definitions(sets)
    BY <1>2, DefinitionsKept
  <2> HIDE DEF sets
  <2>2. QED
    BY <1>2, <2>1, SetsReplaced, Zenon
<1> HIDE DEF t, sets
<1>7. Occupied(t) \subseteq b.occupied \cup {id}
  BY <1>5 DEF Occupied, Assembled
<1>8. IsFiniteSet(b.occupied \cup {id})
  BY FS_Singleton, FS_Union DEF Assembled
<1>9. QED
  BY <1>4, <1>6, <1>7, <1>8 DEF Assembled

LEMMA FieldSet ==
  ASSUME NEW b, Assembled(b), NEW m, NEW r \in SetField(b, m)
  PROVE  Assembled(r)
<1> DEFINE c == Addressed(b, m.target)
           value == IF m.field = "ref" THEN Addressed(b, m.value) ELSE m.value
           n == [b.s.node[c] EXCEPT ![m.field] = value]
           t == [b.s EXCEPT !.node = [b.s.node EXCEPT ![c] = n]]
<1>1. /\ c \in DOMAIN b.s.node /\ m.field \in FieldsOf(Prim(b.s, c))
      /\ r = [b EXCEPT !.s.node[c][m.field] = value]
  BY DEF SetField
<1> HIDE DEF c, value
<1>2. Kept(b.s) /\ DOMAIN b.s = Fields /\ DOMAIN b = Keys
  BY KeptParts DEF Assembled
<1>3. Configured(b.s.node[c])
  BY <1>1, <1>2, KeptParts DEF Listed
<1>4. /\ b.s.node[c].prim # "rebalance" /\ m.field # "prim"
      /\ m.field = "ref" => b.s.node[c].prim \in Referring
  <2>1. m.field \in FieldsOf(b.s.node[c].prim)
    BY <1>1 DEF Prim
  <2>2. \A prim : \A f \in FieldsOf(prim) :
          prim # "rebalance" /\ f # "prim" /\ (f = "ref" => prim \in Referring)
    BY DEF FieldsOf, Referring
  <2>3. QED
    BY <2>1, <2>2
<1>5. Configured(n)
  BY <1>3, <1>4, ValueEdited
<1>6. r = [b EXCEPT !.s = t]
  BY <1>1, <1>2 DEF Fields, Keys
<1>7. DOMAIN t.node = DOMAIN b.s.node /\ t.sets = b.s.sets
  BY <1>2 DEF Fields
<1> HIDE DEF n
<1>8. Kept(t)
  BY <1>2, <1>5, NodeReplaced, Zenon
<1> HIDE DEF t
<1>9. Occupied(t) \subseteq b.occupied
  BY <1>7 DEF Occupied, Assembled
<1>10. Assembled([b EXCEPT !.s = t])
  BY <1>8, <1>9, StrategyReplaced, Zenon
<1>11. QED
  BY <1>6, <1>10

LEMMA WiresChanged ==
  ASSUME NEW b, Assembled(b), NEW wires, Shaped(wires)
  PROVE  Assembled([b EXCEPT !.s = [b.s EXCEPT !.wires = wires]])
<1> DEFINE t == [b.s EXCEPT !.wires = wires]
<1>1. Kept(b.s) /\ DOMAIN b.s = Fields
  BY KeptParts DEF Assembled
<1>2. t.node = b.s.node /\ t.sets = b.s.sets
  BY <1>1 DEF Fields
<1>3. Kept(t)
  BY <1>1, WiresReplaced, Zenon
<1> HIDE DEF t
<1>4. Occupied(t) \subseteq b.occupied
  BY <1>2 DEF Occupied, Assembled
<1>5. Assembled([b EXCEPT !.s = t])
  BY <1>3, <1>4, StrategyReplaced, Zenon
<1>6. QED
  BY <1>5 DEF t

LEMMA ConnectionsChanged ==
  ASSUME NEW b, Assembled(b), NEW m
  PROVE  /\ \A r \in Connect(b, m) : Assembled(r)
         /\ \A r \in Disconnect(b, m) : Assembled(r)
<1> DEFINE w == Wire(Addressed(b, m.from), Addressed(b, m.to), m.port)
           more == b.s.wires \cup {w}
           fewer == b.s.wires \ {w}
<1>1. DOMAIN b.s = Fields /\ DOMAIN b = Keys /\ Shaped(b.s.wires)
  BY KeptParts DEF Assembled
<1>2. Shaped(more)
  BY <1>1, WireShaped, ShapedTogether
<1>3. Shaped(fewer)
  BY <1>1 DEF Shaped
<1>4. \A r \in Connect(b, m) : r = [b EXCEPT !.s = [b.s EXCEPT !.wires = more]]
  BY <1>1 DEF Connect, Fields, Keys
<1>5. \A r \in Disconnect(b, m) : r = [b EXCEPT !.s = [b.s EXCEPT !.wires = fewer]]
  BY <1>1 DEF Disconnect, Fields, Keys
<1> HIDE DEF w, more, fewer
<1>6. Assembled([b EXCEPT !.s = [b.s EXCEPT !.wires = more]])
  BY <1>2, WiresChanged, Zenon
<1>7. Assembled([b EXCEPT !.s = [b.s EXCEPT !.wires = fewer]])
  BY <1>3, WiresChanged, Zenon
<1>8. QED
  BY <1>4, <1>5, <1>6, <1>7, Zenon

LEMMA ComponentRemoved ==
  ASSUME NEW b, Assembled(b), NEW m, NEW r \in RemoveComponent(b, m)
  PROVE  Assembled(r)
<1> DEFINE c == Addressed(b, m.target)
           p == Without(b.s, c)
           wires == {w \in p.wires : c \notin {w.from, w.to}}
           t == [p EXCEPT !.wires = wires]
<1>1. Kept(b.s) /\ DOMAIN b.s = Fields
  BY KeptParts DEF Assembled
<1>2. c \in DOMAIN b.s.node
  BY DEF RemoveComponent
<1>3. Kept(p) /\ DOMAIN p = Fields /\ Shaped(p.wires)
  BY <1>1, <1>2, WithoutKept, KeptParts
<1>4. r = [b EXCEPT !.s = t]
  BY <1>3 DEF RemoveComponent, Fields
<1>5. DOMAIN p.node \subseteq DOMAIN b.s.node /\ p.sets = b.s.sets
  BY <1>1 DEF Without, Dropped, Fields
<1> HIDE DEF p, c
<1>6. t.node = p.node /\ t.sets = p.sets
  BY <1>3 DEF Fields
<1>7. Shaped(wires)
  BY <1>3 DEF Shaped
<1> HIDE DEF wires
<1>8. Kept(t)
  BY <1>3, <1>7, WiresReplaced, Zenon
<1> HIDE DEF t
<1>9. Occupied(t) \subseteq b.occupied
  BY <1>5, <1>6 DEF Occupied, Assembled
<1>10. Assembled([b EXCEPT !.s = t])
  BY <1>8, <1>9, StrategyReplaced, Zenon
<1>11. QED
  BY <1>4, <1>10

LEMMA MutatedAssembled ==
  ASSUME NEW b, Assembled(b), NEW m, m.kind \in MutationKinds, NEW r \in Mutated(b, m)
  PROVE  Assembled(r)
<1>1. CASE m.kind = "create_component"
  BY <1>1, ComponentCreated DEF Mutated
<1>2. CASE m.kind = "create_asset_set"
  BY <1>2, AssetSetCreated DEF Mutated
<1>3. CASE m.kind = "set_component_field"
  BY <1>3, FieldSet DEF Mutated
<1>4. CASE m.kind = "connect"
  BY <1>4, ConnectionsChanged DEF Mutated
<1>5. CASE m.kind = "disconnect"
  BY <1>5, ConnectionsChanged DEF Mutated
<1>6. CASE m.kind = "remove_component"
  BY <1>6, ComponentRemoved DEF Mutated
<1>7. QED
  BY <1>1, <1>2, <1>3, <1>4, <1>5, <1>6 DEF MutationKinds

(* Every batch, of any number of mutations, leaves a loaded document.       *)
LEMMA ComposedKept ==
  ASSUME NEW s, Kept(s), NEW batch \in Batches, NEW t \in Composed(s, batch)
  PROVE  Kept(t) /\ Consistent(t)
<1> DEFINE n == Len(batch)
           Step(f, k) == UNION {Mutated(b, batch[k]) : b \in f[k - 1]}
           Solves(f, l) == f = [k \in 0..l |-> IF k = 0 THEN {Begun(s)} ELSE Step(f, k)]
           S == {l \in Nat : \E f : Solves(f, l)}
           h == CHOOSE f : Solves(f, n)
<1>1. n \in Nat /\ \A k \in 1..n : batch[k].kind \in MutationKinds
  BY BatchesAssumption
<1>2. 0 \in S
  <2>1. Solves([k \in 0..0 |-> {Begun(s)}], 0)
    OBVIOUS
  <2>2. QED
    BY <2>1
<1>3. ASSUME NEW l \in Nat, l \in S PROVE l + 1 \in S
  <2>1. PICK f : Solves(f, l)
    BY <1>3
  <2> DEFINE last == UNION {Mutated(b, batch[l + 1]) : b \in f[l]}
             g == [k \in 0..(l + 1) |-> IF k \in 0..l THEN f[k] ELSE last]
  <2> HIDE DEF last
  <2>2. ASSUME NEW k \in 0..(l + 1)
        PROVE  g[k] = IF k = 0 THEN {Begun(s)} ELSE Step(g, k)
    <3>1. CASE k = 0
      BY <2>1, <3>1
    <3>2. CASE k \in 1..l
      <4>1. g[k] = f[k] /\ g[k - 1] = f[k - 1]
        BY <3>2
      <4>2. Step(g, k) = Step(f, k)
        BY <4>1
      <4> HIDE DEF g, Step
      <4>3. k \in 0..l /\ k # 0
        BY <3>2
      <4>4. f[k] = Step(f, k)
        BY <2>1, <4>3
      <4>5. QED
        BY <4>1, <4>2, <4>3, <4>4
    <3>3. CASE k = l + 1
      <4>1. k \notin 0..l /\ k - 1 = l /\ l \in 0..l /\ l \in 0..(l + 1) /\ k # 0
        BY <3>3
      <4>2. g[k] = last /\ g[k - 1] = f[l]
        BY <4>1
      <4>3. QED
        BY <3>3, <4>1, <4>2 DEF last
    <3>4. QED
      BY <3>1, <3>2, <3>3
  <2>3. Solves(g, l + 1)
    <3>1. g = [k \in 0..(l + 1) |-> g[k]]
      OBVIOUS
    <3> HIDE DEF g, Step
    <3>2. QED
      BY <2>2, <3>1
  <2> HIDE DEF g, Solves
  <2>4. QED
    BY <2>3
<1> HIDE DEF S
<1>4. n \in S
  BY <1>1, <1>2, <1>3, NaturalSteps
<1>5. \E f : Solves(f, n)
  BY <1>4 DEF S
<1>6. PICK b \in h[n] : t = b.s /\ Consistent(b.s)
  BY DEF Composed
<1> HIDE DEF Solves
<1>7. Solves(h, n)
  BY <1>5
<1> HIDE DEF h
<1>8. h = [k \in 0..n |-> IF k = 0 THEN {Begun(s)} ELSE Step(h, k)]
  BY <1>7 DEF Solves
<1> HIDE DEF n
<1>9. h[0] = {Begun(s)}
  BY <1>1, <1>8
<1>10. ASSUME NEW k \in 1..n PROVE h[k] = Step(h, k)
  <2> HIDE DEF Step
  <2>1. k \in 0..n /\ k # 0
    BY <1>1
  <2>2. QED
    BY <1>8, <2>1
<1> DEFINE A == {k \in Nat : k <= n => \A a \in h[k] : Assembled(a)}
<1>11. 0 \in A
  BY <1>9, BegunAssembled
<1>12. ASSUME NEW k \in Nat, k \in A PROVE k + 1 \in A
  <2>1. SUFFICES ASSUME k + 1 <= n, NEW r \in h[k + 1] PROVE Assembled(r)
    OBVIOUS
  <2>2. k + 1 \in 1..n /\ (k + 1) - 1 = k /\ k <= n
    BY <1>1, <2>1
  <2>3. PICK a \in h[k] : r \in Mutated(a, batch[k + 1])
    BY <1>10, <2>1, <2>2
  <2>4. Assembled(a) /\ batch[k + 1].kind \in MutationKinds
    BY <1>1, <1>12, <2>2, <2>3
  <2>5. QED
    BY <2>3, <2>4, MutatedAssembled
<1> HIDE DEF A
<1>13. n \in A
  BY <1>1, <1>11, <1>12, NaturalSteps
<1>14. Assembled(b)
  BY <1>1, <1>6, <1>13 DEF A
<1>15. QED
  BY <1>6, <1>14 DEF Assembled

-----------------------------------------------------------------------------
(* Every step keeps the strategy a loaded and consistent document           *)

Standing == Kept(strategy) /\ Consistent(strategy)

LEMMA AuthoredStands ==
  ASSUME NEW candidates, \A t \in candidates : Kept(t), Author(candidates)
  PROVE  Standing'
BY DEF Author, Replace, Accepted, Standing

LEMMA StructureStands ==
  ASSUME Standing, NEW c, Structure(c)
  PROVE  Standing'
<1>1. ASSUME NEW v, Author(AddQualification(strategy, c, v)) PROVE Standing'
  BY <1>1, QualificationKept, AuthoredStands DEF Standing
<1>2. ASSUME NEW k, NEW n, Author(ChooseAssets(strategy, c, k, n)) PROVE Standing'
  BY <1>2, ChosenKept, AuthoredStands DEF Standing
<1>3. ASSUME NEW assets, Author(AddFallback(strategy, c, assets)) PROVE Standing'
  BY <1>3, FallbackKept, AuthoredStands DEF Standing
<1>4. ASSUME NEW k, Author(AddCooldown(strategy, c, k)) PROVE Standing'
  BY <1>4, CooldownKept, AuthoredStands DEF Standing
<1>5. ASSUME NEW share, NEW assets, Author(GrowthDefensive(strategy, c, share, assets))
      PROVE  Standing'
  BY <1>5, SplitKept, AuthoredStands DEF Standing
<1>6. ASSUME \/ Author(RemoveQualification(strategy, c))
             \/ Author(RemoveFallback(strategy, c))
             \/ Author(RemoveCooldown(strategy, c))
      PROVE  Standing'
  BY <1>6, TakenOutKept, AuthoredStands DEF Standing
<1>7. QED
  BY <1>1, <1>2, <1>3, <1>4, <1>5, <1>6 DEF Structure

LEMMA PredicatesStand ==
  ASSUME Standing, NEW c, Predicates(c)
  PROVE  Standing'
<1>1. ASSUME NEW asset, \/ Author(AddPredicate(strategy, c, asset))
                        \/ Author(UpdatePredicate(strategy, c, asset))
                        \/ Author(RemovePredicate(strategy, c))
      PROVE  Standing'
  BY <1>1, PredicatesKept, AuthoredStands DEF Standing
<1>2. QED
  BY <1>1 DEF Predicates

LEMMA ValuesStand ==
  ASSUME Standing, NEW c, Values(c)
  PROVE  Standing'
<1>1. ASSUME NEW value, \/ Author(Rename(strategy, c, value))
                        \/ Author(UpdateLookback(strategy, c, value))
                        \/ Author(UpdateThreshold(strategy, c, value))
                        \/ Author(UpdateSelectionCount(strategy, c, value))
      PROVE  Standing'
  BY <1>1, ValuesKept, AuthoredStands DEF Standing
<1>2. ASSUME NEW value, \/ Author(Edited(strategy, c, {"random_select"}, "resample", value))
                        \/ Author(UpdateDuration(strategy, c, value))
                        \/ Author(UpdateFallbackSet(strategy, c, value))
      PROVE  Standing'
  BY <1>2, ValuesKept, AuthoredStands DEF Standing
<1>3. ASSUME NEW cadence \in Events, Author(UpdateSchedule(strategy, c, cadence)) PROVE Standing'
  BY <1>3, ScheduleKept, AuthoredStands DEF Standing
<1>4. QED
  BY <1>1, <1>2, <1>3 DEF Values

LEMMA MeaningsStand ==
  ASSUME Standing, NEW c, Meanings(c)
  PROVE  Standing'
<1>1. ASSUME NEW asset, NEW v, Author(UpdateCondition(strategy, c, asset, v)) PROVE Standing'
  BY <1>1, ConditionKept, AuthoredStands DEF Standing
<1>2. ASSUME NEW universe, Author(UpdateUniverse(strategy, c, universe)) PROVE Standing'
  BY <1>2, ValuesKept, AuthoredStands DEF Standing
<1>3. ASSUME NEW top, NEW direction, NEW k, NEW policy,
             Author(UpdateSelectionSemantics(strategy, c, top, direction, k, policy))
      PROVE  Standing'
  BY <1>3, SemanticsKept, AuthoredStands DEF Standing
<1>4. QED
  BY <1>1, <1>2, <1>3 DEF Meanings

LEMMA StepStands ==
  ASSUME Standing, StructuralNext
  PROVE  Standing'
<1>1. ASSUME ApplyIntent PROVE Standing'
  BY <1>1, IntentsKept, AuthoredStands DEF ApplyIntent, Standing
<1>2. ASSUME Compose PROVE Standing'
  BY <1>2, ComposedKept DEF Compose, Replace, Standing
<1>3. ASSUME CommitBranches PROVE Standing'
  BY <1>3, PredicatesKept DEF CommitBranches, Replace, Accepted, Standing
<1>4. ASSUME NEW set, NEW assets, Author(UpdateAssetSet(strategy, set, assets)) PROVE Standing'
  BY <1>4, AssetSetKept, AuthoredStands DEF Standing
<1>5. ASSUME NEW share, Author(UpdateAllocations(strategy, share)) PROVE Standing'
  BY <1>5, AllocationsKept, AuthoredStands DEF Standing
<1>6. QED
  BY <1>1, <1>2, <1>3, <1>4, <1>5,
     StructureStands, PredicatesStand, ValuesStand, MeaningsStand DEF StructuralNext

LEMMA AlwaysStanding == StructuralSpec => []Standing
<1>1. StructuralInit => Standing
  BY StartsAssumption DEF StructuralInit, Standing, Kept, Universes
<1>2. Standing /\ [StructuralNext]_vars => Standing'
  <2>1. ASSUME Standing, StructuralNext PROVE Standing'
    BY <2>1, StepStands
  <2>2. ASSUME Standing, UNCHANGED vars PROVE Standing'
    BY <2>2 DEF Standing, vars
  <2>3. QED
    BY <2>1, <2>2
<1>3. QED
  BY <1>1, <1>2, PTL DEF StructuralSpec

(* Whatever recipes, edits, intents and batches are applied, the strategy   *)
(* lists each of its components once, and it is one the validation of a     *)
(* document accepts (authoring.py, composition.py).  No check of the        *)
(* service looks at the list: a batch of any length generates ids that are  *)
(* not in use, and a recipe inserts and takes out what it means to.         *)
THEOREM StructuralTypeCorrect == StructuralSpec => []StructuralTypeOK
<1>1. Standing => StructuralTypeOK
  <2>1. SUFFICES ASSUME Standing PROVE StructuralTypeOK
    OBVIOUS
  <2>2. Lists(strategy.order, DOMAIN strategy.node)
    BY <2>1, KeptParts DEF Standing, Listed
  <2>3. QED
    BY <2>1, <2>2, ListLength DEF StructuralTypeOK, Standing, Lists
<1>2. QED
  BY <1>1, AlwaysStanding, PTL

-----------------------------------------------------------------------------
(* What a component is computed from                                        *)

Feeding(s, C) == \A w \in s.wires : w.to \in C => w.from \in C

LEMMA UpstreamLeast ==
  ASSUME NEW s, Kept(s), Consistent(s), NEW c \in DOMAIN s.node
  PROVE  /\ c \in Upstream(s, c) /\ Upstream(s, c) \subseteq DOMAIN s.node
         /\ Feeding(s, Upstream(s, c))
         /\ \A C : c \in C /\ Feeding(s, C) => Upstream(s, c) \subseteq C
<1> DEFINE E == {<<w.from, w.to>> : w \in s.wires}
           V == DOMAIN s.node
           n == Len(s.order)
           U == Reached(E, n, {c})
<1>1. Upstream(s, c) = U
  BY DEF Upstream
<1>2. Lists(s.order, V)
  BY KeptParts DEF Listed
<1>3. n \in Nat /\ IsFiniteSet(V) /\ Cardinality(V) <= n
  BY <1>2, ListLength DEF Lists
<1>4. ASSUME NEW C PROVE Neighbours(E, C) \subseteq C <=> Feeding(s, C)
  <2>1. ASSUME NEW w \in s.wires, w.to \in C PROVE w.from \in Neighbours(E, C)
    <3>1. <<w.from, w.to>> \in E
      OBVIOUS
    <3> DEFINE e == <<w.from, w.to>>
    <3>2. e \in E /\ e[1] = w.from /\ e[2] \in C
      BY <2>1, <3>1
    <3> HIDE DEF e, E
    <3>3. QED
      BY <3>2 DEF Neighbours
  <2>2. ASSUME NEW e \in E, e[2] \in C PROVE \E w \in s.wires : w.to \in C /\ w.from = e[1]
    BY <2>2
  <2> HIDE DEF E
  <2>3. QED
    BY <2>1, <2>2 DEF Neighbours, Feeding
<1>5. Neighbours(E, V) \subseteq V
  <2>1. Feeding(s, V)
    BY Connected DEF Feeding
  <2>2. QED
    BY <1>4, <2>1
<1> HIDE DEF E, V, n
<1>6. {c} \subseteq V /\ {c} # {}
  BY DEF V
<1> DEFINE start == {c}
<1> HIDE DEF start
<1>7. start \subseteq U /\ Neighbours(E, U) \subseteq U /\ U \subseteq V
  <2>1. start \subseteq V /\ start # {}
    BY <1>6 DEF start
  <2>2. U = Reached(E, n, start)
    BY DEF start
  <2> HIDE DEF U
  <2>3. QED
    BY ONLY <1>3, <1>5, <2>1, <2>2, ReachedClosed
<1>8. ASSUME NEW C, start \subseteq C, Neighbours(E, C) \subseteq C
      PROVE  U \subseteq C
  <2>1. U = Reached(E, n, start)
    BY DEF start
  <2> HIDE DEF U
  <2>2. QED
    BY ONLY <1>3, <1>8, <2>1, ReachedWithin
<1> HIDE DEF U
<1>9. QED
  BY <1>1, <1>4, <1>7, <1>8 DEF V, start

(* A component put on a wire has what was computed before it computed from  *)
(* the same.                                                                *)
LEMMA InterposedUpstream ==
  ASSUME NEW s, Kept(s), Consistent(s), NEW t, Kept(t), Consistent(t),
         NEW id, id \notin DOMAIN s.node, DOMAIN t.node = (DOMAIN s.node) \cup {id},
         NEW w \in s.wires, NEW port,
         t.wires = (s.wires \ {w}) \cup Through(w, id, port), NEW c \in DOMAIN s.node
  PROVE  Upstream(t, c) \ {id} = Upstream(s, c)
<1> DEFINE before == Wire(w.from, id, port)
           after == Wire(id, w.to, w.port)
           C == Upstream(s, c)
           D == Upstream(t, c)
           more == C \cup (IF w.to \in C THEN {id} ELSE {})
<1>1. /\ before \in t.wires /\ before.from = w.from /\ before.to = id
      /\ after \in t.wires /\ after.from = id /\ after.to = w.to
  BY WireEnds DEF Through
<1>2. \A v \in t.wires : v = before \/ v = after \/ v \in s.wires
  BY DEF Through
<1>3. \A v \in s.wires : v = w \/ v \in t.wires
  OBVIOUS
<1>4. ASSUME NEW v \in s.wires PROVE v.to # id /\ v.from # id
  <2>1. v.from \in DOMAIN s.node /\ v.to \in DOMAIN s.node
    BY Connected
  <2>2. QED
    BY <2>1
<1>5. c \in DOMAIN t.node
  OBVIOUS
<1> HIDE DEF before, after
<1>6. c \in C /\ Feeding(s, C) /\ C \subseteq DOMAIN s.node
  BY UpstreamLeast
<1>7. c \in D /\ Feeding(t, D)
  BY <1>5, UpstreamLeast
<1>8. \A X : c \in X /\ Feeding(s, X) => C \subseteq X
  BY UpstreamLeast
<1>9. \A X : c \in X /\ Feeding(t, X) => D \subseteq X
  BY <1>5, UpstreamLeast
<1> HIDE DEF C, D
<1>10. Feeding(s, D)
  BY <1>1, <1>3, <1>7 DEF Feeding
<1>11. Feeding(t, more)
  <2>1. SUFFICES ASSUME NEW v \in t.wires, v.to \in more PROVE v.from \in more
    BY DEF Feeding
  <2>2. id \notin C /\ \A x \in s.wires : x.to \in C => x.from \in C
    BY <1>6 DEF Feeding
  <2>3. CASE v = before
    BY <1>1, <2>1, <2>2, <2>3
  <2>4. CASE v = after
    BY <1>1, <1>4, <2>1, <2>2, <2>4
  <2>5. CASE v \in s.wires
    BY <1>4, <2>1, <2>2, <2>5
  <2>6. QED
    BY <1>2, <2>3, <2>4, <2>5
<1>12. C \subseteq D /\ D \subseteq more /\ id \notin C
  BY <1>6, <1>7, <1>8, <1>9, <1>10, <1>11
<1>13. D \ {id} = C
  BY <1>12
<1>14. QED
  BY <1>13 DEF C, D

-----------------------------------------------------------------------------
(* A component put on a wire and taken off again                            *)

Interposed(s, t, id, w, port) ==
  /\ id \notin DOMAIN s.node /\ DOMAIN t.node = (DOMAIN s.node) \cup {id}
  /\ \A d \in DOMAIN s.node : t.node[d] = s.node[d]
  /\ w \in s.wires /\ t.wires = (s.wires \ {w}) \cup Through(w, id, port)
  /\ RemoveAt(t.order, Position(t, id)) = s.order
  /\ t.entry = s.entry /\ t.universes = s.universes

LEMMA SameDocument ==
  ASSUME NEW s, Functional(s), DOMAIN s = Fields, NEW r, Functional(r), DOMAIN r = Fields,
         r.order = s.order, r.node = s.node, r.wires = s.wires, r.entry = s.entry,
         r.sets = s.sets, r.universes = s.universes
  PROVE  r = s
BY DEF Functional, Fields

LEMMA PositionFound ==
  ASSUME NEW t, Kept(t), NEW i \in DOMAIN t.order
  PROVE  Position(t, t.order[i]) = i
<1>1. \A j \in DOMAIN t.order : t.order[j] = t.order[i] => j = i
  BY KeptParts DEF Listed, Lists
<1>2. QED
  BY <1>1 DEF Position

LEMMA BypassedBack ==
  ASSUME NEW s, Kept(s), Consistent(s), NEW t, Kept(t), NEW id, NEW w, NEW port,
         Interposed(s, t, id, w, port),
         NEW froms, Prim(s, w.from) \in froms, NEW tos, Prim(s, w.to) \in tos
  PROVE  \E r \in Bypassed(t, id, froms, tos) :
           /\ Functional(r) /\ DOMAIN r = Fields
           /\ r.order = s.order /\ r.node = s.node /\ r.wires = s.wires
           /\ r.entry = s.entry /\ r.sets = t.sets /\ r.universes = s.universes
<1> DEFINE before == Wire(w.from, id, port)
           after == Wire(id, w.to, w.port)
           p == Without(t, id)
           x == <<before, after>>
           r == [p EXCEPT !.wires = (p.wires \ {before, after}) \cup {Wire(w.from, w.to, w.port)}]
<1>1. /\ w \in s.wires /\ id \notin DOMAIN s.node
      /\ t.wires = (s.wires \ {w}) \cup {before, after}
      /\ DOMAIN t.node = (DOMAIN s.node) \cup {id} /\ \A d \in DOMAIN s.node : t.node[d] = s.node[d]
  BY DEF Interposed, Through
<1>2. /\ before.from = w.from /\ before.to = id
      /\ after.from = id /\ after.to = w.to /\ after.port = w.port
  BY WireEnds
<1>3. ASSUME NEW v \in s.wires PROVE v.from \in DOMAIN s.node /\ v.to \in DOMAIN s.node
  BY Connected
<1>4. w.from # id /\ w.to # id /\ before \notin s.wires /\ after \notin s.wires
  BY <1>1, <1>2, <1>3
<1>5. w = Wire(w.from, w.to, w.port)
  BY <1>1, KeptParts DEF Shaped
<1>6. Prim(t, w.from) \in froms /\ Prim(t, w.to) \in tos
  BY <1>1, <1>3 DEF Prim
<1>7. /\ p.order = s.order /\ p.node = s.node /\ p.wires = t.wires
      /\ p.entry = s.entry /\ p.sets = t.sets /\ p.universes = s.universes
      /\ DOMAIN p = Fields
  <2>1. DOMAIN t = Fields
    BY KeptParts
  <2>2. Dropped(t.node, id) = s.node
    <3>1. Functional(s.node)
      BY KeptParts DEF Listed
    <3>2. QED
      BY <1>1, <3>1 DEF Dropped, Functional
  <2>3. RemoveAt(t.order, Position(t, id)) = s.order /\ t.entry = s.entry
        /\ t.universes = s.universes
    BY DEF Interposed
  <2>4. p = [t EXCEPT !.order = s.order, !.node = s.node]
    BY <2>1, <2>2, <2>3 DEF Without, Fields
  <2> HIDE DEF p
  <2>5. QED
    BY <2>1, <2>3, <2>4 DEF Fields
<1> HIDE DEF before, after, p
<1>8. \A y \in t.wires : id \in {y.from, y.to} <=> y \in {before, after}
  BY <1>1, <1>2, <1>3
<1>9. /\ {y \in t.wires : id \in {y.from, y.to}} = {before, after}
      /\ before \in {y \in t.wires : y.to = id} /\ after \in WiresFrom(t, id)
  BY <1>1, <1>2, <1>8 DEF WiresFrom
<1>10. (p.wires \ {before, after}) \cup {Wire(w.from, w.to, w.port)} = s.wires
  BY <1>1, <1>4, <1>5, <1>7
<1>11. /\ Functional(r) /\ DOMAIN r = Fields
       /\ r.order = s.order /\ r.node = s.node /\ r.wires = s.wires
       /\ r.entry = s.entry /\ r.sets = t.sets /\ r.universes = s.universes
  BY <1>7, <1>10 DEF Functional, Fields
<1>12. r \in Bypassed(t, id, froms, tos)
  <2> DEFINE Pairs == {y \in {z \in t.wires : z.to = id} \X WiresFrom(t, id) :
              /\ {z \in t.wires : id \in {z.from, z.to}} = {y[1], y[2]}
              /\ Prim(t, y[1].from) \in froms
              /\ Prim(t, y[2].to) \in tos}
             Direct(y) == [p EXCEPT !.wires = (@ \ {y[1], y[2]})
                                                \cup {Wire(y[1].from, y[2].to, y[2].port)}]
  <2>1. Bypassed(t, id, froms, tos) = {Direct(y) : y \in Pairs}
    BY DEF Bypassed, p
  <2>2. x \in Pairs
    BY <1>2, <1>6, <1>9
  <2>3. Direct(x) = r
    BY <1>2, <1>7 DEF Fields
  <2> HIDE DEF Pairs, Direct, r, x
  <2>4. QED
    BY <2>1, <2>2, <2>3
<1> HIDE DEF r
<1>13. QED
  BY <1>11, <1>12

-----------------------------------------------------------------------------
(* The counts of the strategy before are within its sets when those after are *)

LEMMA SameSizes ==
  ASSUME NEW s, Consistent(s), NEW t, NEW c,
         {u \in Upstream(s, c) : Prim(s, u) = "asset_set"}
           = {u \in Upstream(t, c) : Prim(t, u) = "asset_set"},
         \A d \in DOMAIN s.node : Prim(s, d) = "asset_set" => t.node[d] = s.node[d],
         \A key \in DOMAIN s.sets : key \in DOMAIN t.sets /\ t.sets[key] = s.sets[key]
  PROVE  SetSizes(s, c) = SetSizes(t, c)
<1> DEFINE U == {u \in Upstream(s, c) : Prim(s, u) = "asset_set"}
<1>1. ASSUME NEW d \in U PROVE AssetsOf(s, s.node[d]) = AssetsOf(t, t.node[d])
  <2>1. d \in DOMAIN s.node /\ s.node[d].prim = "asset_set" /\ t.node[d] = s.node[d]
    BY NoneAssumption DEF Prim, Primitives, SelectionPorts
  <2>2. s.node[d].ref \in DOMAIN s.sets
    BY <2>1 DEF Consistent, RefsKnown, Prim
  <2>3. QED
    BY <2>1, <2>2 DEF AssetsOf
<1>2. SetSizes(s, c) = {Cardinality(AssetsOf(s, s.node[d])) : d \in U}
  BY DEF SetSizes
<1>3. SetSizes(t, c) = {Cardinality(AssetsOf(t, t.node[d])) : d \in U}
  BY DEF SetSizes
<1> HIDE DEF U
<1>4. QED
  BY <1>1, <1>2, <1>3

LEMMA InterposedCounts ==
  ASSUME NEW s, Kept(s), Consistent(s), NEW t, Kept(t), Consistent(t), NEW id, NEW w, NEW port,
         Interposed(s, t, id, w, port), Prim(t, id) # "asset_set",
         \A key \in DOMAIN s.sets : key \in DOMAIN t.sets /\ t.sets[key] = s.sets[key],
         CountsWithinSets(t)
  PROVE  CountsWithinSets(s)
<1>1. /\ w \in s.wires /\ id \notin DOMAIN s.node /\ DOMAIN t.node = (DOMAIN s.node) \cup {id}
      /\ \A d \in DOMAIN s.node : t.node[d] = s.node[d]
      /\ t.wires = (s.wires \ {w}) \cup Through(w, id, port)
  BY DEF Interposed
<1>2. \A d \in DOMAIN s.node : Prim(t, d) = Prim(s, d)
  BY <1>1 DEF Prim
<1>3. ASSUME NEW c \in DOMAIN s.node PROVE SetSizes(s, c) = SetSizes(t, c)
  <2>1. Upstream(t, c) \ {id} = Upstream(s, c)
    BY <1>1, InterposedUpstream
  <2>2. Upstream(s, c) \subseteq DOMAIN s.node
    BY UpstreamLeast
  <2>3. {u \in Upstream(s, c) : Prim(s, u) = "asset_set"}
          = {u \in Upstream(t, c) : Prim(t, u) = "asset_set"}
    BY <1>2, <2>1, <2>2
  <2>4. QED
    BY <1>1, <2>3, SameSizes
<1>4. SUFFICES ASSUME NEW c \in DOMAIN s.node, Prim(s, c) \in Selections,
                      Cardinality(SetSizes(s, c)) = 1, NEW size \in SetSizes(s, c)
               PROVE  s.node[c].count <= size
  BY DEF CountsWithinSets
<1>5. c \in DOMAIN t.node /\ Prim(t, c) \in Selections /\ t.node[c] = s.node[c]
  BY <1>1, <1>2, <1>4
<1>6. QED
  BY <1>3, <1>4, <1>5 DEF CountsWithinSets

-----------------------------------------------------------------------------
(* What each recipe puts on a wire                                          *)

LEMMA AddedOnWire ==
  ASSUME NEW s, Kept(s), NEW id \in Nat, id \notin DOMAIN s.node, NEW n, NEW w \in s.wires,
         NEW port, NEW t, t = Rewired(With(s, <<id>>, <<n>>), w, Through(w, id, port)), Kept(t)
  PROVE  Interposed(s, t, id, w, port) /\ t.sets = s.sets /\ t.node[id] = n
<1> DEFINE r == With(s, <<id>>, <<n>>)
           ids == <<id>>
           nodes == <<n>>
           added(c) == nodes[CHOOSE i \in DOMAIN ids : ids[i] = c]
           node == [c \in DOMAIN s.node \cup ToSet(ids) |->
                      IF c \in ToSet(ids) THEN added(c) ELSE s.node[c]]
<1>1. DOMAIN s = Fields /\ Lists(s.order, DOMAIN s.node)
  BY KeptParts DEF Listed
<1>2. r = [s EXCEPT !.order = s.order \o ids, !.node = node]
  BY <1>1 DEF With, Fields
<1>3. ToSet(ids) = {id}
  BY OneListed DEF Lists
<1>4. added(id) = n
  <2>1. DOMAIN ids = {1} /\ ids[1] = id /\ nodes[1] = n
    OBVIOUS
  <2> HIDE DEF ids, nodes
  <2>2. (CHOOSE i \in DOMAIN ids : ids[i] = id) = 1
    BY <2>1
  <2>3. QED
    BY <2>1, <2>2
<1> HIDE DEF added
<1>5. /\ DOMAIN node = (DOMAIN s.node) \cup {id} /\ node[id] = n
      /\ \A d \in DOMAIN s.node : node[d] = s.node[d]
  BY <1>3, <1>4
<1> HIDE DEF node, r
<1>6. t = [r EXCEPT !.wires = (@ \ {w}) \cup Through(w, id, port)]
  BY DEF Rewired, r
<1>7. /\ t.order = s.order \o <<id>> /\ t.node = node
      /\ t.wires = (s.wires \ {w}) \cup Through(w, id, port)
      /\ t.entry = s.entry /\ t.universes = s.universes /\ t.sets = s.sets
  BY <1>1, <1>2, <1>6 DEF Fields
<1>8. RemoveAt(t.order, Position(t, id)) = s.order
  <2>1. Len(s.order) + 1 \in DOMAIN t.order /\ t.order[Len(s.order) + 1] = id
    BY <1>1, <1>7 DEF Lists
  <2>2. Position(t, id) = Len(s.order) + 1
    BY <2>1, PositionFound
  <2>3. QED
    BY <1>1, <1>7, <2>2, AppendedRemoved
<1>9. QED
  BY <1>5, <1>7, <1>8 DEF Interposed

(* A strategy that the operation of removal gives back.                     *)
GivenBack(s, removed) == \E r \in removed : Accepted(r) /\ r = s

LEMMA QualificationBack ==
  ASSUME NEW s, Kept(s), Consistent(s), NEW c \in DOMAIN s.node, NEW v,
         NEW t \in AddQualification(s, c, v), Accepted(t)
  PROVE  GivenBack(s, RemoveQualification(t, Named(c, "qualification")))
<1> DEFINE id == Named(c, "qualification")
           n == [Plain("filter") EXCEPT !.setting = v]
<1>1. PICK w \in QualificationSlots(s, c) :
        /\ id \notin DOMAIN s.node
        /\ t = Rewired(With(s, <<id>>, <<n>>), w, Through(w, id, "scores"))
  BY DEF AddQualification
<1>2. id \in Nat
  BY KeptParts, NamedApart DEF Listed
<1>3. Kept(t) /\ Consistent(t) /\ CountsWithinSets(t)
  BY QualificationKept DEF Accepted
<1>4. /\ w \in s.wires /\ w.to = c /\ w.port = "scores"
      /\ Prim(s, c) = "rank" /\ Prim(s, w.from) = "trailing_return"
  BY <1>1 DEF QualificationSlots, WiresTo
<1>5. n.prim = "filter"
  BY PlainConfigured, ValueEdited
<1> HIDE DEF id, n
<1>6. Interposed(s, t, id, w, "scores") /\ t.sets = s.sets /\ t.node[id] = n
  BY <1>1, <1>2, <1>3, <1>4, AddedOnWire
<1>7. Prim(t, id) = "filter"
  BY <1>5, <1>6 DEF Prim, Interposed
<1>8. PICK r \in Bypassed(t, id, {"trailing_return"}, {"rank"}) :
        /\ Functional(r) /\ DOMAIN r = Fields
        /\ r.order = s.order /\ r.node = s.node /\ r.wires = s.wires
        /\ r.entry = s.entry /\ r.sets = t.sets /\ r.universes = s.universes
  <2>1. Prim(s, w.from) \in {"trailing_return"} /\ Prim(s, w.to) \in {"rank"}
    BY <1>4
  <2>2. QED
    BY <1>3, <1>6, <2>1, BypassedBack
<1>9. r = s
  BY <1>6, <1>8, SameDocument, KeptParts
<1>10. CountsWithinSets(s)
  BY <1>3, <1>6, <1>7, InterposedCounts
<1>11. r \in RemoveQualification(t, id)
  BY <1>7, <1>8 DEF RemoveQualification
<1>12. QED
  BY <1>9, <1>10, <1>11 DEF GivenBack, Accepted, id

LEMMA CooldownBack ==
  ASSUME NEW s, Kept(s), Consistent(s), NEW c \in DOMAIN s.node, NEW k,
         NEW t \in AddCooldown(s, c, k), Accepted(t)
  PROVE  GivenBack(s, RemoveCooldown(t, Named(c, "cooldown")))
<1> DEFINE id == Named(c, "cooldown")
           n == [Plain("cooldown") EXCEPT !.duration = k]
           q(w) == Rewired(s, w, Through(w, id, "candidates"))
<1>1. PICK w \in CooldownSlots(s, c) :
        /\ Free(s, {id})
        /\ t = [q(w) EXCEPT !.order = InsertAt(@, Position(s, w.to), id), !.node = Entered(@, id, n)]
  BY DEF AddCooldown
<1>2. id \notin DOMAIN s.node
  BY <1>1 DEF Free, Occupied
<1>3. Kept(t) /\ Consistent(t) /\ CountsWithinSets(t)
  BY CooldownKept DEF Accepted
<1>4. /\ w \in s.wires /\ w.from = c
      /\ Prim(s, c) = "top_n" /\ Prim(s, w.to) = "equal_weight"
  BY <1>1 DEF CooldownSlots, WiresFrom
<1>5. n.prim = "cooldown"
  BY PlainConfigured, ValueEdited
<1> HIDE DEF id, n
<1> DEFINE i == Position(s, w.to)
           order == InsertAt(s.order, i, id)
           node == Entered(s.node, id, n)
<1>6. DOMAIN s = Fields /\ Lists(s.order, DOMAIN s.node) /\ i \in DOMAIN s.order
  BY <1>4, KeptParts, Connected, PositionKnown DEF Listed
<1>7. /\ t.order = order /\ t.node = node
      /\ t.wires = (s.wires \ {w}) \cup Through(w, id, "candidates")
      /\ t.entry = s.entry /\ t.universes = s.universes /\ t.sets = s.sets
  BY <1>1, <1>6 DEF Rewired, Fields
<1>8. /\ DOMAIN node = (DOMAIN s.node) \cup {id} /\ node[id] = n
      /\ \A d \in DOMAIN s.node : node[d] = s.node[d]
  BY <1>2 DEF Entered
<1> HIDE DEF i, order, node
<1>9. RemoveAt(t.order, Position(t, id)) = s.order
  <2>1. i \in DOMAIN order /\ order[i] = id
    <3> DEFINE U == (DOMAIN s.node) \cup {id}
    <3>1. s.order \in Seq(U) /\ id \in U /\ i \in 1..Len(s.order)
      BY <1>6 DEF Lists
    <3> HIDE DEF U
    <3>2. Longer(order, U, s.order, i, id)
      BY <3>1, EntriesInserted, Zenon DEF order
    <3>3. Len(s.order) \in Nat
      BY <3>1
    <3>4. QED
      BY <3>1, <3>2, <3>3 DEF Longer
  <2>2. Position(t, id) = i
    BY <1>3, <1>7, <2>1, PositionFound
  <2>3. RemoveAt(InsertAt(s.order, i, id), i) = s.order
    BY <1>6, InsertedRemoved
  <2>4. QED
    BY <1>7, <2>2, <2>3 DEF order
<1>10. Interposed(s, t, id, w, "candidates")
  BY <1>2, <1>4, <1>7, <1>8, <1>9 DEF Interposed
<1>11. Prim(t, id) = "cooldown"
  BY <1>5, <1>7, <1>8 DEF Prim
<1>12. PICK r \in Bypassed(t, id, {"top_n"}, {"equal_weight"}) :
        /\ Functional(r) /\ DOMAIN r = Fields
        /\ r.order = s.order /\ r.node = s.node /\ r.wires = s.wires
        /\ r.entry = s.entry /\ r.sets = t.sets /\ r.universes = s.universes
  <2>1. Prim(s, w.from) \in {"top_n"} /\ Prim(s, w.to) \in {"equal_weight"}
    BY <1>4
  <2>2. QED
    BY <1>3, <1>10, <2>1, BypassedBack
<1>13. r = s
  BY <1>7, <1>12, SameDocument, KeptParts
<1>14. CountsWithinSets(s)
  BY <1>3, <1>7, <1>10, <1>11, InterposedCounts
<1>15. r \in RemoveCooldown(t, id)
  BY <1>11, <1>12 DEF RemoveCooldown
<1>16. QED
  BY <1>13, <1>14, <1>15 DEF GivenBack, Accepted, id

(* No universe of a document has the id of the asset set of a fallback: the *)
(* ids that are looked at before one is generated are those of components   *)
(* and asset sets, and a fallback whose set a component names is kept.      *)
UniversesApart ==
  \A s \in Starts : \A u \in DOMAIN s.universes : \A c \in Nat : u # Named(c, "fallback_assets")

LEMMA FallbackBack ==
  ASSUME UniversesApart,
         NEW s, Kept(s), Consistent(s), NEW c \in DOMAIN s.node, NEW assets,
         NEW t \in AddFallback(s, c, assets), Accepted(t)
  PROVE  GivenBack(s, RemoveFallback(t, Named(c, "fallback")))
<1> DEFINE id == Named(c, "fallback")
           set == Named(c, "fallback_assets")
           n == [Plain("fallback") EXCEPT !.ref = set]
           q(w) == Rewired(With(s, <<id>>, <<n>>), w, Through(w, id, "primary"))
<1>1. PICK w \in FallbackSlots(s, c) :
        Free(s, {id, set}) /\ t = [q(w) EXCEPT !.sets = Entered(@, set, assets)]
  BY DEF AddFallback
<1>2. id \in Nat /\ set \in Nat
  BY KeptParts, NamedApart DEF Listed
<1>3. Kept(t) /\ Consistent(t) /\ CountsWithinSets(t)
  BY FallbackKept DEF Accepted
<1>4. /\ w \in s.wires /\ w.from = c
      /\ Prim(s, c) = "equal_weight" /\ Prim(s, w.to) = "rebalance"
  BY <1>1 DEF FallbackSlots, WiresFrom, Rebalanced
<1>5. id \notin DOMAIN s.node /\ set \notin DOMAIN s.sets
  BY <1>1 DEF Free, Occupied
<1>6. Configured(n) /\ n.prim = "fallback" /\ n.ref = set
  <2>1. Configured(n) /\ n.prim = "fallback"
    BY PlainConfigured, ValueEdited DEF Referring
  <2>2. n.ref = set
    BY SamePlainFields
  <2>3. QED
    BY <2>1, <2>2
<1>7. \A u \in DOMAIN s.universes : u # set
  <2>1. c \in Nat /\ s.universes \in Universes
    BY KeptParts DEF Listed
  <2>2. PICK x \in Starts : s.universes = x.universes
    BY <2>1 DEF Universes
  <2>3. QED
    BY <2>1, <2>2 DEF UniversesApart
<1> HIDE DEF id, set, n
<1>8. Kept(q(w))
  BY <1>2, <1>5, <1>6, AddedKept, Zenon
<1>9. Interposed(s, q(w), id, w, "primary") /\ q(w).sets = s.sets /\ q(w).node[id] = n
  <2>1. q(w) = Rewired(With(s, <<id>>, <<n>>), w, Through(w, id, "primary"))
    OBVIOUS
  <2> HIDE DEF q
  <2>2. QED
    BY <1>2, <1>4, <1>5, <1>8, <2>1, AddedOnWire
<1> DEFINE p == q(w)
<1> HIDE DEF q
<1>10. /\ t.order = p.order /\ t.node = p.node /\ t.wires = p.wires /\ t.entry = p.entry
       /\ t.universes = p.universes /\ t.sets = Entered(s.sets, set, assets)
  BY <1>1, <1>8, <1>9, KeptParts DEF Fields
<1>11. Interposed(s, t, id, w, "primary") /\ t.node[id] = n
  BY <1>9, <1>10 DEF Interposed, Position
<1> HIDE DEF p
<1>12. Prim(t, id) = "fallback"
  BY <1>6, <1>11 DEF Prim, Interposed
<1>13. \A d \in DOMAIN t.node \ {id} : t.node[d].ref # t.node[id].ref
  <2>1. SUFFICES ASSUME NEW d \in DOMAIN s.node PROVE s.node[d].ref # set
    BY <1>6, <1>11 DEF Interposed
  <2>2. Configured(s.node[d])
    BY KeptParts DEF Listed
  <2>3. CASE s.node[d].prim \in {"asset_set", "fallback"}
    <3>1. s.node[d].ref \in DOMAIN s.sets
      BY <2>3 DEF Consistent, RefsKnown, Prim
    <3>2. QED
      BY <1>5, <3>1
  <2>4. CASE s.node[d].prim = "universe"
    <3>1. s.node[d].ref \in DOMAIN s.universes
      BY <2>4 DEF Consistent, RefsKnown, Prim
    <3>2. QED
      BY <1>7, <3>1
  <2>5. CASE s.node[d].prim \notin {"asset_set", "fallback", "universe"}
    <3>1. s.node[d].ref = None
      BY <2>2, <2>5 DEF Configured
    <3>2. QED
      BY <1>2, <3>1, NoIdAssumption
  <2>6. QED
    BY <2>3, <2>4, <2>5
<1>14. PICK r \in Bypassed(t, id, {"equal_weight"}, {"rebalance", "portfolio_sleeve"}) :
        /\ Functional(r) /\ DOMAIN r = Fields
        /\ r.order = s.order /\ r.node = s.node /\ r.wires = s.wires
        /\ r.entry = s.entry /\ r.sets = t.sets /\ r.universes = s.universes
  <2>1. /\ Prim(s, w.from) \in {"equal_weight"}
        /\ Prim(s, w.to) \in {"rebalance", "portfolio_sleeve"}
    BY <1>4
  <2>2. QED
    BY <1>3, <1>11, <2>1, BypassedBack
<1> DEFINE back == [r EXCEPT !.sets = Dropped(@, t.node[id].ref)]
<1>15. Dropped(Entered(s.sets, set, assets), set) = s.sets
  <2>1. Functional(s.sets)
    BY KeptParts DEF Definitions
  <2>2. QED
    BY <1>5, <2>1 DEF Dropped, Entered, Functional
<1>16. /\ Functional(back) /\ DOMAIN back = Fields
       /\ back.order = s.order /\ back.node = s.node /\ back.wires = s.wires
       /\ back.entry = s.entry /\ back.sets = s.sets /\ back.universes = s.universes
  <2>1. back = [r EXCEPT !.sets = s.sets]
    BY <1>6, <1>10, <1>11, <1>14, <1>15 DEF Fields
  <2> HIDE DEF back
  <2>2. QED
    BY <1>14, <2>1 DEF Fields, Functional
<1>17. back \in RemoveFallback(t, id)
  BY <1>12, <1>13, <1>14 DEF RemoveFallback
<1> HIDE DEF back
<1>18. back = s
  BY <1>16, SameDocument, KeptParts
<1>19. CountsWithinSets(s)
  <2>1. \A key \in DOMAIN s.sets : key \in DOMAIN t.sets /\ t.sets[key] = s.sets[key]
    BY <1>5, <1>10 DEF Entered
  <2>2. QED
    BY <1>3, <1>11, <1>12, <2>1, InterposedCounts
<1>20. QED
  BY <1>17, <1>18, <1>19 DEF GivenBack, Accepted, id

LEMMA PredicateBack ==
  ASSUME NEW s, Kept(s), Consistent(s), NEW c \in DOMAIN s.node, NEW asset,
         NEW t \in AddPredicate(s, c, asset), Accepted(t)
  PROVE  GivenBack(s, RemovePredicate(t, c))
<1> DEFINE m == s.node[c]
           n == [m EXCEPT !.prim = "rule", !.clauses = {"condition"}, !.assets = {asset},
                          !.then = None, !.otherwise = None]
<1>1. PICK w \in WiresTo(s, c, "targets") :
        Prim(s, c) = "rebalance" /\ t = Rewired(Ruled(s, c, {asset}, w.from, None), w, {})
  BY DEF AddPredicate
<1>2. w \in s.wires /\ w.to = c /\ w.port = "targets"
  BY <1>1 DEF WiresTo
<1>3. Kept(t) /\ Consistent(t) /\ CountsWithinSets(t)
  BY PredicatesKept DEF Accepted
<1>4. /\ DOMAIN s = Fields /\ Functional(s) /\ Functional(s.node) /\ m = Plain("rebalance")
      /\ w = Wire(w.from, c, "targets")
  <2>1. DOMAIN s = Fields /\ Functional(s) /\ Functional(s.node) /\ Configured(m)
        /\ w = Wire(w.from, w.to, w.port)
    BY <1>2, KeptParts DEF Listed, Shaped
  <2>2. m.prim = "rebalance"
    BY <1>1 DEF Prim
  <2>3. QED
    BY <1>2, <2>1, <2>2 DEF Configured
<1>5. /\ t.order = s.order /\ t.entry = s.entry /\ t.sets = s.sets
      /\ t.universes = s.universes /\ t.wires = s.wires \ {w}
      /\ DOMAIN t.node = DOMAIN s.node
      /\ \A d \in DOMAIN s.node : d # c => t.node[d] = s.node[d]
      /\ t.node[c].prim = "rule" /\ t.node[c].then = w.from /\ t.node[c].otherwise = None
  <2> DEFINE k == [m EXCEPT !.prim = "rule", !.clauses = {"condition"}, !.assets = {asset},
                            !.then = w.from, !.otherwise = None]
             after == [s.node EXCEPT ![c] = k]
  <2>1. t = [[s EXCEPT !.node = after] EXCEPT !.wires = s.wires \ {w}]
    BY <1>1, <1>4 DEF Ruled, Rewired, Fields
  <2>2. {"prim", "then", "otherwise"} \subseteq DOMAIN m
    BY <1>4 DEF Plain
  <2>3. k.prim = "rule" /\ k.then = w.from /\ k.otherwise = None
    BY <2>2
  <2> HIDE DEF k
  <2>4. DOMAIN after = DOMAIN s.node /\ after[c] = k
        /\ \A d \in DOMAIN s.node : d # c => after[d] = s.node[d]
    OBVIOUS
  <2> HIDE DEF after
  <2>5. /\ t.order = s.order /\ t.entry = s.entry /\ t.sets = s.sets
        /\ t.universes = s.universes /\ t.wires = s.wires \ {w} /\ t.node = after
    BY <1>4, <2>1 DEF Fields
  <2>6. QED
    BY <2>3, <2>4, <2>5
<1> HIDE DEF m, n
<1> DEFINE r == [t EXCEPT !.node[c] = Plain("rebalance"),
                          !.wires = @ \cup {Wire(t.node[c].then, c, "targets")}]
<1>6. r \in RemovePredicate(t, c)
  <2>1. IsPredicate(t, c)
    BY <1>5 DEF IsPredicate, Prim
  <2>2. QED
    BY <2>1 DEF RemovePredicate
<1>7. r = s
  <2>1. DOMAIN t = Fields
    BY <1>3, KeptParts
  <2>2. [t.node EXCEPT ![c] = Plain("rebalance")] = s.node
    BY <1>4, <1>5 DEF Functional, m
  <2>3. t.wires \cup {Wire(t.node[c].then, c, "targets")} = s.wires
    BY <1>2, <1>4, <1>5
  <2>4. r = [t EXCEPT !.node = s.node, !.wires = s.wires]
    BY <2>1, <2>2, <2>3 DEF Fields
  <2> HIDE DEF r
  <2>5. /\ Functional(r) /\ DOMAIN r = Fields
        /\ r.order = s.order /\ r.node = s.node /\ r.wires = s.wires
        /\ r.entry = s.entry /\ r.sets = s.sets /\ r.universes = s.universes
    BY <1>5, <2>1, <2>4 DEF Functional, Fields
  <2>6. QED
    BY <1>4, <2>5, SameDocument
<1> HIDE DEF r
<1>8. ASSUME NEW d \in DOMAIN s.node, d # c PROVE SetSizes(s, d) = SetSizes(t, d)
  <2> DEFINE C == Upstream(s, d)
             D == Upstream(t, d)
             X == (DOMAIN s.node) \ {c}
  <2>1. d \in C /\ Feeding(s, C) /\ C \subseteq DOMAIN s.node
    BY UpstreamLeast
  <2>2. \A Y : d \in Y /\ Feeding(s, Y) => C \subseteq Y
    BY UpstreamLeast
  <2>3. d \in D /\ Feeding(t, D) /\ \A Y : d \in Y /\ Feeding(t, Y) => D \subseteq Y
    BY <1>3, <1>5, UpstreamLeast
  <2> HIDE DEF C, D
  <2>4. ASSUME NEW v \in s.wires PROVE v.from \in X
    <3>1. v.from \in DOMAIN s.node /\ PortsOf(Prim(s, v.from)).out # None
      BY Connected
    <3>2. PortsOf("rebalance").out = None
      BY DEF PortsOf, SelectionPorts, AllocationPorts, Ports
    <3>3. QED
      BY <1>1, <3>1, <3>2
  <2>5. D \subseteq X
    BY <1>5, <1>8, <2>3, <2>4 DEF Feeding
  <2>6. Feeding(s, D)
    BY <1>2, <1>5, <2>3, <2>5 DEF Feeding
  <2>7. Feeding(t, C)
    BY <1>5, <2>1 DEF Feeding
  <2>8. C = D
    BY <2>1, <2>2, <2>3, <2>6, <2>7
  <2>9. \A u \in C : Prim(t, u) = Prim(s, u)
    BY <1>5, <2>5, <2>8 DEF Prim
  <2>10. {u \in Upstream(s, d) : Prim(s, u) = "asset_set"}
          = {u \in Upstream(t, d) : Prim(t, u) = "asset_set"}
    BY <2>8, <2>9 DEF C, D
  <2>11. \A u \in DOMAIN s.node : Prim(s, u) = "asset_set" => t.node[u] = s.node[u]
    BY <1>1, <1>5
  <2>12. QED
    BY <1>5, <2>10, <2>11, SameSizes
<1>9. CountsWithinSets(s)
  <2>1. SUFFICES ASSUME NEW d \in DOMAIN s.node, Prim(s, d) \in Selections,
                        Cardinality(SetSizes(s, d)) = 1, NEW size \in SetSizes(s, d)
                 PROVE  s.node[d].count <= size
    BY DEF CountsWithinSets
  <2>2. d # c
    BY <1>1, <2>1 DEF Selections
  <2>3. d \in DOMAIN t.node /\ Prim(t, d) \in Selections /\ t.node[d] = s.node[d]
    BY <1>5, <2>1, <2>2 DEF Prim
  <2>4. QED
    BY <1>3, <1>8, <2>1, <2>2, <2>3 DEF CountsWithinSets
<1>10. QED
  BY <1>6, <1>7, <1>9 DEF GivenBack, Accepted

(* The remove operation for the id a recipe generated gives back the        *)
(* strategy as it was, of every recipe and in every reachable strategy,     *)
(* also those a batch composed, whose counts are not compared with their    *)
(* sets (docs/authoring.md:62, "unambiguous inverse"): the document, its    *)
(* order and definitions, and with them what it compiles to.                *)
THEOREM RecipesUndone ==
  ASSUME UniversesApart
  PROVE  StructuralSpec => []UndoRestores
<1>1. Standing => UndoRestores
  <2>1. SUFFICES ASSUME Standing, NEW c \in Components
                 PROVE  /\ \A v \in Thresholds :
                             Undone(AddQualification(strategy, c, v),
                                    LAMBDA s : RemoveQualification(s, Named(c, "qualification")))
                        /\ \A assets \in Symbols :
                             Undone(AddFallback(strategy, c, assets),
                                    LAMBDA s : RemoveFallback(s, Named(c, "fallback")))
                        /\ \A k \in Numbers :
                             Undone(AddCooldown(strategy, c, k),
                                    LAMBDA s : RemoveCooldown(s, Named(c, "cooldown")))
                        /\ \A asset \in Signals :
                             Undone(AddPredicate(strategy, c, asset),
                                    LAMBDA s : RemovePredicate(s, c))
    BY DEF UndoRestores
  <2>2. c \in DOMAIN strategy.node /\ Kept(strategy) /\ Consistent(strategy)
    BY <2>1 DEF Standing, Components
  <2>3. ASSUME NEW v
        PROVE  Undone(AddQualification(strategy, c, v),
                      LAMBDA s : RemoveQualification(s, Named(c, "qualification")))
    BY <2>2, QualificationBack DEF Undone, GivenBack
  <2>4. ASSUME NEW assets
        PROVE  Undone(AddFallback(strategy, c, assets),
                      LAMBDA s : RemoveFallback(s, Named(c, "fallback")))
    BY <2>2, FallbackBack DEF Undone, GivenBack
  <2>5. ASSUME NEW k
        PROVE  Undone(AddCooldown(strategy, c, k),
                      LAMBDA s : RemoveCooldown(s, Named(c, "cooldown")))
    BY <2>2, CooldownBack DEF Undone, GivenBack
  <2>6. ASSUME NEW asset
        PROVE  Undone(AddPredicate(strategy, c, asset), LAMBDA s : RemovePredicate(s, c))
    BY <2>2, PredicateBack DEF Undone, GivenBack
  <2>7. QED
    BY <2>3, <2>4, <2>5, <2>6
<1>2. QED
  BY <1>1, AlwaysStanding, PTL

=============================================================================
