---------------------- MODULE DecisionComparisonProofs ----------------------
(***************************************************************************)
(* Theorems about the evidence of Runs and about their Comparison, for any *)
(* lines an algorithm may log and any way their log may be damaged before  *)
(* the collector reads it.                                                 *)
(***************************************************************************)
EXTENDS DecisionComparison, FiniteSetTheorems, TLAPS

(* A log of lines numbered by their position.                               *)
IsNumbered(log) ==
  /\ log \in Seq(ToSet(log))
  /\ \A i \in DOMAIN log : log[i].sequence = i

(* Each line that arrives is one of those logged.                           *)
IsCarried(received, log) ==
  /\ received \in Seq(ToSet(received))
  /\ \A i \in DOMAIN received : \E k \in DOMAIN log : received[i] = log[k]

EvidenceInv ==
  /\ DOMAIN emitted = Runs /\ DOMAIN arrived = Runs /\ DOMAIN evidence = Runs
  /\ \A r \in Runs :
       /\ emitted[r] # None => \E trace \in Traces : emitted[r] = Numbered(trace)
       /\ arrived[r] # None => emitted[r] # None /\ IsCarried(arrived[r], emitted[r])
       /\ evidence[r] \notin {None, Failed} =>
            arrived[r] # None /\ evidence[r] = arrived[r] /\ Collectable(arrived[r])

LEMMA NumberedByPosition ==
  ASSUME NEW trace \in Traces
  PROVE  IsNumbered(Numbered(trace)) /\ Len(Numbered(trace)) = Len(trace)
<1>1. /\ trace \in Seq(ToSet(trace)) /\ Len(trace) \in Nat /\ DOMAIN trace = 1..Len(trace)
      /\ \A i \in DOMAIN trace : "sequence" \in DOMAIN trace[i]
  BY TracesAssumption DEF Fields
<1>2. DOMAIN Numbered(trace) = 1..Len(trace)
  BY <1>1 DEF Numbered
<1>3. \A i \in DOMAIN Numbered(trace) : Numbered(trace)[i].sequence = i
  BY <1>1 DEF Numbered
<1>4. Numbered(trace) \in Seq(ToSet(Numbered(trace)))
  BY <1>1, <1>2 DEF ToSet, Numbered
<1>5. QED
  BY <1>1, <1>2, <1>3, <1>4 DEF IsNumbered

(* A numbered log that arrives with its numbers counting from 1 has lost    *)
(* nothing but lines at its end.                                            *)
LEMMA CountingIsPrefix ==
  ASSUME NEW log, IsNumbered(log), NEW received, IsCarried(received, log), Collectable(received)
  PROVE  IsPrefix(received, log)
<1>1. /\ Len(received) \in Nat /\ DOMAIN received = 1..Len(received)
      /\ Len(log) \in Nat /\ DOMAIN log = 1..Len(log)
  BY DEF IsNumbered, IsCarried
<1>2. \A i \in 1..Len(received) : i \in 1..Len(log) /\ received[i] = log[i]
  BY <1>1 DEF IsNumbered, IsCarried, Collectable
<1>3. Len(received) <= Len(log)
  BY <1>1, <1>2
<1>4. SubSeq(received, 1, Len(received)) = SubSeq(log, 1, Len(received))
  BY <1>1, <1>2, <1>3
<1>5. QED
  BY <1>3, <1>4 DEF IsPrefix

LEMMA EvidenceStep ==
  ASSUME EvidenceInv, [Next]_vars
  PROVE  EvidenceInv'
<1>1. ASSUME NEW r \in Runs, Execute(r)
      PROVE  EvidenceInv'
  <2>1. PICK trace \in Traces : emitted' = [emitted EXCEPT ![r] = Numbered(trace)]
    BY <1>1 DEF Execute
  <2>2. emitted[r] = None /\ UNCHANGED <<arrived, evidence>>
    BY <1>1 DEF Execute
  <2>3. QED
    BY <2>1, <2>2 DEF EvidenceInv
<1>2. ASSUME NEW r \in Runs, Carry(r)
      PROVE  EvidenceInv'
  <2>1. PICK positions \in Carried[Len(emitted[r])] :
           arrived' = [arrived EXCEPT ![r] = [i \in DOMAIN positions |-> emitted[r][positions[i]]]]
    BY <1>2 DEF Carry
  <2>2. /\ emitted[r] # None /\ arrived[r] = None
        /\ UNCHANGED <<emitted, evidence>>
    BY <1>2 DEF Carry
  <2>3. positions \in Seq(1..Len(emitted[r])) /\ DOMAIN emitted[r] = 1..Len(emitted[r])
    <3>1. PICK trace \in Traces : emitted[r] = Numbered(trace)
      BY <2>2 DEF EvidenceInv
    <3>2. IsNumbered(emitted[r]) /\ Len(emitted[r]) = Len(trace)
      BY <3>1, NumberedByPosition
    <3>3. QED
      BY <3>2, TracesAssumption DEF IsNumbered
  <2> DEFINE received == [i \in DOMAIN positions |-> emitted[r][positions[i]]]
  <2>4. IsCarried(received, emitted[r])
    BY <2>3, SMTT(30) DEF IsCarried, ToSet
  <2> HIDE DEF received
  <2>5. QED
    BY <2>1, <2>2, <2>4 DEF EvidenceInv, received
<1>3. ASSUME NEW r \in Runs, Collect(r)
      PROVE  EvidenceInv'
  BY <1>3 DEF Collect, EvidenceInv
<1>4. CASE Compare \/ UNCHANGED vars
  BY <1>4 DEF Compare, vars, EvidenceInv
<1>5. QED
  BY <1>1, <1>2, <1>3, <1>4 DEF Next

(* However the lines of a log are lost, repeated or moved on their way, the *)
(* evidence stored of a Run is what its algorithm logged, from the          *)
(* beginning and in that order: collect_decision_evidence refuses the rest. *)
THEOREM EvidenceIsPrefix == Spec => []CollectedIsPrefix
<1>1. Init => EvidenceInv
  BY DEF Init, EvidenceInv, Runs
<1>2. EvidenceInv /\ [Next]_vars => EvidenceInv'
  BY EvidenceStep
<1>3. EvidenceInv => CollectedIsPrefix
  BY CountingIsPrefix, NumberedByPosition DEF EvidenceInv, CollectedIsPrefix, Collected
<1>4. QED
  BY <1>1, <1>2, <1>3, PTL DEF Spec

-----------------------------------------------------------------------------
(* Sorting *)

IsTotal(R, P) ==
  /\ \A i, j \in P : <<i, j>> \in R \/ <<j, i>> \in R
  /\ \A i, j \in P : <<i, j>> \in R /\ <<j, i>> \in R => i = j
  /\ \A i, j, k \in P : <<i, j>> \in R /\ <<j, k>> \in R => <<i, k>> \in R

(* The number of elements up to each, and what makes it a position.         *)
RankIn(P, R) == [i \in P |-> Cardinality({j \in P : <<j, i>> \in R})]
CountsOff(rank, P, R) ==
  /\ rank \in [P -> 1..Cardinality(P)]
  /\ \A i, j \in P : rank[i] = rank[j] => i = j
  /\ \A n \in 1..Cardinality(P) : \E i \in P : rank[i] = n
  /\ \A i, j \in P : rank[i] <= rank[j] => <<i, j>> \in R

(* A total order on a finite set counts its elements off: the number of     *)
(* those up to an element is its position.                                  *)
LEMMA RankBijection ==
  ASSUME NEW P, IsFiniteSet(P), NEW R, IsTotal(R, P)
  PROVE  CountsOff(RankIn(P, R), P, R)
<1> DEFINE rank == RankIn(P, R)
<1> USE DEF IsTotal
<1> DEFINE UpTo(i) == {j \in P : <<j, i>> \in R}
<1>1. \A i \in P : IsFiniteSet(UpTo(i)) /\ Cardinality(UpTo(i)) \in 1..Cardinality(P)
  <2> SUFFICES ASSUME NEW i \in P
               PROVE  IsFiniteSet(UpTo(i)) /\ Cardinality(UpTo(i)) \in 1..Cardinality(P)
    OBVIOUS
  <2>1. IsFiniteSet(UpTo(i)) /\ Cardinality(UpTo(i)) <= Cardinality(P)
    <3>1. UpTo(i) \subseteq P
      OBVIOUS
    <3>2. QED
      BY <3>1, FS_Subset
  <2>2. UpTo(i) # {}
    OBVIOUS
  <2>3. Cardinality(UpTo(i)) # 0
    BY <2>1, <2>2, FS_EmptySet
  <2>4. Cardinality(UpTo(i)) \in Nat /\ Cardinality(P) \in Nat
    BY <2>1, FS_CardinalityType
  <2>5. QED
    BY <2>1, <2>3, <2>4
<1>2. ASSUME NEW i \in P, NEW j \in P, <<i, j>> \in R, i # j
      PROVE  Cardinality(UpTo(i)) < Cardinality(UpTo(j))
  <2>1. UpTo(i) \subseteq UpTo(j) /\ j \in UpTo(j) /\ j \notin UpTo(i)
    BY <1>2
  <2>2. /\ Cardinality(UpTo(i)) <= Cardinality(UpTo(j))
        /\ Cardinality(UpTo(i)) = Cardinality(UpTo(j)) => UpTo(i) = UpTo(j)
    BY <2>1, <1>1, FS_Subset
  <2>3. Cardinality(UpTo(i)) \in Nat /\ Cardinality(UpTo(j)) \in Nat
    BY <1>1, FS_CardinalityType
  <2>4. QED
    BY <2>1, <2>2, <2>3
<1>3. \A i \in P : rank[i] = Cardinality(UpTo(i))
  BY DEF RankIn
<1> HIDE DEF UpTo
<1>4. rank \in [P -> 1..Cardinality(P)]
  BY <1>1, <1>3 DEF RankIn
<1> HIDE DEF rank
<1>5. \A i, j \in P : rank[i] = rank[j] => i = j
  <2> SUFFICES ASSUME NEW i \in P, NEW j \in P, rank[i] = rank[j], i # j
               PROVE  FALSE
    OBVIOUS
  <2>1. Cardinality(UpTo(i)) = Cardinality(UpTo(j))
    BY <1>3
  <2>2. \/ Cardinality(UpTo(i)) < Cardinality(UpTo(j))
        \/ Cardinality(UpTo(j)) < Cardinality(UpTo(i))
    BY <1>2
  <2>3. Cardinality(UpTo(i)) \in Int
    BY <1>1, FS_CardinalityType
  <2>4. QED
    BY <2>1, <2>2, <2>3
<1>6. rank \in Injection(P, 1..Cardinality(P))
  <2>1. DOMAIN rank = P
    BY <1>4
  <2>2. IsInjective(rank)
    BY <1>5, <2>1, Zenon DEF IsInjective
  <2>3. QED
    BY <1>4, <2>2, Zenon DEF Injection
<1>7. Cardinality(P) \in Nat /\ Cardinality(1..Cardinality(P)) = Cardinality(P)
      /\ IsFiniteSet(1..Cardinality(P))
  BY FS_CardinalityType, FS_Interval
<1>8. rank \in Surjection(P, 1..Cardinality(P))
  BY <1>6, <1>7, FS_Injection
<1>9. \A n \in 1..Cardinality(P) : \E i \in P : rank[i] = n
  BY <1>8 DEF Surjection
<1>10. \A i, j \in P : rank[i] <= rank[j] => <<i, j>> \in R
  <2> SUFFICES ASSUME NEW i \in P, NEW j \in P, rank[i] <= rank[j], <<i, j>> \notin R
               PROVE  FALSE
    OBVIOUS
  <2>1. Cardinality(UpTo(j)) < Cardinality(UpTo(i))
    BY <1>2
  <2>2. Cardinality(UpTo(i)) <= Cardinality(UpTo(j))
    BY <1>3
  <2>3. QED
    BY <2>1, <2>2, <1>1, <1>7
<1>11. QED
  BY <1>4, <1>5, <1>9, <1>10 DEF CountsOff, rank

(* A finite set enumerated: each of its elements once.                      *)
LEMMA Enumerated ==
  ASSUME NEW S, IsFiniteSet(S)
  PROVE  /\ SetToSeq(S) \in [1..Cardinality(S) -> S]
         /\ \A i, j \in 1..Cardinality(S) : SetToSeq(S)[i] = SetToSeq(S)[j] => i = j
         /\ \A x \in S : \E i \in 1..Cardinality(S) : SetToSeq(S)[i] = x
         /\ Cardinality(S) \in Nat
<1>1. PICK f : f \in Bijection(1..Cardinality(S), S)
  BY FS_CardinalityType DEF ExistsBijection
<1>2. f \in [1..Cardinality(S) -> S] /\ IsInjective(f)
  BY <1>1 DEF Bijection, Injection
<1>3. SetToSeq(S) \in [1..Cardinality(S) -> S] /\ IsInjective(SetToSeq(S))
  BY <1>2 DEF SetToSeq
<1>4. Cardinality(S) \in Nat /\ IsFiniteSet(1..Cardinality(S))
      /\ Cardinality(1..Cardinality(S)) = Cardinality(S)
  BY FS_CardinalityType, FS_Interval
<1>5. SetToSeq(S) \in Injection(1..Cardinality(S), S)
  BY <1>3, Zenon DEF Injection
<1>6. SetToSeq(S) \in Surjection(1..Cardinality(S), S)
  BY <1>4, <1>5, FS_Injection
<1>7. QED
  BY <1>3, <1>4, <1>6 DEF Surjection, IsInjective

(* An order whose elements are alike when neither is before the other.      *)
IsOrder(before, S) ==
  /\ \A x, y \in S : ~(<<x, y>> \in before /\ <<y, x>> \in before)
  /\ \A x, y, z \in S : <<x, z>> \in before => <<x, y>> \in before \/ <<y, z>> \in before

(* Sorting loses nothing, repeats nothing, and puts nothing in front of     *)
(* what is before it.                                                       *)
LEMMA SortedIsOrdered ==
  ASSUME NEW S, IsFiniteSet(S), NEW before, IsOrder(before, S)
  PROVE  /\ Sorted(S, before) \in [1..Cardinality(S) -> S]
         /\ \A x \in S : \E n \in 1..Cardinality(S) : Sorted(S, before)[n] = x
         /\ \A m, n \in 1..Cardinality(S) :
              m < n => <<Sorted(S, before)[n], Sorted(S, before)[m]>> \notin before
         /\ Cardinality(S) \in Nat
<1> DEFINE met == SetToSeq(S)
           N == DOMAIN met
           ahead(j, i) == <<met[j], met[i]>> \in before
           rank == [i \in N |-> Cardinality(
                      {j \in N : \/ <<met[j], met[i]>> \in before
                                 \/ j <= i /\ <<met[i], met[j]>> \notin before})]
           R == {p \in N \X N : ahead(p[1], p[2]) \/ (p[1] <= p[2] /\ ~ahead(p[2], p[1]))}
           at(n) == CHOOSE i \in N : rank[i] = n
<1>1. /\ met \in [N -> S] /\ N = 1..Cardinality(S)
      /\ \A x \in S : \E i \in N : met[i] = x
      /\ Cardinality(S) \in Nat
  BY Enumerated
<1>2. IsFiniteSet(N) /\ Cardinality(N) = Cardinality(S) /\ N \subseteq Int
  BY <1>1, FS_Interval
<1>3. Sorted(S, before) = [n \in N |-> met[at(n)]]
  BY Zenon DEF Sorted
<1>4. rank = RankIn(N, R)
  <2>1. \A i \in N : {j \in N : <<j, i>> \in R} =
          {j \in N : <<met[j], met[i]>> \in before \/ (j <= i /\ <<met[i], met[j]>> \notin before)}
    OBVIOUS
  <2>2. QED
    BY <2>1, Zenon DEF RankIn
<1> HIDE DEF met, N, rank
<1>5. \A i, j \in N : <<j, i>> \in R <=> ahead(j, i) \/ (j <= i /\ ~ahead(i, j))
  OBVIOUS
<1>6. \A i, j \in N : ~(ahead(i, j) /\ ahead(j, i))
  BY <1>1 DEF IsOrder
<1>7. \A i, j, k \in N : ahead(i, k) => ahead(i, j) \/ ahead(j, k)
  BY <1>1 DEF IsOrder
<1> HIDE DEF R, ahead
<1>8. \A i, j \in N : <<i, j>> \in R \/ <<j, i>> \in R
  <2> SUFFICES ASSUME NEW i \in N, NEW j \in N
               PROVE  <<i, j>> \in R \/ <<j, i>> \in R
    OBVIOUS
  <2>1. i <= j \/ j <= i
    BY <1>2
  <2>2. QED
    BY <2>1, <1>5
<1>9. \A i, j \in N : <<i, j>> \in R /\ <<j, i>> \in R => i = j
  <2> SUFFICES ASSUME NEW i \in N, NEW j \in N, <<i, j>> \in R, <<j, i>> \in R
               PROVE  i = j
    OBVIOUS
  <2>1. i <= j /\ j <= i
    BY <1>5, <1>6
  <2>2. QED
    BY <2>1, <1>2
<1>10. \A i, j, k \in N : <<i, j>> \in R /\ <<j, k>> \in R => <<i, k>> \in R
  <2> SUFFICES ASSUME NEW i \in N, NEW j \in N, NEW k \in N,
                      <<i, j>> \in R, <<j, k>> \in R
               PROVE  <<i, k>> \in R
    OBVIOUS
  <2>1. CASE ahead(i, j) \/ ahead(j, k)
    <3>1. ahead(i, k)
      BY <2>1, <1>5, <1>6, <1>7
    <3>2. QED
      BY <3>1, <1>5
  <2>2. CASE i <= j /\ j <= k /\ ~ahead(j, i) /\ ~ahead(k, j)
    BY <2>2, <1>2, <1>5, <1>7
  <2>3. QED
    BY <2>1, <2>2, <1>5
<1>11. /\ rank \in [N -> 1..Cardinality(N)]
       /\ \A i, j \in N : rank[i] = rank[j] => i = j
       /\ \A n \in 1..Cardinality(N) : \E i \in N : rank[i] = n
       /\ \A i, j \in N : rank[i] <= rank[j] => <<i, j>> \in R
  <2>1. IsTotal(R, N)
    BY <1>8, <1>9, <1>10 DEF IsTotal
  <2>2. CountsOff(rank, N, R)
    BY <1>2, <1>4, <2>1, RankBijection
  <2>3. QED
    BY <2>2 DEF CountsOff
<1>12. \A n \in N : at(n) \in N /\ rank[at(n)] = n
  <2>1. \A n \in N : \E i \in N : rank[i] = n
    BY <1>1, <1>2, <1>11
  <2>2. QED
    BY <2>1, Zenon
<1>13. \A i \in N : rank[i] \in N /\ i = at(rank[i])
  <2>1. rank \in [N -> N]
    BY <1>1, <1>2, <1>11
  <2>2. QED
    BY <2>1, <1>11, <1>12, Zenon
<1> HIDE DEF at
<1>14. \A x \in S : \E n \in N : Sorted(S, before)[n] = x
  <2> SUFFICES ASSUME NEW x \in S
               PROVE  \E n \in N : Sorted(S, before)[n] = x
    OBVIOUS
  <2>1. PICK i \in N : met[i] = x
    BY <1>1
  <2>2. rank[i] \in N /\ Sorted(S, before)[rank[i]] = x
    BY <1>3, <1>13, <2>1
  <2>3. QED
    BY <2>2
<1>15. ASSUME NEW m \in N, NEW n \in N, m < n
       PROVE  <<Sorted(S, before)[n], Sorted(S, before)[m]>> \notin before
  <2>1. at(m) \in N /\ at(n) \in N /\ rank[at(m)] <= rank[at(n)]
    BY <1>2, <1>12, <1>15
  <2>2. ~ahead(at(n), at(m))
    BY <1>5, <1>6, <1>11, <2>1
  <2>3. QED
    BY <1>3, <2>2 DEF ahead
<1>16. Sorted(S, before) \in [N -> S]
  BY <1>1, <1>3, <1>12
<1>17. QED
  BY <1>1, <1>14, <1>15, <1>16

-----------------------------------------------------------------------------
(* The order of keys *)

IsKey(key) ==
  /\ key.base.session \in Nat /\ key.base.source \in Nat /\ key.base.subject \in Nat
  /\ key.occurrence \in Nat
  /\ Sortable(key)

(* Words of six numbers, by the first number in which they differ.          *)
Words == [1..6 -> Nat]
Before(a, b) == \E n \in 1..6 : a[n] < b[n] /\ \A k \in 1..(n - 1) : a[k] = b[k]

Unfolded(a, b) ==
  \/ a[1] < b[1]
  \/ a[1] = b[1] /\ a[2] < b[2]
  \/ a[1] = b[1] /\ a[2] = b[2] /\ a[3] < b[3]
  \/ a[1] = b[1] /\ a[2] = b[2] /\ a[3] = b[3] /\ a[4] < b[4]
  \/ a[1] = b[1] /\ a[2] = b[2] /\ a[3] = b[3] /\ a[4] = b[4] /\ a[5] < b[5]
  \/ /\ a[1] = b[1] /\ a[2] = b[2] /\ a[3] = b[3] /\ a[4] = b[4] /\ a[5] = b[5]
     /\ a[6] < b[6]

LEMMA BeforeUnfolded ==
  ASSUME NEW a \in Words, NEW b \in Words
  PROVE  Before(a, b) <=> Unfolded(a, b)
<1> DEFINE Alike(n) == \A k \in 1..(n - 1) : a[k] = b[k]
<1>1. /\ Alike(1) <=> TRUE
      /\ Alike(2) <=> a[1] = b[1]
      /\ Alike(3) <=> a[1] = b[1] /\ a[2] = b[2]
      /\ Alike(4) <=> a[1] = b[1] /\ a[2] = b[2] /\ a[3] = b[3]
  <2>1. 1..(1 - 1) = {} /\ 1..(2 - 1) = {1} /\ 1..(3 - 1) = {1, 2} /\ 1..(4 - 1) = {1, 2, 3}
    OBVIOUS
  <2>2. QED
    BY <2>1
<1>2. Alike(5) <=> a[1] = b[1] /\ a[2] = b[2] /\ a[3] = b[3] /\ a[4] = b[4]
  <2>1. 1..(5 - 1) = {1, 2, 3, 4}
    OBVIOUS
  <2>2. QED
    BY <2>1
<1>3. Alike(6) <=> a[1] = b[1] /\ a[2] = b[2] /\ a[3] = b[3] /\ a[4] = b[4] /\ a[5] = b[5]
  <2>1. 1..(6 - 1) = {1, 2, 3, 4, 5}
    OBVIOUS
  <2>2. QED
    BY <2>1
<1>4. Before(a, b) <=> \E n \in 1..6 : a[n] < b[n] /\ Alike(n)
  BY DEF Before
<1> HIDE DEF Alike
<1>5. (\E n \in 1..6 : a[n] < b[n] /\ Alike(n)) <=>
        \/ a[1] < b[1] /\ Alike(1)
        \/ a[2] < b[2] /\ Alike(2)
        \/ a[3] < b[3] /\ Alike(3)
        \/ a[4] < b[4] /\ Alike(4)
        \/ a[5] < b[5] /\ Alike(5)
        \/ a[6] < b[6] /\ Alike(6)
  <2>1. ASSUME NEW n \in 1..6, a[n] < b[n] /\ Alike(n)
        PROVE  \/ a[1] < b[1] /\ Alike(1)
               \/ a[2] < b[2] /\ Alike(2)
               \/ a[3] < b[3] /\ Alike(3)
               \/ a[4] < b[4] /\ Alike(4)
               \/ a[5] < b[5] /\ Alike(5)
               \/ a[6] < b[6] /\ Alike(6)
    <3>1. n = 1 \/ n = 2 \/ n = 3 \/ n = 4 \/ n = 5 \/ n = 6
      OBVIOUS
    <3>2. QED
      BY <2>1, <3>1
  <2>2. 1 \in 1..6 /\ 2 \in 1..6 /\ 3 \in 1..6 /\ 4 \in 1..6 /\ 5 \in 1..6 /\ 6 \in 1..6
    OBVIOUS
  <2>3. QED
    BY <2>1, <2>2, Zenon
<1>6. QED
  BY <1>1, <1>2, <1>3, <1>4, <1>5 DEF Unfolded

LEMMA WordsAreOrdered ==
  /\ \A a, b \in Words : ~(Before(a, b) /\ Before(b, a))
  /\ \A a, b, c \in Words : Before(a, c) => Before(a, b) \/ Before(b, c)
<1>1. \A a \in Words : /\ a[1] \in Nat /\ a[2] \in Nat /\ a[3] \in Nat
                       /\ a[4] \in Nat /\ a[5] \in Nat /\ a[6] \in Nat
  BY DEF Words
<1>2. ASSUME NEW a \in Words, NEW b \in Words, Unfolded(a, b), Unfolded(b, a)
      PROVE  FALSE
  BY <1>1, <1>2 DEF Unfolded
<1>3. ASSUME NEW a \in Words, NEW b \in Words, NEW c \in Words,
             Unfolded(a, c), ~Unfolded(a, b), ~Unfolded(b, c)
      PROVE  FALSE
  BY <1>1, <1>3 DEF Unfolded
<1>4. QED
  BY <1>2, <1>3, BeforeUnfolded

LEMMA SortKeyIsWord ==
  ASSUME NEW key, IsKey(key)
  PROVE  SortKey(key) \in Words /\ DOMAIN SortKey(key) = 1..6
<1>1. PhaseOrder[key.base.phase] \in Nat
  BY DEF IsKey, Sortable, PhaseOrder
<1>2. KindOrder[key.base.kind] \in Nat
  BY DEF IsKey, Sortable, KindOrder
<1>3. QED
  BY <1>1, <1>2 DEF IsKey, SortKey, Words

-----------------------------------------------------------------------------
(* Events by their identity *)

IsEvent(event) ==
  /\ event.session \in Nat /\ event.source \in Nat
  /\ event.kind \in AboutAnAsset => event.fields.asset \in Nat

IsEvents(events) ==
  /\ events \in Seq(ToSet(events))
  /\ \A i \in DOMAIN events : IsEvent(events[i])

Places(events, base) == {i \in DOMAIN events : Base(events[i]) = base}

LEMMA CountOfInterval ==
  \A n \in Nat : IsFiniteSet(1..n) /\ Cardinality(1..n) = n
BY FS_Interval

(* The events of one identity are counted off in the order they were logged.*)
LEMMA OccurrencesCount ==
  ASSUME NEW events, IsEvents(events), NEW base
  PROVE  LET places == Places(events, base) IN
         /\ Cardinality(places) \in 0..Len(events)
         /\ \A i \in places :
              /\ Cardinality({j \in places : j <= i}) = Occurrence(events, i)
              /\ Occurrence(events, i) \in 1..Cardinality(places)
         /\ \A i, j \in places : Occurrence(events, i) = Occurrence(events, j) => i = j
         /\ \A n \in 1..Cardinality(places) : \E i \in places : Occurrence(events, i) = n
<1> DEFINE places == Places(events, base)
           R == {p \in places \X places : p[1] <= p[2]}
<1>1. Len(events) \in Nat /\ DOMAIN events = 1..Len(events)
  BY DEF IsEvents
<1>2. places \subseteq 1..Len(events)
  BY <1>1 DEF Places
<1>3. IsFiniteSet(1..Len(events)) /\ Cardinality(1..Len(events)) = Len(events)
  BY <1>1, CountOfInterval
<1>4. IsFiniteSet(places) /\ Cardinality(places) <= Len(events) /\ Cardinality(places) \in Nat
  BY <1>2, <1>3, FS_Subset, FS_CardinalityType
<1>5. \A i, j \in places : <<i, j>> \in R <=> i <= j
  OBVIOUS
<1>6. IsTotal(R, places)
  <2> HIDE DEF places, R
  <2>1. places \subseteq Int
    BY <1>1, <1>2
  <2>2. \A i, j \in places : i <= j \/ j <= i
    BY <2>1
  <2>3. \A i, j \in places : i <= j /\ j <= i => i = j
    BY <2>1
  <2>4. \A i, j, k \in places : i <= j /\ j <= k => i <= k
    BY <2>1
  <2>5. QED
    BY <1>5, <2>2, <2>3, <2>4 DEF IsTotal
<1>7. CountsOff(RankIn(places, R), places, R)
  BY <1>4, <1>6, RankBijection
<1>8. ASSUME NEW i \in places
      PROVE  /\ Cardinality({j \in places : j <= i}) = Occurrence(events, i)
             /\ RankIn(places, R)[i] = Occurrence(events, i)
  <2>1. {j \in places : j <= i} = {j \in 1..i : Base(events[j]) = Base(events[i])}
    BY <1>1 DEF Places
  <2>2. {j \in places : <<j, i>> \in R} = {j \in places : j <= i}
    BY <1>5
  <2>3. QED
    BY <2>1, <2>2 DEF RankIn, Occurrence
<1> HIDE DEF R, places
<1>a. \A i \in places : RankIn(places, R)[i] = Occurrence(events, i)
  BY <1>8
<1>9. /\ \A i \in places : Occurrence(events, i) \in 1..Cardinality(places)
      /\ \A i, j \in places : Occurrence(events, i) = Occurrence(events, j) => i = j
      /\ \A n \in 1..Cardinality(places) : \E i \in places : Occurrence(events, i) = n
  BY <1>7, <1>a DEF CountsOff
<1>10. QED
  BY <1>1, <1>4, <1>8, <1>9 DEF places

(* Every event of a log is found under its identity and its occurrence.     *)
LEMMA EventsFound ==
  ASSUME NEW events, IsEvents(events), NEW base
  PROVE  /\ \A n \in DOMAIN EventsOf(events, base) :
              /\ n \in 1..Len(events)
              /\ \E i \in Places(events, base) :
                   Occurrence(events, i) = n /\ EventsOf(events, base)[n] = events[i]
         /\ \A i \in Places(events, base) :
              Occurrence(events, i) \in DOMAIN EventsOf(events, base)
<1> DEFINE places == Places(events, base)
           at(n) == CHOOSE i \in places : Cardinality({j \in places : j <= i}) = n
<1>1. EventsOf(events, base) = [n \in 1..Cardinality(places) |-> events[at(n)]]
  BY DEF EventsOf, Places
<1>2. Len(events) \in Nat /\ Cardinality(places) \in 0..Len(events)
  BY OccurrencesCount DEF IsEvents
<1>3. \A n \in 1..Cardinality(places) : at(n) \in places /\ Occurrence(events, at(n)) = n
  <2>1. \A i \in places : Cardinality({j \in places : j <= i}) = Occurrence(events, i)
    BY OccurrencesCount
  <2>2. \A n \in 1..Cardinality(places) :
          \E i \in places : Cardinality({j \in places : j <= i}) = n
    BY <2>1, OccurrencesCount
  <2> HIDE DEF places
  <2>3. \A n \in 1..Cardinality(places) :
          at(n) \in places /\ Cardinality({j \in places : j <= at(n)}) = n
    BY <2>2, Zenon
  <2>4. QED
    BY <2>1, <2>3
<1>4. \A i \in places : Occurrence(events, i) \in 1..Cardinality(places)
  BY OccurrencesCount
<1> HIDE DEF at, places
<1>5. QED
  BY <1>1, <1>2, <1>3, <1>4 DEF places

(* No two events of a log have the same key.                                *)
LEMMA Indexed ==
  ASSUME NEW events, IsEvents(events)
  PROVE  /\ DOMAIN IndexEvents(events) = {KeyOf(events, i) : i \in DOMAIN events}
         /\ \A i \in DOMAIN events : IndexEvents(events)[KeyOf(events, i)] = events[i]
<1>1. ASSUME NEW i \in DOMAIN events, NEW j \in DOMAIN events, KeyOf(events, i) = KeyOf(events, j)
      PROVE  i = j
  <2>1. Base(events[i]) = Base(events[j]) /\ Occurrence(events, i) = Occurrence(events, j)
    BY <1>1 DEF KeyOf
  <2>2. i \in Places(events, Base(events[i])) /\ j \in Places(events, Base(events[i]))
    BY <2>1 DEF Places
  <2>3. QED
    BY <2>1, <2>2, OccurrencesCount
<1>2. ASSUME NEW i \in DOMAIN events
      PROVE  Max({j \in DOMAIN events : KeyOf(events, j) = KeyOf(events, i)}) = i
  <2>1. {j \in DOMAIN events : KeyOf(events, j) = KeyOf(events, i)} = {i}
    BY <1>1
  <2>2. i >= i
    BY DEF IsEvents
  <2>3. Max({i}) = i
    BY <2>2 DEF Max
  <2>4. QED
    BY <2>1, <2>3
<1>3. QED
  BY <1>2 DEF IndexEvents

(* An event is indexed under an occurrence exactly when it is the event of  *)
(* that number among those of its identity.                                 *)
LEMMA IndexedByOccurrence ==
  ASSUME NEW events, IsEvents(events), NEW base, NEW n
  PROVE  LET key == [base |-> base, occurrence |-> n] IN
         /\ key \in DOMAIN IndexEvents(events) <=> n \in DOMAIN EventsOf(events, base)
         /\ n \in DOMAIN EventsOf(events, base) =>
              /\ n \in 1..Len(events)
              /\ IndexEvents(events)[key] = EventsOf(events, base)[n]
              /\ Base(EventsOf(events, base)[n]) = base
              /\ \E i \in DOMAIN events : EventsOf(events, base)[n] = events[i]
<1> DEFINE key == [base |-> base, occurrence |-> n]
<1>1. ASSUME n \in DOMAIN EventsOf(events, base)
      PROVE  /\ key \in DOMAIN IndexEvents(events)
             /\ n \in 1..Len(events)
             /\ IndexEvents(events)[key] = EventsOf(events, base)[n]
             /\ Base(EventsOf(events, base)[n]) = base
             /\ \E i \in DOMAIN events : EventsOf(events, base)[n] = events[i]
  <2>1. PICK i \in Places(events, base) :
           Occurrence(events, i) = n /\ EventsOf(events, base)[n] = events[i]
    BY <1>1, EventsFound
  <2>2. i \in DOMAIN events /\ Base(events[i]) = base /\ KeyOf(events, i) = key
    BY <2>1 DEF Places, KeyOf
  <2>3. n \in 1..Len(events)
    BY <1>1, EventsFound
  <2> HIDE DEF key
  <2>4. key \in DOMAIN IndexEvents(events) /\ IndexEvents(events)[key] = events[i]
    BY <2>2, Indexed, Zenon
  <2>5. QED
    BY <2>1, <2>2, <2>3, <2>4
<1>2. ASSUME key \in DOMAIN IndexEvents(events)
      PROVE  n \in DOMAIN EventsOf(events, base)
  <2> HIDE DEF key
  <2>1. PICK i \in DOMAIN events : key = KeyOf(events, i)
    BY <1>2, Indexed
  <2>2. Base(events[i]) = base /\ Occurrence(events, i) = n
    BY <2>1 DEF KeyOf, key
  <2>3. QED
    BY <2>2, EventsFound DEF Places
<1>3. QED
  BY <1>1, <1>2

-----------------------------------------------------------------------------
(* Differences *)

(* A change of decisions is classified as one of its kinds or more.         *)
LEMMA ClassifiedWhenDecided ==
  ASSUME NEW before, NEW after, before.kind = after.kind
  PROVE  Classify(before, after) # {} <=> Decided(before) # Decided(after)
<1> DEFINE aspects == Aspects(before.kind)
           fields == UNION {aspects[d] : d \in DOMAIN aspects}
<1>1. Classify(before, after) # {} <=> \E field \in fields : before.fields[field] # after.fields[field]
  <2> HIDE DEF aspects
  <2>1. Classify(before, after) =
          {d \in DOMAIN aspects : \E field \in aspects[d] : before.fields[field] # after.fields[field]}
    BY DEF Classify, aspects
  <2>2. QED
    BY <2>1
<1>2. /\ Decided(before) = [field \in fields |-> before.fields[field]]
      /\ Decided(after) = [field \in fields |-> after.fields[field]]
  BY DEF Decided
<1> HIDE DEF fields
<1>3. QED
  BY <1>1, <1>2

DiffersIn(before, after, base, n) ==
  \/ n \in DOMAIN EventsOf(before, base) \ DOMAIN EventsOf(after, base)
  \/ n \in DOMAIN EventsOf(after, base) \ DOMAIN EventsOf(before, base)
  \/ /\ n \in DOMAIN EventsOf(before, base) \cap DOMAIN EventsOf(after, base)
     /\ Decided(EventsOf(before, base)[n]) # Decided(EventsOf(after, base)[n])

DifferencesOf(before, after) == Differences(IndexEvents(before), IndexEvents(after))

(* The keys of the differences: in one log only, or classified.             *)
LEMMA KeysOfDifferences ==
  ASSUME NEW original, NEW candidate
  PROVE  /\ {d.key : d \in Differences(original, candidate)} =
              {key \in DOMAIN original \cup DOMAIN candidate :
                 key \in DOMAIN original \cap DOMAIN candidate =>
                   Classify(original[key], candidate[key]) # {}}
         /\ \A d, e \in Differences(original, candidate) : d.key = e.key => d = e
<1> DEFINE shared == DOMAIN original \cap DOMAIN candidate
           single == (DOMAIN original \cup DOMAIN candidate) \ shared
           changed == {k \in shared : Classify(original[k], candidate[k]) # {}}
           Change(key) == [key |-> key, kinds |-> Classify(original[key], candidate[key])]
           Presence(key) ==
             [key |-> key,
              kinds |-> PresenceChange(IF key \in DOMAIN original THEN original[key]
                                       ELSE candidate[key])]
<1>1. Differences(original, candidate) =
        {Change(key) : key \in changed} \cup {Presence(key) : key \in single}
  BY Zenon DEF Differences
<1>2. \A key : Change(key).key = key /\ Presence(key).key = key
  OBVIOUS
<1>3. changed \cap single = {}
  OBVIOUS
<1>4. changed \cup single =
        {key \in DOMAIN original \cup DOMAIN candidate :
           key \in DOMAIN original \cap DOMAIN candidate =>
             Classify(original[key], candidate[key]) # {}}
  OBVIOUS
<1> HIDE DEF Change, Presence, changed, single
<1>5. {d.key : d \in Differences(original, candidate)} = changed \cup single
  BY <1>1, <1>2
<1>6. \A d \in Differences(original, candidate) :
        \/ d.key \in changed /\ d = Change(d.key)
        \/ d.key \in single /\ d = Presence(d.key)
  BY <1>1, <1>2
<1>7. \A d, e \in Differences(original, candidate) : d.key = e.key => d = e
  BY <1>3, <1>6
<1>8. QED
  BY <1>4, <1>5, <1>7

LEMMA DifferencesAreOfDecisions ==
  ASSUME NEW before, IsEvents(before), NEW after, IsEvents(after), NEW base, NEW n
  PROVE  [base |-> base, occurrence |-> n] \in {d.key : d \in DifferencesOf(before, after)}
           <=> DiffersIn(before, after, base, n)
<1> DEFINE key == [base |-> base, occurrence |-> n]
           original == IndexEvents(before)
           candidate == IndexEvents(after)
           old == EventsOf(before, base)
           new == EventsOf(after, base)
<1>1. /\ key \in DOMAIN original <=> n \in DOMAIN old
      /\ n \in DOMAIN old => original[key] = old[n] /\ Base(old[n]) = base
  BY IndexedByOccurrence
<1>2. /\ key \in DOMAIN candidate <=> n \in DOMAIN new
      /\ n \in DOMAIN new => candidate[key] = new[n] /\ Base(new[n]) = base
  BY IndexedByOccurrence
<1>3. key \in {d.key : d \in DifferencesOf(before, after)} <=>
        /\ key \in DOMAIN original \cup DOMAIN candidate
        /\ key \in DOMAIN original \cap DOMAIN candidate =>
             Classify(original[key], candidate[key]) # {}
  <2> HIDE DEF key
  <2>1. QED
    BY KeysOfDifferences, Zenon DEF DifferencesOf
<1>4. n \in DOMAIN old /\ n \in DOMAIN new =>
        (Classify(old[n], new[n]) # {} <=> Decided(old[n]) # Decided(new[n]))
  <2> SUFFICES ASSUME n \in DOMAIN old, n \in DOMAIN new
               PROVE  Classify(old[n], new[n]) # {} <=> Decided(old[n]) # Decided(new[n])
    OBVIOUS
  <2>1. Base(old[n]) = Base(new[n])
    BY <1>1, <1>2
  <2>2. old[n].kind = new[n].kind
    BY <2>1 DEF Base
  <2>3. QED
    BY <2>2, ClassifiedWhenDecided
<1> HIDE DEF key, original, candidate, old, new
<1>5. key \in {d.key : d \in DifferencesOf(before, after)} <=>
        \/ n \in DOMAIN old \ DOMAIN new
        \/ n \in DOMAIN new \ DOMAIN old
        \/ n \in DOMAIN old \cap DOMAIN new /\ Decided(old[n]) # Decided(new[n])
  BY <1>1, <1>2, <1>3, <1>4
<1>6. QED
  BY <1>5 DEF DiffersIn, key, old, new

LEMMA FinitelyMany ==
  ASSUME NEW before, IsEvents(before), NEW after, IsEvents(after)
  PROVE  IsFiniteSet(DifferencesOf(before, after))
<1>1. ASSUME NEW events, IsEvents(events)
      PROVE  IsFiniteSet(DOMAIN IndexEvents(events))
  <2> DEFINE keys == [i \in DOMAIN events |-> KeyOf(events, i)]
  <2>1. IsFiniteSet(DOMAIN events)
    BY <1>1, CountOfInterval DEF IsEvents
  <2>2. keys \in Surjection(DOMAIN events, DOMAIN IndexEvents(events))
    <3>1. DOMAIN IndexEvents(events) = {KeyOf(events, i) : i \in DOMAIN events}
      BY <1>1, Indexed
    <3>2. QED
      BY <3>1, Zenon DEF Surjection
  <2>3. QED
    BY <2>1, <2>2, FS_Surjection
<1> DEFINE all == DOMAIN IndexEvents(before) \cup DOMAIN IndexEvents(after)
           differences == DifferencesOf(before, after)
           keys == [d \in differences |-> d.key]
<1>2. IsFiniteSet(all)
  BY <1>1, FS_Union
<1>3. \A d \in differences : d.key \in all
  BY KeysOfDifferences DEF DifferencesOf
<1>4. \A d, e \in differences : d.key = e.key => d = e
  BY KeysOfDifferences DEF DifferencesOf
<1> HIDE DEF all, differences
<1>5. keys \in [differences -> all] /\ IsInjective(keys)
  BY <1>3, <1>4 DEF IsInjective
<1>6. keys \in Injection(differences, all)
  BY <1>5, Zenon DEF Injection
<1>7. QED
  BY <1>2, <1>6, FS_Injection DEF differences

-----------------------------------------------------------------------------
(* Contexts *)

IsDifferences(differences) ==
  IsFiniteSet(differences) /\ \A d \in differences : IsKey(d.key)

LEMMA ContextHoldsAll ==
  ASSUME NEW differences, IsDifferences(differences), NEW s \in SessionsOf(differences)
  PROVE  /\ ToSet(Context(differences, s)) = {d \in differences : d.key.base.session = s}
         /\ Context(differences, s)[1] \in {d \in differences : d.key.base.session = s}
<1> DEFINE here == {d \in differences : d.key.base.session = s}
           before == {pair \in here \X here : Precedes(pair[1].key, pair[2].key)}
<1>1. IsFiniteSet(here) /\ here # {}
  BY FS_Subset DEF IsDifferences, SessionsOf
<1>2. \A d, e \in here : <<d, e>> \in before <=> Before(SortKey(d.key), SortKey(e.key))
  <2> SUFFICES ASSUME NEW d \in here, NEW e \in here
               PROVE  Precedes(d.key, e.key) <=> Before(SortKey(d.key), SortKey(e.key))
    OBVIOUS
  <2>1. DOMAIN SortKey(d.key) = 1..6
    BY SortKeyIsWord DEF IsDifferences
  <2>2. QED
    BY <2>1 DEF Precedes, Before
<1>3. \A d \in here : SortKey(d.key) \in Words
  BY SortKeyIsWord DEF IsDifferences
<1>4. Context(differences, s) = Sorted(here, before)
  BY DEF Context
<1> HIDE DEF here, before
<1>5. IsOrder(before, here)
  BY <1>2, <1>3, WordsAreOrdered DEF IsOrder
<1>6. /\ Sorted(here, before) \in [1..Cardinality(here) -> here]
      /\ \A d \in here : \E n \in 1..Cardinality(here) : Sorted(here, before)[n] = d
      /\ Cardinality(here) \in Nat
  BY <1>1, <1>5, SortedIsOrdered
<1>7. 1 \in 1..Cardinality(here)
  BY <1>1, <1>6
<1>8. ToSet(Sorted(here, before)) = here
  BY <1>6 DEF ToSet
<1>9. QED
  BY <1>4, <1>6, <1>7, <1>8 DEF here

LEMMA SessionsInOrder ==
  ASSUME NEW differences, IsDifferences(differences)
  PROVE  LET sessions == InOrder(differences) IN
         /\ \E n \in Nat : DOMAIN sessions = 1..n /\ (n = 0 <=> differences = {})
         /\ \A n \in DOMAIN sessions : sessions[n] \in SessionsOf(differences)
         /\ \A s \in SessionsOf(differences) : \E n \in DOMAIN sessions : sessions[n] = s
         /\ \A s \in SessionsOf(differences) : sessions[1] <= s
<1> DEFINE all == SessionsOf(differences)
           before == {pair \in all \X all : pair[1] < pair[2]}
           sessions == Sorted(all, before)
           session == [d \in differences |-> d.key.base.session]
<1>1. IsFiniteSet(all)
  <2>1. session \in Surjection(differences, all)
    BY DEF Surjection, SessionsOf
  <2>2. QED
    BY <2>1, FS_Surjection DEF IsDifferences
<1>2. all \subseteq Nat /\ (all = {} <=> differences = {})
  BY DEF SessionsOf, IsDifferences, IsKey
<1>3. \A s, t \in all : <<s, t>> \in before <=> s < t
  OBVIOUS
<1>4. InOrder(differences) = sessions
  BY DEF InOrder
<1> HIDE DEF all, before
<1>5. IsOrder(before, all)
  <2>1. \A s, t \in all : ~(s < t /\ t < s)
    BY <1>2
  <2>2. \A s, t, u \in all : s < u => s < t \/ t < u
    BY <1>2
  <2>3. QED
    BY <1>3, <2>1, <2>2 DEF IsOrder
<1>6. /\ sessions \in [1..Cardinality(all) -> all]
      /\ \A s \in all : \E n \in 1..Cardinality(all) : sessions[n] = s
      /\ \A m, n \in 1..Cardinality(all) :
           m < n => <<sessions[n], sessions[m]>> \notin before
      /\ Cardinality(all) \in Nat
  BY <1>1, <1>5, SortedIsOrdered
<1> HIDE DEF sessions
<1>7. Cardinality(all) = 0 <=> all = {}
  BY <1>1, FS_EmptySet
<1>8. \A s \in all : sessions[1] <= s
  <2> SUFFICES ASSUME NEW s \in all
               PROVE  sessions[1] <= s
    OBVIOUS
  <2>1. PICK n \in 1..Cardinality(all) : sessions[n] = s
    BY <1>6
  <2>2. 1 \in 1..Cardinality(all) /\ sessions[1] \in all
    BY <1>6
  <2>3. CASE n = 1
    BY <2>1, <2>2, <2>3, <1>2
  <2>4. CASE 1 < n
    <3>1. <<sessions[n], sessions[1]>> \notin before
      BY <1>6, <2>2, <2>4
    <3>2. ~(s < sessions[1])
      BY <1>3, <2>1, <2>2, <3>1
    <3>3. s \in Nat /\ sessions[1] \in Nat
      BY <2>2, <1>2
    <3>4. QED
      BY <3>2, <3>3
  <2>5. QED
    BY <2>3, <2>4, <1>6
<1>9. DOMAIN sessions = 1..Cardinality(all)
  BY <1>6
<1>10. QED
  BY <1>2, <1>4, <1>6, <1>7, <1>8, <1>9 DEF all

(* What Align reports of two logs whose keys can all be sorted.             *)
IsAlignable(before, after) ==
  /\ IsEvents(before) /\ IsEvents(after)
  /\ \A key \in DOMAIN IndexEvents(before) \cup DOMAIN IndexEvents(after) : Sortable(key)

IsKeyOf(key, events) ==
  /\ key = [base |-> key.base, occurrence |-> key.occurrence]
  /\ \E i \in DOMAIN events : key.base = Base(events[i])

LEMMA KeysAreKeys ==
  ASSUME NEW before, NEW after, IsAlignable(before, after)
  PROVE  /\ IsDifferences(DifferencesOf(before, after))
         /\ \A d \in DifferencesOf(before, after) :
              IsKeyOf(d.key, before) \/ IsKeyOf(d.key, after)
<1>1. ASSUME NEW events, IsEvents(events), NEW key \in DOMAIN IndexEvents(events), Sortable(key)
      PROVE  IsKey(key) /\ IsKeyOf(key, events)
  <2>1. PICK i \in DOMAIN events : key = KeyOf(events, i)
    BY <1>1, Indexed
  <2>2. key.base = Base(events[i]) /\ key.occurrence = Occurrence(events, i)
        /\ key = [base |-> key.base, occurrence |-> key.occurrence]
    BY <2>1 DEF KeyOf
  <2>3. Occurrence(events, i) \in Nat
    <3>1. i \in Places(events, Base(events[i]))
      BY DEF Places
    <3>2. Cardinality(Places(events, Base(events[i]))) \in 0..Len(events)
          /\ Occurrence(events, i) \in 1..Cardinality(Places(events, Base(events[i])))
      BY <1>1, <3>1, OccurrencesCount
    <3>3. Len(events) \in Nat
      BY <1>1 DEF IsEvents
    <3>4. QED
      BY <3>2, <3>3
  <2>4. IsEvent(events[i])
    BY <1>1 DEF IsEvents
  <2>5. Subject(events[i]) \in Nat
    BY <2>4 DEF Subject, IsEvent
  <2>6. QED
    BY <1>1, <2>2, <2>3, <2>4, <2>5 DEF IsKey, IsKeyOf, IsEvent, Base
<1>2. \A d \in DifferencesOf(before, after) :
        d.key \in DOMAIN IndexEvents(before) \cup DOMAIN IndexEvents(after)
  BY KeysOfDifferences DEF DifferencesOf
<1>3. QED
  BY <1>1, <1>2, FinitelyMany DEF IsAlignable, IsDifferences

LEMMA AlignedExactly ==
  ASSUME NEW before, NEW after, IsAlignable(before, after)
  PROVE  LET aligned == Align(before, after)
             differences == DifferencesOf(before, after)
         IN /\ UNION {ToSet(aligned.contexts[n]) : n \in DOMAIN aligned.contexts} = differences
            /\ aligned.contexts = <<>> => differences = {}
            /\ aligned.contexts # <<>> =>
                 \A d \in differences : aligned.first.base.session <= d.key.base.session
<1> DEFINE differences == DifferencesOf(before, after)
           sessions == InOrder(differences)
           contexts == [n \in DOMAIN sessions |-> Context(differences, sessions[n])]
           Here(s) == {d \in differences : d.key.base.session = s}
<1>1. /\ Align(before, after).contexts = contexts
      /\ Align(before, after).first = IF contexts = <<>> THEN None ELSE contexts[1][1].key
  BY DEF Align, DifferencesOf
<1>2. IsDifferences(differences)
  BY KeysAreKeys
<1>3. PICK count \in Nat : DOMAIN sessions = 1..count /\ (count = 0 <=> differences = {})
  BY <1>2, SessionsInOrder
<1>4. /\ \A n \in DOMAIN sessions : sessions[n] \in SessionsOf(differences)
      /\ \A s \in SessionsOf(differences) : \E n \in DOMAIN sessions : sessions[n] = s
      /\ \A s \in SessionsOf(differences) : sessions[1] <= s
  BY <1>2, SessionsInOrder
<1>5. \A s \in SessionsOf(differences) :
        ToSet(Context(differences, s)) = Here(s) /\ Context(differences, s)[1] \in Here(s)
  BY <1>2, ContextHoldsAll
<1>6. \A d \in differences : d.key.base.session \in SessionsOf(differences)
  BY DEF SessionsOf
<1> HIDE DEF sessions, differences
<1>7. DOMAIN contexts = DOMAIN sessions
      /\ \A n \in DOMAIN sessions : contexts[n] = Context(differences, sessions[n])
  OBVIOUS
<1> HIDE DEF contexts
<1>8. \A n \in DOMAIN contexts : ToSet(contexts[n]) = Here(sessions[n])
  BY <1>4, <1>5, <1>7
<1>9. UNION {ToSet(contexts[n]) : n \in DOMAIN contexts} = differences
  <2>1. ASSUME NEW d \in differences
        PROVE  \E n \in DOMAIN contexts : d \in ToSet(contexts[n])
    BY <1>4, <1>6, <1>7, <1>8
  <2>2. ASSUME NEW n \in DOMAIN contexts, NEW d \in ToSet(contexts[n])
        PROVE  d \in differences
    BY <1>8
  <2>3. QED
    BY <2>1, <2>2
<1>10. contexts = <<>> => differences = {}
  BY <1>3, <1>7
<1>11. contexts # <<>> =>
         \A d \in differences : contexts[1][1].key.base.session <= d.key.base.session
  <2> SUFFICES ASSUME contexts # <<>>, NEW d \in differences
               PROVE  contexts[1][1].key.base.session <= d.key.base.session
    OBVIOUS
  <2>1. 1 \in DOMAIN contexts
    BY <1>3, <1>7
  <2>2. contexts[1][1].key.base.session = sessions[1]
    BY <1>4, <1>5, <1>7, <2>1
  <2>3. QED
    BY <1>4, <1>6, <2>2
<1>12. QED
  BY <1>1, <1>9, <1>10, <1>11 DEF differences

-----------------------------------------------------------------------------
(* The Comparison of two Runs *)

ComparedInv ==
  /\ EvidenceInv
  /\ Compared =>
       /\ \A r \in Runs : Collected(r)
       /\ IsAlignable(evidence["original"], evidence["candidate"])
       /\ comparison = Align(evidence["original"], evidence["candidate"])

LEMMA EvidenceIsEvents ==
  ASSUME EvidenceInv, NEW r \in Runs, Collected(r)
  PROVE  IsEvents(evidence[r])
<1>1. /\ evidence[r] = arrived[r] /\ IsCarried(arrived[r], emitted[r])
      /\ \E trace \in Traces : emitted[r] = Numbered(trace)
  BY DEF EvidenceInv, Collected
<1>2. PICK trace \in Traces : emitted[r] = Numbered(trace)
  BY <1>1
<1>3. \A i \in DOMAIN Numbered(trace) : IsEvent(Numbered(trace)[i])
  <2> SUFFICES ASSUME NEW i \in DOMAIN Numbered(trace)
               PROVE  IsEvent(Numbered(trace)[i])
    OBVIOUS
  <2>1. i \in DOMAIN trace /\ Numbered(trace)[i] = [trace[i] EXCEPT !.sequence = i]
    BY DEF Numbered
  <2>2. /\ DOMAIN trace[i] = Fields
        /\ trace[i].session \in Nat /\ trace[i].source \in Nat
        /\ trace[i].kind \in AboutAnAsset => trace[i].fields.asset \in Nat
    BY <2>1, TracesAssumption
  <2>3. /\ Numbered(trace)[i].session = trace[i].session
        /\ Numbered(trace)[i].source = trace[i].source
        /\ Numbered(trace)[i].kind = trace[i].kind
        /\ Numbered(trace)[i].fields = trace[i].fields
    BY <2>1, <2>2 DEF Fields
  <2>4. QED
    BY <2>2, <2>3 DEF IsEvent
<1>4. QED
  BY <1>1, <1>2, <1>3 DEF IsEvents, IsCarried

LEMMA ComparedStep ==
  ASSUME ComparedInv, [Next]_vars
  PROVE  ComparedInv'
<1>1. EvidenceInv'
  BY EvidenceStep DEF ComparedInv
<1>2. CASE Compare
  <2> SUFFICES ASSUME Compared'
               PROVE  /\ \A r \in Runs : Collected(r)
                      /\ IsAlignable(evidence["original"], evidence["candidate"])
                      /\ comparison' = Align(evidence["original"], evidence["candidate"])
    BY <1>1, <1>2 DEF Compare, ComparedInv, Collected
  <2>1. \A r \in Runs : Collected(r)
    BY <1>2 DEF Compare, Collected
  <2>2. "original" \in Runs /\ "candidate" \in Runs
    BY DEF Runs
  <2>3. IsEvents(evidence["original"]) /\ IsEvents(evidence["candidate"])
    BY <2>1, <2>2, EvidenceIsEvents DEF ComparedInv
  <2>4. /\ \A key \in DOMAIN IndexEvents(evidence["original"])
                       \cup DOMAIN IndexEvents(evidence["candidate"]) : Sortable(key)
        /\ comparison' = Align(evidence["original"], evidence["candidate"])
    BY <1>2 DEF Compare, Compared
  <2>5. QED
    BY <2>1, <2>3, <2>4 DEF IsAlignable
<1>3. ASSUME NEW r \in Runs, Execute(r) \/ Carry(r)
      PROVE  ComparedInv'
  BY <1>1, <1>3 DEF Execute, Carry, ComparedInv, Compared, Collected
<1>4. ASSUME NEW r \in Runs, Collect(r)
      PROVE  ComparedInv'
  <2>1. ~Collected(r) /\ comparison' = comparison
    BY <1>4 DEF Collect, Collected
  <2>2. ~Compared'
    BY <2>1 DEF ComparedInv, Compared
  <2>3. QED
    BY <1>1, <2>2 DEF ComparedInv
<1>5. CASE UNCHANGED vars
  BY <1>1, <1>5 DEF vars, ComparedInv, Compared, Collected
<1>6. QED
  BY <1>2, <1>3, <1>4, <1>5 DEF Next

LEMMA ComparedInvariant == Spec => []ComparedInv
<1>1. Init => ComparedInv
  BY DEF Init, ComparedInv, EvidenceInv, Compared, Runs
<1>2. ComparedInv /\ [Next]_vars => ComparedInv'
  BY ComparedStep
<1>3. QED
  BY <1>1, <1>2, PTL DEF Spec

LEMMA FoundAreDiffering ==
  ASSUME ComparedInv, Compared
  PROVE  LET found == UNION {ToSet(comparison.contexts[n]) : n \in DOMAIN comparison.contexts}
         IN /\ \A base, n : [base |-> base, occurrence |-> n] \in {d.key : d \in found}
                             <=> DecidedDifferently(base, n)
            /\ \A d \in found :
                 /\ d.key = [base |-> d.key.base, occurrence |-> d.key.occurrence]
                 /\ d.key.base \in Bases
            /\ found = DifferencesOf(evidence["original"], evidence["candidate"])
<1> DEFINE before == evidence["original"]
           after == evidence["candidate"]
           found == UNION {ToSet(comparison.contexts[n]) : n \in DOMAIN comparison.contexts}
<1>1. IsAlignable(before, after) /\ comparison = Align(before, after)
  BY DEF ComparedInv
<1>2. found = DifferencesOf(before, after)
  BY <1>1, AlignedExactly
<1>3. \A base, n : DecidedDifferently(base, n) <=> DiffersIn(before, after, base, n)
  BY DEF DecidedDifferently, DiffersIn
<1>4. \A base, n : [base |-> base, occurrence |-> n] \in {d.key : d \in found}
                   <=> DecidedDifferently(base, n)
  BY <1>1, <1>2, <1>3, DifferencesAreOfDecisions DEF IsAlignable
<1> HIDE DEF found, before, after
<1>5. \A d \in found : IsKeyOf(d.key, before) \/ IsKeyOf(d.key, after)
  BY <1>1, <1>2, KeysAreKeys
<1>6. \A i \in DOMAIN before : Base(before[i]) \in Bases
  BY DEF Bases, ToSet, Runs, before
<1>7. \A i \in DOMAIN after : Base(after[i]) \in Bases
  BY DEF Bases, ToSet, Runs, after
<1>8. \A d \in found :
        /\ d.key = [base |-> d.key.base, occurrence |-> d.key.occurrence]
        /\ d.key.base \in Bases
  BY <1>5, <1>6, <1>7 DEF IsKeyOf
<1>9. QED
  BY <1>2, <1>4, <1>8 DEF found, before, after

(* The decisions of one thing are told apart only as often as a Run logged. *)
LEMMA DifferingIsBounded ==
  ASSUME ComparedInv, Compared, NEW base, NEW n, DecidedDifferently(base, n)
  PROVE  n \in 1..(Len(evidence["original"]) + Len(evidence["candidate"]))
<1>1. IsEvents(evidence["original"]) /\ IsEvents(evidence["candidate"])
  BY DEF ComparedInv, IsAlignable
<1>2. Len(evidence["original"]) \in Nat /\ Len(evidence["candidate"]) \in Nat
  BY <1>1 DEF IsEvents
<1>3. \/ n \in DOMAIN EventsOf(evidence["original"], base)
      \/ n \in DOMAIN EventsOf(evidence["candidate"], base)
  BY DEF DecidedDifferently
<1>4. n \in 1..Len(evidence["original"]) \/ n \in 1..Len(evidence["candidate"])
  BY <1>1, <1>3, EventsFound
<1>5. \A a, b \in Nat : 1..a \subseteq 1..(a + b) /\ 1..b \subseteq 1..(a + b)
  OBVIOUS
<1>6. QED
  BY <1>2, <1>4, <1>5

(* However many sessions, sources, assets and repeated decisions two Runs   *)
(* log: align_decision_evidence reports exactly the decisions that one of   *)
(* them took and the other did not take, or took differently.               *)
THEOREM ComparisonIsExact == Spec => []DifferencesAreExact
<1>1. ComparedInv => DifferencesAreExact
  <2> SUFFICES ASSUME ComparedInv, Compared
               PROVE  LET found == UNION {ToSet(comparison.contexts[n]) :
                                            n \in DOMAIN comparison.contexts}
                      IN {d.key : d \in found} =
                           UNION {{[base |-> base, occurrence |-> n] :
                                     n \in {k \in 1..(Len(evidence["original"])
                                                        + Len(evidence["candidate"])) :
                                              DecidedDifferently(base, k)}} : base \in Bases}
    BY DEF DifferencesAreExact
  <2> DEFINE found == UNION {ToSet(comparison.contexts[n]) : n \in DOMAIN comparison.contexts}
             numbers == 1..(Len(evidence["original"]) + Len(evidence["candidate"]))
             differing(base) == {[base |-> base, occurrence |-> n] :
                                   n \in {k \in numbers : DecidedDifferently(base, k)}}
             keys == {d.key : d \in found}
  <2>1. /\ \A base, n : [base |-> base, occurrence |-> n] \in keys <=> DecidedDifferently(base, n)
        /\ \A d \in found :
             /\ d.key = [base |-> d.key.base, occurrence |-> d.key.occurrence]
             /\ d.key.base \in Bases
    BY FoundAreDiffering
  <2> HIDE DEF found
  <2>2. ASSUME NEW d \in found
        PROVE  \E base \in Bases : d.key \in differing(base)
    <3>1. d.key \in keys
      OBVIOUS
    <3>2. DecidedDifferently(d.key.base, d.key.occurrence)
      BY <2>1, <3>1
    <3>3. d.key.occurrence \in numbers
      BY <3>2, DifferingIsBounded
    <3>4. d.key \in differing(d.key.base)
      BY <2>1, <3>2, <3>3
    <3>5. QED
      BY <2>1, <3>4
  <2>3. ASSUME NEW base \in Bases, NEW key \in differing(base)
        PROVE  key \in keys
    <3>1. PICK n \in {k \in numbers : DecidedDifferently(base, k)} :
             key = [base |-> base, occurrence |-> n]
      OBVIOUS
    <3>2. DecidedDifferently(base, n)
      OBVIOUS
    <3>3. QED
      BY <2>1, <3>1, <3>2, Zenon
  <2> HIDE DEF differing
  <2>4. keys = UNION {differing(base) : base \in Bases}
    <3>1. \A key \in keys : \E base \in Bases : key \in differing(base)
      BY <2>2
    <3> HIDE DEF keys
    <3>2. QED
      BY <3>1, <2>3
  <2>5. QED
    BY <2>4 DEF differing, found
<1>2. QED
  BY <1>1, ComparedInvariant, PTL

(* And before the session of the first difference it reports, in the order  *)
(* of sessions, the two Runs decided everything alike.                      *)
THEOREM FirstDifferenceIsFirst == Spec => []AlikeBeforeFirstDifference
<1>1. ComparedInv => AlikeBeforeFirstDifference
  <2> SUFFICES ASSUME ComparedInv, Compared, NEW base \in Bases, NEW n,
                      DecidedDifferently(base, n)
               PROVE  /\ comparison.contexts # <<>>
                      /\ base.session >= comparison.first.base.session
    BY DEF AlikeBeforeFirstDifference
  <2> DEFINE differences == DifferencesOf(evidence["original"], evidence["candidate"])
  <2>1. PICK d \in differences : d.key = [base |-> base, occurrence |-> n]
    BY FoundAreDiffering
  <2>2. /\ comparison.contexts = <<>> => differences = {}
        /\ comparison.contexts # <<>> =>
             comparison.first.base.session <= d.key.base.session
    BY AlignedExactly DEF ComparedInv
  <2>3. QED
    BY <2>1, <2>2
<1>2. QED
  BY <1>1, ComparedInvariant, PTL

=============================================================================
