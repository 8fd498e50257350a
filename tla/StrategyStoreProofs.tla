------------------------ MODULE StrategyStoreProofs ------------------------
(***************************************************************************)
(* Theorems about the store of Strategies and its two clients:             *)
(*                                                                         *)
(*   StrategyStore, for every number of Strategies, Revisions and clients; *)
(*   ResearchLoop, for every number of identities and handler threads and  *)
(*     every set of faults;                                                *)
(*   V2EditorSession, for every number of Revisions, sources, calls in     *)
(*     flight and gestures.                                                *)
(***************************************************************************)
EXTENDS StrategyHistory, ResearchLoop, V2EditorSession, Foundations, SequenceTheorems

(* Every transaction writes values of the columns' types. *)
LEMMA StoreTypeInit == StoreInit => StoreTypeOK
BY DEF StoreInit, StoreTypeOK

LEMMA StoreTypeStep ==
  ASSUME StoreTypeOK, [StoreNext]_storeVars
  PROVE  StoreTypeOK'
<1> USE DEF StoreTypeOK
<1>1. ASSUME NEW s \in Strategies, NEW n \in Names, NEW r \in Revisions,
             NEW k \in Contents, CreateStrategy(s, n, r, k)
      PROVE  StoreTypeOK'
  BY <1>1 DEF CreateStrategy, InsertRevision
<1>2. ASSUME NEW s \in Strategies, NEW expected \in Revisions, NEW r \in Revisions,
             NEW k \in Contents, SaveRevision(s, expected, r, k)
      PROVE  StoreTypeOK'
  BY <1>2 DEF SaveRevision, AppendRevision, InsertRevision
<1>3. ASSUME NEW c \in Candidates, NEW s \in Strategies, NEW expected \in Revisions,
             NEW r \in Revisions, NEW k \in Contents, AdoptCandidate(c, s, expected, r, k)
      PROVE  StoreTypeOK'
  BY <1>3 DEF AdoptCandidate, AppendRevision, InsertRevision
<1>4. ASSUME NEW s \in Strategies, NEW n \in Names, RenameStrategy(s, n)
      PROVE  StoreTypeOK'
  BY <1>4 DEF RenameStrategy
<1>5. ASSUME NEW s \in Strategies, ArchiveStrategy(s)
      PROVE  StoreTypeOK'
  BY <1>5 DEF ArchiveStrategy
<1>6. CASE UNCHANGED storeVars
  BY <1>6 DEF storeVars
<1>7. QED
  BY <1>1, <1>2, <1>3, <1>4, <1>5, <1>6 DEF StoreNext

(* Whatever requests arrive, the tables hold values of their types. *)
THEOREM StoreTypeCorrect == StoreSpec => []StoreTypeOK
BY StoreTypeInit, StoreTypeStep, PTL DEF StoreSpec

-----------------------------------------------------------------------------
(* The shape of the history *)

(* The part of the invariant about the lineage, which only the tables       *)
(* strategies (current) and strategy_revisions (owner, parent) matter to.   *)
LineSound ==
  /\ LinearHistory
  /\ CurrentIsTip
  /\ LineageWithinStrategy
  /\ NoRevisionBeforeStrategy

LEMMA LineageKept ==
  ASSUME StoreTypeOK, LineSound, UNCHANGED <<current, owner, parent>>
  PROVE  LineSound'
BY DEF LineSound, LinearHistory, CurrentIsTip, LineageWithinStrategy, NoRevisionBeforeStrategy,
       StrategyExists, Stored, RevisionsOf

(* Creating a Strategy starts a line of its own. *)
LEMMA LineageCreate ==
  ASSUME StoreTypeOK, LineSound,
         NEW s \in Strategies, NEW n \in Names, NEW r \in Revisions, NEW k \in Contents,
         CreateStrategy(s, n, r, k)
  PROVE  LineSound'
<1> USE NoneAssumption DEF StoreTypeOK, StrategyExists, Stored
<1>1. /\ ~StrategyExists(s)
      /\ ~Stored(r)
      /\ owner' = [owner EXCEPT ![r] = s]
      /\ parent' = [parent EXCEPT ![r] = None]
      /\ current' = [current EXCEPT ![s] = r]
  BY DEF CreateStrategy, InsertRevision
<1>2. \A q \in Revisions : owner[q] # s
  BY <1>1 DEF LineSound, NoRevisionBeforeStrategy, RevisionsOf
<1>3. LinearHistory'
  BY <1>1, <1>2 DEF LineSound, LinearHistory
<1>4. CurrentIsTip'
  BY <1>1, <1>2 DEF LineSound, CurrentIsTip, LineageWithinStrategy
<1>5. LineageWithinStrategy'
  BY <1>1 DEF LineSound, LineageWithinStrategy
<1>6. NoRevisionBeforeStrategy'
  BY <1>1 DEF LineSound, NoRevisionBeforeStrategy, RevisionsOf
<1>7. QED
  BY <1>3, <1>4, <1>5, <1>6 DEF LineSound

(* An accepted append lengthens the line at its tip: the expected Revision   *)
(* is the current one, and nothing was saved on top of it yet.               *)
LEMMA LineageAppend ==
  ASSUME StoreTypeOK, LineSound,
         NEW s \in Strategies, NEW expected \in Revisions, NEW r \in Revisions,
         NEW k \in Contents, AppendRevision(s, expected, r, k)
  PROVE  LineSound'
<1> USE NoneAssumption DEF StoreTypeOK, StrategyExists, Stored
<1>1. /\ StrategyExists(s)
      /\ current[s] = expected
      /\ ~Stored(r)
      /\ owner' = [owner EXCEPT ![r] = s]
      /\ parent' = [parent EXCEPT ![r] = expected]
      /\ current' = [current EXCEPT ![s] = r]
  BY DEF AppendRevision, AppendStatus, InsertRevision
<1>2. /\ owner[expected] = s
      /\ \A q \in Revisions : owner[q] # None => parent[q] # expected
  BY <1>1 DEF LineSound, CurrentIsTip
<1>3. LinearHistory'
  BY <1>1, <1>2 DEF LineSound, LinearHistory
<1>4. CurrentIsTip'
  BY <1>1, <1>2 DEF LineSound, CurrentIsTip, LineageWithinStrategy
<1>5. LineageWithinStrategy'
  BY <1>1, <1>2 DEF LineSound, LineageWithinStrategy
<1>6. NoRevisionBeforeStrategy'
  BY <1>1 DEF LineSound, NoRevisionBeforeStrategy, RevisionsOf
<1>7. QED
  BY <1>3, <1>4, <1>5, <1>6 DEF LineSound

LEMMA StoreInvInit == StoreInit => StoreInv
BY NoneAssumption
   DEF StoreInit, StoreInv, StoreTypeOK, LinearHistory, CurrentIsTip, LineageWithinStrategy,
       NoRevisionBeforeStrategy, ArchivedExists, StrategyExists, Stored, RevisionsOf

LEMMA ArchivedExistsStep ==
  ASSUME StoreTypeOK, ArchivedExists, [StoreNext]_storeVars
  PROVE  ArchivedExists'
<1> USE NoneAssumption DEF StoreTypeOK, ArchivedExists, StrategyExists
<1>1. ASSUME NEW s \in Strategies, NEW n \in Names, NEW r \in Revisions,
             NEW k \in Contents, CreateStrategy(s, n, r, k)
      PROVE  ArchivedExists'
  BY <1>1 DEF CreateStrategy
<1>2. ASSUME NEW s \in Strategies, NEW expected \in Revisions, NEW r \in Revisions,
             NEW k \in Contents, AppendRevision(s, expected, r, k), UNCHANGED archived
      PROVE  ArchivedExists'
  BY <1>2 DEF AppendRevision
<1>3. ASSUME NEW s \in Strategies, NEW n \in Names, RenameStrategy(s, n)
      PROVE  ArchivedExists'
  BY <1>3 DEF RenameStrategy
<1>4. ASSUME NEW s \in Strategies, ArchiveStrategy(s)
      PROVE  ArchivedExists'
  BY <1>4 DEF ArchiveStrategy
<1>5. CASE UNCHANGED storeVars
  BY <1>5 DEF storeVars
<1>6. QED
  BY <1>1, <1>2, <1>3, <1>4, <1>5 DEF StoreNext, SaveRevision, AdoptCandidate

LEMMA StoreInvStep ==
  ASSUME StoreInv, [StoreNext]_storeVars
  PROVE  StoreInv'
<1>1. StoreTypeOK /\ LineSound
  BY DEF StoreInv, LineSound
<1>2. StoreTypeOK'
  BY <1>1, StoreTypeStep
<1>3. ASSUME NEW s \in Strategies, NEW n \in Names, NEW r \in Revisions,
             NEW k \in Contents, CreateStrategy(s, n, r, k)
      PROVE  LineSound'
  BY <1>1, <1>3, LineageCreate
<1>4. ASSUME NEW s \in Strategies, NEW expected \in Revisions, NEW r \in Revisions,
             NEW k \in Contents, SaveRevision(s, expected, r, k)
      PROVE  LineSound'
  BY <1>1, <1>4, LineageAppend DEF SaveRevision
<1>5. ASSUME NEW c \in Candidates, NEW s \in Strategies, NEW expected \in Revisions,
             NEW r \in Revisions, NEW k \in Contents, AdoptCandidate(c, s, expected, r, k)
      PROVE  LineSound'
  BY <1>1, <1>5, LineageAppend DEF AdoptCandidate
<1>6. ASSUME NEW s \in Strategies, NEW n \in Names, RenameStrategy(s, n)
      PROVE  LineSound'
  BY <1>1, <1>6, LineageKept DEF RenameStrategy
<1>7. ASSUME NEW s \in Strategies, ArchiveStrategy(s)
      PROVE  LineSound'
  BY <1>1, <1>7, LineageKept DEF ArchiveStrategy
<1>8. ASSUME UNCHANGED storeVars
      PROVE  LineSound'
  BY <1>1, <1>8, LineageKept DEF storeVars
<1>9. LineSound'
  BY <1>3, <1>4, <1>5, <1>6, <1>7, <1>8 DEF StoreNext
<1>10. ArchivedExists'
  BY <1>1, ArchivedExistsStep DEF StoreInv
<1>11. QED
  BY <1>2, <1>9, <1>10 DEF StoreInv, LineSound

THEOREM StoreInvariant == StoreSpec => []StoreInv
BY StoreInvInit, StoreInvStep, PTL DEF StoreSpec

(* However many clients save or adopt concurrently, no Strategy forks. *)
THEOREM HistoryIsLinear == StoreSpec => []LinearHistory
<1>1. StoreInv => LinearHistory
  BY DEF StoreInv
<1>2. QED
  BY <1>1, StoreInvariant, PTL

(* The current pointer always names the newest Revision of its Strategy. *)
THEOREM CurrentIsNewest == StoreSpec => []CurrentIsTip
<1>1. StoreInv => CurrentIsTip
  BY DEF StoreInv
<1>2. QED
  BY <1>1, StoreInvariant, PTL

(* No Revision has a parent in another Strategy. *)
THEOREM LineageStaysWithinStrategy == StoreSpec => []LineageWithinStrategy
<1>1. StoreInv => LineageWithinStrategy
  BY DEF StoreInv
<1>2. QED
  BY <1>1, StoreInvariant, PTL

-----------------------------------------------------------------------------
(* Archiving *)

Frozen(s) ==
  archived[s] =>
    /\ archived'[s]
    /\ name'[s] = name[s]
    /\ current'[s] = current[s]
    /\ RevisionsOf(s)' = RevisionsOf(s)

(* No transaction that is still on its way changes an archived Strategy. *)
LEMMA FrozenStep ==
  ASSUME StoreInv, [StoreNext]_storeVars, NEW z \in Strategies
  PROVE  Frozen(z)
<1> USE NoneAssumption DEF StoreInv, StoreTypeOK, ArchivedExists, Frozen, RevisionsOf, StrategyExists,
                              Stored
<1>1. ASSUME NEW s \in Strategies, NEW n \in Names, NEW r \in Revisions,
             NEW k \in Contents, CreateStrategy(s, n, r, k)
      PROVE  Frozen(z)
  BY <1>1 DEF CreateStrategy, InsertRevision
<1>2. ASSUME NEW s \in Strategies, NEW expected \in Revisions, NEW r \in Revisions,
             NEW k \in Contents, AppendRevision(s, expected, r, k),
             UNCHANGED <<name, archived>>
      PROVE  Frozen(z)
  BY <1>2 DEF AppendRevision, AppendStatus, InsertRevision
<1>3. ASSUME NEW s \in Strategies, NEW n \in Names, RenameStrategy(s, n)
      PROVE  Frozen(z)
  BY <1>3 DEF RenameStrategy
<1>4. ASSUME NEW s \in Strategies, ArchiveStrategy(s)
      PROVE  Frozen(z)
  BY <1>4 DEF ArchiveStrategy
<1>5. CASE UNCHANGED storeVars
  BY <1>5 DEF storeVars
<1>6. QED
  BY <1>1, <1>2, <1>3, <1>4, <1>5 DEF StoreNext, SaveRevision, AdoptCandidate

THEOREM ArchivedStaysFrozen == StoreSpec => ArchivedIsFrozen
<1>1. StoreInv /\ [StoreNext]_storeVars => [\A s \in Strategies : Frozen(s)]_storeVars
  BY FrozenStep
<1>2. QED
  BY <1>1, StoreInvariant, PTL DEF StoreSpec, ArchivedIsFrozen, Frozen

-----------------------------------------------------------------------------
(* The logs of the Strategies *)

(* One element of the definition of LineTo.                                 *)
Line(up, lines, r) == IF up[r] = None THEN <<r>> ELSE Append(lines[up[r]], r)

Ups == [Revisions -> Revisions \cup {None}]

AreLines(up, lines) ==
  /\ lines \in [Revisions -> Seq(Revisions)]
  /\ \A r \in Revisions : lines[r] = Line(up, lines, r)

(* Lines of parent pointers that end somewhere are the only ones: whatever  *)
(* else solves the definition is equal, by induction on their length.       *)
LEMMA LinesUnique ==
  ASSUME NEW up \in Ups, NEW lines, AreLines(up, lines),
         NEW other, other = [r \in Revisions |-> Line(up, other, r)]
  PROVE  other = lines
<1> DEFINE Same(n) == \A r \in Revisions : Len(lines[r]) = n => other[r] = lines[r]
           S == {n \in Nat : Same(n)}
<1>1. \A r \in Revisions : lines[r] \in Seq(Revisions) /\ Len(lines[r]) \in Nat
  BY DEF AreLines
<1>2. \A r \in Revisions : up[r] # None => up[r] \in Revisions
  BY DEF Ups
<1>3. 0 \in S
  BY <1>1, <1>2 DEF AreLines, Line
<1>4. ASSUME NEW n \in Nat, n \in S PROVE n + 1 \in S
  <2> SUFFICES ASSUME NEW r \in Revisions, Len(lines[r]) = n + 1
               PROVE  other[r] = lines[r]
    OBVIOUS
  <2>1. CASE up[r] = None
    BY <2>1 DEF AreLines, Line
  <2>2. CASE up[r] # None
    <3>1. up[r] \in Revisions /\ lines[r] = Append(lines[up[r]], r)
      BY <2>2, <1>2 DEF AreLines, Line
    <3>2. Len(lines[up[r]]) = n
      BY <3>1, <1>1
    <3>3. other[up[r]] = lines[up[r]]
      BY <1>4, <3>1, <3>2
    <3>4. QED
      BY <2>2, <3>1, <3>3 DEF Line
  <2>3. QED
    BY <2>1, <2>2
<1> HIDE DEF S
<1>5. Nat \subseteq S
  BY <1>3, <1>4, NaturalSteps
<1>6. \A r \in Revisions : other[r] = lines[r]
  BY <1>5, <1>1 DEF S
<1>7. QED
  BY <1>6 DEF AreLines

(* The parent pointers end somewhere, and within one Strategy.              *)
LinesOwned(lines) ==
  \A r \in Revisions : \A i \in 1..Len(lines[r]) : owner[lines[r][i]] = owner[r]

LinesInv == \E lines : AreLines(parent, lines) /\ LinesOwned(lines)

(* The last Revision of the line to r is r.                                 *)
LEMMA LineEnds ==
  ASSUME NEW up \in Ups, NEW lines, AreLines(up, lines), NEW r \in Revisions
  PROVE  /\ lines[r] \in Seq(Revisions) /\ Len(lines[r]) \in Nat \ {0}
         /\ lines[r][Len(lines[r])] = r
<1>1. CASE up[r] = None
  <2>1. lines[r] = <<r>>
    BY <1>1 DEF AreLines, Line
  <2>2. QED
    BY <2>1
<1>2. CASE up[r] # None
  <2>1. up[r] \in Revisions /\ lines[r] = Append(lines[up[r]], r) /\ lines[up[r]] \in Seq(Revisions)
    BY <1>2 DEF AreLines, Line, Ups
  <2>2. QED
    BY <2>1
<1>3. QED
  BY <1>1, <1>2

(* What a transaction that inserts r leaves of the lines.                   *)
LEMMA LinesInsert ==
  ASSUME StoreInv, NEW lines, AreLines(parent, lines), LinesOwned(lines),
         NEW r \in Revisions, NEW s \in Strategies, NEW p \in Revisions \cup {None}, NEW k,
         InsertRevision(r, s, p, k), p # None => owner[p] = s
  PROVE  LET longer == [lines EXCEPT ![r] = IF p = None THEN <<r>> ELSE Append(lines[p], r)] IN
         AreLines(parent', longer) /\ LinesOwned(longer)'
<1> DEFINE line == IF p = None THEN <<r>> ELSE Append(lines[p], r)
           longer == [lines EXCEPT ![r] = line]
<1> USE NoneAssumption
<1>1. /\ owner[r] = None /\ r # None
      /\ owner' = [owner EXCEPT ![r] = s] /\ parent' = [parent EXCEPT ![r] = p]
      /\ owner \in [Revisions -> Strategies \cup {None}] /\ parent \in Ups
      /\ lines \in [Revisions -> Seq(Revisions)]
  BY DEF InsertRevision, Stored, StoreInv, StoreTypeOK, AreLines, Ups
<1>2. p # r
  BY <1>1
<1>3. \A q \in Revisions : parent[q] # r /\ (q # r => parent'[q] = parent[q])
  BY <1>1 DEF StoreInv, LineageWithinStrategy, Stored
<1>4. longer \in [Revisions -> Seq(Revisions)]
  BY <1>1
<1>5. AreLines(parent', longer)
  <2> SUFFICES ASSUME NEW q \in Revisions PROVE longer[q] = Line(parent', longer, q)
    BY <1>4 DEF AreLines
  <2>1. CASE q = r
    <3>1. longer[q] = line /\ parent'[q] = p
      BY <2>1, <1>1 DEF Ups
    <3>2. p # None => longer[p] = lines[p]
      BY <1>1, <1>2
    <3>3. QED
      BY <2>1, <3>1, <3>2 DEF Line
  <2>2. CASE q # r
    BY <2>2, <1>1, <1>3 DEF Line, AreLines, Ups
  <2>3. QED
    BY <2>1, <2>2
<1>6. \A q \in Revisions : q # r => \A i \in 1..Len(lines[q]) : lines[q][i] # r
  <2> SUFFICES ASSUME NEW q \in Revisions, q # r, NEW i \in 1..Len(lines[q]), lines[q][i] = r
               PROVE  FALSE
    OBVIOUS
  <2>1. owner[q] = None
    BY <1>1 DEF LinesOwned
  <2>2. parent[q] = None
    BY <2>1 DEF StoreInv, LineageWithinStrategy, Stored
  <2>3. lines[q] = <<q>>
    BY <2>2 DEF AreLines, Line
  <2>4. QED
    BY <2>3
<1>7. LinesOwned(longer)'
  <2> SUFFICES ASSUME NEW q \in Revisions, NEW i \in 1..Len(longer[q])
               PROVE  owner'[longer[q][i]] = owner'[q]
    BY DEF LinesOwned
  <2>1. CASE q # r
    BY <2>1, <1>1, <1>6 DEF LinesOwned
  <2>2. CASE q = r /\ p = None
    BY <2>2, <1>1
  <2>3. CASE q = r /\ p # None
    <3>1. lines[p] \in Seq(Revisions) /\ longer[q] = Append(lines[p], r)
      BY <2>3, <1>1
    <3>2. CASE i = Len(lines[p]) + 1
      BY <3>1, <3>2, <2>3, <1>1
    <3>3. CASE i \in 1..Len(lines[p])
      <4>1. longer[q][i] = lines[p][i] /\ lines[p][i] \in Revisions /\ lines[p][i] # r
        BY <3>1, <3>3, <2>3, <1>2, <1>6
      <4>2. owner[lines[p][i]] = s
        BY <3>3, <2>3 DEF LinesOwned
      <4>3. QED
        BY <4>1, <4>2, <2>3, <1>1
    <3>4. QED
      BY <3>1, <3>2, <3>3
  <2>4. QED
    BY <2>1, <2>2, <2>3
<1>8. QED
  BY <1>5, <1>7

LEMMA LinesChosen ==
  ASSUME NEW up \in Ups, NEW lines, AreLines(up, lines)
  PROVE  (CHOOSE other : other = [r \in Revisions |-> Line(up, other, r)]) = lines
<1> DEFINE Solves(other) == other = [r \in Revisions |-> Line(up, other, r)]
<1>1. Solves(lines)
  BY DEF AreLines
<1>2. \A other : Solves(other) => other = lines
  BY LinesUnique
<1> HIDE DEF Solves
<1>3. (CHOOSE other : Solves(other)) = lines
  BY <1>1, <1>2
<1>4. QED
  BY <1>3 DEF Solves

(* The logs of the abstract specification, with the lines known.            *)
Logs(cur, lines) == [s \in Strategies |-> IF cur[s] # None THEN lines[cur[s]] ELSE <<>>]

LEMMA LogsAre ==
  ASSUME StoreTypeOK, NEW lines, AreLines(parent, lines)
  PROVE  LineOf = Logs(current, lines)
<1>1. parent \in Ups
  BY DEF StoreTypeOK, Ups
<1>2. LineTo = lines
  BY <1>1, LinesChosen DEF LineTo, Line
<1>3. QED
  BY <1>2 DEF LineOf, Logs, StrategyExists

LEMMA LogsAreNext ==
  ASSUME StoreTypeOK', NEW lines, AreLines(parent', lines)
  PROVE  LineOf' = Logs(current', lines)
<1>1. parent' \in Ups
  BY DEF StoreTypeOK, Ups
<1>2. LineTo' = lines
  BY <1>1, LinesChosen DEF LineTo, Line
<1>3. QED
  BY <1>2 DEF LineOf, Logs, StrategyExists

(* A Revision that is not stored is in no log.                              *)
LEMMA NotInLogs ==
  ASSUME StoreInv, NEW lines, AreLines(parent, lines), LinesOwned(lines),
         NEW r \in Revisions, ~Stored(r)
  PROVE  History!Unused(r)
<1> USE NoneAssumption
<1>1. LineOf = Logs(current, lines)
  BY LogsAre DEF StoreInv
<1>2. ASSUME NEW s \in Strategies PROVE ~History!Contains(LineOf[s], r)
  <2>1. CASE current[s] = None
    BY <2>1, <1>1 DEF Logs, History!Contains
  <2>2. CASE current[s] # None
    <3>1. current[s] \in Revisions /\ owner[current[s]] = s
      BY <2>2 DEF StoreInv, StoreTypeOK, CurrentIsTip, StrategyExists
    <3>2. \A i \in 1..Len(lines[current[s]]) : lines[current[s]][i] # r
      BY <3>1 DEF LinesOwned, Stored
    <3>3. LineOf[s] = lines[current[s]]
      BY <1>1, <2>2 DEF Logs
    <3>4. QED
      BY <3>2, <3>3 DEF History!Contains
  <2>3. QED
    BY <2>1, <2>2
<1>3. QED
  BY <1>2 DEF History!Unused

(* Creating a Strategy begins its log.                                      *)
LEMMA CreateBegins ==
  ASSUME StoreInv, StoreTypeOK', LinesInv,
         NEW s \in Strategies, NEW n \in Names, NEW r \in Revisions, NEW k \in Contents,
         CreateStrategy(s, n, r, k)
  PROVE  LinesInv' /\ History!Begin(s, r)
<1> USE NoneAssumption
<1>1. PICK lines : AreLines(parent, lines) /\ LinesOwned(lines)
  BY DEF LinesInv
<1> DEFINE longer == [lines EXCEPT ![r] = <<r>>]
<1>2. /\ current[s] = None /\ ~Stored(r) /\ InsertRevision(r, s, None, k)
      /\ current' = [current EXCEPT ![s] = r] /\ UNCHANGED archived
  BY DEF CreateStrategy, StrategyExists, InsertRevision
<1>3. AreLines(parent', longer) /\ LinesOwned(longer)'
  BY <1>1, <1>2, LinesInsert
<1> HIDE DEF longer
<1>4. LineOf = Logs(current, lines) /\ LineOf' = Logs(current', longer)
  BY <1>1, <1>3, LogsAre, LogsAreNext DEF StoreInv
<1>5. lines \in [Revisions -> Seq(Revisions)] /\ current \in [Strategies -> Revisions \cup {None}]
  BY <1>1 DEF AreLines, StoreInv, StoreTypeOK
<1>6. \A t \in Strategies : current[t] # r
  BY <1>2 DEF StoreInv, CurrentIsTip, StrategyExists, Stored
<1>7. Logs(current', longer) = [Logs(current, lines) EXCEPT ![s] = <<r>>]
  BY <1>2, <1>5, <1>6 DEF Logs, longer
<1>8. History!Unused(r)
  BY <1>1, <1>2, NotInLogs
<1>9. LineOf[s] = <<>>
  BY <1>2, <1>4 DEF Logs
<1>10. QED
  BY <1>2, <1>3, <1>4, <1>7, <1>8, <1>9 DEF LinesInv, History!Begin

(* An accepted append is a compare-and-append: the expected Revision is the *)
(* last of the log, which is what History!Extend compares.                  *)
LEMMA AppendExtends ==
  ASSUME StoreInv, StoreTypeOK', LinesInv,
         NEW s \in Strategies, NEW expected \in Revisions, NEW r \in Revisions,
         NEW k \in Contents, AppendRevision(s, expected, r, k), UNCHANGED archived
  PROVE  LinesInv' /\ History!Extend(s, expected, r)
<1> USE NoneAssumption
<1>1. PICK lines : AreLines(parent, lines) /\ LinesOwned(lines)
  BY DEF LinesInv
<1> DEFINE longer == [lines EXCEPT ![r] = Append(lines[expected], r)]
<1>2. /\ current[s] = expected /\ ~archived[s] /\ ~Stored(r)
      /\ InsertRevision(r, s, expected, k)
      /\ current' = [current EXCEPT ![s] = r]
  BY DEF AppendRevision, AppendStatus, StrategyExists, InsertRevision
<1>3. owner[expected] = s
  BY <1>2 DEF StoreInv, CurrentIsTip, StrategyExists
<1>4. AreLines(parent', longer) /\ LinesOwned(longer)'
  BY <1>1, <1>2, <1>3, LinesInsert
<1> HIDE DEF longer
<1>5. LineOf = Logs(current, lines) /\ LineOf' = Logs(current', longer)
  BY <1>1, <1>4, LogsAre, LogsAreNext DEF StoreInv
<1>6. lines \in [Revisions -> Seq(Revisions)] /\ current \in [Strategies -> Revisions \cup {None}]
  BY <1>1 DEF AreLines, StoreInv, StoreTypeOK
<1>7. \A t \in Strategies : current[t] # r
  BY <1>2 DEF StoreInv, CurrentIsTip, StrategyExists, Stored
<1>8. LineOf[s] = lines[expected]
  BY <1>2, <1>5 DEF Logs
<1>9. Logs(current', longer) = [Logs(current, lines) EXCEPT ![s] = Append(@, r)]
  BY <1>2, <1>6, <1>7 DEF Logs, longer
<1>10. LineOf[s] # <<>> /\ History!Last(LineOf[s]) = expected
  <2>1. parent \in Ups
    BY DEF StoreInv, StoreTypeOK, Ups
  <2>2. /\ Len(lines[expected]) \in Nat \ {0} /\ lines[expected][Len(lines[expected])] = expected
        /\ lines[expected] \in Seq(Revisions)
    BY <1>1, <2>1, LineEnds
  <2>3. QED
    BY <1>8, <2>2 DEF History!Last
<1>11. History!Unused(r)
  BY <1>1, <1>2, NotInLogs
<1>12. QED
  BY <1>2, <1>4, <1>5, <1>9, <1>10, <1>11 DEF LinesInv, History!Extend

(* The other requests leave the tables of Revisions as they are.            *)
LEMMA LogsKept ==
  ASSUME StoreInv, StoreTypeOK', LinesInv, UNCHANGED <<current, owner, parent>>
  PROVE  LinesInv' /\ UNCHANGED LineOf
<1>1. PICK lines : AreLines(parent, lines) /\ LinesOwned(lines)
  BY DEF LinesInv
<1>2. AreLines(parent', lines) /\ LinesOwned(lines)'
  BY <1>1 DEF LinesOwned
<1>3. LineOf = Logs(current, lines) /\ LineOf' = Logs(current', lines)
  BY <1>1, <1>2, LogsAre, LogsAreNext DEF StoreInv
<1>4. QED
  BY <1>2, <1>3 DEF LinesInv

LEMMA HistoryStep ==
  ASSUME StoreInv, LinesInv, [StoreNext]_storeVars
  PROVE  LinesInv' /\ [History!Next]_(History!historyVars)
<1> USE DEF History!Next, History!historyVars
<1>1. StoreTypeOK'
  BY StoreTypeStep DEF StoreInv
<1>2. ASSUME NEW s \in Strategies, NEW n \in Names, NEW r \in Revisions, NEW k \in Contents,
             CreateStrategy(s, n, r, k)
      PROVE  LinesInv' /\ History!Next
  BY <1>1, <1>2, CreateBegins
<1>3. ASSUME NEW s \in Strategies, NEW expected \in Revisions, NEW r \in Revisions,
             NEW k \in Contents, AppendRevision(s, expected, r, k), UNCHANGED archived
      PROVE  LinesInv' /\ History!Next
  BY <1>1, <1>3, AppendExtends
<1>4. ASSUME NEW s \in Strategies, NEW n \in Names, RenameStrategy(s, n)
      PROVE  LinesInv' /\ UNCHANGED History!historyVars
  BY <1>1, <1>4, LogsKept DEF RenameStrategy
<1>5. ASSUME NEW s \in Strategies, ArchiveStrategy(s)
      PROVE  LinesInv' /\ History!Close(s)
  <2>1. LinesInv' /\ UNCHANGED LineOf
    BY <1>1, <1>5, LogsKept DEF ArchiveStrategy
  <2>2. PICK lines : AreLines(parent, lines) /\ LinesOwned(lines)
    BY DEF LinesInv
  <2>3. LineOf[s] = lines[current[s]] /\ current[s] \in Revisions
    BY <1>5, <2>2, LogsAre DEF ArchiveStrategy, StrategyExists, Logs, StoreInv, StoreTypeOK
  <2>4. LineOf[s] # <<>>
    BY <2>2, <2>3, LineEnds DEF StoreInv, StoreTypeOK, Ups
  <2>5. QED
    BY <1>5, <2>1, <2>4 DEF ArchiveStrategy, History!Close
<1>6. CASE UNCHANGED storeVars
  BY <1>1, <1>6, LogsKept DEF storeVars
<1>7. QED
  BY <1>2, <1>3, <1>4, <1>5, <1>6 DEF StoreNext, SaveRevision, AdoptCandidate

(* Whatever clients save, adopt, rename and archive concurrently, what a    *)
(* reader finds along the parent pointers of a Strategy is an append-only   *)
(* log that is only extended by who saw its last entry.                     *)
THEOREM StoreImplementsHistory == StoreSpec => ImplementsHistory
<1>1. StoreInit => LinesInv /\ History!Init
  <2> SUFFICES ASSUME StoreInit PROVE LinesInv /\ History!Init
    OBVIOUS
  <2> DEFINE lines == [r \in Revisions |-> <<r>>]
  <2>1. AreLines(parent, lines) /\ LinesOwned(lines)
    BY DEF StoreInit, AreLines, LinesOwned, Line
  <2>2. LineOf = [s \in Strategies |-> <<>>]
    BY DEF StoreInit, LineOf, StrategyExists
  <2>3. QED
    BY <2>1, <2>2 DEF LinesInv, History!Init, StoreInit
<1>2. StoreInv /\ LinesInv /\ [StoreNext]_storeVars
        => LinesInv' /\ [History!Next]_(History!historyVars)
  BY HistoryStep
<1>3. QED
  BY <1>1, <1>2, StoreInvariant, PTL DEF StoreSpec, ImplementsHistory, History!Spec

-----------------------------------------------------------------------------
(* The research loop: the shape of its steps *)

tables == <<storeVars, runVars, candVars, compared>>

(* A step writes the tables in one of nine ways, or not at all. *)
LEMMA NextCases ==
  ASSUME [LoopNext]_loopVars
  PROVE  \/ UNCHANGED tables
         \/ StrategyRequest
         \/ \E t \in Threads :
              \/ \E n \in Runs, r \in Revisions, cfg \in Configs : CreateRun(t, n, r, cfg)
              \/ \E n \in Runs : CreateCandidateRun(t, n)
              \/ MarkRunning(t)
              \/ CompleteSucceeded(t)
              \/ CompleteFailed(t)
              \/ \E c \in Candidates, k \in Contents : InsertCandidate(t, c, k)
              \/ \E r \in Revisions : CommitAdoption(t, r)
              \/ InsertComparison(t)
<1>1. CASE UNCHANGED loopVars
  BY <1>1 DEF loopVars, tables
<1>2. CASE Crash
  BY <1>2 DEF Crash, tables
<1>3. ASSUME NEW t \in Threads, Fail(t)
      PROVE  UNCHANGED tables
  BY <1>3 DEF Fail, EvidenceNotPersisted, StatementFails, ExecutionRaises, tables
<1>4. ASSUME NEW t \in Threads,
             \/ \E n \in Runs : CheckProposal(t, n)
             \/ \E c \in Candidates, expected \in Revisions : CheckAdoption(t, c, expected)
             \/ \E c \in Candidates : ComputeComparison(t, c)
             \/ ExecutionReturns(t)
             \/ AnswerAdoption(t)
      PROVE  UNCHANGED tables
  BY <1>4 DEF CheckProposal, CheckAdoption, ComputeComparison, ExecutionReturns, AnswerAdoption,
              tables
<1>5. QED
  BY <1>1, <1>2, <1>3, <1>4 DEF LoopNext, Accept, Proceed

-----------------------------------------------------------------------------
(* Types *)

(* Every move of a handler thread is a Goto with well-typed arguments. *)
LEMMA GotoType ==
  ASSUME LoopTypeOK, NEW t \in Threads, NEW at \in Stages,
         NEW n \in Runs \cup {None}, NEW c \in Candidates \cup {None}, Goto(t, at, n, c)
  PROVE  /\ pc' \in [Threads -> Stages]
         /\ argRun' \in [Threads -> Runs \cup {None}]
         /\ argCand' \in [Threads -> Candidates \cup {None}]
BY DEF LoopTypeOK, Goto

HandlerTypes ==
  /\ pc \in [Threads -> Stages]
  /\ argRun \in [Threads -> Runs \cup {None}]
  /\ argCand \in [Threads -> Candidates \cup {None}]

LEMMA HandlerTypeStep ==
  ASSUME LoopTypeOK, [LoopNext]_loopVars
  PROVE  HandlerTypes'
<1>1. ASSUME NEW t \in Threads PROVE argRun[t] \in Runs \cup {None} /\ argCand[t] \in Candidates \cup {None}
  BY DEF LoopTypeOK
<1>2. ASSUME NEW t \in Threads, Accept(t) PROVE HandlerTypes'
  <2> USE GotoType DEF HandlerTypes, Stages
  <2>1. ASSUME NEW n \in Runs, NEW r \in Revisions, NEW cfg \in Configs, CreateRun(t, n, r, cfg)
        PROVE  HandlerTypes'
    BY <2>1 DEF CreateRun
  <2>2. ASSUME NEW n \in Runs, CheckProposal(t, n) PROVE HandlerTypes'
    BY <2>2 DEF CheckProposal
  <2>3. ASSUME NEW c \in Candidates, NEW expected \in Revisions, CheckAdoption(t, c, expected)
        PROVE  HandlerTypes'
    BY <2>3 DEF CheckAdoption
  <2>4. ASSUME NEW c \in Candidates, ComputeComparison(t, c) PROVE HandlerTypes'
    BY <2>4 DEF ComputeComparison
  <2>5. QED
    BY <1>2, <2>1, <2>2, <2>3, <2>4 DEF Accept
<1>3. ASSUME NEW t \in Threads, Return(t) PROVE HandlerTypes'
  BY <1>3, GotoType DEF Return, HandlerTypes, Stages
<1>4. ASSUME NEW t \in Threads, Proceed(t) PROVE HandlerTypes'
  <2> USE <1>1, GotoType DEF HandlerTypes, Stages
  <2>1. CASE MarkRunning(t)
    BY <2>1 DEF MarkRunning
  <2>2. CASE ExecutionReturns(t)
    BY <2>2 DEF ExecutionReturns
  <2>3. ASSUME NEW n \in Runs, CreateCandidateRun(t, n) PROVE HandlerTypes'
    BY <2>3 DEF CreateCandidateRun
  <2>4. ASSUME NEW c \in Candidates, NEW k \in Contents, InsertCandidate(t, c, k)
        PROVE  HandlerTypes'
    BY <2>4 DEF InsertCandidate
  <2>5. CASE Return(t)
    BY <2>5, <1>3
  <2>6. QED
    BY <1>4, <2>1, <2>2, <2>3, <2>4, <2>5
       DEF Proceed, CompleteSucceeded, CompleteFailed, CommitAdoption, AnswerAdoption,
           InsertComparison
<1>5. ASSUME NEW t \in Threads, Fail(t) PROVE HandlerTypes'
  <2>1. CASE EvidenceNotPersisted(t)
    BY <2>1, <1>1, GotoType DEF EvidenceNotPersisted, HandlerTypes, Stages
  <2>2. CASE Return(t)
    BY <2>2, <1>3
  <2>3. QED
    BY <1>5, <2>1, <2>2 DEF Fail, StatementFails, ExecutionRaises
<1>6. ASSUME Crash PROVE HandlerTypes'
  BY <1>6 DEF Crash, HandlerTypes, Stages
<1>7. ASSUME UNCHANGED <<pc, argRun, argCand>> PROVE HandlerTypes'
  BY <1>7 DEF LoopTypeOK, HandlerTypes
<1>8. QED
  BY <1>2, <1>4, <1>5, <1>6, <1>7 DEF LoopNext, StrategyRequest, loopVars

RunTypes ==
  /\ runRevision \in [Runs -> Revisions \cup {None}]
  /\ runCandidate \in [Runs -> Candidates \cup {None}]
  /\ runSource \in [Runs -> Contents \cup {None}]
  /\ runConfig \in [Runs -> Configs \cup {None}]
  /\ runStatus \in [Runs -> RunStates]
  /\ evidence \in [Runs -> BOOLEAN]

CandidateTypes ==
  /\ candBase \in [Candidates -> Revisions \cup {None}]
  /\ candOrigin \in [Candidates -> Runs \cup {None}]
  /\ candSource \in [Candidates -> Contents \cup {None}]
  /\ compared \in [Candidates -> BOOLEAN]

LEMMA InsertRunType ==
  ASSUME LoopTypeOK, NEW n \in Runs, NEW r \in Revisions \cup {None},
         NEW c \in Candidates \cup {None}, NEW k \in Contents \cup {None},
         NEW cfg \in Configs \cup {None}, InsertRun(n, r, c, k, cfg)
  PROVE  RunTypes'
BY DEF LoopTypeOK, RunTypes, RunStates, InsertRun

LEMMA TransitionType ==
  ASSUME LoopTypeOK, NEW n \in Runs \cup {None}, NEW expected,
         NEW next \in RunStates, Transition(n, expected, next),
         evidence' \in [Runs -> BOOLEAN]
  PROVE  RunTypes'
BY DEF LoopTypeOK, RunTypes, Transition

LEMMA TableTypeStep ==
  ASSUME LoopTypeOK, HandlersConsistent, CandidatesConsistent, [LoopNext]_loopVars
  PROVE  RunTypes' /\ CandidateTypes'
<1>1. ASSUME UNCHANGED <<runVars, candVars, compared>> PROVE RunTypes' /\ CandidateTypes'
  BY <1>1 DEF LoopTypeOK, RunTypes, CandidateTypes, runVars, candVars
<1>2. ASSUME UNCHANGED <<candVars, compared>> PROVE CandidateTypes'
  BY <1>2 DEF LoopTypeOK, CandidateTypes, candVars
<1>3. ASSUME NEW t \in Threads, NEW n \in Runs, NEW r \in Revisions, NEW cfg \in Configs,
             CreateRun(t, n, r, cfg)
      PROVE  RunTypes'
  <2>1. content[r] \in Contents \cup {None}
    BY DEF LoopTypeOK, StoreTypeOK
  <2>2. QED
    BY <1>3, <2>1, InsertRunType DEF CreateRun
<1>4. ASSUME NEW t \in Threads, NEW n \in Runs, CreateCandidateRun(t, n)
      PROVE  RunTypes'
  <2> DEFINE c == argCand[t]
  <2>1. c \in Candidates /\ CandidateExists(c)
    BY <1>4 DEF CreateCandidateRun, HandlersConsistent
  <2>2. /\ candBase[c] \in Revisions \cup {None}
        /\ candSource[c] \in Contents \cup {None}
        /\ candOrigin[c] \in Runs
    BY <2>1 DEF LoopTypeOK, CandidatesConsistent
  <2>3. runConfig[candOrigin[c]] \in Configs \cup {None}
    BY <2>2 DEF LoopTypeOK
  <2>4. InsertRun(n, candBase[c], c, candSource[c], runConfig[candOrigin[c]])
    BY <1>4 DEF CreateCandidateRun
  <2>5. QED
    BY <2>1, <2>2, <2>3, <2>4, InsertRunType
<1>5. ASSUME NEW t \in Threads, MarkRunning(t) \/ CompleteFailed(t) \/ CompleteSucceeded(t)
      PROVE  RunTypes'
  <2>1. argRun[t] \in Runs \cup {None} /\ evidence' \in [Runs -> BOOLEAN]
    BY <1>5 DEF LoopTypeOK, MarkRunning, CompleteFailed, CompleteSucceeded
  <2>2. QED
    BY <1>5, <2>1, TransitionType DEF MarkRunning, CompleteFailed, CompleteSucceeded, RunStates
<1>6. ASSUME NEW t \in Threads, NEW c \in Candidates, NEW k \in Contents,
             InsertCandidate(t, c, k)
      PROVE  RunTypes' /\ CandidateTypes'
  <2>1. argRun[t] \in Runs /\ runRevision[argRun[t]] \in Revisions \cup {None}
    BY <1>6 DEF InsertCandidate, HandlersConsistent, LoopTypeOK
  <2>2. QED
    BY <1>6, <2>1 DEF InsertCandidate, LoopTypeOK, RunTypes, CandidateTypes, runVars
<1>7. ASSUME NEW t \in Threads, InsertComparison(t)
      PROVE  RunTypes' /\ CandidateTypes'
  BY <1>7 DEF InsertComparison, LoopTypeOK, RunTypes, CandidateTypes, runVars, candVars
<1>8. QED
  BY <1>1, <1>2, <1>3, <1>4, <1>5, <1>6, <1>7, NextCases
     DEF tables, StrategyRequest, CreateRun, CreateCandidateRun, MarkRunning, CompleteFailed,
         CompleteSucceeded, CommitAdoption

-----------------------------------------------------------------------------
(* The loop implements the store *)

(* Every handler changes the Strategy tables by a transaction of the store   *)
(* or not at all: the arguments of an adoption are a Candidate, a Strategy   *)
(* and a Revision that exist.                                                *)
LEMMA StoreStep ==
  ASSUME LoopTypeOK, StoreInv, HandlersConsistent, CandidatesConsistent, [LoopNext]_loopVars
  PROVE  [StoreNext]_storeVars
<1>1. ASSUME UNCHANGED tables PROVE [StoreNext]_storeVars
  BY <1>1 DEF tables
<1>2. ASSUME StrategyRequest PROVE [StoreNext]_storeVars
  BY <1>2 DEF StrategyRequest, StoreNext
<1>3. ASSUME NEW t \in Threads, NEW r \in Revisions, CommitAdoption(t, r)
      PROVE  StoreNext
  <2> DEFINE c == argCand[t]
  <2>1. c \in Candidates /\ CandidateExists(c)
    BY <1>3 DEF CommitAdoption, HandlersConsistent
  <2>2. candBase[c] \in Revisions /\ candSource[c] \in Contents /\ Stored(candBase[c])
    BY <2>1 DEF LoopTypeOK, CandidatesConsistent, CandidateExists
  <2>3. owner[candBase[c]] \in Strategies
    BY <2>2 DEF LoopTypeOK, StoreTypeOK, Stored
  <2>4. AdoptCandidate(c, owner[candBase[c]], candBase[c], r, candSource[c])
    BY <1>3 DEF CommitAdoption
  <2>5. QED
    BY <2>1, <2>2, <2>3, <2>4 DEF StoreNext
<1>4. QED
  BY <1>1, <1>2, <1>3, NextCases
     DEF CreateRun, CreateCandidateRun, MarkRunning, CompleteSucceeded, CompleteFailed,
         InsertCandidate, InsertComparison
-----------------------------------------------------------------------------
(* Rows are permanent *)

(* No step rewrites or removes a Revision, the inputs or the success of a    *)
(* Run, a Candidate, or an adoption.                                         *)
RowsPermanent ==
  /\ \A r \in Revisions :
       Stored(r) => owner'[r] = owner[r] /\ parent'[r] = parent[r] /\ content'[r] = content[r]
  /\ \A n \in Runs :
       RunExists(n) =>
         /\ runStatus'[n] # "absent"
         /\ runRevision'[n] = runRevision[n] /\ runCandidate'[n] = runCandidate[n]
         /\ runSource'[n] = runSource[n] /\ runConfig'[n] = runConfig[n]
  /\ \A n \in Runs :
       runStatus[n] = "succeeded" => runStatus'[n] = "succeeded" /\ evidence'[n] = evidence[n]
  /\ \A c \in Candidates :
       CandidateExists(c) =>
         /\ candBase'[c] = candBase[c]
         /\ candOrigin'[c] = candOrigin[c]
         /\ candSource'[c] = candSource[c]
  /\ \A c \in Candidates : adoption[c] # None => adoption'[c] = adoption[c]

LEMMA RowsPermanentStore ==
  ASSUME LoopTypeOK, StoreNext, UNCHANGED <<runVars, candVars>>
  PROVE  RowsPermanent
<1> USE DEF RowsPermanent, runVars, candVars, LoopTypeOK, StoreTypeOK, RunExists, Stored
<1>1. ASSUME NEW r \in Revisions, NEW s, NEW p, NEW k, InsertRevision(r, s, p, k),
             UNCHANGED adoption
      PROVE  RowsPermanent
  BY <1>1 DEF InsertRevision
<1>2. ASSUME NEW c \in Candidates, NEW s \in Strategies, NEW expected \in Revisions,
             NEW r \in Revisions, NEW k \in Contents, AdoptCandidate(c, s, expected, r, k)
      PROVE  RowsPermanent
  BY <1>2 DEF AdoptCandidate, AppendRevision, InsertRevision
<1>3. ASSUME UNCHANGED <<owner, parent, content, adoption>>
      PROVE  RowsPermanent
  BY <1>3
<1>4. QED
  BY <1>1, <1>2, <1>3
     DEF StoreNext, CreateStrategy, SaveRevision, AppendRevision, RenameStrategy, ArchiveStrategy

LEMMA RowsPermanentInsertRun ==
  ASSUME LoopTypeOK, NEW n \in Runs, NEW r, NEW c, NEW k, NEW cfg, InsertRun(n, r, c, k, cfg),
         UNCHANGED <<storeVars, candVars>>
  PROVE  RowsPermanent
BY DEF LoopTypeOK, RowsPermanent, InsertRun, RunExists, storeVars, candVars

LEMMA RowsPermanentTransition ==
  ASSUME LoopTypeOK, NEW n, NEW expected \in {"pending", "running"},
         NEW next \in {"running", "succeeded", "failed"}, Transition(n, expected, next),
         \A m \in Runs \ {n} : evidence'[m] = evidence[m],
         UNCHANGED <<storeVars, candVars>>
  PROVE  RowsPermanent
BY DEF LoopTypeOK, RowsPermanent, Transition, RunExists, storeVars, candVars

LEMMA RowsPermanentStep ==
  ASSUME LoopTypeOK, StoreInv, HandlersConsistent, CandidatesConsistent, [LoopNext]_loopVars
  PROVE  RowsPermanent
<1>1. [StoreNext]_storeVars
  BY StoreStep
<1>2. ASSUME UNCHANGED <<runVars, candVars>> PROVE RowsPermanent
  <2>1. CASE StoreNext
    BY <1>2, <2>1, RowsPermanentStore
  <2>2. CASE UNCHANGED storeVars
    BY <1>2, <2>2 DEF RowsPermanent, RunExists, storeVars, runVars, candVars
  <2>3. QED
    BY <1>1, <2>1, <2>2
<1>3. ASSUME NEW t \in Threads, NEW n \in Runs, NEW r \in Revisions, NEW cfg \in Configs,
             CreateRun(t, n, r, cfg)
      PROVE  RowsPermanent
  BY <1>3, RowsPermanentInsertRun DEF CreateRun
<1>4. ASSUME NEW t \in Threads, NEW n \in Runs, CreateCandidateRun(t, n)
      PROVE  RowsPermanent
  BY <1>4, RowsPermanentInsertRun DEF CreateCandidateRun
<1>5. ASSUME NEW t \in Threads, MarkRunning(t) \/ CompleteFailed(t) \/ CompleteSucceeded(t)
      PROVE  RowsPermanent
  <2>1. \A m \in Runs \ {argRun[t]} : evidence'[m] = evidence[m]
    BY <1>5 DEF MarkRunning, CompleteFailed, CompleteSucceeded, LoopTypeOK
  <2>2. QED
    BY <1>5, <2>1, RowsPermanentTransition DEF MarkRunning, CompleteFailed, CompleteSucceeded
<1>6. ASSUME NEW t \in Threads, NEW c \in Candidates, NEW k \in Contents,
             InsertCandidate(t, c, k)
      PROVE  RowsPermanent
  BY <1>6 DEF InsertCandidate, RowsPermanent, LoopTypeOK, RunExists, CandidateExists, storeVars,
              runVars
<1>7. QED
  BY <1>2, <1>3, <1>4, <1>5, <1>6, NextCases
     DEF tables, StrategyRequest, CommitAdoption, InsertComparison

-----------------------------------------------------------------------------
(* Runs and Candidates stay consistent *)

(* Runs and Candidates that exist keep what the invariant says of them. *)
LEMMA RunRowKept ==
  ASSUME LoopTypeOK, RunsConsistent, CandidatesConsistent, RowsPermanent,
         NEW n \in Runs, RunExists(n)
  PROVE  /\ runRevision'[n] \in Revisions
         /\ Stored(runRevision[n])'
         /\ runCandidate'[n] = None => runSource'[n] = content'[runRevision'[n]]
         /\ \A c \in Candidates :
              runCandidate'[n] = c =>
                /\ CandidateExists(c)'
                /\ runRevision'[n] = candBase'[c]
                /\ runSource'[n] = candSource'[c]
                /\ runConfig'[n] = runConfig'[candOrigin'[c]]
<1>1. /\ runRevision[n] \in Revisions
      /\ Stored(runRevision[n])
      /\ owner'[runRevision[n]] = owner[runRevision[n]]
      /\ content'[runRevision[n]] = content[runRevision[n]]
      /\ runRevision'[n] = runRevision[n]
      /\ runCandidate'[n] = runCandidate[n]
      /\ runSource'[n] = runSource[n]
      /\ runConfig'[n] = runConfig[n]
  BY DEF RunsConsistent, RowsPermanent
<1>2. runCandidate'[n] = None => runSource'[n] = content'[runRevision'[n]]
  BY <1>1 DEF RunsConsistent
<1>3. ASSUME NEW c \in Candidates, runCandidate[n] = c
      PROVE  /\ CandidateExists(c)'
             /\ runRevision'[n] = candBase'[c]
             /\ runSource'[n] = candSource'[c]
             /\ runConfig'[n] = runConfig'[candOrigin'[c]]
  <2>1. /\ CandidateExists(c)
        /\ runRevision[n] = candBase[c]
        /\ runSource[n] = candSource[c]
        /\ runConfig[n] = runConfig[candOrigin[c]]
    BY <1>3 DEF RunsConsistent
  <2>2. candOrigin[c] \in Runs /\ RunExists(candOrigin[c])
    BY <2>1 DEF CandidatesConsistent
  <2>3. /\ candBase'[c] = candBase[c]
        /\ candSource'[c] = candSource[c]
        /\ candOrigin'[c] = candOrigin[c]
        /\ runConfig'[candOrigin[c]] = runConfig[candOrigin[c]]
    BY <2>1, <2>2 DEF RowsPermanent
  <2>4. QED
    BY <1>1, <2>1, <2>3 DEF CandidateExists
<1>4. QED
  BY <1>1, <1>2, <1>3 DEF Stored

LEMMA CandidateRowKept ==
  ASSUME LoopTypeOK, CandidatesConsistent, RowsPermanent,
         NEW c \in Candidates, CandidateExists(c)
  PROVE  /\ CandidateExists(c)'
         /\ Stored(candBase[c])'
         /\ candOrigin'[c] \in Runs
         /\ RunExists(candOrigin[c])'
         /\ runCandidate'[candOrigin'[c]] = None
         /\ runRevision'[candOrigin'[c]] = candBase'[c]
         /\ candSource'[c] \in Contents \ {content'[candBase'[c]]}
<1>1. candBase[c] \in Revisions
  BY DEF LoopTypeOK, CandidateExists
<1>2. QED
  BY <1>1 DEF CandidatesConsistent, RowsPermanent, CandidateExists, Stored, RunExists

LEMMA CandidatesConsistentStep ==
  ASSUME LoopInv, [LoopNext]_loopVars, RowsPermanent
  PROVE  CandidatesConsistent'
<1> USE DEF LoopInv
<1>1. ASSUME UNCHANGED candBase PROVE CandidatesConsistent'
  BY <1>1, CandidateRowKept DEF CandidatesConsistent, CandidateExists
<1>2. ASSUME NEW t \in Threads, NEW c \in Candidates, NEW k \in Contents,
             InsertCandidate(t, c, k)
      PROVE  CandidatesConsistent'
  <2>1. /\ argRun[t] \in Runs
        /\ RunExists(argRun[t])
        /\ runCandidate[argRun[t]] = None
        /\ runRevision[argRun[t]] \in Revisions
        /\ Stored(runRevision[argRun[t]])
    BY <1>2 DEF InsertCandidate, HandlersConsistent, RunsConsistent
  <2>2. /\ Stored(candBase[c])'
        /\ candOrigin'[c] \in Runs
        /\ RunExists(candOrigin[c])'
        /\ runCandidate'[candOrigin'[c]] = None
        /\ runRevision'[candOrigin'[c]] = candBase'[c]
        /\ candSource'[c] \in Contents \ {content'[candBase'[c]]}
    BY <1>2, <2>1
       DEF InsertCandidate, LoopTypeOK, RunExists, Stored, storeVars, runVars
  <2>3. \A d \in Candidates \ {c} : candBase'[d] = candBase[d]
    BY <1>2 DEF InsertCandidate, LoopTypeOK
  <2>4. QED
    BY <2>2, <2>3, CandidateRowKept DEF CandidatesConsistent, CandidateExists
<1>3. QED
  BY <1>1, <1>2, NextCases
     DEF tables, candVars, StrategyRequest, CreateRun, CreateCandidateRun, MarkRunning,
         CompleteSucceeded, CompleteFailed, CommitAdoption, InsertComparison

(* A new Run row is consistent when its inputs are. *)
LEMMA RunsConsistentInsert ==
  ASSUME LoopInv, RowsPermanent,
         NEW n \in Runs, NEW r \in Revisions, NEW c \in Candidates \cup {None},
         NEW k, NEW cfg,
         InsertRun(n, r, c, k, cfg),
         UNCHANGED <<storeVars, candVars>>,
         Stored(r),
         c = None => k = content[r],
         c # None => /\ CandidateExists(c)
                     /\ r = candBase[c]
                     /\ k = candSource[c]
                     /\ cfg = runConfig[candOrigin[c]]
  PROVE  RunsConsistent' /\ OneRunPerCandidate'
<1> USE NoneAssumption DEF LoopInv
<1>1. /\ ~RunExists(n)
      /\ runRevision' = [runRevision EXCEPT ![n] = r]
      /\ runCandidate' = [runCandidate EXCEPT ![n] = c]
      /\ runSource' = [runSource EXCEPT ![n] = k]
      /\ runConfig' = [runConfig EXCEPT ![n] = cfg]
      /\ runStatus' = [runStatus EXCEPT ![n] = "pending"]
  BY DEF InsertRun
<1>2. /\ runRevision'[n] = r /\ runCandidate'[n] = c /\ runSource'[n] = k
      /\ runConfig'[n] = cfg /\ RunExists(n)'
      /\ Stored(r)' /\ content'[r] = content[r]
  BY <1>1 DEF LoopTypeOK, RunExists, Stored, storeVars
<1>3. ASSUME NEW d \in Candidates, runCandidate'[n] = d
      PROVE  /\ CandidateExists(d)'
             /\ runRevision'[n] = candBase'[d]
             /\ runSource'[n] = candSource'[d]
             /\ runConfig'[n] = runConfig'[candOrigin'[d]]
  <2>1. c = d /\ c # None
    BY <1>2, <1>3
  <2>2. candOrigin[d] \in Runs /\ RunExists(candOrigin[d])
    BY <2>1 DEF CandidatesConsistent
  <2>3. runConfig'[candOrigin[d]] = runConfig[candOrigin[d]]
    BY <2>2 DEF RowsPermanent
  <2>4. QED
    BY <1>2, <2>1, <2>3 DEF CandidateExists, candVars
<1>4. \A m \in Runs \ {n} : RunExists(m)' = RunExists(m) /\ runCandidate'[m] = runCandidate[m]
  BY <1>1 DEF LoopTypeOK, RunExists
<1>5. ASSUME NEW m \in Runs, ~RunExists(m)' PROVE runCandidate'[m] = None
  BY <1>2, <1>4, <1>5 DEF RunsConsistent
<1>6. RunsConsistent'
  <2> DEFINE Consistent(m) ==
        /\ runRevision[m] \in Revisions
        /\ Stored(runRevision[m])
        /\ runCandidate[m] = None => runSource[m] = content[runRevision[m]]
        /\ \A d \in Candidates :
             runCandidate[m] = d =>
               /\ CandidateExists(d)
               /\ runRevision[m] = candBase[d]
               /\ runSource[m] = candSource[d]
               /\ runConfig[m] = runConfig[candOrigin[d]]
  <2>1. Consistent(n)'
    BY <1>2, <1>3 DEF Stored
  <2>2. ASSUME NEW m \in Runs \ {n}, RunExists(m)' PROVE Consistent(m)'
    BY <1>4, <2>2, RunRowKept
  <2>3. \A m \in Runs : RunExists(m)' => Consistent(m)'
    BY <2>1, <2>2
  <2>4. QED
    BY <1>5, <2>3 DEF RunsConsistent
<1>7. c # None => \A m \in Runs : runCandidate[m] # c
  BY DEF InsertRun, RunOf
<1>8. OneRunPerCandidate'
  BY <1>2, <1>4, <1>7 DEF OneRunPerCandidate
<1>9. QED
  BY <1>6, <1>8

LEMMA RunsConsistentStep ==
  ASSUME LoopInv, [LoopNext]_loopVars, RowsPermanent
  PROVE  RunsConsistent' /\ OneRunPerCandidate'
<1> USE DEF LoopInv
<1>1. ASSUME UNCHANGED runCandidate,
             \A n \in Runs : RunExists(n)' = RunExists(n)
      PROVE  RunsConsistent' /\ OneRunPerCandidate'
  <2>1. RunsConsistent'
    BY <1>1, RunRowKept DEF RunsConsistent
  <2>2. OneRunPerCandidate'
    BY <1>1 DEF OneRunPerCandidate
  <2>3. QED
    BY <2>1, <2>2
<1>2. ASSUME UNCHANGED runVars PROVE RunsConsistent' /\ OneRunPerCandidate'
  BY <1>1, <1>2 DEF runVars, RunExists
<1>3. ASSUME NEW t \in Threads, MarkRunning(t) \/ CompleteSucceeded(t) \/ CompleteFailed(t)
      PROVE  RunsConsistent' /\ OneRunPerCandidate'
  <2>1. UNCHANGED runCandidate /\ \A n \in Runs : RunExists(n)' = RunExists(n)
    BY <1>3 DEF MarkRunning, CompleteSucceeded, CompleteFailed, Transition, RunExists, LoopTypeOK
  <2>2. QED
    BY <1>1, <2>1
<1>4. ASSUME NEW t \in Threads, NEW n \in Runs, NEW r \in Revisions, NEW cfg \in Configs,
             CreateRun(t, n, r, cfg)
      PROVE  RunsConsistent' /\ OneRunPerCandidate'
  BY <1>4, RunsConsistentInsert DEF CreateRun
<1>5. ASSUME NEW t \in Threads, NEW n \in Runs, CreateCandidateRun(t, n)
      PROVE  RunsConsistent' /\ OneRunPerCandidate'
  <2> DEFINE c == argCand[t]
  <2>1. c \in Candidates /\ CandidateExists(c)
    BY <1>5 DEF CreateCandidateRun, HandlersConsistent
  <2>2. candBase[c] \in Revisions /\ Stored(candBase[c]) /\ c # None
    BY <2>1, NoneAssumption DEF LoopTypeOK, CandidatesConsistent, CandidateExists
  <2>3. /\ InsertRun(n, candBase[c], c, candSource[c], runConfig[candOrigin[c]])
        /\ UNCHANGED <<storeVars, candVars>>
    BY <1>5 DEF CreateCandidateRun
  <2> HIDE DEF c
  <2>4. QED
    BY <2>1, <2>2, <2>3, RunsConsistentInsert
<1>6. QED
  BY <1>2, <1>3, <1>4, <1>5, NextCases
     DEF tables, StrategyRequest, InsertCandidate, CommitAdoption, InsertComparison

-----------------------------------------------------------------------------
(* Decision Evidence *)

(* The one transaction that writes events also writes the succeeded status,  *)
(* and a Run that has one of the two is never written again.                 *)
LEMMA EvidenceStep ==
  ASSUME LoopInv, [LoopNext]_loopVars
  PROVE  EvidenceExactlyForSucceeded'
<1> USE DEF LoopInv, EvidenceExactlyForSucceeded, LoopTypeOK
<1>1. ASSUME UNCHANGED <<runStatus, evidence>> PROVE EvidenceExactlyForSucceeded'
  BY <1>1
<1>2. ASSUME NEW n \in Runs, NEW r, NEW c, NEW k, NEW cfg, InsertRun(n, r, c, k, cfg)
      PROVE  EvidenceExactlyForSucceeded'
  BY <1>2 DEF InsertRun, RunExists
<1>3. ASSUME NEW t \in Threads, MarkRunning(t) \/ CompleteSucceeded(t) \/ CompleteFailed(t)
      PROVE  EvidenceExactlyForSucceeded'
  <2>1. argRun[t] \in Runs
    BY <1>3 DEF MarkRunning, CompleteSucceeded, CompleteFailed, HandlersConsistent, RunStages
  <2>2. QED
    BY <1>3, <2>1 DEF MarkRunning, CompleteSucceeded, CompleteFailed, Transition
<1>4. QED
  BY <1>1, <1>2, <1>3, NextCases
     DEF tables, runVars, StrategyRequest, CreateRun, CreateCandidateRun, InsertCandidate,
         CommitAdoption, InsertComparison

-----------------------------------------------------------------------------
(* What was checked stays true *)

(* A tested Candidate stays tested. *)
LEMMA TestedKept ==
  ASSUME LoopTypeOK, RowsPermanent, NEW c \in Candidates, Tested(c)
  PROVE  Tested(c)'
<1>1. PICK n \in Runs : runCandidate[n] = c /\ runStatus[n] = "succeeded"
  BY DEF Tested, RunOf
<1>2. runCandidate'[n] = c /\ runStatus'[n] = "succeeded"
  BY <1>1 DEF RowsPermanent, RunExists
<1>3. QED
  BY <1>2 DEF Tested, RunOf

(* A comparable pair of Runs stays comparable. *)
LEMMA ComparableKept ==
  ASSUME LoopTypeOK, CandidatesConsistent, RowsPermanent,
         NEW c \in Candidates, CandidateExists(c), Comparable(c)
  PROVE  Comparable(c)'
<1> DEFINE o == candOrigin[c]
           b == candBase[c]
<1>1. PICK n \in Runs :
        /\ runCandidate[n] = c
        /\ runCandidate[o] = None
        /\ runRevision[o] = b /\ runRevision[n] = b
        /\ runSource[o] = content[b] /\ runSource[n] = candSource[c]
        /\ runConfig[o] = runConfig[n]
        /\ runStatus[o] = "succeeded" /\ runStatus[n] = "succeeded"
        /\ evidence[o] /\ evidence[n]
  BY DEF Comparable, RunOf
<1>2. o \in Runs /\ b \in Revisions /\ Stored(b)
  BY DEF CandidatesConsistent, LoopTypeOK, CandidateExists
<1>3. candOrigin'[c] = o /\ candBase'[c] = b /\ candSource'[c] = candSource[c]
      /\ content'[b] = content[b]
  BY <1>2 DEF RowsPermanent
<1>4. ASSUME NEW m \in Runs, runStatus[m] = "succeeded"
      PROVE  /\ runRevision'[m] = runRevision[m] /\ runCandidate'[m] = runCandidate[m]
             /\ runSource'[m] = runSource[m] /\ runConfig'[m] = runConfig[m]
             /\ runStatus'[m] = "succeeded" /\ evidence'[m] = evidence[m]
  BY <1>4 DEF RowsPermanent, RunExists
<1>5. /\ runCandidate'[n] = c
      /\ runCandidate'[o] = None
      /\ runRevision'[o] = b /\ runRevision'[n] = b
      /\ runSource'[o] = content'[b] /\ runSource'[n] = candSource'[c]
      /\ runConfig'[o] = runConfig'[n]
      /\ runStatus'[o] = "succeeded" /\ runStatus'[n] = "succeeded"
      /\ evidence'[o] /\ evidence'[n]
  BY <1>1, <1>2, <1>3, <1>4
<1> HIDE DEF o, b
<1>6. QED
  BY <1>3, <1>5 DEF Comparable, RunOf

LEMMA ComparedStep ==
  ASSUME LoopInv, [LoopNext]_loopVars, RowsPermanent
  PROVE  ComparedIsComparable'
<1> USE DEF LoopInv
<1>1. ASSUME NEW c \in Candidates, CandidateExists(c), Comparable(c)
      PROVE  CandidateExists(c)' /\ Comparable(c)'
  BY <1>1, ComparableKept DEF RowsPermanent, CandidateExists
<1>2. ASSUME UNCHANGED compared PROVE ComparedIsComparable'
  BY <1>1, <1>2 DEF ComparedIsComparable
<1>3. ASSUME NEW t \in Threads, InsertComparison(t) PROVE ComparedIsComparable'
  <2>1. /\ argCand[t] \in Candidates
        /\ CandidateExists(argCand[t])
        /\ Comparable(argCand[t])
        /\ compared' = [compared EXCEPT ![argCand[t]] = TRUE]
    BY <1>3 DEF InsertComparison, HandlersConsistent
  <2>2. ASSUME NEW c \in Candidates, compared'[c] PROVE CandidateExists(c) /\ Comparable(c)
    BY <2>1, <2>2 DEF ComparedIsComparable, LoopTypeOK
  <2>3. QED
    BY <1>1, <2>2 DEF ComparedIsComparable
<1>4. QED
  BY <1>2, <1>3, NextCases
     DEF tables, StrategyRequest, CreateRun, CreateCandidateRun, MarkRunning, CompleteSucceeded,
         CompleteFailed, InsertCandidate, CommitAdoption

-----------------------------------------------------------------------------
(* Adoption *)

(* What a recorded adoption rests on is permanent. *)
LEMMA AdoptionRowKept ==
  ASSUME LoopInv, RowsPermanent, NEW c \in Candidates, adoption[c] # None
  PROVE  /\ adoption'[c] = adoption[c]
         /\ Stored(adoption[c])'
         /\ CandidateExists(c)'
         /\ parent'[adoption'[c]] = candBase'[c]
         /\ content'[adoption'[c]] = candSource'[c]
         /\ \E n \in RunOf(c)' :
              runSource'[n] = candSource'[c] /\ runStatus'[n] = "succeeded" /\ evidence'[n]
<1> USE DEF LoopInv
<1>1. adoption[c] \in Revisions /\ Stored(adoption[c]) /\ CandidateExists(c)
      /\ parent[adoption[c]] = candBase[c] /\ content[adoption[c]] = candSource[c]
  BY DEF LoopTypeOK, StoreTypeOK, AdoptionsDistinct, AdoptionBacked
<1>2. PICK n \in Runs : runCandidate[n] = c /\ runSource[n] = candSource[c]
                        /\ runStatus[n] = "succeeded" /\ evidence[n]
  BY DEF AdoptionBacked, RunOf
<1>3. /\ runCandidate'[n] = c /\ runSource'[n] = runSource[n]
      /\ runStatus'[n] = "succeeded" /\ evidence'[n]
  BY <1>2 DEF RowsPermanent, RunExists
<1>4. /\ adoption'[c] = adoption[c]
      /\ candBase'[c] = candBase[c] /\ candSource'[c] = candSource[c]
      /\ parent'[adoption[c]] = parent[adoption[c]]
      /\ content'[adoption[c]] = content[adoption[c]]
      /\ owner'[adoption[c]] = owner[adoption[c]]
  BY <1>1 DEF RowsPermanent
<1>5. n \in RunOf(c)'
  BY <1>3 DEF RunOf
<1>6. QED
  BY <1>1, <1>2, <1>3, <1>4, <1>5 DEF Stored, CandidateExists

LEMMA AdoptionStep ==
  ASSUME LoopInv, [LoopNext]_loopVars, RowsPermanent
  PROVE  AdoptionBacked' /\ AdoptionsDistinct'
<1> USE DEF LoopInv
<1>1. ASSUME UNCHANGED adoption PROVE AdoptionBacked' /\ AdoptionsDistinct'
  BY <1>1, AdoptionRowKept DEF AdoptionBacked, AdoptionsDistinct
<1>2. ASSUME NEW t \in Threads, NEW r \in Revisions, CommitAdoption(t, r)
      PROVE  AdoptionBacked' /\ AdoptionsDistinct'
  <2>1. PICK c \in Candidates : c = argCand[t] /\ CandidateExists(c) /\ Tested(c)
    BY <1>2 DEF CommitAdoption, HandlersConsistent
  <2>2. AdoptCandidate(c, owner[candBase[c]], candBase[c], r, candSource[c])
        /\ UNCHANGED <<runVars, candVars>>
    BY <1>2, <2>1 DEF CommitAdoption
  <2>3. /\ ~Stored(r)
        /\ owner' = [owner EXCEPT ![r] = owner[candBase[c]]]
        /\ parent' = [parent EXCEPT ![r] = candBase[c]]
        /\ content' = [content EXCEPT ![r] = candSource[c]]
        /\ adoption' = [adoption EXCEPT ![c] = r]
        /\ adoption[c] = None
    BY <2>2 DEF AdoptCandidate, AppendRevision, InsertRevision
  <2>4. adoption'[c] = r /\ parent'[r] = candBase[c] /\ content'[r] = candSource[c]
    BY <2>1, <2>3 DEF LoopTypeOK, StoreTypeOK
  <2>5. Stored(candBase[c])
    BY <2>1 DEF CandidatesConsistent
  <2>6. Stored(r)'
    BY <2>3, <2>5 DEF Stored, LoopTypeOK, StoreTypeOK
  <2>7. PICK n \in Runs : runCandidate[n] = c /\ runStatus[n] = "succeeded"
    BY <2>1 DEF Tested, RunOf
  <2>8. runSource[n] = candSource[c] /\ evidence[n]
    BY <2>1, <2>7 DEF RunsConsistent, EvidenceExactlyForSucceeded, RunExists
  <2>9. \A d \in Candidates \ {c} : adoption'[d] = adoption[d] /\ adoption'[d] # r
    BY <2>3, NoneAssumption DEF LoopTypeOK, StoreTypeOK, AdoptionsDistinct, Stored
  <2>10. UNCHANGED <<runCandidate, runSource, runStatus, evidence, candBase, candSource>>
    BY <2>2 DEF runVars, candVars
  <2>11. AdoptionsDistinct'
    <3>1. ASSUME NEW d \in Candidates, adoption'[d] # None PROVE Stored(adoption[d])'
      BY <2>4, <2>6, <2>9, <3>1, AdoptionRowKept DEF Stored
    <3>2. ASSUME NEW d \in Candidates, NEW e \in Candidates, adoption'[d] # None,
                 adoption'[e] = adoption'[d]
          PROVE  e = d
      BY <2>1, <2>4, <2>9, <3>2 DEF AdoptionsDistinct
    <3>3. QED
      BY <3>1, <3>2 DEF AdoptionsDistinct
  <2>12. ASSUME NEW d \in Candidates \ {c}, adoption'[d] # None
         PROVE  /\ CandidateExists(d)'
                /\ parent'[adoption'[d]] = candBase'[d]
                /\ content'[adoption'[d]] = candSource'[d]
                /\ \E m \in RunOf(d)' :
                     runSource'[m] = candSource'[d] /\ runStatus'[m] = "succeeded" /\ evidence'[m]
    BY <2>9, <2>12, AdoptionRowKept
  <2>13. /\ CandidateExists(c)'
         /\ parent'[adoption'[c]] = candBase'[c]
         /\ content'[adoption'[c]] = candSource'[c]
         /\ \E m \in RunOf(c)' :
              runSource'[m] = candSource'[c] /\ runStatus'[m] = "succeeded" /\ evidence'[m]
    BY <2>1, <2>4, <2>7, <2>8, <2>10 DEF CandidateExists, RunOf
  <2>14. QED
    BY <2>11, <2>12, <2>13 DEF AdoptionBacked
<1>3. QED
  BY <1>1, <1>2, NextCases
     DEF tables, storeVars, StrategyRequest, CreateStrategy, SaveRevision, RenameStrategy,
         ArchiveStrategy, CreateRun, CreateCandidateRun, MarkRunning, CompleteSucceeded,
         CompleteFailed, InsertCandidate, InsertComparison

-----------------------------------------------------------------------------
(* Handler threads *)

HandlerOK(at, n, c) ==
  /\ at \in RunStages => n \in Runs
  /\ at = "proposing" => n \in Runs /\ RunExists(n) /\ runCandidate[n] = None
  /\ at \in {"proposed", "adopting", "comparing"} => c \in Candidates /\ CandidateExists(c)
  /\ at = "adopting" => Tested(c)
  /\ at = "comparing" => Comparable(c)

(* A handler that does not move keeps what it has in hand. *)
LEMMA HandlerKept ==
  ASSUME LoopInv, RowsPermanent, NEW at, NEW n, NEW c, HandlerOK(at, n, c)
  PROVE  HandlerOK(at, n, c)'
<1> USE DEF LoopInv
<1>1. at = "proposing" => n \in Runs /\ RunExists(n)' /\ runCandidate'[n] = None
  BY DEF HandlerOK, RowsPermanent, RunExists
<1>2. at \in {"proposed", "adopting", "comparing"} => c \in Candidates /\ CandidateExists(c)'
  BY DEF HandlerOK, RowsPermanent, CandidateExists
<1>3. at = "adopting" => Tested(c)'
  BY TestedKept DEF HandlerOK
<1>4. at = "comparing" => Comparable(c)'
  BY ComparableKept DEF HandlerOK
<1>5. QED
  BY <1>1, <1>2, <1>3, <1>4 DEF HandlerOK

LEMMA HandlersKept ==
  ASSUME LoopInv, RowsPermanent, UNCHANGED <<pc, argRun, argCand>>
  PROVE  HandlersConsistent'
<1>1. \A u \in Threads : HandlerOK(pc[u], argRun[u], argCand[u])
  BY DEF LoopInv, HandlersConsistent, HandlerOK
<1>2. ASSUME NEW u \in Threads PROVE HandlerOK(pc[u], argRun[u], argCand[u])'
  <2>1. PICK at, n, c : at = pc[u] /\ n = argRun[u] /\ c = argCand[u]
    OBVIOUS
  <2>2. HandlerOK(at, n, c)'
    BY <1>1, <2>1, HandlerKept
  <2>3. QED
    BY <2>1, <2>2 DEF HandlerOK
<1>3. QED
  BY <1>2 DEF HandlersConsistent, HandlerOK

LEMMA HandlersMove ==
  ASSUME LoopInv, RowsPermanent, NEW t \in Threads, NEW at, NEW n, NEW c,
         Goto(t, at, n, c), HandlerOK(at, n, c)'
  PROVE  HandlersConsistent'
<1>1. /\ pc' = [pc EXCEPT ![t] = at]
      /\ argRun' = [argRun EXCEPT ![t] = n]
      /\ argCand' = [argCand EXCEPT ![t] = c]
  BY DEF Goto
<1>2. ASSUME NEW u \in Threads \ {t} PROVE HandlerOK(pc[u], argRun[u], argCand[u])'
  <2>1. PICK a, m, d : a = pc[u] /\ m = argRun[u] /\ d = argCand[u]
    OBVIOUS
  <2>2. HandlerOK(a, m, d)
    BY <2>1 DEF LoopInv, HandlersConsistent, HandlerOK
  <2>3. HandlerOK(a, m, d)'
    BY <2>2, HandlerKept
  <2>4. pc'[u] = a /\ argRun'[u] = m /\ argCand'[u] = d
    BY <1>1, <2>1 DEF LoopInv, LoopTypeOK
  <2>5. QED
    BY <2>3, <2>4 DEF HandlerOK
<1>3. pc'[t] = at /\ argRun'[t] = n /\ argCand'[t] = c
  BY <1>1 DEF LoopInv, LoopTypeOK
<1>4. HandlerOK(pc[t], argRun[t], argCand[t])'
  BY <1>3 DEF HandlerOK
<1>5. QED
  BY <1>2, <1>4 DEF HandlersConsistent, HandlerOK

LEMMA HandlersReturn ==
  ASSUME LoopInv, RowsPermanent, NEW t \in Threads, Return(t)
  PROVE  HandlersConsistent'
<1>1. HandlerOK("idle", None, None)'
  BY DEF HandlerOK, RunStages
<1>2. QED
  BY <1>1, HandlersMove DEF Return

LEMMA HandlersStep ==
  ASSUME LoopInv, [LoopNext]_loopVars, RowsPermanent
  PROVE  HandlersConsistent'
<1>1. ASSUME NEW t \in Threads, Accept(t) PROVE HandlersConsistent'
  <2>1. ASSUME NEW n \in Runs, NEW r \in Revisions, NEW cfg \in Configs, CreateRun(t, n, r, cfg)
        PROVE  HandlersConsistent'
    <3>1. HandlerOK("created", n, None)'
      BY DEF HandlerOK, RunStages
    <3>2. QED
      BY <2>1, <3>1, HandlersMove DEF CreateRun
  <2>2. ASSUME NEW n \in Runs, CheckProposal(t, n) PROVE HandlersConsistent'
    <3>1. HandlerOK("proposing", n, None)
      BY <2>2 DEF CheckProposal, HandlerOK, RunStages
    <3>2. QED
      BY <2>2, <3>1, HandlerKept, HandlersMove DEF CheckProposal
  <2>3. ASSUME NEW c \in Candidates, NEW expected \in Revisions, CheckAdoption(t, c, expected)
        PROVE  HandlersConsistent'
    <3>1. HandlerOK("adopting", None, c)
      BY <2>3 DEF CheckAdoption, HandlerOK, RunStages
    <3>2. QED
      BY <2>3, <3>1, HandlerKept, HandlersMove DEF CheckAdoption
  <2>4. ASSUME NEW c \in Candidates, ComputeComparison(t, c) PROVE HandlersConsistent'
    <3>1. HandlerOK("comparing", None, c)
      BY <2>4 DEF ComputeComparison, HandlerOK, RunStages
    <3>2. QED
      BY <2>4, <3>1, HandlerKept, HandlersMove DEF ComputeComparison
  <2>5. QED
    BY <1>1, <2>1, <2>2, <2>3, <2>4 DEF Accept
<1>2. ASSUME NEW t \in Threads, NEW at \in {"executing", "executed", "failing"},
             pc[t] \in RunStages, Goto(t, at, argRun[t], argCand[t])
      PROVE  HandlersConsistent'
  <2>1. PICK n, c : n = argRun[t] /\ c = argCand[t]
    OBVIOUS
  <2>2. HandlerOK(at, n, c)'
    BY <1>2, <2>1 DEF LoopInv, HandlersConsistent, HandlerOK
  <2>3. QED
    BY <1>2, <2>1, <2>2, HandlersMove
<1>3. ASSUME NEW t \in Threads, MarkRunning(t) \/ ExecutionReturns(t) \/ EvidenceNotPersisted(t)
      PROVE  HandlersConsistent'
  BY <1>2, <1>3 DEF MarkRunning, ExecutionReturns, EvidenceNotPersisted, RunStages
<1>4. ASSUME NEW t \in Threads, NEW n \in Runs, CreateCandidateRun(t, n)
      PROVE  HandlersConsistent'
  <2>1. PICK c : c = argCand[t]
    OBVIOUS
  <2>2. HandlerOK("created", n, c)'
    BY DEF HandlerOK, RunStages
  <2>3. QED
    BY <1>4, <2>1, <2>2, HandlersMove DEF CreateCandidateRun
<1>5. ASSUME NEW t \in Threads, NEW c \in Candidates, NEW k \in Contents, InsertCandidate(t, c, k)
      PROVE  HandlersConsistent'
  <2>1. argRun[t] \in Runs /\ RunExists(argRun[t])
    BY <1>5 DEF InsertCandidate, LoopInv, HandlersConsistent
  <2>2. runRevision[argRun[t]] \in Revisions
    BY <2>1 DEF LoopInv, RunsConsistent
  <2>3. CandidateExists(c)'
    BY <1>5, <2>2, NoneAssumption DEF InsertCandidate, CandidateExists, LoopInv, LoopTypeOK
  <2>4. HandlerOK("proposed", None, c)'
    BY <2>3 DEF HandlerOK, RunStages
  <2>5. QED
    BY <1>5, <2>4, HandlersMove DEF InsertCandidate
<1>6. ASSUME NEW t \in Threads, Return(t) PROVE HandlersConsistent'
  BY <1>6, HandlersReturn
<1>7. ASSUME Crash PROVE HandlersConsistent'
  BY <1>7 DEF Crash, HandlersConsistent, RunStages
<1>8. ASSUME UNCHANGED <<pc, argRun, argCand>> PROVE HandlersConsistent'
  BY <1>8, HandlersKept
<1>9. ASSUME NEW t \in Threads, Proceed(t) \/ Fail(t) PROVE HandlersConsistent'
  BY <1>9, <1>3, <1>4, <1>5, <1>6
     DEF Proceed, Fail, CompleteSucceeded, CompleteFailed, CommitAdoption, AnswerAdoption,
         InsertComparison, StatementFails, ExecutionRaises
<1>10. QED
  BY <1>1, <1>7, <1>8, <1>9 DEF LoopNext, StrategyRequest, loopVars

-----------------------------------------------------------------------------
(* The Run lifecycle *)

(* A move of one handler keeps the lifecycle of every Run, if the Runs the   *)
(* other handlers drive stay as they are and none of them is taken over.     *)
LEMMA LifecycleMove ==
  ASSUME LoopInv, NEW t \in Threads, NEW at, NEW n, NEW c, Goto(t, at, n, c),
         \A u \in Threads \ {t} :
           pc[u] \in RunStages => runStatus'[argRun[u]] = runStatus[argRun[u]],
         at \in RunStages =>
           /\ runStatus'[n] = (IF at = "created" THEN "pending" ELSE "running")
           /\ \A u \in Threads \ {t} : pc[u] \in RunStages => argRun[u] # n
  PROVE  LifecycleNeverRejected'
<1>1. /\ pc'[t] = at /\ argRun'[t] = n
      /\ \A u \in Threads \ {t} : pc'[u] = pc[u] /\ argRun'[u] = argRun[u]
  BY DEF Goto, LoopInv, LoopTypeOK
<1>2. QED
  BY <1>1 DEF LoopInv, LifecycleNeverRejected

LEMMA LifecycleStep ==
  ASSUME LoopInv, [LoopNext]_loopVars
  PROVE  LifecycleNeverRejected'
<1> USE DEF LoopInv
<1>1. ASSUME NEW t \in Threads, NEW at, NEW n, NEW c, Goto(t, at, n, c), UNCHANGED runStatus,
             at \notin RunStages
      PROVE  LifecycleNeverRejected'
  BY <1>1, LifecycleMove
<1>2. ASSUME NEW t \in Threads, Return(t), UNCHANGED runStatus PROVE LifecycleNeverRejected'
  BY <1>1, <1>2 DEF Return, RunStages
<1>3. ASSUME NEW t \in Threads, NEW n \in Runs, NEW r, NEW d, NEW k, NEW cfg, NEW c,
             InsertRun(n, r, d, k, cfg), Goto(t, "created", n, c)
      PROVE  LifecycleNeverRejected'
  <2>1. ASSUME NEW u \in Threads, pc[u] \in RunStages PROVE argRun[u] # n
    BY <1>3, <2>1 DEF InsertRun, RunExists, LifecycleNeverRejected
  <2>2. \A m \in Runs \ {n} : runStatus'[m] = runStatus[m]
    BY <1>3 DEF InsertRun, LoopTypeOK
  <2>3. \A u \in Threads : pc[u] \in RunStages => argRun[u] \in Runs
    BY DEF HandlersConsistent
  <2>4. runStatus'[n] = "pending"
    BY <1>3 DEF InsertRun, LoopTypeOK
  <2>5. QED
    BY <1>3, <2>1, <2>2, <2>3, <2>4, LifecycleMove DEF RunStages
<1>4. ASSUME NEW t \in Threads, NEW at, pc[t] \in {"executing", "executed"},
             at \in {"executed", "failing"}, Goto(t, at, argRun[t], argCand[t]),
             UNCHANGED runStatus
      PROVE  LifecycleNeverRejected'
  <2>1. PICK n, c : n = argRun[t] /\ c = argCand[t]
    OBVIOUS
  <2>2. runStatus[n] = "running"
        /\ \A u \in Threads \ {t} : pc[u] \in RunStages => argRun[u] # n
    BY <1>4, <2>1 DEF LifecycleNeverRejected, RunStages
  <2>3. QED
    BY <1>4, <2>1, <2>2, LifecycleMove
<1>5. ASSUME NEW t \in Threads, NEW at, NEW n, NEW c, NEW expected, NEW next,
             pc[t] \in RunStages, Transition(argRun[t], expected, next), Goto(t, at, n, c),
             at \in RunStages => n = argRun[t] /\ at = "executing" /\ next = "running"
      PROVE  LifecycleNeverRejected'
  <2>1. PICK m \in Runs : m = argRun[t]
    BY <1>5 DEF HandlersConsistent
  <2>2. \A u \in Threads \ {t} : pc[u] \in RunStages => argRun[u] # m /\ argRun[u] \in Runs
    BY <1>5, <2>1 DEF LifecycleNeverRejected, HandlersConsistent
  <2>3. runStatus' = [runStatus EXCEPT ![m] = next]
    BY <1>5, <2>1 DEF Transition
  <2>4. runStatus'[m] = next /\ \A j \in Runs \ {m} : runStatus'[j] = runStatus[j]
    BY <2>3 DEF LoopTypeOK
  <2>5. QED
    BY <1>5, <2>1, <2>2, <2>4, LifecycleMove
<1>6. ASSUME NEW t \in Threads, Accept(t) PROVE LifecycleNeverRejected'
  <2>1. CASE UNCHANGED runVars
    BY <1>1, <1>6, <2>1
       DEF Accept, CreateRun, CheckProposal, CheckAdoption, ComputeComparison, runVars, RunStages,
           InsertRun, RunExists, LoopTypeOK
  <2>2. ASSUME NEW n \in Runs, NEW r \in Revisions, NEW cfg \in Configs, CreateRun(t, n, r, cfg)
        PROVE  LifecycleNeverRejected'
    BY <1>3, <2>2 DEF CreateRun
  <2>3. QED
    BY <1>6, <2>1, <2>2 DEF Accept, CheckProposal, CheckAdoption, ComputeComparison
<1>7. ASSUME NEW t \in Threads, Proceed(t) PROVE LifecycleNeverRejected'
  <2>1. CASE MarkRunning(t)
    <3>1. PICK n, c : n = argRun[t] /\ c = argCand[t]
      OBVIOUS
    <3>2. pc[t] \in RunStages /\ Transition(argRun[t], "pending", "running")
          /\ Goto(t, "executing", n, c)
      BY <2>1, <3>1 DEF MarkRunning, RunStages
    <3>3. QED
      BY <1>5, <3>1, <3>2
  <2>2. CASE ExecutionReturns(t)
    BY <1>4, <2>2 DEF ExecutionReturns, runVars
  <2>3. CASE CompleteSucceeded(t) \/ CompleteFailed(t)
    BY <1>5, <2>3 DEF CompleteSucceeded, CompleteFailed, Return, RunStages
  <2>4. ASSUME NEW n \in Runs, CreateCandidateRun(t, n) PROVE LifecycleNeverRejected'
    BY <1>3, <2>4 DEF CreateCandidateRun
  <2>5. ASSUME NEW c \in Candidates, NEW k \in Contents, InsertCandidate(t, c, k)
        PROVE  LifecycleNeverRejected'
    BY <1>1, <2>5 DEF InsertCandidate, RunStages, runVars
  <2>6. CASE Return(t) /\ UNCHANGED runVars
    BY <1>2, <2>6 DEF runVars
  <2>7. QED
    BY <1>7, <2>1, <2>2, <2>3, <2>4, <2>5, <2>6
       DEF Proceed, CommitAdoption, AnswerAdoption, InsertComparison
<1>8. ASSUME NEW t \in Threads, Fail(t) PROVE LifecycleNeverRejected'
  BY <1>2, <1>4, <1>8
     DEF Fail, EvidenceNotPersisted, StatementFails, ExecutionRaises, runVars
<1>9. ASSUME Crash PROVE LifecycleNeverRejected'
  BY <1>9 DEF Crash, LifecycleNeverRejected, RunStages
<1>10. ASSUME UNCHANGED <<runStatus, pc, argRun, argCand>> PROVE LifecycleNeverRejected'
  BY <1>10 DEF LifecycleNeverRejected
<1>11. QED
  BY <1>6, <1>7, <1>8, <1>9, <1>10 DEF LoopNext, StrategyRequest, runVars, loopVars

-----------------------------------------------------------------------------
(* The inductive invariant *)

LEMMA LoopInvInit == LoopInit => LoopInv
<1> SUFFICES ASSUME LoopInit PROVE LoopInv
  OBVIOUS
<1> USE DEF LoopInit
<1>1. StoreInv /\ StoreTypeOK
  BY StoreInvInit, StoreTypeInit
<1>2. LoopTypeOK
  BY <1>1 DEF LoopTypeOK, RunStates, Stages
<1>3. RunsConsistent /\ OneRunPerCandidate /\ CandidatesConsistent
  BY DEF RunsConsistent, OneRunPerCandidate, CandidatesConsistent, RunExists, CandidateExists
<1>4. HandlersConsistent /\ LifecycleNeverRejected /\ EvidenceExactlyForSucceeded
  BY DEF HandlersConsistent, LifecycleNeverRejected, EvidenceExactlyForSucceeded, RunStages
<1>5. AdoptionBacked /\ AdoptionsDistinct /\ ComparedIsComparable
  BY DEF StoreInit, AdoptionBacked, AdoptionsDistinct, ComparedIsComparable
<1>6. QED
  BY <1>1, <1>2, <1>3, <1>4, <1>5 DEF LoopInv

LEMMA LoopInvStep ==
  ASSUME LoopInv, [LoopNext]_loopVars
  PROVE  LoopInv'
<1>1. [StoreNext]_storeVars /\ RowsPermanent
  BY StoreStep, RowsPermanentStep DEF LoopInv
<1>2. StoreInv'
  BY <1>1, StoreInvStep DEF LoopInv
<1>3. LoopTypeOK'
  BY <1>2, TableTypeStep, HandlerTypeStep
     DEF LoopInv, LoopTypeOK, StoreInv, RunTypes, CandidateTypes, HandlerTypes
<1>4. QED
  BY <1>1, <1>2, <1>3, RunsConsistentStep, CandidatesConsistentStep, HandlersStep, LifecycleStep,
     EvidenceStep, AdoptionStep, ComparedStep
     DEF LoopInv

THEOREM LoopInvariant == LoopSpec => []LoopInv
BY LoopInvInit, LoopInvStep, PTL DEF LoopSpec
-----------------------------------------------------------------------------
(* Safety *)

(* The tables and the handlers' state have their types, whatever fails. *)
THEOREM LoopTypeCorrect == LoopSpec => []LoopTypeOK
<1>1. LoopInv => LoopTypeOK
  BY DEF LoopInv
<1>2. QED
  BY <1>1, LoopInvariant, PTL

(* Evidence is visible for exactly the succeeded Runs, whatever fails. *)
THEOREM EvidenceIsExact == LoopSpec => []EvidenceExactlyForSucceeded
<1>1. LoopInv => EvidenceExactlyForSucceeded
  BY DEF LoopInv
<1>2. QED
  BY <1>1, LoopInvariant, PTL

(* No lifecycle UPDATE of a handler ever finds its Run in another state. *)
THEOREM LifecycleHolds == LoopSpec => []LifecycleNeverRejected
<1>1. LoopInv => LifecycleNeverRejected
  BY DEF LoopInv
<1>2. QED
  BY <1>1, LoopInvariant, PTL

(* Every adoption is the tested source on the base it was tested on. *)
THEOREM AdoptionsAreBacked == LoopSpec => []AdoptionBacked
<1>1. LoopInv => AdoptionBacked
  BY DEF LoopInv
<1>2. QED
  BY <1>1, LoopInvariant, PTL

(* Two adopted Candidates of one base would be two children of one Revision, *)
(* which the linear history of the store excludes.                           *)
THEOREM SiblingsAreExclusive == LoopSpec => []SiblingCandidatesExclusive
<1>1. ASSUME LoopInv PROVE SiblingCandidatesExclusive
  <2>1. SUFFICES ASSUME NEW c \in Candidates, NEW d \in Candidates,
                        adoption[c] # None, adoption[d] # None, candBase[c] = candBase[d]
                 PROVE  c = d
    BY DEF SiblingCandidatesExclusive
  <2>2. /\ adoption[c] \in Revisions /\ Stored(adoption[c])
        /\ adoption[d] \in Revisions /\ Stored(adoption[d])
        /\ candBase[c] # None
        /\ parent[adoption[c]] = candBase[c] /\ parent[adoption[d]] = candBase[c]
    BY <1>1, <2>1
       DEF LoopInv, LoopTypeOK, StoreTypeOK, AdoptionBacked, AdoptionsDistinct, CandidateExists
  <2>3. owner[adoption[c]] = owner[adoption[d]]
    BY <1>1, <2>2 DEF LoopInv, StoreInv, LineageWithinStrategy
  <2>4. adoption[c] = adoption[d]
    BY <1>1, <2>2, <2>3 DEF LoopInv, StoreInv, LinearHistory
  <2>5. QED
    BY <1>1, <2>1, <2>4 DEF LoopInv, AdoptionsDistinct
<1>2. QED
  BY <1>1, LoopInvariant, PTL

(* An adoption whose base is still current finds other content there. *)
THEOREM AdoptionsAreNeverVacuous == LoopSpec => []AdoptionNeverVacuous
<1>1. ASSUME LoopInv PROVE AdoptionNeverVacuous
  <2> USE NoneAssumption
  <2>1. SUFFICES ASSUME NEW t \in Threads, pc[t] = "adopting"
                 PROVE  AppendStatus(owner[candBase[argCand[t]]], candBase[argCand[t]],
                                     candSource[argCand[t]])
                          \in {"created", "stale", "archived"}
    BY DEF AdoptionNeverVacuous
  <2> DEFINE c == argCand[t]
             b == candBase[c]
             s == owner[b]
  <2>2. c \in Candidates /\ CandidateExists(c)
    BY <1>1, <2>1 DEF LoopInv, HandlersConsistent
  <2>3. b \in Revisions /\ s # None /\ s \in Strategies
    BY <1>1, <2>2
       DEF LoopInv, LoopTypeOK, StoreTypeOK, CandidatesConsistent, CandidateExists, Stored
  <2>4. candSource[c] # content[b]
    BY <1>1, <2>2 DEF LoopInv, CandidatesConsistent
  <2>5. StrategyExists(s)
    BY <1>1, <2>3 DEF LoopInv, StoreInv, NoRevisionBeforeStrategy, RevisionsOf
  <2>6. QED
    BY <2>4, <2>5 DEF AppendStatus
<1>2. QED
  BY <1>1, LoopInvariant, PTL

(* A stored Comparison compares like with like. *)
THEOREM ComparisonsAreSound == LoopSpec => []ComparisonSound
<1>1. ASSUME LoopInv PROVE ComparisonSound
  <2>1. SUFFICES ASSUME NEW c \in Candidates, compared[c]
                 PROVE  /\ CandidateExists(c)
                        /\ \E n \in Runs :
                             /\ RunOf(c) = {n} /\ n # candOrigin[c]
                             /\ runCandidate[candOrigin[c]] = None
                             /\ runStatus[candOrigin[c]] = "succeeded"
                             /\ runStatus[n] = "succeeded"
                             /\ evidence[candOrigin[c]] /\ evidence[n]
                             /\ runConfig[n] = runConfig[candOrigin[c]]
                             /\ runSource[candOrigin[c]] = content[candBase[c]]
                             /\ runSource[n] # runSource[candOrigin[c]]
    BY DEF ComparisonSound
  <2>2. CandidateExists(c) /\ Comparable(c) /\ candSource[c] # content[candBase[c]] /\ c # None
    BY <1>1, <2>1, NoneAssumption DEF LoopInv, ComparedIsComparable, CandidatesConsistent
  <2>3. PICK n \in RunOf(c) :
          /\ runCandidate[candOrigin[c]] = None
          /\ runSource[candOrigin[c]] = content[candBase[c]] /\ runSource[n] = candSource[c]
          /\ runConfig[candOrigin[c]] = runConfig[n]
          /\ runStatus[candOrigin[c]] = "succeeded" /\ runStatus[n] = "succeeded"
          /\ evidence[candOrigin[c]] /\ evidence[n]
    BY <2>2 DEF Comparable
  <2>4. RunOf(c) = {n}
    BY <1>1, <2>2, <2>3 DEF LoopInv, OneRunPerCandidate, RunOf
  <2>5. QED
    BY <2>2, <2>3, <2>4 DEF RunOf
<1>2. QED
  BY <1>1, LoopInvariant, PTL

(* The handlers use the Strategy tables only through the store's            *)
(* transactions, so what is proved of the store holds in the loop.          *)
THEOREM LoopImplementsStore == LoopSpec => ImplementsStore
<1>1. LoopInit => StoreInit
  BY DEF LoopInit
<1>2. LoopInv /\ [LoopNext]_loopVars => [StoreNext]_storeVars
  BY StoreStep DEF LoopInv
<1>3. QED
  BY <1>1, <1>2, LoopInvariant, PTL DEF LoopSpec, StoreSpec, ImplementsStore
-----------------------------------------------------------------------------
(* Refinement of the Candidate lifecycle *)

phases == [c \in Candidates |-> Phase(c)]

(* The phase of a Candidate depends on its rows only. *)
LEMMA PhaseKept ==
  ASSUME NEW c \in Candidates,
         CandidateExists(c)' = CandidateExists(c),
         adoption'[c] = adoption[c],
         RunOf(c)' = RunOf(c),
         \A n \in RunOf(c) :
           \/ runStatus'[n] = runStatus[n]
           \/ runStatus[n] = "pending" /\ runStatus'[n] = "running"
  PROVE  Phase(c)' = Phase(c)
<1>1. Tested(c)' = Tested(c)
  BY DEF Tested
<1>2. (\E n \in RunOf(c) : runStatus[n] = "failed")' = (\E n \in RunOf(c) : runStatus[n] = "failed")
  OBVIOUS
<1>3. QED
  BY <1>1, <1>2 DEF Phase

(* A Candidate whose one Run has not succeeded is not adopted. *)
LEMMA UntestedNotKept ==
  ASSUME LoopInv, NEW c \in Candidates, \A n \in RunOf(c) : runStatus[n] # "succeeded"
  PROVE  adoption[c] = None
BY DEF LoopInv, AdoptionBacked

LEMMA LifecycleRefinementStep ==
  ASSUME LoopInv, [LoopNext]_loopVars
  PROVE  [Lifecycle!Next]_<<phases, candBase, compared>>
<1> USE DEF LoopInv
<1>1. RowsPermanent /\ LoopTypeOK'
  BY RowsPermanentStep, LoopInvStep
<1>2. ASSUME UNCHANGED <<candBase, compared>>, \A c \in Candidates : Phase(c)' = Phase(c)
      PROVE  UNCHANGED <<phases, candBase, compared>>
  BY <1>2 DEF phases
<1>3. ASSUME UNCHANGED <<candBase, compared, adoption, runCandidate, runStatus>>
      PROVE  UNCHANGED <<phases, candBase, compared>>
  BY <1>2, <1>3 DEF Phase, CandidateExists, RunOf, Tested
<1>4. ASSUME NEW c \in Candidates, NEW from, NEW to, UNCHANGED <<candBase, compared>>,
             Phase(c) = from, Phase(c)' = to,
             \A d \in Candidates \ {c} : Phase(d)' = Phase(d)
      PROVE  Lifecycle!Move(c, from, to)
  BY <1>4 DEF Lifecycle!Move, phases
<1>5. ASSUME NEW t \in Threads, NEW n \in Runs, NEW r \in Revisions, NEW cfg \in Configs,
             CreateRun(t, n, r, cfg)
      PROVE  UNCHANGED <<phases, candBase, compared>>
  <2>1. /\ UNCHANGED <<candBase, compared, adoption>>
        /\ ~RunExists(n)
        /\ runCandidate' = [runCandidate EXCEPT ![n] = None]
        /\ \A m \in Runs \ {n} : runStatus'[m] = runStatus[m]
    BY <1>5 DEF CreateRun, InsertRun, storeVars, candVars, LoopTypeOK
  <2>2. runCandidate[n] = None
    BY <2>1 DEF RunsConsistent
  <2>3. UNCHANGED runCandidate
    BY <2>1, <2>2 DEF LoopTypeOK
  <2>4. ASSUME NEW c \in Candidates PROVE Phase(c)' = Phase(c)
    <3>1. RunOf(c)' = RunOf(c) /\ n \notin RunOf(c)
      BY <2>2, <2>3, NoneAssumption DEF RunOf
    <3>2. \A m \in RunOf(c) : runStatus'[m] = runStatus[m]
      BY <2>1, <3>1 DEF RunOf
    <3>3. QED
      BY <2>1, <3>1, <3>2, PhaseKept DEF CandidateExists
  <2>5. QED
    BY <1>2, <2>1, <2>4
<1>6. ASSUME NEW t \in Threads, NEW n \in Runs, CreateCandidateRun(t, n)
      PROVE  Lifecycle!Next
  <2>1. PICK c \in Candidates : c = argCand[t] /\ CandidateExists(c)
    BY <1>6 DEF CreateCandidateRun, HandlersConsistent
  <2>2. /\ UNCHANGED <<candBase, compared, adoption>>
        /\ ~RunExists(n)
        /\ RunOf(c) = {}
        /\ runCandidate' = [runCandidate EXCEPT ![n] = c]
        /\ runStatus' = [runStatus EXCEPT ![n] = "pending"]
    BY <1>6, <2>1, NoneAssumption DEF CreateCandidateRun, InsertRun, storeVars, candVars
  <2>3. adoption[c] = None
    BY <2>2, UntestedNotKept
  <2>4. runCandidate[n] = None
    BY <2>2 DEF RunsConsistent
  <2>5. Phase(c) = "proposed"
    BY <2>1, <2>2, <2>3 DEF Phase
  <2>6. RunOf(c)' = {n} /\ runStatus'[n] = "pending"
    BY <2>2 DEF RunOf, LoopTypeOK
  <2>7. Phase(c)' = "testing"
    BY <2>1, <2>2, <2>3, <2>6 DEF Phase, Tested, CandidateExists
  <2>8. ASSUME NEW d \in Candidates \ {c} PROVE Phase(d)' = Phase(d)
    <3>1. RunOf(d)' = RunOf(d) /\ n \notin RunOf(d)
      BY <2>2, <2>4, NoneAssumption DEF RunOf, LoopTypeOK
    <3>2. \A m \in RunOf(d) : runStatus'[m] = runStatus[m]
      BY <2>2, <3>1 DEF RunOf, LoopTypeOK
    <3>3. QED
      BY <2>2, <3>1, <3>2, PhaseKept DEF CandidateExists
  <2>9. Lifecycle!StartTest(c)
    BY <1>4, <2>2, <2>5, <2>7, <2>8 DEF Lifecycle!StartTest
  <2>10. QED
    BY <2>9 DEF Lifecycle!Next
<1>7. ASSUME NEW t \in Threads, NEW n \in Runs, n = argRun[t], runStatus[n] = "running",
             NEW next \in {"succeeded", "failed"},
             Transition(n, "running", next), UNCHANGED <<storeVars, candVars, compared>>
      PROVE  Lifecycle!Next \/ UNCHANGED <<phases, candBase, compared>>
  <2>1. /\ UNCHANGED <<candBase, compared, adoption, runCandidate>>
        /\ runStatus'[n] = next
        /\ \A m \in Runs \ {n} : runStatus'[m] = runStatus[m]
    BY <1>7 DEF Transition, storeVars, candVars, LoopTypeOK
  <2>2. ASSUME NEW d \in Candidates, runCandidate[n] # d PROVE Phase(d)' = Phase(d)
    <3>1. RunOf(d)' = RunOf(d) /\ \A m \in RunOf(d) : runStatus'[m] = runStatus[m]
      BY <2>1, <2>2 DEF RunOf
    <3>2. QED
      BY <2>1, <3>1, PhaseKept DEF CandidateExists
  <2>3. CASE runCandidate[n] = None
    BY <1>2, <2>1, <2>2, <2>3, NoneAssumption
  <2>4. CASE runCandidate[n] # None
    <3>1. PICK c \in Candidates : runCandidate[n] = c
      BY <2>4 DEF LoopTypeOK
    <3>2. CandidateExists(c) /\ RunExists(n) /\ c # None
      BY <1>7, <3>1, NoneAssumption DEF RunsConsistent, RunExists
    <3>3. RunOf(c) = {n} /\ RunOf(c)' = {n}
      BY <2>1, <3>1, <3>2 DEF RunOf, OneRunPerCandidate
    <3>4. adoption[c] = None
      BY <1>7, <3>3, UntestedNotKept
    <3>5. Phase(c) = "testing"
      BY <1>7, <3>2, <3>3, <3>4 DEF Phase, Tested
    <3>6. Phase(c)' = IF next = "succeeded" THEN "tested" ELSE "refuted"
      BY <1>7, <2>1, <3>2, <3>3, <3>4 DEF Phase, Tested, CandidateExists
    <3>7. \A d \in Candidates \ {c} : Phase(d)' = Phase(d)
      BY <2>2, <3>1
    <3>8. Lifecycle!FinishTest(c)
      BY <1>4, <1>7, <2>1, <3>5, <3>6, <3>7 DEF Lifecycle!FinishTest
    <3>9. QED
      BY <3>8 DEF Lifecycle!Next
  <2>5. QED
    BY <2>3, <2>4
<1>8. ASSUME NEW t \in Threads, CompleteSucceeded(t) \/ CompleteFailed(t)
      PROVE  Lifecycle!Next \/ UNCHANGED <<phases, candBase, compared>>
  <2>1. PICK n \in Runs : n = argRun[t]
    BY <1>8 DEF CompleteSucceeded, CompleteFailed, HandlersConsistent, RunStages
  <2>2. QED
    BY <1>7, <1>8, <2>1 DEF CompleteSucceeded, CompleteFailed, Transition
<1>9. ASSUME NEW t \in Threads, MarkRunning(t)
      PROVE  UNCHANGED <<phases, candBase, compared>>
  <2>1. PICK n \in Runs : n = argRun[t]
    BY <1>9 DEF MarkRunning, HandlersConsistent, RunStages
  <2>2. /\ UNCHANGED <<candBase, compared, adoption, runCandidate>>
        /\ runStatus[n] = "pending" /\ runStatus'[n] = "running"
        /\ \A m \in Runs \ {n} : runStatus'[m] = runStatus[m]
    BY <1>9, <2>1 DEF MarkRunning, Transition, storeVars, candVars, LoopTypeOK
  <2>3. ASSUME NEW c \in Candidates PROVE Phase(c)' = Phase(c)
    BY <2>2, PhaseKept DEF CandidateExists, RunOf
  <2>4. QED
    BY <1>2, <2>2, <2>3
<1>10. ASSUME NEW t \in Threads, NEW c \in Candidates, NEW k \in Contents,
              InsertCandidate(t, c, k)
       PROVE  Lifecycle!Next
  <2>1. /\ argRun[t] \in Runs
        /\ runRevision[argRun[t]] \in Revisions
    BY <1>10 DEF InsertCandidate, HandlersConsistent, RunsConsistent
  <2>2. /\ UNCHANGED <<compared, adoption, runCandidate, runStatus>>
        /\ candBase' = [candBase EXCEPT ![c] = runRevision[argRun[t]]]
        /\ ~CandidateExists(c)
    BY <1>10 DEF InsertCandidate, storeVars, runVars
  <2>3. adoption[c] = None /\ RunOf(c) = {}
    BY <2>2, NoneAssumption DEF AdoptionBacked, RunsConsistent, RunOf
  <2>4. Phase(c) = "absent"
    BY <2>2 DEF Phase
  <2>5. candBase'[c] # None /\ RunOf(c)' = {}
    BY <2>1, <2>2, <2>3, NoneAssumption DEF LoopTypeOK, RunOf
  <2>6. Phase(c)' = "proposed"
    BY <2>2, <2>3, <2>5 DEF Phase, CandidateExists
  <2>7. ASSUME NEW d \in Candidates \ {c} PROVE Phase(d)' = Phase(d)
    BY <2>2, PhaseKept DEF CandidateExists, RunOf, LoopTypeOK
  <2>8. Lifecycle!Propose(c, runRevision[argRun[t]])
    BY <2>2, <2>4, <2>6, <2>7 DEF Lifecycle!Propose, phases
  <2>9. QED
    BY <2>1, <2>8 DEF Lifecycle!Next
<1>11. ASSUME NEW t \in Threads, NEW r \in Revisions, CommitAdoption(t, r)
       PROVE  Lifecycle!Next
  <2>1. PICK c \in Candidates : c = argCand[t] /\ CandidateExists(c) /\ Tested(c)
    BY <1>11 DEF CommitAdoption, HandlersConsistent
  <2>2. /\ UNCHANGED <<candBase, compared, runCandidate, runStatus>>
        /\ adoption[c] = None
        /\ adoption' = [adoption EXCEPT ![c] = r]
        /\ current[owner[candBase[c]]] = candBase[c]
        /\ StrategyExists(owner[candBase[c]])
    BY <1>11, <2>1
       DEF CommitAdoption, AdoptCandidate, AppendRevision, AppendStatus, runVars, candVars
  <2>3. Phase(c) = "tested"
    BY <2>1, <2>2 DEF Phase, Tested
  <2>4. adoption'[c] = r /\ r # None
    BY <2>2, NoneAssumption DEF LoopTypeOK, StoreTypeOK
  <2>5. Phase(c)' = "kept"
    BY <2>1, <2>2, <2>4 DEF Phase, CandidateExists
  <2>6. ASSUME NEW d \in Candidates \ {c} PROVE Phase(d)' = Phase(d)
    BY <2>2, PhaseKept DEF CandidateExists, RunOf, LoopTypeOK, StoreTypeOK
  <2>7. ASSUME NEW d \in Candidates, candBase[d] = candBase[c] PROVE Phase(d) # "kept"
    <3>1. candBase[c] \in Revisions /\ Stored(candBase[c]) /\ owner[candBase[c]] \in Strategies
      BY <2>1 DEF CandidatesConsistent, CandidateExists, LoopTypeOK, StoreTypeOK, Stored
    <3>2. \A q \in Revisions : Stored(q) => parent[q] # candBase[c]
      BY <2>2, <3>1 DEF StoreInv, CurrentIsTip
    <3>3. adoption[d] = None
      BY <2>7, <3>2 DEF AdoptionBacked, AdoptionsDistinct, LoopTypeOK, StoreTypeOK
    <3>4. QED
      BY <3>3 DEF Phase
  <2>8. Lifecycle!Keep(c)
    <3>1. Lifecycle!Move(c, "tested", "kept")
      BY <1>4, <2>2, <2>3, <2>5, <2>6
    <3>2. \A d \in Candidates : candBase[d] = candBase[c] => phases[d] # "kept"
      BY <2>7 DEF phases
    <3>3. QED
      BY <3>1, <3>2 DEF Lifecycle!Keep, phases
  <2>9. QED
    BY <2>8 DEF Lifecycle!Next
<1>12. ASSUME NEW t \in Threads, InsertComparison(t)
       PROVE  Lifecycle!Next
  <2>1. PICK c \in Candidates : c = argCand[t] /\ CandidateExists(c) /\ Comparable(c)
    BY <1>12 DEF InsertComparison, HandlersConsistent
  <2>2. Phase(c) \in {"tested", "kept"}
    BY <2>1 DEF Phase, Comparable, Tested
  <2>3. /\ UNCHANGED <<candBase, adoption, runCandidate, runStatus>>
        /\ compared' = [compared EXCEPT ![c] = TRUE]
    BY <1>12, <2>1 DEF InsertComparison, storeVars, runVars, candVars
  <2>4. UNCHANGED phases
    BY <2>3 DEF phases, Phase, CandidateExists, RunOf, Tested
  <2>5. Lifecycle!Compare(c)
    BY <2>2, <2>3, <2>4 DEF Lifecycle!Compare, phases
  <2>6. QED
    BY <2>5 DEF Lifecycle!Next
<1>13. ASSUME StrategyRequest PROVE UNCHANGED <<phases, candBase, compared>>
  BY <1>3, <1>13
     DEF StrategyRequest, CreateStrategy, SaveRevision, RenameStrategy, ArchiveStrategy, runVars,
         candVars
<1>14. ASSUME UNCHANGED tables PROVE UNCHANGED <<phases, candBase, compared>>
  BY <1>3, <1>14 DEF tables, storeVars, runVars, candVars
<1>15. QED
  BY <1>5, <1>6, <1>8, <1>9, <1>10, <1>11, <1>12, <1>13, <1>14, NextCases

(* No crash, failed statement or interleaving makes a Candidate skip a phase, *)
(* be tested twice, or be kept beside a kept sibling.                         *)
THEOREM LoopImplementsLifecycle == LoopSpec => ImplementsLifecycle
<1>1. LoopInit => Lifecycle!Init
  BY DEF LoopInit, Lifecycle!Init, Phase, CandidateExists
<1>2. LoopInv /\ [LoopNext]_loopVars => [Lifecycle!Next]_Lifecycle!lifecycleVars
  BY LifecycleRefinementStep DEF Lifecycle!lifecycleVars, phases
<1>3. QED
  BY <1>1, <1>2, LoopInvariant, PTL DEF LoopSpec, ImplementsLifecycle, Lifecycle!Spec

-----------------------------------------------------------------------------
(* The editing session *)

(* The Strategy exists, its current Revision is one of its own, and its      *)
(* Revisions hold sources.                                                  *)
OpenedExists ==
  /\ current[Opened] \in Revisions /\ owner[current[Opened]] = Opened
  /\ \A r \in Revisions : owner[r] = Opened => content[r] \in Contents

(* What a call carries: the Revision it names belongs to the Strategy; a    *)
(* Revision it committed holds what it sent; a test sends what it captured. *)
CallSoundIn(owners, contents, call) ==
  /\ owners[call.revision] = Opened
  /\ call.phase \in {"authoring", "saving", "saved"} => call.to \in Contents
  /\ call.phase = "saved" => contents[call.revision] = call.to
  /\ call.phase \in {"checking", "running"} => call.kind = "test"
  /\ call.kind = "test" => call.to = call.from
  /\ call.phase = "checking" /\ ~call.dirty => contents[call.revision] = call.from
  /\ call.phase = "running" => contents[call.revision] = call.from

CallSound(call) == CallSoundIn(owner, content, call)

CallsSound == \A c \in Slots : calls[c] # None => CallSound(calls[c])

ConflictSaved == conflict # None => owner[conflict.revision] = Opened

(* Some call that has not been superseded will reset the status. *)
Pending(c) ==
  /\ calls[c] # None
  /\ calls[c].kind # "refresh"
  /\ Superseded(c) => calls[c].phase \in {"loading", "loaded"}

UpdatingIsPending == status = "updating" => \E c \in Slots : Pending(c)

EditorInv ==
  /\ EditorTypeOK
  /\ OpenedExists
  /\ BaseIsSaved
  /\ CleanMeansSaved
  /\ CallsSound
  /\ ConflictSaved
  /\ UpdatingIsPending

-----------------------------------------------------------------------------
(* Types *)

LEMMA RestorationsAreSources ==
  ASSUME NEW target \in Contents, working \in Contents
  PROVE  Restorations(target) \subseteq Contents
BY SourcesAssumption DEF Restorations, Sources

LEMMA MergeIsSource ==
  ASSUME NEW ancestor \in Contents, NEW local \in Contents, NEW remote \in Contents
  PROVE  Merge(ancestor, local, remote) \in Contents \cup {None}
BY SourcesAssumption DEF Merge, MergeValue, Sources

LEMMA EmptyStackType == <<>> \in Seq(Contents)
OBVIOUS

LEMMA StackTypes ==
  ASSUME NEW stack \in Seq(Contents)
  PROVE  /\ stack # <<>> => Last(stack) \in Contents
         /\ Front(stack) \in Seq(Contents)
         /\ \A k \in Contents : Append(stack, k) \in Seq(Contents)
<1>1. stack # <<>> => Last(stack) \in Contents
  BY DEF Last
<1>2. Front(stack) \in Seq(Contents)
  <2>1. Len(stack) \in Nat
    BY LenProperties
  <2>2. \A i \in 1..(Len(stack) - 1) : stack[i] \in Contents
    BY <2>1
  <2>3. QED
    BY <2>1, <2>2, SubSeqProperties DEF Front
<1>3. QED
  BY <1>1, <1>2

LEMMA NewCallType ==
  ASSUME EditorTypeOK, NEW kind \in Kinds, NEW phase \in Phases, NEW to \in Contents \cup {None}
  PROVE  NewCall(kind, phase, to) \in Call
BY DEF NewCall, Call, EditorTypeOK

(* The store's part of a session's steps: a saved Revision, or nothing. *)
SessionStoreStep ==
  \/ UNCHANGED storeVars
  \/ \E expected, r \in Revisions, k \in Contents : SaveRevision(Opened, expected, r, k)

(* Rows of the Strategy's Revisions stay as they are. *)
RowsKept ==
  \A r \in Revisions : owner[r] = Opened => owner'[r] = Opened /\ content'[r] = content[r]

LEMMA StoreStepKeeps ==
  ASSUME StoreTypeOK, OpenedExists, SessionStoreStep
  PROVE  StoreTypeOK' /\ OpenedExists' /\ RowsKept
<1>1. CASE UNCHANGED storeVars
  <2>1. StoreTypeOK'
    BY <1>1, StoreTypeStep
  <2>2. QED
    BY <1>1, <2>1 DEF storeVars, OpenedExists, RowsKept
<1>2. ASSUME NEW expected \in Revisions, NEW r \in Revisions, NEW k \in Contents,
             SaveRevision(Opened, expected, r, k)
      PROVE  StoreTypeOK' /\ OpenedExists' /\ RowsKept
  <2>1. StoreTypeOK'
    BY <1>2, StoreTypeStep, OpenedAssumption DEF StoreNext
  <2>2. /\ owner[r] = None
        /\ owner' = [owner EXCEPT ![r] = Opened]
        /\ content' = [content EXCEPT ![r] = k]
        /\ current' = [current EXCEPT ![Opened] = r]
    BY <1>2 DEF SaveRevision, AppendRevision, InsertRevision, Stored
  <2>3. OpenedExists'
    BY <2>2, OpenedAssumption DEF StoreTypeOK, OpenedExists
  <2>4. RowsKept
    BY <2>2, OpenedAssumption, NoneAssumption DEF StoreTypeOK, RowsKept
  <2>5. QED
    BY <2>1, <2>3, <2>4
<1>3. QED
  BY <1>1, <1>2 DEF SessionStoreStep

(* A session's own save commits what its call carries. *)
LEMMA CommitIsStoreStep ==
  ASSUME EditorTypeOK, CallsSound, NEW c \in Slots, NEW r \in Revisions, CommitSave(c, r)
  PROVE  SessionStoreStep
<1>1. calls[c] \in Call /\ calls[c] # None /\ calls[c].phase = "saving"
  BY DEF CommitSave, InFlight, EditorTypeOK
<1>2. calls[c].revision \in Revisions /\ calls[c].to \in Contents
  BY <1>1 DEF Call, CallsSound, CallSound, CallSoundIn
<1>3. SaveRevision(Opened, calls[c].revision, r, calls[c].to)
  BY DEF CommitSave
<1>4. QED
  BY <1>2, <1>3 DEF SessionStoreStep

LEMMA EveryStepIsStoreStep ==
  ASSUME EditorTypeOK, OpenedExists, CallsSound, [EditorNext]_editorVars
  PROVE  SessionStoreStep
<1>1. CASE UserGesture
  BY <1>1 DEF UserGesture, Edit, Undo, Redo, Prepare, Author, Save, Test, SetDraft,
     RefreshConflict, ReapplyConflict, DiscardConflict, SessionStoreStep, storeVars
<1>2. ASSUME NEW c \in Slots, NEW r \in Revisions, CommitSave(c, r)
      PROVE  SessionStoreStep
  BY <1>2, CommitIsStoreStep
<1>3. ASSUME NEW c \in Slots, Answer(c), ~(\E r \in Revisions : CommitSave(c, r))
      PROVE  SessionStoreStep
  BY <1>3 DEF Answer, EditAnswered, PreparedSaves, CheckPassed, SaveIdentical, SaveAnswered,
     StaleAnswered, ReadCurrent, ConflictFound, TestEnds, AnswerDropped, CallFails,
     SessionStoreStep, storeVars
<1>4. CASE OtherClientSaves
  BY <1>4 DEF OtherClientSaves, SessionStoreStep, OpenedExists
<1>5. CASE UNCHANGED editorVars
  BY <1>5 DEF editorVars, SessionStoreStep
<1>6. QED
  BY <1>1, <1>2, <1>3, <1>4, <1>5 DEF EditorNext

-----------------------------------------------------------------------------
(* Types of a session's steps *)

LEMMA CallsTypes ==
  ASSUME calls \in [Slots -> Call \cup {None}], NEW c \in Slots
  PROVE  /\ End(c) => calls' \in [Slots -> Call \cup {None}]
         /\ \A call \in Call : Begin(c, call) => calls' \in [Slots -> Call \cup {None}]
         /\ \A call \in Call : BeginSequenced(c, call) => calls' \in [Slots -> Call \cup {None}]
         /\ \A phase \in Phases, r \in Revisions :
              calls[c] # None /\ Continue(c, phase, r) => calls' \in [Slots -> Call \cup {None}]
<1>1. End(c) => calls' \in [Slots -> Call \cup {None}]
  BY DEF End
<1>2. \A call \in Call : Begin(c, call) => calls' \in [Slots -> Call \cup {None}]
  BY DEF Begin
<1>3. ASSUME NEW call \in Call, BeginSequenced(c, call)
      PROVE  calls' \in [Slots -> Call \cup {None}]
  <2>1. \A d \in Slots : calls[d] # None => [calls[d] EXCEPT !.newest = FALSE] \in Call
    BY DEF Call
  <2>2. QED
    BY <1>3, <2>1 DEF BeginSequenced
<1>4. ASSUME NEW phase \in Phases, NEW r \in Revisions, calls[c] # None, Continue(c, phase, r)
      PROVE  calls' \in [Slots -> Call \cup {None}]
  <2>1. calls' = [calls EXCEPT ![c] = [calls[c] EXCEPT !.phase = phase, !.revision = r]]
    BY <1>4 DEF Continue
  <2>2. [calls[c] EXCEPT !.phase = phase, !.revision = r] \in Call
    BY <1>4 DEF Call
  <2>3. QED
    BY <2>1, <2>2
<1>5. QED
  BY <1>1, <1>2, <1>3, <1>4

LEMMA GestureTypes ==
  ASSUME EditorTypeOK, OpenedExists, ConflictSaved, UserGesture
  PROVE  EditorTypeOK'
<1> USE DEF EditorTypeOK
<1>1. gestures' \in 0..MaxGestures
  BY MaxGesturesAssumption DEF UserGesture, Gesture, Edit, Undo, Redo, Prepare, Author, Save,
     Test, SetDraft, RefreshConflict, ReapplyConflict, DiscardConflict
<1>2. ASSUME UNCHANGED storeVars PROVE StoreTypeOK'
  BY <1>2, StoreTypeStep
<1>3. ASSUME NEW c \in Slots, NEW kind \in Kinds, NEW to \in Contents, Author(c, kind, to)
      PROVE  EditorTypeOK'
  <2>1. calls' \in [Slots -> Call \cup {None}]
    BY <1>3, NewCallType, CallsTypes DEF Author, Phases
  <2>2. QED
    BY <1>1, <1>2, <1>3, <2>1 DEF Author, shown
<1>4. ASSUME NEW c \in Slots, Edit(c) \/ Undo(c) \/ Redo(c) \/ Prepare(c)
      PROVE  EditorTypeOK'
  <2>1. {"edit", "undo", "redo", "prepare"} \subseteq Kinds
    BY DEF Kinds, Sequenced
  <2>2. Edits \subseteq Contents
    BY DEF Edits
  <2>3. CASE Edit(c)
    BY <1>3, <2>1, <2>2, <2>3 DEF Edit
  <2>4. CASE Prepare(c)
    BY <1>3, <2>1, <2>2, <2>4 DEF Prepare
  <2>5. CASE Undo(c)
    BY <1>3, <2>1, <2>5, StackTypes, RestorationsAreSources DEF Undo
  <2>6. CASE Redo(c)
    BY <1>3, <2>1, <2>6, StackTypes, RestorationsAreSources DEF Redo
  <2>7. QED
    BY <1>4, <2>3, <2>4, <2>5, <2>6
<1>5. ASSUME NEW c \in Slots, Save(c) \/ Test(c) \/ RefreshConflict(c)
      PROVE  EditorTypeOK'
  <2>1. calls' \in [Slots -> Call \cup {None}]
    BY <1>5, NewCallType, CallsTypes DEF Save, Test, RefreshConflict, Kinds, Phases
  <2>2. QED
    BY <1>1, <1>2, <1>5, <2>1 DEF Save, Test, RefreshConflict, shown
<1>6. ASSUME NEW unfinished \in BOOLEAN, SetDraft(unfinished)
      PROVE  EditorTypeOK'
  BY <1>1, <1>2, <1>6 DEF SetDraft, shown
<1>7. ASSUME ReapplyConflict \/ DiscardConflict
      PROVE  EditorTypeOK'
  <2>1. conflict # None /\ conflict \in [revision : Revisions, merged : Contents \cup {None}]
    BY <1>7 DEF ReapplyConflict, DiscardConflict
  <2>2. content[conflict.revision] \in Contents
    BY <2>1 DEF ConflictSaved, OpenedExists
  <2>3. working' \in Contents /\ base' \in Contents /\ hashOf' \in Contents
        /\ baseRevision' \in Revisions
    BY <1>7, <2>1, <2>2 DEF ReapplyConflict, DiscardConflict
  <2>4. undoStack' \in Seq(Contents) /\ redoStack' \in Seq(Contents)
    BY <1>7, EmptyStackType DEF ReapplyConflict, DiscardConflict
  <2>5. QED
    BY <1>1, <1>2, <1>7, <2>3, <2>4 DEF ReapplyConflict, DiscardConflict
<1>8. QED
  BY <1>4, <1>5, <1>6, <1>7 DEF UserGesture

LEMMA AnswerTypes ==
  ASSUME EditorTypeOK, OpenedExists, CallsSound, NEW c \in Slots, Answer(c)
  PROVE  EditorTypeOK'
<1> USE DEF EditorTypeOK
<1>1. gestures' = gestures /\ StoreTypeOK'
  <2>1. SessionStoreStep
    BY EveryStepIsStoreStep DEF EditorNext
  <2>2. StoreTypeOK'
    BY <2>1, StoreStepKeeps
  <2>3. gestures' = gestures
    BY DEF Answer, EditAnswered, PreparedSaves, CheckPassed, CommitSave, SaveIdentical,
       SaveAnswered, StaleAnswered, ReadCurrent, ConflictFound, TestEnds, AnswerDropped,
       CallFails
  <2>4. QED
    BY <2>2, <2>3
<1>2. calls[c] \in Call /\ calls[c] # None /\ CallSound(calls[c])
  BY DEF Answer, AuthoringAccepted, InFlight, EditAnswered, PreparedSaves, CheckPassed,
     CommitSave, SaveIdentical, SaveAnswered, StaleAnswered, ReadCurrent, ConflictFound,
     TestEnds, AnswerDropped, CallFails, CallsSound
<1>3. calls[c].revision \in Revisions /\ content[calls[c].revision] \in Contents
  BY <1>2 DEF Call, CallSound, CallSoundIn, OpenedExists
<1>4. CASE EditAnswered(c)
  <2>1. calls[c].to \in Contents /\ calls[c].from \in Contents
    BY <1>2, <1>4 DEF EditAnswered, AuthoringAccepted, InFlight, CallSound, CallSoundIn, Call
  <2>2. undoStack' \in Seq(Contents) /\ redoStack' \in Seq(Contents)
    <3> DEFINE from == calls[c].from
    <3>1. /\ Append(undoStack, from) \in Seq(Contents)
          /\ Append(redoStack, from) \in Seq(Contents)
          /\ Front(undoStack) \in Seq(Contents)
          /\ Front(redoStack) \in Seq(Contents)
      BY <2>1, StackTypes
    <3> HIDE DEF from
    <3>2. QED
      BY <1>4, <3>1, EmptyStackType DEF EditAnswered, from
  <2>3. QED
    BY <1>1, <1>4, <2>1, <2>2, CallsTypes DEF EditAnswered
<1>5. CASE SaveAnswered(c)
  <2>1. undoStack' \in Seq(Contents) /\ redoStack' \in Seq(Contents)
    <3>1. Append(undoStack, calls[c].from) \in Seq(Contents)
      BY <1>2, StackTypes DEF Call
    <3>2. QED
      BY <1>5, <3>1, EmptyStackType DEF SaveAnswered
  <2>2. calls' \in [Slots -> Call \cup {None}]
    BY <1>2, <1>3, <1>5, CallsTypes DEF SaveAnswered, Phases
  <2>3. QED
    BY <1>1, <1>3, <1>5, <2>1, <2>2 DEF SaveAnswered
<1>6. CASE ConflictFound(c)
  <2>1. conflict' \in [revision : Revisions, merged : Contents \cup {None}]
    BY <1>2, <1>3, <1>6, MergeIsSource DEF ConflictFound, Call
  <2>2. QED
    BY <1>1, <1>6, <2>1, CallsTypes DEF ConflictFound, shown
<1>7. CASE PreparedSaves(c) \/ CheckPassed(c) \/ StaleAnswered(c)
  <2>1. calls' \in [Slots -> Call \cup {None}]
    BY <1>2, <1>3, <1>7, CallsTypes DEF PreparedSaves, CheckPassed, StaleAnswered, Phases
  <2>2. QED
    BY <1>1, <1>7, <2>1 DEF PreparedSaves, CheckPassed, StaleAnswered, shown
<1>8. CASE ReadCurrent(c)
  <2>1. calls' \in [Slots -> Call \cup {None}]
    BY <1>2, <1>8, CallsTypes DEF ReadCurrent, Phases, OpenedExists
  <2>2. QED
    BY <1>1, <1>8, <2>1 DEF ReadCurrent, shown
<1>9. ASSUME NEW r \in Revisions, CommitSave(c, r)
      PROVE  EditorTypeOK'
  <2>1. calls' \in [Slots -> Call \cup {None}]
    BY <1>2, <1>9, CallsTypes DEF CommitSave, Phases
  <2>2. QED
    BY <1>1, <1>9, <2>1 DEF CommitSave, shown
<1>10. CASE SaveIdentical(c)
  <2>1. calls' \in [Slots -> Call \cup {None}]
    BY <1>2, <1>10, CallsTypes DEF SaveIdentical, Phases, OpenedExists
  <2>2. QED
    BY <1>1, <1>10, <2>1 DEF SaveIdentical, shown
<1>11. CASE TestEnds(c) \/ AnswerDropped(c) \/ CallFails(c)
  BY <1>1, <1>11, CallsTypes DEF TestEnds, AnswerDropped, CallFails, shown
<1>12. QED
  BY <1>4, <1>5, <1>6, <1>7, <1>8, <1>9, <1>10, <1>11 DEF Answer

LEMMA EditorTypeStep ==
  ASSUME EditorInv, [EditorNext]_editorVars
  PROVE  EditorTypeOK'
<1>1. StoreTypeOK'
  BY EveryStepIsStoreStep, StoreStepKeeps DEF EditorInv, EditorTypeOK
<1>2. CASE OtherClientSaves
  BY <1>1, <1>2 DEF OtherClientSaves, shown, EditorInv, EditorTypeOK
<1>3. CASE UNCHANGED editorVars
  BY <1>1, <1>3 DEF editorVars, shown, EditorInv, EditorTypeOK
<1>4. QED
  BY <1>2, <1>3, GestureTypes, AnswerTypes DEF EditorInv, EditorNext

-----------------------------------------------------------------------------
(* The base and the work *)

LEMMA BaseStep ==
  ASSUME EditorInv, [EditorNext]_editorVars
  PROVE  BaseIsSaved' /\ CleanMeansSaved'
<1> USE DEF EditorInv
<1>1. RowsKept
  BY EveryStepIsStoreStep, StoreStepKeeps DEF EditorTypeOK
<1>2. baseRevision \in Revisions /\ owner[baseRevision] = Opened /\ content[baseRevision] = base
  BY DEF EditorTypeOK, BaseIsSaved
<1>3. ASSUME UNCHANGED <<base, baseRevision>>
      PROVE  BaseIsSaved'
  BY <1>1, <1>2, <1>3 DEF RowsKept, BaseIsSaved
<1>4. ASSUME UNCHANGED shown
      PROVE  BaseIsSaved' /\ CleanMeansSaved'
  BY <1>3, <1>4 DEF shown, CleanMeansSaved
<1>5. CASE ReapplyConflict \/ DiscardConflict
  <2>1. conflict # None /\ owner[conflict.revision] = Opened
    BY <1>5 DEF ReapplyConflict, DiscardConflict, ConflictSaved
  <2>2. UNCHANGED storeVars
    BY <1>5 DEF ReapplyConflict, DiscardConflict
  <2>3. QED
    BY <1>5, <2>1, <2>2 DEF ReapplyConflict, DiscardConflict, BaseIsSaved, CleanMeansSaved, storeVars
<1>6. ASSUME NEW c \in Slots, EditAnswered(c)
      PROVE  BaseIsSaved' /\ CleanMeansSaved'
  BY <1>3, <1>6 DEF EditAnswered, CleanMeansSaved
<1>7. ASSUME NEW c \in Slots, SaveAnswered(c)
      PROVE  BaseIsSaved' /\ CleanMeansSaved'
  <2>1. owner[calls[c].revision] = Opened
    BY <1>7 DEF SaveAnswered, InFlight, CallsSound, CallSound, CallSoundIn
  <2>2. QED
    BY <1>7, <2>1 DEF SaveAnswered, BaseIsSaved, CleanMeansSaved, storeVars
<1>8. CASE UserGesture
  BY <1>4, <1>5, <1>8 DEF UserGesture, Edit, Undo, Redo, Prepare, Author, Save, Test, SetDraft,
     RefreshConflict
<1>9. ASSUME NEW c \in Slots, Answer(c)
      PROVE  BaseIsSaved' /\ CleanMeansSaved'
  BY <1>4, <1>6, <1>7, <1>9 DEF Answer, PreparedSaves, CheckPassed, CommitSave, SaveIdentical,
     StaleAnswered, ReadCurrent, ConflictFound, TestEnds, AnswerDropped, CallFails
<1>10. CASE OtherClientSaves
  BY <1>4, <1>10 DEF OtherClientSaves
<1>11. CASE UNCHANGED editorVars
  BY <1>4, <1>11 DEF editorVars
<1>12. QED
  BY <1>8, <1>9, <1>10, <1>11 DEF EditorNext

-----------------------------------------------------------------------------
(* What the calls in flight carry *)

LEMMA CallStaysSound ==
  ASSUME RowsKept
  PROVE  \A call \in Call :
           CallSoundIn(owner, content, call) => CallSoundIn(owner', content', call)
BY DEF RowsKept, CallSoundIn, Call

LEMMA SupersededStaysSound ==
  ASSUME NEW call \in Call, NEW owners, NEW contents, CallSoundIn(owners, contents, call)
  PROVE  CallSoundIn(owners, contents, [call EXCEPT !.newest = FALSE])
BY DEF CallSoundIn, Call

(* A step that puts one call in its slot, sound, or empties it, and at most  *)
(* supersedes the others, leaves all of them sound.                          *)
LEMMA CallsStaySound ==
  ASSUME calls \in [Slots -> Call \cup {None}], CallsSound, RowsKept, NEW c \in Slots,
         calls'[c] # None => CallSoundIn(owner', content', calls'[c]),
         \A d \in Slots \ {c} :
           \/ calls'[d] = calls[d]
           \/ calls[d] # None /\ calls'[d] = [calls[d] EXCEPT !.newest = FALSE]
  PROVE  CallsSound'
<1>1. ASSUME NEW d \in Slots \ {c}, calls'[d] # None
      PROVE  CallSoundIn(owner', content', calls'[d])
  <2>1. CASE calls'[d] = calls[d]
    BY <1>1, <2>1, CallStaysSound DEF CallsSound, CallSound
  <2>2. CASE calls[d] # None /\ calls'[d] = [calls[d] EXCEPT !.newest = FALSE]
    <3>1. calls[d] \in Call /\ CallSoundIn(owner', content', calls[d])
      BY <2>2, CallStaysSound DEF CallsSound, CallSound
    <3>2. QED
      BY <2>2, <3>1, SupersededStaysSound
  <2>3. QED
    BY <2>1, <2>2
<1>2. QED
  BY <1>1 DEF CallsSound, CallSound

LEMMA NewCallIsSound ==
  ASSUME EditorInv, NEW kind \in Kinds, NEW phase \in {"authoring", "saving", "checking", "loading"},
         NEW to \in Contents \cup {None},
         phase \in {"authoring", "saving"} => to \in Contents,
         phase = "checking" <=> kind = "test",
         kind = "test" => to = working
  PROVE  CallSoundIn(owner, content, NewCall(kind, phase, to))
BY DEF EditorInv, NewCall, CallSoundIn, BaseIsSaved, CleanMeansSaved, EditorTypeOK

LEMMA GestureCalls ==
  ASSUME EditorInv, RowsKept, UserGesture
  PROVE  CallsSound'
<1> USE DEF EditorInv
<1>1. calls \in [Slots -> Call \cup {None}] /\ owner' = owner /\ content' = content
  BY DEF EditorTypeOK, UserGesture, Edit, Undo, Redo, Prepare, Author, Save, Test, SetDraft,
     RefreshConflict, ReapplyConflict, DiscardConflict, storeVars
<1>2. ASSUME NEW c \in Slots, NEW kind \in Sequenced, NEW to \in Contents, Author(c, kind, to)
      PROVE  CallsSound'
  <2>1. CallSoundIn(owner, content, NewCall(kind, "authoring", to))
    BY NewCallIsSound DEF Kinds, Sequenced
  <2>2. /\ calls'[c] = NewCall(kind, "authoring", to)
        /\ \A d \in Slots \ {c} :
             \/ calls'[d] = calls[d]
             \/ calls[d] # None /\ calls'[d] = [calls[d] EXCEPT !.newest = FALSE]
    BY <1>2 DEF Author, BeginSequenced
  <2>3. QED
    BY <1>1, <2>1, <2>2, CallsStaySound
<1>3. ASSUME NEW c \in Slots, Edit(c) \/ Undo(c) \/ Redo(c) \/ Prepare(c)
      PROVE  CallsSound'
  <2>1. Edits \subseteq Contents
    BY DEF Edits
  <2>2. CASE Edit(c) \/ Prepare(c)
    BY <1>2, <2>1, <2>2 DEF Edit, Prepare, Sequenced
  <2>3. CASE Undo(c)
    BY <1>2, <2>3, StackTypes, RestorationsAreSources DEF Undo, Sequenced, EditorTypeOK
  <2>4. CASE Redo(c)
    BY <1>2, <2>4, StackTypes, RestorationsAreSources DEF Redo, Sequenced, EditorTypeOK
  <2>5. QED
    BY <1>3, <2>2, <2>3, <2>4
<1>4. ASSUME NEW c \in Slots, NEW call, Begin(c, call), CallSoundIn(owner, content, call)
      PROVE  CallsSound'
  <2>1. calls'[c] = call /\ \A d \in Slots \ {c} : calls'[d] = calls[d]
    BY <1>1, <1>4 DEF Begin
  <2>2. QED
    BY <1>1, <1>4, <2>1, CallsStaySound
<1>5. ASSUME NEW c \in Slots, Save(c) \/ Test(c) \/ RefreshConflict(c)
      PROVE  CallsSound'
  <2>1. working \in Contents /\ {"save", "test", "refresh"} \subseteq Kinds
    BY DEF EditorTypeOK, Kinds
  <2>2. CASE Save(c)
    <3>1. CallSoundIn(owner, content, NewCall("save", "saving", working))
      BY <2>1, NewCallIsSound
    <3>2. QED
      BY <1>4, <2>2, <3>1 DEF Save
  <2>3. CASE Test(c)
    <3>1. CallSoundIn(owner, content, NewCall("test", "checking", working))
      BY <2>1, NewCallIsSound
    <3>2. QED
      BY <1>4, <2>3, <3>1 DEF Test
  <2>4. CASE RefreshConflict(c)
    <3>1. CallSoundIn(owner, content, NewCall("refresh", "loading", None))
      BY <2>1, NewCallIsSound
    <3>2. QED
      BY <1>4, <2>4, <3>1 DEF RefreshConflict
  <2>5. QED
    BY <1>5, <2>2, <2>3, <2>4
<1>6. ASSUME UNCHANGED calls
      PROVE  CallsSound'
  BY <1>1, <1>6 DEF CallsSound, CallSound
<1>7. QED
  BY <1>3, <1>5, <1>6 DEF UserGesture, SetDraft, ReapplyConflict, DiscardConflict

LEMMA AnswerCalls ==
  ASSUME EditorInv, RowsKept, OpenedExists', NEW c \in Slots, Answer(c)
  PROVE  CallsSound'
<1> USE DEF EditorInv
<1>1. calls \in [Slots -> Call \cup {None}]
  BY DEF EditorTypeOK
<1>2. calls[c] \in Call /\ calls[c] # None /\ CallSoundIn(owner, content, calls[c])
  BY <1>1 DEF Answer, AuthoringAccepted, InFlight, EditAnswered, PreparedSaves, CheckPassed,
     CommitSave, SaveIdentical, SaveAnswered, StaleAnswered, ReadCurrent, ConflictFound,
     TestEnds, AnswerDropped, CallFails, CallsSound, CallSound
<1>3. CallSoundIn(owner', content', calls[c])
  BY <1>2, CallStaysSound
<1>4. ASSUME End(c)
      PROVE  CallsSound'
  BY <1>1, <1>4, CallsStaySound DEF End
<1>5. ASSUME NEW phase \in Phases, NEW r \in Revisions, Continue(c, phase, r),
             CallSoundIn(owner', content', [calls[c] EXCEPT !.phase = phase, !.revision = r])
      PROVE  CallsSound'
  <2>1. /\ calls'[c] = [calls[c] EXCEPT !.phase = phase, !.revision = r]
        /\ \A d \in Slots \ {c} : calls'[d] = calls[d]
    BY <1>1, <1>5 DEF Continue
  <2>2. QED
    BY <1>1, <1>5, <2>1, CallsStaySound
<1>6. calls[c].revision \in Revisions
  BY <1>2 DEF Call
<1>7. CASE PreparedSaves(c)
  <2>1. calls[c].phase = "authoring" /\ calls[c].kind # "test"
    BY <1>7 DEF PreparedSaves, AuthoringAccepted, InFlight
  <2>2. CallSoundIn(owner', content', [calls[c] EXCEPT !.phase = "saving", !.revision = calls[c].revision])
    BY <1>2, <1>3, <2>1 DEF CallSoundIn, Call
  <2>3. QED
    BY <1>5, <1>6, <1>7, <2>2 DEF PreparedSaves, Phases
<1>8. CASE CheckPassed(c)
  <2>1. calls[c].phase = "checking" /\ calls[c].kind = "test"
    BY <1>2, <1>8 DEF CheckPassed, InFlight, CallSoundIn
  <2> DEFINE phase == IF calls[c].dirty THEN "saving" ELSE "running"
  <2>2. CallSoundIn(owner', content', [calls[c] EXCEPT !.phase = phase, !.revision = calls[c].revision])
    BY <1>2, <1>3, <2>1 DEF CallSoundIn, Call
  <2>3. phase \in Phases
    BY DEF Phases
  <2>4. QED
    BY <1>5, <1>6, <1>8, <2>2, <2>3 DEF CheckPassed
<1>9. ASSUME NEW r \in Revisions, CommitSave(c, r)
      PROVE  CallsSound'
  <2>1. /\ calls[c].phase = "saving"
        /\ owner'[r] = Opened
        /\ content'[r] = calls[c].to
    BY <1>9 DEF CommitSave, InFlight, SaveRevision, AppendRevision, InsertRevision,
       EditorTypeOK, StoreTypeOK
  <2>2. CallSoundIn(owner', content', [calls[c] EXCEPT !.phase = "saved", !.revision = r])
    BY <1>2, <1>3, <2>1 DEF CallSoundIn, Call
  <2>3. QED
    BY <1>5, <1>9, <2>2 DEF CommitSave, Phases
<1>10. CASE SaveAnswered(c)
  <2>1. calls[c].phase = "saved"
    BY <1>10 DEF SaveAnswered, InFlight
  <2>2. CASE calls[c].kind = "test"
    <3>1. CallSoundIn(owner', content', [calls[c] EXCEPT !.phase = "running", !.revision = calls[c].revision])
      BY <1>2, <1>3, <2>1, <2>2 DEF CallSoundIn, Call
    <3>2. QED
      BY <1>5, <1>6, <1>10, <2>2, <3>1 DEF SaveAnswered, Phases
  <2>3. QED
    BY <1>4, <1>10, <2>2 DEF SaveAnswered
<1>11. CASE StaleAnswered(c)
  <2>1. CallSoundIn(owner', content', [calls[c] EXCEPT !.phase = "loading", !.revision = calls[c].revision])
    BY <1>2, <1>3 DEF CallSoundIn, Call
  <2>2. QED
    BY <1>5, <1>6, <1>11, <2>1 DEF StaleAnswered, Phases
<1>12. CASE ReadCurrent(c)
  <2>1. current' = current
    BY <1>12 DEF ReadCurrent, storeVars
  <2>2. CallSoundIn(owner', content', [calls[c] EXCEPT !.phase = "loaded", !.revision = current[Opened]])
    BY <1>2, <1>3, <2>1 DEF CallSoundIn, Call, OpenedExists
  <2>3. QED
    BY <1>5, <1>12, <2>2 DEF ReadCurrent, Phases, OpenedExists
<1>13. CASE EditAnswered(c) \/ ConflictFound(c) \/ TestEnds(c) \/ AnswerDropped(c) \/ CallFails(c)
  BY <1>4, <1>13 DEF EditAnswered, ConflictFound, TestEnds, AnswerDropped, CallFails
<1>14. CASE SaveIdentical(c)
  <2>1. content[current[Opened]] = calls[c].to /\ UNCHANGED storeVars
    BY <1>14 DEF SaveIdentical, AppendStatus
  <2>2. CallSoundIn(owner', content', [calls[c] EXCEPT !.phase = "saved", !.revision = current[Opened]])
    BY <1>2, <1>3, <1>14, <2>1 DEF SaveIdentical, InFlight, CallSoundIn, Call, OpenedExists, storeVars
  <2>3. QED
    BY <1>5, <1>14, <2>2 DEF SaveIdentical, Phases, OpenedExists
<1>15. QED
  BY <1>7, <1>8, <1>9, <1>10, <1>11, <1>12, <1>13, <1>14 DEF Answer

LEMMA CallsStep ==
  ASSUME EditorInv, [EditorNext]_editorVars
  PROVE  CallsSound'
<1>1. RowsKept /\ OpenedExists'
  BY EveryStepIsStoreStep, StoreStepKeeps DEF EditorInv, EditorTypeOK
<1>2. ASSUME UNCHANGED calls
      PROVE  CallsSound'
  BY <1>1, <1>2, CallStaysSound DEF EditorInv, EditorTypeOK, CallsSound, CallSound
<1>3. QED
  BY <1>1, <1>2, GestureCalls, AnswerCalls DEF EditorNext, OtherClientSaves, editorVars

LEMMA ConflictStep ==
  ASSUME EditorInv, [EditorNext]_editorVars
  PROVE  ConflictSaved'
<1> USE DEF EditorInv
<1>1. RowsKept
  BY EveryStepIsStoreStep, StoreStepKeeps DEF EditorTypeOK
<1>2. ASSUME UNCHANGED conflict
      PROVE  ConflictSaved'
  BY <1>1, <1>2 DEF RowsKept, ConflictSaved, EditorTypeOK
<1>3. ASSUME NEW c \in Slots, ConflictFound(c)
      PROVE  ConflictSaved'
  BY <1>3 DEF ConflictFound, InFlight, ConflictSaved, CallsSound, CallSound, CallSoundIn, storeVars
<1>4. CASE UserGesture
  BY <1>2, <1>4 DEF UserGesture, Edit, Undo, Redo, Prepare, Author, Save, Test, SetDraft,
     RefreshConflict, ReapplyConflict, DiscardConflict, ConflictSaved
<1>5. ASSUME NEW c \in Slots, Answer(c)
      PROVE  ConflictSaved'
  BY <1>2, <1>3, <1>5 DEF Answer, EditAnswered, PreparedSaves, CheckPassed, CommitSave,
     SaveIdentical, SaveAnswered, StaleAnswered, ReadCurrent, TestEnds, AnswerDropped, CallFails
<1>6. QED
  BY <1>2, <1>4, <1>5 DEF EditorNext, OtherClientSaves, editorVars

-----------------------------------------------------------------------------
(* Updating *)

(* A call that was just made is pending, whatever its kind. *)
LEMMA NewCallPending ==
  ASSUME EditorTypeOK, NEW kind \in Kinds \ {"refresh"}, NEW phase \in Phases,
         NEW to \in Contents \cup {None}
  PROVE  /\ NewCall(kind, phase, to) # None
         /\ NewCall(kind, phase, to).kind # "refresh"
         /\ NewCall(kind, phase, to).newest
<1>1. NewCall(kind, phase, to) \in Call
  BY NewCallType
<1>2. QED
  BY <1>1, CallsNoneAssumption DEF NewCall

(* Gestures that leave the editor updating add a call that is pending, or   *)
(* keep the one there was.                                                  *)
LEMMA GesturePending ==
  ASSUME EditorInv, UserGesture
  PROVE  UpdatingIsPending'
<1> USE DEF EditorInv
<1>1. calls \in [Slots -> Call \cup {None}]
  BY DEF EditorTypeOK
<1>2. ASSUME NEW c \in Slots, NEW kind \in Sequenced, NEW to \in Contents, Author(c, kind, to)
      PROVE  UpdatingIsPending'
  <2>1. calls'[c] = NewCall(kind, "authoring", to)
    BY <1>1, <1>2 DEF Author, BeginSequenced
  <2>2. calls'[c] # None /\ calls'[c].kind # "refresh" /\ calls'[c].newest
    BY <2>1, NewCallPending DEF Kinds, Sequenced, Phases
  <2>3. Pending(c)'
    BY <2>2 DEF Pending, Superseded
  <2>4. QED
    BY <2>3 DEF UpdatingIsPending
<1>3. ASSUME NEW c \in Slots, Edit(c) \/ Undo(c) \/ Redo(c) \/ Prepare(c)
      PROVE  UpdatingIsPending'
  <2>1. Edits \subseteq Contents
    BY DEF Edits
  <2>2. CASE Edit(c) \/ Prepare(c)
    BY <1>2, <2>1, <2>2 DEF Edit, Prepare, Sequenced
  <2>3. CASE Undo(c)
    BY <1>2, <2>3, StackTypes, RestorationsAreSources DEF Undo, Sequenced, EditorTypeOK
  <2>4. CASE Redo(c)
    BY <1>2, <2>4, StackTypes, RestorationsAreSources DEF Redo, Sequenced, EditorTypeOK
  <2>5. QED
    BY <1>3, <2>2, <2>3, <2>4
<1>4. ASSUME NEW c \in Slots, Save(c)
      PROVE  UpdatingIsPending'
  <2>1. calls'[c] = NewCall("save", "saving", working)
    BY <1>1, <1>4 DEF Save, Begin
  <2>2. calls'[c] # None /\ calls'[c].kind # "refresh" /\ calls'[c].newest
    BY <2>1, NewCallPending DEF Kinds, Phases, EditorTypeOK
  <2>3. QED
    BY <2>2 DEF Pending, Superseded, UpdatingIsPending
<1>5. ASSUME NEW c \in Slots, RefreshConflict(c)
      PROVE  UpdatingIsPending'
  <2>1. \A d \in Slots : calls[d] # None => calls'[d] = calls[d]
    BY <1>1, <1>5 DEF RefreshConflict, Begin
  <2>2. \A d \in Slots : Pending(d) => Pending(d)'
    BY <2>1 DEF Pending, Superseded
  <2>3. QED
    BY <1>5, <2>2 DEF RefreshConflict, UpdatingIsPending
<1>6. CASE status' # "updating"
  BY <1>6 DEF UpdatingIsPending
<1>7. ASSUME NEW c \in Slots, Test(c)
      PROVE  status' # "updating"
  BY <1>7 DEF Test
<1>8. ASSUME \/ \E unfinished \in BOOLEAN : SetDraft(unfinished)
             \/ ReapplyConflict
             \/ DiscardConflict
      PROVE  status' # "updating"
  BY <1>8 DEF SetDraft, ReapplyConflict, DiscardConflict
<1>9. QED
  BY <1>3, <1>4, <1>5, <1>6, <1>7, <1>8 DEF UserGesture

(* An answer resets the status, or is of a call that was not pending, or     *)
(* leaves its call pending.                                                 *)
LEMMA AnswerPending ==
  ASSUME EditorInv, NEW c \in Slots, Answer(c)
  PROVE  UpdatingIsPending'
<1> USE DEF EditorInv
<1>1. calls \in [Slots -> Call \cup {None}]
  BY DEF EditorTypeOK
<1>2. CASE status' # "updating"
  BY <1>2 DEF UpdatingIsPending
<1>3. ASSUME End(c), ~Pending(c), status' = status
      PROVE  UpdatingIsPending'
  <2>1. \A d \in Slots \ {c} : calls'[d] = calls[d]
    BY <1>1, <1>3 DEF End
  <2>2. \A d \in Slots : Pending(d) => Pending(d)'
    BY <1>3, <2>1 DEF Pending, Superseded
  <2>3. QED
    BY <1>3, <2>2 DEF UpdatingIsPending
<1>4. ASSUME NEW phase \in Phases, NEW r \in Revisions, Continue(c, phase, r), calls[c] # None,
             \/ ~Superseded(c)
             \/ phase \in {"loading", "loaded"}
             \/ calls[c].phase = "saving" /\ phase = "saved",
             status' = status \/ (~Superseded(c) /\ calls[c].kind # "refresh")
      PROVE  UpdatingIsPending'
  <2>1. calls[c] \in Call
    BY <1>1, <1>4
  <2>2. calls'[c] = [calls[c] EXCEPT !.phase = phase, !.revision = r]
        /\ \A d \in Slots \ {c} : calls'[d] = calls[d]
    BY <1>1, <1>4 DEF Continue
  <2>3. [calls[c] EXCEPT !.phase = phase, !.revision = r] \in Call
    BY <2>1 DEF Call
  <2>4. /\ calls'[c] # None
        /\ calls'[c].kind = calls[c].kind
        /\ calls'[c].newest = calls[c].newest
        /\ calls'[c].phase = phase
    BY <2>1, <2>2, <2>3, CallsNoneAssumption DEF Call
  <2>5. \A d \in Slots : Pending(d) => Pending(d)'
    <3>1. Pending(c) => Pending(c)'
      BY <1>4, <2>4 DEF Pending, Superseded
    <3>2. \A d \in Slots \ {c} : Pending(d) => Pending(d)'
      BY <2>2 DEF Pending, Superseded
    <3>3. QED
      BY <3>1, <3>2
  <2>6. ~Superseded(c) /\ calls[c].kind # "refresh" => Pending(c)'
    BY <2>4 DEF Pending, Superseded
  <2>7. QED
    BY <1>4, <2>5, <2>6 DEF UpdatingIsPending
<1>5. calls[c] # None => calls[c] \in Call /\ calls[c].revision \in Revisions
                         /\ CallSoundIn(owner, content, calls[c])
  BY <1>1 DEF Call, CallsSound, CallSound
<1>6. CASE PreparedSaves(c)
  BY <1>4, <1>5, <1>6 DEF PreparedSaves, AuthoringAccepted, InFlight, Phases
<1>7. CASE CheckPassed(c)
  <2>1. calls[c] # None /\ calls[c].kind = "test"
    BY <1>5, <1>7 DEF CheckPassed, InFlight, CallSoundIn
  <2>2. ~Superseded(c)
    BY <2>1 DEF Superseded, Sequenced
  <2>3. (IF calls[c].dirty THEN "saving" ELSE "running") \in Phases
    BY DEF Phases
  <2>4. QED
    BY <1>4, <1>5, <1>7, <2>1, <2>2, <2>3 DEF CheckPassed
<1>8. ASSUME NEW r \in Revisions, CommitSave(c, r)
      PROVE  UpdatingIsPending'
  BY <1>4, <1>8 DEF CommitSave, InFlight, Phases
<1>9. CASE StaleAnswered(c)
  BY <1>4, <1>5, <1>9 DEF StaleAnswered, InFlight, Phases
<1>10. CASE ReadCurrent(c)
  BY <1>4, <1>10 DEF ReadCurrent, InFlight, Phases, OpenedExists
<1>11. CASE AnswerDropped(c)
  BY <1>3, <1>11 DEF AnswerDropped, Pending
<1>12. CASE ConflictFound(c) \/ CallFails(c)
  <2>1. CASE calls[c].kind = "refresh"
    BY <1>3, <1>12, <2>1 DEF ConflictFound, CallFails, Pending
  <2>2. CASE calls[c].kind # "refresh"
    BY <1>2, <1>12, <2>2 DEF ConflictFound, CallFails
  <2>3. QED
    BY <2>1, <2>2
<1>13. CASE EditAnswered(c) \/ SaveAnswered(c) \/ TestEnds(c)
  BY <1>2, <1>13 DEF EditAnswered, SaveAnswered, TestEnds
<1>14. CASE SaveIdentical(c)
  BY <1>4, <1>14 DEF SaveIdentical, InFlight, Phases, OpenedExists
<1>15. QED
  BY <1>6, <1>7, <1>8, <1>9, <1>10, <1>11, <1>12, <1>13, <1>14 DEF Answer

LEMMA PendingStep ==
  ASSUME EditorInv, [EditorNext]_editorVars
  PROVE  UpdatingIsPending'
<1>1. ASSUME UNCHANGED <<status, calls>>
      PROVE  UpdatingIsPending'
  BY <1>1 DEF EditorInv, UpdatingIsPending, Pending, Superseded
<1>2. QED
  BY <1>1, GesturePending, AnswerPending DEF EditorNext, OtherClientSaves, editorVars

-----------------------------------------------------------------------------
(* The theorems *)

LEMMA EditorInvInit == EditorInit => EditorInv
<1> SUFFICES ASSUME EditorInit PROVE EditorInv
  OBVIOUS
<1>1. PICK r \in Revisions, k \in Contents, n \in Names :
        /\ name = [s \in Strategies |-> IF s = Opened THEN n ELSE None]
        /\ current = [s \in Strategies |-> IF s = Opened THEN r ELSE None]
        /\ archived = [s \in Strategies |-> FALSE]
        /\ owner = [q \in Revisions |-> IF q = r THEN Opened ELSE None]
        /\ parent = [q \in Revisions |-> None]
        /\ content = [q \in Revisions |-> IF q = r THEN k ELSE None]
        /\ adoption = [c \in Candidates |-> None]
        /\ working = k /\ base = k /\ hashOf = k
        /\ baseRevision = r
        /\ dirty = FALSE
        /\ status = "saved"
        /\ undoStack = <<>> /\ redoStack = <<>>
        /\ conflict = None
        /\ drafting = FALSE
        /\ calls = [c \in Slots |-> None]
        /\ gestures = 0
  BY DEF EditorInit
<1>2. StoreTypeOK
  BY <1>1, OpenedAssumption DEF StoreTypeOK
<1>3. EditorTypeOK
  <2>1. undoStack \in Seq(Contents) /\ redoStack \in Seq(Contents)
    BY <1>1, EmptyStackType
  <2>2. calls \in [Slots -> Call \cup {None}]
    BY <1>1
  <2>3. /\ working \in Contents /\ base \in Contents /\ hashOf \in Contents
        /\ baseRevision \in Revisions
        /\ dirty \in BOOLEAN /\ drafting \in BOOLEAN
        /\ status \in {"saved", "updating", "invalid", "unfinished"}
        /\ conflict \in [revision : Revisions, merged : Contents \cup {None}] \cup {None}
    BY <1>1
  <2>4. gestures \in 0..MaxGestures
    BY <1>1, MaxGesturesAssumption
  <2>5. QED
    BY <1>2, <2>1, <2>2, <2>3, <2>4 DEF EditorTypeOK
<1>4. OpenedExists /\ BaseIsSaved
  BY <1>1, OpenedAssumption, NoneAssumption DEF OpenedExists, BaseIsSaved
<1>5. CleanMeansSaved /\ CallsSound /\ ConflictSaved /\ UpdatingIsPending
  BY <1>1 DEF CleanMeansSaved, CallsSound, ConflictSaved, UpdatingIsPending
<1>6. QED
  BY <1>3, <1>4, <1>5 DEF EditorInv

LEMMA EditorInvStep ==
  ASSUME EditorInv, [EditorNext]_editorVars
  PROVE  EditorInv'
<1>1. OpenedExists'
  BY EveryStepIsStoreStep, StoreStepKeeps DEF EditorInv, EditorTypeOK
<1>2. QED
  BY <1>1, EditorTypeStep, BaseStep, CallsStep, ConflictStep, PendingStep DEF EditorInv

(* Whatever is edited, saved, reloaded or answered in whatever order, the   *)
(* invariant of the session holds.                                          *)
THEOREM EditorInvariant == EditorSpec => []EditorInv
BY EditorInvInit, EditorInvStep, PTL DEF EditorSpec

(* Every reachable state of a session is well typed. *)
THEOREM EditorTypeCorrect == EditorSpec => []EditorTypeOK
<1>1. EditorInv => EditorTypeOK
  BY DEF EditorInv
<1>2. QED
  BY <1>1, EditorInvariant, PTL

(* The base of a session is always a Revision saved in its Strategy. *)
THEOREM BaseIsAlwaysSaved == EditorSpec => []BaseIsSaved
<1>1. EditorInv => BaseIsSaved
  BY DEF EditorInv
<1>2. QED
  BY <1>1, EditorInvariant, PTL

(* Without unsaved changes the views show the base Revision. *)
THEOREM CleanIsSaved == EditorSpec => []CleanMeansSaved
<1>1. EditorInv => CleanMeansSaved
  BY DEF EditorInv
<1>2. QED
  BY <1>1, EditorInvariant, PTL

(* A test executes the Revision of the source that was shown when it was     *)
(* started.                                                                 *)
THEOREM TestsRunWhatWasShown == EditorSpec => []TestRunsWhatWasShown
<1>1. EditorInv => TestRunsWhatWasShown
  BY DEF EditorInv, TestRunsWhatWasShown, InFlight, CallsSound, CallSound, CallSoundIn
<1>2. QED
  BY <1>1, EditorInvariant, PTL

(* With nothing in flight the editor is not left updating. *)
THEOREM IdleIsNeverUpdating == EditorSpec => []IdleIsNotUpdating
<1>1. EditorInv => IdleIsNotUpdating
  BY DEF EditorInv, IdleIsNotUpdating, UpdatingIsPending, Pending
<1>2. QED
  BY <1>1, EditorInvariant, PTL

=============================================================================
