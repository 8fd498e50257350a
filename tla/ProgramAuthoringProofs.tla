----------------------- MODULE ProgramAuthoringProofs -----------------------
(***************************************************************************)
(* Theorems about Program-native strategies, for any sets of groups, asset *)
(* lists, assets and statements and sessions of any length: about their    *)
(* definitions (groups with their asset lists, the asset axis), about the  *)
(* tree of statements and its places, and about where capital goes.        *)
(***************************************************************************)
EXTENDS ProgramAuthoring, FiniteSetTheorems, SequenceTheorems, Foundations

Fields == {"assetSets", "groups", "axis", "selection", "formalizations", "program"}

(* No two groups have one asset list: RemoveProgramInvestment deletes the   *)
(* list of the group it removes without looking for others.                 *)
ListsUnshared(s) ==
  \A g, h \in DOMAIN s.groups : s.groups[g] = s.groups[h] => g = h

Sound(s) ==
  /\ DOMAIN s = Fields
  /\ GroupsHaveAssets(s)
  /\ ListsUnshared(s)
  /\ s.axis \in DOMAIN s.groups \cup DOMAIN s.assetSets

DefinitionsInv == Sound(strategy)

(* What an operation on the program leaves as it is.                        *)
SameDefinitions(s, t) ==
  /\ DOMAIN t = Fields
  /\ t.assetSets = s.assetSets /\ t.groups = s.groups /\ t.axis = s.axis

LEMMA SameIsSound ==
  ASSUME NEW s, NEW t, Sound(s), SameDefinitions(s, t)
  PROVE  Sound(t)
BY DEF Sound, SameDefinitions, GroupsHaveAssets, ListsUnshared

(* A group that is new, with an asset list no other group has.              *)
LEMMA WithGroupSound ==
  ASSUME NEW s, Sound(s), NEW g, NEW x, NEW assets, g \notin DOMAIN s.groups,
         \A h \in DOMAIN s.groups : s.groups[h] # x
  PROVE  Sound(WithGroup(s, g, x, assets))
<1> DEFINE t == WithGroup(s, g, x, assets)
<1>1. /\ DOMAIN t = Fields
      /\ t.groups = [y \in DOMAIN s.groups \cup {g} |-> IF y = g THEN x ELSE s.groups[y]]
      /\ t.assetSets = [y \in DOMAIN s.assetSets \cup {x} |-> IF y = x THEN assets ELSE s.assetSets[y]]
      /\ t.axis = g
  BY DEF WithGroup, Sound, Fields
<1> HIDE DEF t
<1>2. Sound(t)
  BY <1>1 DEF Sound, GroupsHaveAssets, ListsUnshared
<1>3. QED
  BY <1>2 DEF t

(* A group without its list: the list of no other group goes.               *)
LEMMA WithoutGroupSound ==
  ASSUME DefinitionsInv, NEW g \in DOMAIN strategy.groups,
         NEW removed \in SUBSET {strategy.groups[g]},
         NEW t \in WithoutGroup(g, removed)
  PROVE  Sound(t)
<1> DEFINE groups == DOMAIN strategy.groups \ {g}
           sets == DOMAIN strategy.assetSets \ removed
<1>1. /\ DOMAIN t = Fields
      /\ t.groups = [y \in groups |-> strategy.groups[y]]
      /\ t.assetSets = [y \in sets |-> strategy.assetSets[y]]
      /\ t.axis \in groups \cup sets
  BY DEF WithoutGroup, DefinitionsInv, Sound, Fields
<1>2. QED
  BY <1>1 DEF Sound, DefinitionsInv, GroupsHaveAssets, ListsUnshared

(* An answer that leaves the definitions as they were.                      *)
LEMMA AnswerKeeping ==
  ASSUME DefinitionsInv, NEW t, SameDefinitions(strategy, t), Answer(t)
  PROVE  DefinitionsInv'
BY SameIsSound DEF Answer, DefinitionsInv

LEMMA AnswerSound ==
  ASSUME NEW t, Sound(t), Answer(t)
  PROVE  DefinitionsInv'
BY DEF Answer, DefinitionsInv

(* Every operation on the program alone, whatever program it answers with.  *)
LEMMA ProgramKeeping ==
  ASSUME DefinitionsInv, NEW p, AnswerProgram(p)
  PROVE  DefinitionsInv'
<1>1. SameDefinitions(strategy, WithProgram(p))
  BY DEF DefinitionsInv, Sound, SameDefinitions, WithProgram, Fields
<1>2. QED
  BY <1>1, AnswerKeeping DEF AnswerProgram

LEMMA FormalizedKeeping ==
  ASSUME DefinitionsInv, NEW p, NEW id, AnswerFormalized(p, id)
  PROVE  DefinitionsInv'
<1> DEFINE t == [strategy EXCEPT !.program = p, !.formalizations = @ \cup {id}]
<1>1. SameDefinitions(strategy, t)
  BY DEF DefinitionsInv, Sound, SameDefinitions, Fields
<1>2. Answer(t)
  BY DEF AnswerFormalized
<1>3. QED
  BY <1>1, <1>2, AnswerKeeping

LEMMA InitialDefinitions ==
  Init => DefinitionsInv
<1> SUFFICES ASSUME Init PROVE DefinitionsInv
  OBVIOUS
<1> USE RecipeIdentities
<1>1. /\ Sound(EmptyDefinitions)
      /\ DOMAIN EmptyDefinitions.groups = {} /\ DOMAIN EmptyDefinitions.assetSets = {InitialAssets}
  BY DEF EmptyDefinitions, Sound, Fields, GroupsHaveAssets, ListsUnshared
<1>2. ASSUME NEW s, Sound(s), NEW g, g \notin DOMAIN s.groups,
             \A h \in DOMAIN s.groups : s.groups[h] # IF g = Growth THEN GrowthAssets ELSE DefensiveAssets
      PROVE  Sound(Invest(s, g))
  BY <1>2, WithGroupSound DEF Invest
<1> DEFINE grown == Invest(EmptyDefinitions, Growth)
           sleeves == Invest(grown, Defensive)
<1>3. Sound(grown) /\ grown.groups = [h \in {Growth} |-> GrowthAssets]
  <2>1. Sound(grown)
    BY <1>1, <1>2
  <2>2. grown.groups = [h \in DOMAIN EmptyDefinitions.groups \cup {Growth} |->
                          IF h = Growth THEN GrowthAssets ELSE EmptyDefinitions.groups[h]]
    BY <1>1 DEF Invest, WithGroup, Sound, Fields
  <2>3. QED
    BY <1>1, <2>1, <2>2
<1>4. Sound(sleeves)
  <2> HIDE DEF grown
  <2>1. /\ Defensive \notin DOMAIN grown.groups
        /\ \A h \in DOMAIN grown.groups : grown.groups[h] # DefensiveAssets
    BY <1>3
  <2>2. QED
    BY <2>1, <1>2, <1>3
<1>5. ASSUME NEW s, Sound(s), NEW p, NEW selection
      PROVE  Sound([s EXCEPT !.program = p]) /\ Sound([s EXCEPT !.program = p, !.selection = selection])
  <2>1. /\ SameDefinitions(s, [s EXCEPT !.program = p])
        /\ SameDefinitions(s, [s EXCEPT !.program = p, !.selection = selection])
    BY <1>5 DEF SameDefinitions, Sound, Fields
  <2>2. QED
    BY <1>5, <2>1, SameIsSound
<1> HIDE DEF grown, sleeves
<1>6. ASSUME NEW s \in Templates PROVE Sound(s)
  <2>1. s \in {EmptyDefinitions, grown} \/ \E t \in {grown, sleeves} : \E p : s = [t EXCEPT !.program = p]
    BY Zenon DEF Templates, grown, sleeves
  <2>2. CASE s \in {EmptyDefinitions, grown}
    BY <2>2, <1>1, <1>3
  <2>3. ASSUME NEW t \in {grown, sleeves}, NEW p, s = [t EXCEPT !.program = p] PROVE Sound(s)
    <3>1. Sound(t)
      BY <1>3, <1>4
    <3>2. Sound([t EXCEPT !.program = p])
      BY <3>1, <1>5
    <3>3. QED
      BY <3>2, <2>3
  <2>4. QED
    BY <2>1, <2>2, <2>3
<1>7. Sound(Compatibility)
  BY <1>3, <1>5 DEF Compatibility, grown
<1>8. QED
  BY <1>6, <1>7 DEF Init, DefinitionsInv

(* The definitions of the maintained recipes.                               *)
LEMMA RecipeSound ==
  ASSUME NEW sets, NEW groups \in SUBSET {Growth, Defensive}, Growth \in groups,
         \A g \in groups : (IF g = Growth THEN GrowthAssets ELSE DefensiveAssets) \in sets,
         NEW p
  PROVE  Sound([RecipeDefinitions(sets, groups) EXCEPT !.program = p])
<1> DEFINE t == RecipeDefinitions(sets, groups)
<1> USE RecipeIdentities
<1>1. /\ DOMAIN t = Fields /\ t.axis = Growth
      /\ t.assetSets = [x \in sets |-> Assets]
      /\ t.groups = [g \in groups |-> IF g = Growth THEN GrowthAssets ELSE DefensiveAssets]
  BY DEF RecipeDefinitions, EmptyDefinitions, Fields
<1> HIDE DEF t
<1>2. Sound(t)
  BY <1>1 DEF Sound, GroupsHaveAssets, ListsUnshared
<1>3. SameDefinitions(t, [t EXCEPT !.program = p])
  BY <1>1 DEF SameDefinitions, Fields
<1>4. QED
  BY <1>2, <1>3, SameIsSound DEF t

LEMMA DefinitionStepKeeps ==
  ASSUME DefinitionsInv, DefinitionStep
  PROVE  DefinitionsInv'
<1>1. ASSUME NEW x, NEW assets, SetProgramAssetSet(x, assets) PROVE DefinitionsInv'
  <2> DEFINE t == [strategy EXCEPT !.assetSets[x] = assets]
  <2>1. /\ DOMAIN t = Fields /\ DOMAIN t.assetSets = DOMAIN strategy.assetSets
        /\ t.groups = strategy.groups /\ t.axis = strategy.axis
    BY DEF DefinitionsInv, Sound, Fields
  <2>2. Answer(t)
    BY <1>1 DEF SetProgramAssetSet
  <2> HIDE DEF t
  <2>3. Sound(t)
    BY <2>1 DEF DefinitionsInv, Sound, GroupsHaveAssets, ListsUnshared
  <2>4. QED
    BY <2>2, <2>3, AnswerSound
<1>2. ASSUME NEW g, NEW x, NEW assets, AddProgramGroup(g, x, assets) PROVE DefinitionsInv'
  <2>1. \A h \in DOMAIN strategy.groups : strategy.groups[h] # x
    BY <1>2 DEF AddProgramGroup, DefinitionsInv, Sound, GroupsHaveAssets
  <2>2. Sound(WithGroup(strategy, g, x, assets))
    BY <1>2, <2>1, WithGroupSound DEF AddProgramGroup, DefinitionsInv
  <2>3. QED
    BY <1>2, <2>2, AnswerSound DEF AddProgramGroup
<1>3. ASSUME NEW g, RemoveProgramGroup(g) PROVE DefinitionsInv'
  <2>1. PICK t \in WithoutGroup(g, IF Shared(g) THEN {} ELSE {strategy.groups[g]}) : Answer(t)
    BY <1>3 DEF RemoveProgramGroup
  <2>2. g \in DOMAIN strategy.groups
    BY <1>3 DEF RemoveProgramGroup
  <2>3. Sound(t)
    BY <2>1, <2>2, WithoutGroupSound
  <2>4. QED
    BY <2>1, <2>3, AnswerSound
<1>4. ASSUME NEW universe, SetSelectionUniverse(universe) PROVE DefinitionsInv'
  <2>1. SameDefinitions(strategy, [strategy EXCEPT !.selection = universe])
    BY DEF DefinitionsInv, Sound, SameDefinitions, Fields
  <2>2. QED
    BY <1>4, <2>1, AnswerKeeping DEF SetSelectionUniverse
<1>5. QED
  BY <1>1, <1>2, <1>3, <1>4 DEF DefinitionStep

LEMMA RemoveInvestmentKeeps ==
  ASSUME DefinitionsInv, NEW g, RemoveProgramInvestment(g)
  PROVE  DefinitionsInv'
<1>1. PICK t \in WithoutGroup(g, {strategy.groups[g]}) : Answer(t)
  BY DEF RemoveProgramInvestment
<1>2. Sound(t)
  BY <1>1, WithoutGroupSound DEF RemoveProgramInvestment
<1>3. QED
  BY <1>1, <1>2, AnswerSound

LEMMA MeaningStepKeeps ==
  ASSUME DefinitionsInv, MeaningStep
  PROVE  DefinitionsInv'
<1> USE RecipeIdentities
<1>1. ASSUME NEW p, SetSemanticProgram(p) PROVE DefinitionsInv'
  <2>1. SameDefinitions(strategy, [strategy EXCEPT !.program = p, !.formalizations = {}])
    BY DEF DefinitionsInv, Sound, SameDefinitions, Fields
  <2>2. QED
    BY <1>1, <2>1, AnswerKeeping DEF SetSemanticProgram
<1>2. ASSUME NEW g, NEW x, NEW a, CommitSingleAssetIntent(g, x, a) PROVE DefinitionsInv'
  <2> DEFINE emptied == [EmptyDefinitions EXCEPT !.assetSets = [y \in {} |-> {}]]
             defined == WithGroup(emptied, g, x, {a})
  <2>1. PICK p : Answer([defined EXCEPT !.program = p])
    BY <1>2, Zenon DEF CommitSingleAssetIntent
  <2>2. /\ DOMAIN defined = Fields /\ defined.axis = g
        /\ DOMAIN defined.groups = {g} /\ defined.groups[g] = x /\ DOMAIN defined.assetSets = {x}
    BY DEF EmptyDefinitions, WithGroup, Fields
  <2> HIDE DEF defined
  <2>3. Sound(defined)
    BY <2>2 DEF Sound, GroupsHaveAssets, ListsUnshared
  <2>4. SameDefinitions(defined, [defined EXCEPT !.program = p])
    BY <2>2 DEF SameDefinitions, Fields
  <2>5. QED
    BY <2>1, <2>3, <2>4, SameIsSound, AnswerSound
<1>3. ASSUME NEW sets, NEW groups \in SUBSET {Growth, Defensive}, Growth \in groups,
             \A g \in groups : (IF g = Growth THEN GrowthAssets ELSE DefensiveAssets) \in sets,
             NEW p, Answer([RecipeDefinitions(sets, groups) EXCEPT !.program = p])
      PROVE  DefinitionsInv'
  BY <1>3, RecipeSound, AnswerSound
<1>4. ASSUME NEW a, CommitMarketRegimeRotationIntent(a) PROVE DefinitionsInv'
  <2>1. PICK p : Answer([RecipeDefinitions({GrowthAssets, DefensiveAssets}, {Growth})
                          EXCEPT !.program = p])
    BY <1>4, Zenon DEF CommitMarketRegimeRotationIntent
  <2>2. QED
    BY <2>1, <1>3
<1>5. ASSUME NEW a, CommitSplitPortfolioIntent(a) PROVE DefinitionsInv'
  <2>1. PICK p : Answer([RecipeDefinitions({GrowthAssets, DefensiveAssets}, {Growth, Defensive})
                          EXCEPT !.program = p])
    BY <1>5, Zenon DEF CommitSplitPortfolioIntent
  <2>2. QED
    BY <2>1, <1>3
<1>6. ASSUME CommitWeightedScoreIntent PROVE DefinitionsInv'
  <2>1. PICK p : Answer([RecipeDefinitions({GrowthAssets}, {Growth}) EXCEPT !.program = p])
    BY <1>6, Zenon DEF CommitWeightedScoreIntent
  <2>2. QED
    BY <2>1, <1>3
<1>7. ASSUME CommitTemporalSequenceIntent PROVE DefinitionsInv'
  <2> DEFINE emptied == [EmptyDefinitions EXCEPT !.assetSets = [y \in {} |-> {}]]
             defined == WithGroup(emptied, TemporalGroup, TemporalAssets, {TemporalAsset})
  <2>1. PICK p : Answer([defined EXCEPT !.program = p])
    BY <1>7, Zenon DEF CommitTemporalSequenceIntent
  <2>2. /\ DOMAIN defined = Fields /\ defined.axis = TemporalGroup
        /\ DOMAIN defined.groups = {TemporalGroup} /\ defined.groups[TemporalGroup] = TemporalAssets
        /\ DOMAIN defined.assetSets = {TemporalAssets}
    BY DEF EmptyDefinitions, WithGroup, Fields
  <2> HIDE DEF defined
  <2>3. Sound(defined)
    BY <2>2 DEF Sound, GroupsHaveAssets, ListsUnshared
  <2>4. SameDefinitions(defined, [defined EXCEPT !.program = p])
    BY <2>2 DEF SameDefinitions, Fields
  <2>5. QED
    BY <2>1, <2>3, <2>4, SameIsSound, AnswerSound
<1>8. ASSUME CommitMultiClockPolicyIntent PROVE DefinitionsInv'
  <2>1. PICK p : Answer([RecipeDefinitions({GrowthAssets}, {Growth}) EXCEPT !.program = p])
    BY <1>8, Zenon DEF CommitMultiClockPolicyIntent
  <2>2. QED
    BY <2>1, <1>3
<1>9. QED
  BY <1>1, <1>2, <1>4, <1>5, <1>6, <1>7, <1>8 DEF MeaningStep

(* Everything else answers with another program and the same definitions.   *)
LEMMA CapitalStepKeeps ==
  ASSUME DefinitionsInv, CapitalStep
  PROVE  DefinitionsInv'
<1>1. ASSUME NEW id, NEW g, CreateProgramSelection(id, g) PROVE DefinitionsInv'
  BY <1>1, ProgramKeeping DEF CreateProgramSelection
<1>2. ASSUME NEW id, NEW a, SetProgramInvestment(id, a) PROVE DefinitionsInv'
  <2>1. \E p : AnswerProgram(p)
    BY <1>2, Zenon DEF SetProgramInvestment
  <2>2. QED
    BY <2>1, ProgramKeeping
<1>3. ASSUME NEW id, NEW groups, SetProgramSplit(id, groups) PROVE DefinitionsInv'
  <2>1. \E p : AnswerProgram(p)
    BY <1>3, Zenon DEF SetProgramSplit
  <2>2. QED
    BY <2>1, ProgramKeeping
<1>4. ASSUME NEW id, NEW role, NEW a, SetProgramAllocation(id, role, a) PROVE DefinitionsInv'
  <2>1. \E p : AnswerProgram(p)
    BY <1>4, Zenon DEF SetProgramAllocation
  <2>2. QED
    BY <2>1, ProgramKeeping
<1>5. QED
  BY <1>1, <1>2, <1>3, <1>4 DEF CapitalStep

LEMMA ChooseStepKeeps ==
  ASSUME DefinitionsInv, ChooseStep
  PROVE  DefinitionsInv'
<1>1. ASSUME NEW id, NEW g, NEW o, CreateProgramChoose(id, g, o) PROVE DefinitionsInv'
  BY <1>1, ProgramKeeping DEF CreateProgramChoose
<1>2. ASSUME NEW id, NEW o, RenameProgramSubgroup(id, o) PROVE DefinitionsInv'
  <2>1. \E p : AnswerProgram(p)
    BY <1>2, Zenon DEF RenameProgramSubgroup
  <2>2. QED
    BY <2>1, ProgramKeeping
<1>3. ASSUME NEW id, NEW a, CreateProgramEventState(id, a) PROVE DefinitionsInv'
  <2>1. \E p : AnswerProgram(p)
    BY <1>3, Zenon DEF CreateProgramEventState
  <2>2. QED
    BY <2>1, ProgramKeeping
<1>4. QED
  BY <1>1, <1>2, <1>3 DEF ChooseStep

LEMMA StructureStepKeeps ==
  ASSUME DefinitionsInv, InsertStep \/ RemoveStep \/ MoveStep
  PROVE  DefinitionsInv'
<1>1. ASSUME NEW place, NEW tree, InsertProgramStatement(place, tree) PROVE DefinitionsInv'
  BY <1>1, ProgramKeeping DEF InsertProgramStatement
<1>2. ASSUME NEW place, NEW tree, FormalizeDraftPhrase(place, tree) PROVE DefinitionsInv'
  BY <1>2, FormalizedKeeping DEF FormalizeDraftPhrase
<1>3. ASSUME NEW id, RemoveProgramStatement(id) PROVE DefinitionsInv'
  BY <1>3, ProgramKeeping DEF RemoveProgramStatement
<1>4. ASSUME NEW id, RemoveProgramChoose(id) PROVE DefinitionsInv'
  BY <1>4, ProgramKeeping DEF RemoveProgramChoose
<1>5. ASSUME NEW id, RemoveProgramInvestmentAllocation(id) PROVE DefinitionsInv'
  BY <1>5, ProgramKeeping DEF RemoveProgramInvestmentAllocation
<1>6. ASSUME NEW id, NEW parent, NEW branch, NEW n, MoveProgramStatement(id, parent, branch, n)
      PROVE  DefinitionsInv'
  <2>1. \E p : AnswerProgram(p)
    BY <1>6, Zenon DEF MoveProgramStatement
  <2>2. QED
    BY <2>1, ProgramKeeping
<1>7. QED
  BY <1>1, <1>2, <1>3, <1>4, <1>5, <1>6 DEF InsertStep, RemoveStep, MoveStep

LEMMA StatementStepKeeps ==
  ASSUME DefinitionsInv, StatementStep
  PROVE  DefinitionsInv'
<1>1. ASSUME NEW id, NEW tree, ReplaceProgramStatement(id, tree) PROVE DefinitionsInv'
  <2>1. \E p : AnswerProgram(p)
    BY <1>1, Zenon DEF ReplaceProgramStatement
  <2>2. QED
    BY <2>1, ProgramKeeping
<1>2. ASSUME NEW id, NEW kinds, NEW edited, Edit(id, kinds, edited) PROVE DefinitionsInv'
  BY <1>2, ProgramKeeping DEF Edit
<1>3. ASSUME NEW id, NEW uses, SetProgramCondition(id, uses) PROVE DefinitionsInv'
  BY <1>2, <1>3, Zenon DEF SetProgramCondition
<1>4. ASSUME NEW id, NEW ranking, SetProgramRanking(id, ranking) PROVE DefinitionsInv'
  BY <1>2, <1>4, Zenon DEF SetProgramRanking
<1>5. ASSUME NEW id, NEW g, NEW ranking, SetProgramSelection(id, g, ranking) PROVE DefinitionsInv'
  BY <1>2, <1>5, Zenon DEF SetProgramSelection
<1>6. ASSUME NEW ids, SetProgramFormalizations(ids) PROVE DefinitionsInv'
  <2>1. SameDefinitions(strategy, [strategy EXCEPT !.formalizations = ids])
    BY DEF DefinitionsInv, Sound, SameDefinitions, Fields
  <2>2. QED
    BY <1>6, <2>1, AnswerKeeping DEF SetProgramFormalizations
<1>7. ASSUME NEW id, NEW tree, FormalizeProgramStatement(id, tree) PROVE DefinitionsInv'
  BY <1>7, FormalizedKeeping, Zenon DEF FormalizeProgramStatement
<1>8. QED
  BY <1>1, <1>3, <1>4, <1>5, <1>6, <1>7 DEF StatementStep

---------------------------------------------------------------------------

LEMMA DefinitionsInvariant ==
  Spec => []DefinitionsInv
<1>1. Init => DefinitionsInv
  BY InitialDefinitions
<1>2. ASSUME DefinitionsInv, [Next]_vars PROVE DefinitionsInv'
  <2>1. CASE Next
    BY <1>2, <2>1, DefinitionStepKeeps, RemoveInvestmentKeeps, MeaningStepKeeps, CapitalStepKeeps,
       ChooseStepKeeps, StructureStepKeeps, StatementStepKeeps DEF Next
  <2>2. CASE UNCHANGED vars
    BY <1>2, <2>2 DEF vars, DefinitionsInv
  <2>3. QED
    BY <1>2, <2>1, <2>2
<1>3. QED
  BY <1>1, <1>2, PTL DEF Spec

(* Every group keeps its asset list and the asset axis names a group or a   *)
(* list that exists, through every sequence of authoring requests: no two   *)
(* groups ever have one list, so that RemoveProgramInvestment, which does   *)
(* not look for other groups, takes away only the list of its own.          *)
THEOREM DefinitionsAlwaysResolve ==
  Spec => []DefinitionsResolve
<1>1. DefinitionsInv => DefinitionsResolve
  BY DEF DefinitionsInv, Sound, DefinitionsResolve
<1>2. QED
  BY <1>1, DefinitionsInvariant, PTL

---------------------------------------------------------------------------
(* Sequences of statements as trees *)

StatementFields ==
  {"id", "kind", "level", "branch", "output", "universe", "method", "legs", "uses"}

PolicyBranches == {"primary", "override", "fallback"}

(* What holds of every statement: only a Selection has a universe, only an  *)
(* Allocation has legs or belongs to a policy, and a leg is a pair.         *)
Proper(x) ==
  /\ DOMAIN x = StatementFields
  /\ x.level \in Nat
  /\ x.kind # "select" => x.universe \notin GroupIds
  /\ x.kind # "allocate" => x.legs = {}
  /\ \A leg \in x.legs : leg = <<leg[1], leg[2]>>
  /\ x.branch \in PolicyBranches => x.kind = "allocate"

(* Statements that can have others below them.                              *)
Owning == {"control", "on_event", "guarded_allocation"}

(* A statement of this level can come right after x in program order.       *)
Grows(x, level) == level <= x.level \/ (level = x.level + 1 /\ x.kind \in Owning)

IsSequence(p) == \E S : p \in Seq(S)

(* A tree in program order whose roots are at the given level.              *)
IsTree(p, level) ==
  /\ IsSequence(p)
  /\ \A i \in DOMAIN p : Proper(p[i]) /\ p[i].level >= level
  /\ p # <<>> => p[1].level = level
  /\ \A i \in 1..(Len(p) - 1) : Grows(p[i], p[i+1].level)

LEMMA LengthOfSequence ==
  ASSUME NEW p, IsSequence(p)
  PROVE  Len(p) \in Nat /\ DOMAIN p = 1..Len(p)
BY DEF IsSequence

(* A sequence of two parts is the first and then the second.               *)
LEMMA JoinedAt ==
  ASSUME NEW p, IsSequence(p), NEW t, IsSequence(t)
  PROVE  /\ IsSequence(p \o t) /\ Len(p \o t) = Len(p) + Len(t) /\ Len(p) \in Nat /\ Len(t) \in Nat
         /\ \A m \in 1..Len(p) : (p \o t)[m] = p[m]
         /\ \A m \in 1..Len(t) : (p \o t)[Len(p) + m] = t[m]
<1>1. PICK S, T : p \in Seq(S) /\ t \in Seq(T)
  BY DEF IsSequence
<1>2. PICK U : U = S \cup T
  OBVIOUS
<1>3. p \in Seq(U) /\ t \in Seq(U)
  BY <1>1, <1>2, SeqMonotonic
<1>4. p \o t \in Seq(U)
  BY <1>3
<1>5. QED
  BY <1>3, <1>4 DEF IsSequence

(* What is left of p between its first a statements and those from b on     *)
(* gives way to t.                                                          *)
Splice(p, a, b, t) == SubSeq(p, 1, a) \o t \o SubSeq(p, b, Len(p))

Spliced(p, a, b, t, q) ==
  /\ IsSequence(q)
  /\ Len(q) = a + Len(t) + (Len(p) + 1 - b)
  /\ \A m \in 1..a : q[m] = p[m]
  /\ \A m \in 1..Len(t) : q[a + m] = t[m]
  /\ \A m \in b..Len(p) : q[m - b + 1 + a + Len(t)] = p[m]

LEMMA SpliceShape ==
  ASSUME NEW p, IsSequence(p), NEW t, IsSequence(t),
         NEW a \in Nat, NEW b \in Nat, a < b, b <= Len(p) + 1
  PROVE  Spliced(p, a, b, t, Splice(p, a, b, t))
<1>1. PICK S, T : p \in Seq(S) /\ t \in Seq(T)
  BY DEF IsSequence
<1>2. PICK U : p \in Seq(U) /\ t \in Seq(U)
  <2>1. p \in Seq(S \cup T) /\ t \in Seq(S \cup T)
    BY <1>1, SeqMonotonic
  <2>2. QED
    BY <2>1
<1>3. a \in 0..Len(p) /\ Len(p) \in Nat /\ Len(t) \in Nat
  BY <1>2
<1>4. /\ SubSeq(p, 1, a) \in Seq(U) /\ Len(SubSeq(p, 1, a)) = a
      /\ \A m \in 1..a : SubSeq(p, 1, a)[m] = p[m]
  BY <1>2, <1>3
<1>5. /\ SubSeq(p, b, Len(p)) \in Seq(U) /\ Len(SubSeq(p, b, Len(p))) = Len(p) + 1 - b
      /\ \A m \in 1..(Len(p) + 1 - b) : SubSeq(p, b, Len(p))[m] = p[b + m - 1]
  BY <1>2, <1>3
<1>6. PICK x, y : x = SubSeq(p, 1, a) /\ y = SubSeq(p, b, Len(p))
  OBVIOUS
<1>7. /\ x \in Seq(U) /\ y \in Seq(U)
      /\ Len(x) = a /\ Len(y) = Len(p) + 1 - b
      /\ \A m \in 1..a : x[m] = p[m]
      /\ \A m \in 1..(Len(p) + 1 - b) : y[m] = p[b + m - 1]
  BY <1>4, <1>5, <1>6, Zenon
<1>8. x \o t \o y \in Seq(U) /\ Len(x \o t \o y) = a + Len(t) + (Len(p) + 1 - b)
  <2>1. x \in Seq(U) /\ t \in Seq(U) /\ y \in Seq(U)
    BY <1>2, <1>7
  <2>2. x \o t \o y \in Seq(U) /\ Len(x \o t \o y) = Len(x) + Len(t) + Len(y)
    BY <2>1
  <2>3. QED
    BY <2>2, <1>7
<1>9. ASSUME NEW m \in 1..a PROVE (x \o t \o y)[m] = p[m]
  BY <1>2, <1>7
<1>10. ASSUME NEW m \in 1..Len(t) PROVE (x \o t \o y)[a + m] = t[m]
  <2>1. x \in Seq(U) /\ y \in Seq(U) /\ Len(x) = a
    BY <1>7
  <2>2. x \o t \in Seq(U) /\ Len(x \o t) = a + Len(t) /\ (x \o t)[a + m] = t[m]
    <3>1. x \o t \in Seq(U)
      BY <1>2, <2>1
    <3>2. IsSequence(x) /\ IsSequence(t)
      BY <2>1 DEF IsSequence
    <3>3. /\ IsSequence(x \o t) /\ Len(x \o t) = Len(x) + Len(t) /\ Len(x) \in Nat /\ Len(t) \in Nat
          /\ \A k \in 1..Len(x) : (x \o t)[k] = x[k]
          /\ \A k \in 1..Len(t) : (x \o t)[Len(x) + k] = t[k]
      BY <3>2, JoinedAt
    <3>4. QED
      BY <2>1, <3>1, <3>3
  <2>3. a + m \in 1..Len(x \o t)
    BY <1>3, <2>2
  <2>4. QED
    BY <2>1, <2>2, <2>3
<1>11. ASSUME NEW m \in b..Len(p) PROVE (x \o t \o y)[m - b + 1 + a + Len(t)] = p[m]
  <2>1. y[m - b + 1] = p[m] /\ m - b + 1 \in 1..Len(y)
    BY <1>3, <1>7
  <2>2. (x \o t \o y)[Len(x) + Len(t) + (m - b + 1)] = y[m - b + 1]
    BY <1>2, <1>3, <1>7, <2>1
  <2>3. Len(x) + Len(t) + (m - b + 1) = m - b + 1 + a + Len(t)
    BY <1>3, <1>7
  <2>4. QED
    BY <2>1, <2>2, <2>3
<1>12. Splice(p, a, b, t) = x \o t \o y
  BY <1>6 DEF Splice
<1>13. QED
  BY <1>8, <1>9, <1>10, <1>11, <1>12 DEF IsSequence, Spliced

(* The largest number of a bounded set is one of it.                        *)
LEMMA LargestNumber ==
  ASSUME NEW n \in Nat, NEW S \in SUBSET (0..n), S # {}
  PROVE  Max(S) \in S /\ \A k \in S : Max(S) >= k
<1>1. \E m \in S : \A k \in S : m >= k
  BY GreatestNatural
<1>2. QED
  BY <1>1, Zenon DEF Max

LEMMA TreeLevels ==
  ASSUME NEW p, NEW l, IsTree(p, l)
  PROVE  /\ Len(p) \in Nat /\ DOMAIN p = 1..Len(p)
         /\ \A i \in 1..Len(p) : p[i].level \in Nat
         /\ \A i \in 1..Len(p) : i - 1 \in 1..Len(p) => Grows(p[i-1], p[i].level)
<1>1. /\ IsSequence(p)
      /\ \A i \in DOMAIN p : p[i].level \in Nat
      /\ \A i \in 1..(Len(p) - 1) : Grows(p[i], p[i+1].level)
  BY DEF IsTree, Proper
<1>2. Len(p) \in Nat /\ DOMAIN p = 1..Len(p)
  BY <1>1, LengthOfSequence
<1>3. ASSUME NEW i \in 1..Len(p), i - 1 \in 1..Len(p) PROVE Grows(p[i-1], p[i].level)
  <2>1. i - 1 \in 1..(Len(p) - 1) /\ (i - 1) + 1 = i
    BY <1>2, <1>3
  <2>2. QED
    BY <1>1, <2>1
<1>4. QED
  BY <1>1, <1>2, <1>3

(* q is the last statement before i that is above it.                       *)
HasParent(p, q, i) ==
  /\ q \in 1..(i - 1)
  /\ p[q].level < p[i].level
  /\ \A j \in (q + 1)..(i - 1) : p[j].level >= p[i].level

LEMMA ParentFound ==
  ASSUME NEW p, IsTree(p, 0), NEW i \in DOMAIN p, p[i].level # 0
  PROVE  HasParent(p, Parent(p, i), i)
<1> DEFINE above == {k \in 1..(i - 1) : p[k].level < p[i].level}
<1>1. /\ Len(p) \in Nat /\ i \in 1..Len(p)
      /\ \A k \in 1..Len(p) : p[k].level \in Nat
  BY TreeLevels
<1>2. p[1].level = 0
  <2>1. p # <<>>
    BY <1>1
  <2>2. QED
    BY <2>1 DEF IsTree
<1>3. i # 1 /\ 1 \in above
  BY <1>1, <1>2
<1>4. above \in SUBSET (0..Len(p)) /\ above # {}
  BY <1>1, <1>3
<1>5. Parent(p, i) = Max(above)
  BY DEF Parent
<1>6. Parent(p, i) \in above /\ \A k \in above : Parent(p, i) >= k
  BY <1>1, <1>4, <1>5, LargestNumber
<1> DEFINE q == Parent(p, i)
<1> HIDE DEF q
<1>7. q \in 1..(i - 1) /\ p[q].level < p[i].level
  BY <1>6 DEF q
<1>8. ASSUME NEW j \in (q + 1)..(i - 1) PROVE p[j].level >= p[i].level
  <2>1. j \in 1..(i - 1) /\ j > q /\ p[j].level \in Nat /\ p[i].level \in Nat
    BY <1>1, <1>7
  <2>2. j \notin above
    BY <1>6, <1>7, <2>1 DEF q
  <2>3. QED
    BY <2>1, <2>2
<1>9. QED
  BY <1>7, <1>8 DEF HasParent, q

LEMMA ParentIs ==
  ASSUME NEW p, IsTree(p, 0), NEW i \in DOMAIN p, NEW q, HasParent(p, q, i)
  PROVE  Parent(p, i) = q
<1>1. /\ Len(p) \in Nat /\ i \in 1..Len(p)
      /\ \A k \in 1..Len(p) : p[k].level \in Nat
  BY TreeLevels
<1>2. q \in 1..(i - 1) /\ p[q].level < p[i].level
      /\ \A j \in (q + 1)..(i - 1) : p[j].level >= p[i].level
  BY DEF HasParent
<1>3. p[i].level # 0
  BY <1>1, <1>2
<1> DEFINE r == Parent(p, i)
<1>4. HasParent(p, r, i)
  BY <1>3, ParentFound
<1> HIDE DEF r
<1>5. r \in 1..(i - 1) /\ p[r].level < p[i].level
      /\ \A j \in (r + 1)..(i - 1) : p[j].level >= p[i].level
  BY <1>4 DEF HasParent
<1>6. ~(r < q)
  <2> SUFFICES ASSUME r < q PROVE FALSE
    OBVIOUS
  <2>1. q \in (r + 1)..(i - 1) /\ q \in 1..Len(p)
    BY <1>1, <1>2, <1>5
  <2>2. p[q].level >= p[i].level /\ p[q].level < p[i].level
    BY <2>1, <1>2, <1>5
  <2>3. p[q].level \in Nat /\ p[i].level \in Nat
    BY <2>1, <1>1
  <2>4. QED
    BY <2>2, <2>3
<1>7. ~(q < r)
  <2> SUFFICES ASSUME q < r PROVE FALSE
    OBVIOUS
  <2>1. r \in (q + 1)..(i - 1) /\ r \in 1..Len(p)
    BY <1>1, <1>2, <1>5
  <2>2. p[r].level >= p[i].level /\ p[r].level < p[i].level
    BY <2>1, <1>2, <1>5
  <2>3. p[r].level \in Nat /\ p[i].level \in Nat
    BY <2>1, <1>1
  <2>4. QED
    BY <2>2, <2>3
<1>8. QED
  BY <1>1, <1>2, <1>5, <1>6, <1>7 DEF r

(* A statement is one level below its parent.                               *)
LEMMA ParentOneUp ==
  ASSUME NEW p, IsTree(p, 0), NEW i \in DOMAIN p, NEW q, HasParent(p, q, i)
  PROVE  p[i].level = p[q].level + 1
<1>1. /\ Len(p) \in Nat /\ i \in 1..Len(p)
      /\ \A k \in 1..Len(p) : p[k].level \in Nat
      /\ \A k \in 1..Len(p) : k - 1 \in 1..Len(p) => Grows(p[k-1], p[k].level)
  BY TreeLevels
<1>2. q \in 1..(i - 1) /\ p[q].level < p[i].level
      /\ \A j \in (q + 1)..(i - 1) : p[j].level >= p[i].level
  BY DEF HasParent
<1>3. q + 1 \in 1..Len(p) /\ (q + 1) - 1 = q /\ q \in 1..Len(p)
  BY <1>1, <1>2
<1>4. Grows(p[q], p[q+1].level)
  BY <1>1, <1>3
<1>5. p[q+1].level <= p[q].level + 1
  BY <1>1, <1>3, <1>4 DEF Grows
<1>6. p[q+1].level >= p[i].level
  <2>1. CASE q + 1 = i
    BY <2>1, <1>1
  <2>2. CASE q + 1 # i
    <3>1. q + 1 \in (q + 1)..(i - 1)
      BY <2>2, <1>1, <1>2
    <3>2. QED
      BY <3>1, <1>2
  <2>3. QED
    BY <2>1, <2>2
<1>7. QED
  BY <1>1, <1>2, <1>3, <1>5, <1>6

(* A subtree ends where the next statement is no deeper than its root.      *)
LEMMA SubtreeEndIs ==
  ASSUME NEW p, IsTree(p, 0), NEW k \in DOMAIN p
  PROVE  /\ SubtreeEnd(p, k) \in k..Len(p)
         /\ \A j \in (k + 1)..SubtreeEnd(p, k) : p[j].level > p[k].level
         /\ SubtreeEnd(p, k) < Len(p) => p[SubtreeEnd(p, k) + 1].level <= p[k].level
<1> DEFINE within == {i \in k..Len(p) : \A j \in (k + 1)..i : p[j].level > p[k].level}
           e == SubtreeEnd(p, k)
<1>1. /\ Len(p) \in Nat /\ k \in 1..Len(p)
      /\ \A i \in 1..Len(p) : p[i].level \in Nat
  BY TreeLevels
<1>2. k \in within
  BY <1>1
<1>3. within \in SUBSET (0..Len(p)) /\ within # {}
  BY <1>1, <1>2
<1>4. e \in within /\ \A i \in within : e >= i
  BY <1>1, <1>3, LargestNumber DEF SubtreeEnd
<1> HIDE DEF e
<1>5. e \in k..Len(p) /\ \A j \in (k + 1)..e : p[j].level > p[k].level
  BY <1>4
<1>6. ASSUME e < Len(p) PROVE p[e + 1].level <= p[k].level
  <2> SUFFICES ASSUME ~(p[e + 1].level <= p[k].level) PROVE FALSE
    OBVIOUS
  <2>1. e + 1 \in k..Len(p) /\ e + 1 \in 1..Len(p)
    BY <1>1, <1>5, <1>6
  <2>2. p[e + 1].level > p[k].level
    BY <1>1, <2>1
  <2>3. \A j \in (k + 1)..(e + 1) : j \in (k + 1)..e \/ j = e + 1
    BY <1>1, <1>5, SMTT(30)
  <2>4. e + 1 \in within
    BY <1>5, <2>1, <2>2, <2>3
  <2>5. QED
    BY <1>1, <1>4, <1>5, <2>4
<1>7. QED
  BY <1>5, <1>6 DEF e

---------------------------------------------------------------------------
(* Splicing keeps a tree a tree *)

(* Where a statement of p stands after the splice.                          *)
Shift(a, b, n, i) == IF i <= a THEN i ELSE i - b + 1 + a + n

(* A root of this level can stand between statements a and b.               *)
Fits(p, a, b, level) ==
  /\ a = 0 => level = 0
  /\ a > 0 => Grows(p[a], level)
  /\ b <= Len(p) => p[b].level <= level

LEMMA SplicePlaces ==
  ASSUME NEW p, IsSequence(p), NEW t, IsSequence(t),
         NEW a \in Nat, NEW b \in Nat, a < b, b <= Len(p) + 1,
         NEW i \in 1..Len(Splice(p, a, b, t))
  PROVE  \/ i \in 1..a /\ Splice(p, a, b, t)[i] = p[i]
         \/ i - a \in 1..Len(t) /\ Splice(p, a, b, t)[i] = t[i - a]
         \/ /\ i - a - Len(t) - 1 + b \in b..Len(p)
            /\ Splice(p, a, b, t)[i] = p[i - a - Len(t) - 1 + b]
<1> DEFINE q == Splice(p, a, b, t)
           n == Len(t)
<1>1. /\ Len(q) = a + n + (Len(p) + 1 - b)
      /\ \A m \in 1..a : q[m] = p[m]
      /\ \A m \in 1..n : q[a + m] = t[m]
      /\ \A m \in b..Len(p) : q[m - b + 1 + a + n] = p[m]
  <2>1. Spliced(p, a, b, t, q)
    BY SpliceShape, Zenon
  <2>2. QED
    BY <2>1 DEF Spliced
<1>2. n \in Nat /\ Len(p) \in Nat
  BY LengthOfSequence
<1> HIDE DEF q, n
<1>3. i \in Int /\ i >= 1 /\ i <= a + n + (Len(p) + 1 - b)
  BY <1>1, <1>2 DEF q
<1>4. CASE i <= a
  BY <1>1, <1>3, <1>4 DEF q
<1>5. CASE i > a /\ i <= a + n
  <2>1. i - a \in 1..n /\ a + (i - a) = i
    BY <1>2, <1>3, <1>5
  <2>2. q[a + (i - a)] = t[i - a]
    BY <1>1, <2>1
  <2>3. QED
    BY <2>1, <2>2 DEF q, n
<1>6. CASE i > a + n
  <2> DEFINE m == i - a - n - 1 + b
  <2>1. m \in b..Len(p) /\ m - b + 1 + a + n = i
    BY <1>2, <1>3, <1>6
  <2> HIDE DEF m
  <2>2. q[m - b + 1 + a + n] = p[m]
    BY <1>1, <2>1
  <2>3. q[i] = p[m]
    BY <2>1, <2>2
  <2>4. QED
    BY <2>1, <2>3 DEF q, n, m
<1>7. QED
  BY <1>2, <1>3, <1>4, <1>5, <1>6

LEMMA SpliceIsTree ==
  ASSUME NEW p, IsTree(p, 0), NEW l \in Nat, NEW t, IsTree(t, l),
         NEW a \in Nat, NEW b \in Nat, a < b, b <= Len(p) + 1,
         t # <<>> => Fits(p, a, b, l),
         t = <<>> /\ b <= Len(p) => Fits(p, a, b, p[b].level)
  PROVE  IsTree(Splice(p, a, b, t), 0)
<1> DEFINE q == Splice(p, a, b, t)
           n == Len(t)
<1>1. IsSequence(p) /\ IsSequence(t)
  BY DEF IsTree
<1>2. /\ IsSequence(q)
      /\ Len(q) = a + n + (Len(p) + 1 - b)
      /\ \A m \in 1..a : q[m] = p[m]
      /\ \A m \in 1..n : q[a + m] = t[m]
      /\ \A m \in b..Len(p) : q[m - b + 1 + a + n] = p[m]
  <2>1. Spliced(p, a, b, t, q)
    BY <1>1, SpliceShape, Zenon
  <2>2. QED
    BY <2>1 DEF Spliced
<1>3. /\ Len(p) \in Nat /\ DOMAIN p = 1..Len(p) /\ n \in Nat /\ DOMAIN t = 1..n
      /\ Len(q) \in Nat /\ DOMAIN q = 1..Len(q)
  BY <1>1, <1>2, LengthOfSequence
<1>4. \A i \in 1..Len(q) : \/ i \in 1..a /\ q[i] = p[i]
                           \/ i - a \in 1..n /\ q[i] = t[i - a]
                           \/ i - a - n - 1 + b \in b..Len(p) /\ q[i] = p[i - a - n - 1 + b]
  BY <1>1, SplicePlaces
<1>5. t # <<>> <=> n > 0
  BY <1>1, <1>3 DEF IsSequence
<1>6. /\ \A i \in 1..Len(p) : Proper(p[i]) /\ p[i].level \in Nat
      /\ \A i \in 1..n : Proper(t[i]) /\ t[i].level \in Nat /\ t[i].level >= l
      /\ \A i \in 1..(Len(p) - 1) : Grows(p[i], p[i+1].level)
      /\ \A i \in 1..(n - 1) : Grows(t[i], t[i+1].level)
      /\ Len(p) > 0 => p[1].level = 0
      /\ n > 0 => t[1].level = l
  <2>1. Len(p) > 0 => p # <<>>
    BY <1>1, <1>3 DEF IsSequence
  <2>2. QED
    BY <1>3, <1>5, <2>1 DEF IsTree, Proper
<1> HIDE DEF q, n
<1>7. \A i \in DOMAIN q : Proper(q[i]) /\ q[i].level >= 0
  <2> SUFFICES ASSUME NEW i \in 1..Len(q) PROVE Proper(q[i]) /\ q[i].level \in Nat
    BY <1>3
  <2>1. CASE i \in 1..a /\ q[i] = p[i]
    <3>1. i \in 1..Len(p)
      BY <1>3, <2>1
    <3>2. QED
      BY <3>1, <2>1, <1>6
  <2>2. CASE i - a \in 1..n /\ q[i] = t[i - a]
    BY <2>2, <1>6
  <2>3. CASE i - a - n - 1 + b \in b..Len(p) /\ q[i] = p[i - a - n - 1 + b]
    <3>1. i - a - n - 1 + b \in 1..Len(p)
      BY <1>3, <2>3
    <3>2. QED
      BY <3>1, <2>3, <1>6
  <2>4. QED
    BY <1>4, <2>1, <2>2, <2>3
<1>8. q # <<>> => q[1].level = 0
  <2> SUFFICES ASSUME q # <<>> PROVE q[1].level = 0
    OBVIOUS
  <2>1. Len(q) >= 1
    BY <1>2, <1>3 DEF IsSequence
  <2>2. CASE a > 0
    BY <2>2, <1>2, <1>3, <1>6
  <2>3. CASE a = 0 /\ n > 0
    <3>1. q[0 + 1] = t[1] /\ l = 0
      BY <2>3, <1>2, <1>3, <1>5 DEF Fits
    <3>2. QED
      BY <3>1, <2>3, <1>6
  <2>4. CASE a = 0 /\ n = 0
    <3>1. b \in b..Len(p) /\ b - b + 1 + a + n = 1
      BY <2>1, <2>4, <1>2, <1>3
    <3>2. q[b - b + 1 + a + n] = p[b]
      BY <3>1, <1>2
    <3>3. p[b].level = 0
      BY <2>4, <3>1, <1>3, <1>5 DEF Fits
    <3>4. QED
      BY <3>1, <3>2, <3>3
  <2>5. QED
    BY <1>3, <2>2, <2>3, <2>4
<1>9. ASSUME NEW i \in 1..(Len(q) - 1) PROVE Grows(q[i], q[i+1].level)
  <2>1. i \in Nat /\ i >= 1 /\ i + 1 <= a + n + (Len(p) + 1 - b)
    BY <1>2, <1>3, SMTT(30)
  <2>2. CASE i < a
    <3>1. i \in 1..a /\ i + 1 \in 1..a /\ i \in 1..(Len(p) - 1)
      BY <1>3, <2>1, <2>2
    <3>2. QED
      BY <3>1, <1>2, <1>6
  <2>3. CASE i = a /\ n > 0
    <3>1. a \in 1..a /\ 1 \in 1..n /\ Fits(p, a, b, l)
      BY <1>3, <1>5, <2>1, <2>3
    <3>2. q[a] = p[a] /\ q[a + 1] = t[1]
      BY <3>1, <1>2
    <3>3. Grows(p[a], l) /\ t[1].level = l
      BY <3>1, <2>3, <1>6 DEF Fits
    <3>4. QED
      BY <3>2, <3>3, <2>3
  <2>4. CASE i = a /\ n = 0
    <3>1. b \in b..Len(p) /\ b - b + 1 + a + n = i + 1
      BY <1>3, <2>1, <2>4
    <3>2. q[b - b + 1 + a + n] = p[b] /\ q[a] = p[a]
      BY <3>1, <1>2, <2>1, <2>4
    <3>3. Fits(p, a, b, p[b].level) /\ a > 0
      BY <2>1, <2>4, <3>1, <1>3, <1>5
    <3>4. Grows(p[a], p[b].level)
      BY <3>3 DEF Fits
    <3>5. q[i] = p[a] /\ q[i + 1] = p[b]
      BY <3>1, <3>2, <2>4
    <3>6. QED
      BY <3>4, <3>5
  <2>5. CASE i > a /\ i < a + n
    <3> DEFINE m == i - a
    <3>1. m \in 1..(n - 1) /\ m \in 1..n /\ m + 1 \in 1..n /\ a + m = i /\ a + (m + 1) = i + 1
      <4>1. i \in Nat /\ n \in Nat
        BY <1>3, <2>1
      <4>2. QED
        BY <4>1, <2>5
    <3> HIDE DEF m
    <3>2. q[a + m] = t[m] /\ q[a + (m + 1)] = t[m + 1]
      BY <3>1, <1>2
    <3>3. QED
      BY <3>1, <3>2, <1>6
  <2>6. CASE i > a /\ i = a + n
    <3>1. n \in 1..n /\ b \in b..Len(p) /\ b - b + 1 + a + n = i + 1
      BY <1>3, <2>1, <2>6
    <3>2. q[a + n] = t[n] /\ q[b - b + 1 + a + n] = p[b]
      BY <3>1, <1>2
    <3>3. p[b].level <= l /\ l <= t[n].level
      BY <3>1, <1>3, <1>5, <1>6, <2>6 DEF Fits
    <3>4. p[b].level \in Nat /\ t[n].level \in Nat
      BY <3>1, <1>3, <1>6
    <3>5. Grows(t[n], p[b].level)
      BY <3>3, <3>4 DEF Grows
    <3>6. q[i] = t[n] /\ q[i+1] = p[b]
      BY <3>1, <3>2, <2>6
    <3>7. QED
      BY <3>5, <3>6
  <2>7. CASE i > a + n
    <3> DEFINE m == i - a - n - 1 + b
    <3>1. /\ m \in b..Len(p) /\ m + 1 \in b..Len(p) /\ m \in 1..(Len(p) - 1)
          /\ m - b + 1 + a + n = i /\ (m + 1) - b + 1 + a + n = i + 1
      BY <1>3, <2>1, <2>7
    <3> HIDE DEF m
    <3>2. q[m - b + 1 + a + n] = p[m] /\ q[(m + 1) - b + 1 + a + n] = p[m + 1]
      BY <3>1, <1>2
    <3>3. QED
      BY <3>1, <3>2, <1>6
  <2>8. QED
    BY <1>3, <2>1, <2>2, <2>3, <2>4, <2>5, <2>6, <2>7
<1>10. QED
  BY <1>2, <1>7, <1>8, <1>9 DEF IsTree, q

(* q is p with t grafted in: what goes was a subtree or nothing, and what   *)
(* comes is no higher than what follows.                                    *)
Graft(p, a, b, t, q) ==
  /\ IsTree(p, 0) /\ IsTree(q, 0)
  /\ a \in Nat /\ b \in Nat /\ a < b /\ b <= Len(p) + 1 /\ Len(t) \in Nat
  /\ Spliced(p, a, b, t, q)
  /\ b <= Len(p) => /\ \A j \in (a + 1)..(b - 1) : p[b].level <= p[j].level
                    /\ \A m \in 1..Len(t) : p[b].level <= t[m].level

Stays(p, a, b, i) == i \in 1..Len(p) /\ i \notin (a + 1)..(b - 1)

LEMMA ShiftedPlace ==
  ASSUME NEW p, NEW t, NEW q, NEW a, NEW b, Graft(p, a, b, t, q),
         NEW i, Stays(p, a, b, i)
  PROVE  /\ Shift(a, b, Len(t), i) \in DOMAIN q
         /\ q[Shift(a, b, Len(t), i)] = p[i]
         /\ i \in 1..a \/ i \in b..Len(p)
<1>1. /\ Len(p) \in Nat /\ Len(q) \in Nat /\ DOMAIN q = 1..Len(q)
  BY TreeLevels DEF Graft
<1>2. /\ Len(q) = a + Len(t) + (Len(p) + 1 - b)
      /\ \A m \in 1..a : q[m] = p[m]
      /\ \A m \in b..Len(p) : q[m - b + 1 + a + Len(t)] = p[m]
      /\ a \in Nat /\ b \in Nat /\ a < b /\ b <= Len(p) + 1 /\ Len(t) \in Nat
  BY DEF Graft, Spliced
<1>3. i \in 1..a \/ i \in b..Len(p)
  BY <1>1, <1>2 DEF Stays
<1>4. CASE i \in 1..a
  BY <1>1, <1>2, <1>4 DEF Shift
<1>5. CASE i \in b..Len(p)
  <2>1. Shift(a, b, Len(t), i) = i - b + 1 + a + Len(t)
    BY <1>1, <1>2, <1>5 DEF Shift
  <2>2. i - b + 1 + a + Len(t) \in 1..Len(q)
    <3>1. PICK k, m, n \in Nat : k = Len(p) /\ m = Len(q) /\ n = Len(t)
      BY <1>1, <1>2
    <3>2. m = a + n + (k + 1 - b) /\ a \in Nat /\ b \in Nat /\ i \in b..k
      BY <1>2, <1>5, <3>1
    <3>3. i - b + 1 + a + n \in 1..m
      BY <3>2
    <3>4. QED
      BY <3>1, <3>3
  <2>3. QED
    BY <1>1, <1>2, <1>5, <2>1, <2>2
<1>6. QED
  BY <1>3, <1>4, <1>5

LEMMA ShiftKeepsOrder ==
  ASSUME NEW p, NEW t, NEW q, NEW a, NEW b, Graft(p, a, b, t, q),
         NEW i, Stays(p, a, b, i), NEW j, Stays(p, a, b, j), i < j
  PROVE  Shift(a, b, Len(t), i) < Shift(a, b, Len(t), j)
<1>1. /\ a \in Nat /\ b \in Nat /\ a < b /\ Len(t) \in Nat /\ Len(p) \in Nat
      /\ i \in 1..Len(p) /\ j \in 1..Len(p)
      /\ i \notin (a + 1)..(b - 1) /\ j \notin (a + 1)..(b - 1)
  BY TreeLevels DEF Graft, Stays
<1>2. QED
  BY <1>1 DEF Shift

(* A statement that stays keeps its parent.                                 *)
LEMMA GraftKeepsParent ==
  ASSUME NEW p, NEW t, NEW q, NEW a, NEW b, Graft(p, a, b, t, q),
         NEW i, Stays(p, a, b, i), NEW r, HasParent(p, r, i)
  PROVE  /\ Stays(p, a, b, r)
         /\ HasParent(q, Shift(a, b, Len(t), r), Shift(a, b, Len(t), i))
<1> DEFINE n == Len(t)
           si == Shift(a, b, n, i)
           sr == Shift(a, b, n, r)
<1>1. /\ Len(p) \in Nat /\ Len(q) \in Nat /\ DOMAIN q = 1..Len(q) /\ DOMAIN p = 1..Len(p)
      /\ \A j \in 1..Len(p) : p[j].level \in Nat
  BY TreeLevels DEF Graft
<1>2. /\ \A m \in 1..a : q[m] = p[m]
      /\ \A m \in 1..n : q[a + m] = t[m]
      /\ \A m \in b..Len(p) : q[m - b + 1 + a + n] = p[m]
      /\ a \in Nat /\ b \in Nat /\ a < b /\ b <= Len(p) + 1 /\ n \in Nat
      /\ b <= Len(p) => /\ \A j \in (a + 1)..(b - 1) : p[b].level <= p[j].level
                        /\ \A m \in 1..n : p[b].level <= t[m].level
  BY DEF Graft, Spliced
<1>3. /\ r \in 1..(i - 1) /\ p[r].level < p[i].level
      /\ \A j \in (r + 1)..(i - 1) : p[j].level >= p[i].level
  BY DEF HasParent
<1>4. i \in 1..Len(p) /\ i \notin (a + 1)..(b - 1) /\ r \in 1..Len(p)
  BY <1>1, <1>3 DEF Stays
<1>5. i >= b /\ r < b => b <= Len(p) /\ p[b].level >= p[i].level
  <2>1. CASE i = b
    BY <2>1, <1>1, <1>4
  <2>2. CASE i > b /\ r < b
    <3>1. b \in (r + 1)..(i - 1)
      BY <2>2, <1>1, <1>2, <1>3, <1>4
    <3>2. QED
      BY <3>1, <2>2, <1>1, <1>2, <1>3, <1>4
  <2>3. QED
    BY <2>1, <2>2, <1>1, <1>2, <1>4
<1>6. r \notin (a + 1)..(b - 1)
  <2> SUFFICES ASSUME r \in (a + 1)..(b - 1) PROVE FALSE
    OBVIOUS
  <2>1. i >= b /\ r < b
    BY <1>1, <1>2, <1>3, <1>4
  <2>2. p[b].level <= p[r].level /\ p[b].level \in Nat /\ p[r].level \in Nat /\ p[i].level \in Nat
    BY <1>1, <1>2, <1>4, <1>5, <2>1
  <2>3. QED
    BY <1>3, <1>5, <2>1, <2>2
<1>7. Stays(p, a, b, r)
  BY <1>4, <1>6 DEF Stays
<1>8. /\ q[si] = p[i] /\ si \in DOMAIN q
      /\ q[sr] = p[r] /\ sr \in DOMAIN q
      /\ sr < si
  <2>1. r < i
    BY <1>3, <1>4
  <2>2. QED
    BY <2>1, <1>7, ShiftedPlace, ShiftKeepsOrder
<1>9. /\ i \in 1..a => si = i
      /\ i \in b..Len(p) => si = i - b + 1 + a + n
      /\ r \in 1..a => sr = r
      /\ r \in b..Len(p) => sr = r - b + 1 + a + n
      /\ i \in 1..a \/ i \in b..Len(p)
      /\ r \in 1..a \/ r \in b..Len(p)
  BY <1>1, <1>2, <1>4, <1>6 DEF Shift
<1> HIDE DEF si, sr, n
<1>10. sr \in 1..(si - 1)
  BY <1>1, <1>8
<1>11. ASSUME NEW k \in (sr + 1)..(si - 1) PROVE q[k].level >= p[i].level
  <2>1. k \in Int /\ k > sr /\ k < si /\ sr >= 1
    BY <1>1, <1>8, <1>11
  <2>2. CASE k <= a
    <3>1. r \in 1..a /\ sr = r
      BY <1>1, <1>2, <1>9, <2>1, <2>2
    <3>2. k < i
      BY <1>1, <1>2, <1>9, <2>1, <2>2
    <3>3. k \in (r + 1)..(i - 1) /\ q[k] = p[k]
      BY <3>1, <3>2, <1>2, <1>4, <2>1, <2>2
    <3>4. QED
      BY <3>3, <1>3
  <2>3. CASE k > a /\ k <= a + n
    <3>1. r < b /\ i >= b
      BY <1>1, <1>2, <1>9, <2>1, <2>3
    <3>2. k - a \in 1..n /\ a + (k - a) = k
      BY <1>2, <2>1, <2>3
    <3>3. q[k] = t[k - a]
      BY <3>2, <1>2
    <3>4. p[b].level <= t[k - a].level /\ p[b].level >= p[i].level
      BY <3>1, <3>2, <1>2, <1>5
    <3>5. p[b].level \in Nat /\ p[i].level \in Nat /\ t[k - a].level \in Int
      <4>1. k \in DOMAIN q
        BY <1>1, <1>2, <1>8, <2>1, <2>3
      <4>2. q[k].level \in Nat
        BY <4>1, <1>1, TreeLevels DEF Graft
      <4>3. QED
        BY <4>2, <3>1, <3>3, <1>1, <1>2, <1>4, <1>5
    <3>6. QED
      BY <3>3, <3>4, <3>5
  <2>4. CASE k > a + n
    <3> DEFINE m == k - a - n - 1 + b
    <3>1. i \in b..Len(p) /\ si = i - b + 1 + a + n
      BY <1>1, <1>2, <1>9, <2>1, <2>4
    <3>2. m \in b..Len(p) /\ m - b + 1 + a + n = k /\ m < i /\ m > r
      BY <3>1, <1>1, <1>2, <1>4, <1>9, <2>1, <2>4
    <3> HIDE DEF m
    <3>3. q[m - b + 1 + a + n] = p[m]
      BY <3>2, <1>2
    <3>4. m \in (r + 1)..(i - 1)
      BY <3>2, <1>1, <1>2, <1>4, SMTT(30)
    <3>5. QED
      BY <3>2, <3>3, <3>4, <1>3
  <2>5. QED
    BY <1>2, <2>1, <2>2, <2>3, <2>4
<1>12. HasParent(q, sr, si)
  BY <1>3, <1>8, <1>10, <1>11 DEF HasParent
<1>13. QED
  BY <1>7, <1>12 DEF sr, si, n

UniqueIds(p) == \A i, j \in DOMAIN p : p[i].id = p[j].id => i = j

LEMMA PositionIs ==
  ASSUME NEW p, UniqueIds(p), NEW i \in DOMAIN p
  PROVE  Position(p, p[i].id) = i
BY DEF UniqueIds, Position

(* Statements that stay keep their order, their parents and their branches. *)
LEMMA GraftKeepsPlaces ==
  ASSUME NEW p, NEW t, NEW q, NEW a, NEW b, Graft(p, a, b, t, q),
         UniqueIds(p), UniqueIds(q),
         NEW ids, \A id \in ids : \E i : Stays(p, a, b, i) /\ p[i].id = id
  PROVE  KeepsPlaces(p, q, ids)
<1> DEFINE n == Len(t)
<1>1. /\ IsTree(p, 0) /\ IsTree(q, 0)
      /\ Len(p) \in Nat /\ DOMAIN p = 1..Len(p) /\ DOMAIN q = 1..Len(q) /\ Len(q) \in Nat
  BY TreeLevels DEF Graft
<1>2. ASSUME NEW i, Stays(p, a, b, i)
      PROVE  /\ i \in DOMAIN p /\ Position(p, p[i].id) = i
             /\ Shift(a, b, n, i) \in DOMAIN q /\ q[Shift(a, b, n, i)] = p[i]
             /\ Position(q, p[i].id) = Shift(a, b, n, i)
  <2>1. i \in DOMAIN p /\ Shift(a, b, n, i) \in DOMAIN q /\ q[Shift(a, b, n, i)] = p[i]
    BY <1>1, <1>2, ShiftedPlace DEF Stays
  <2>2. Position(p, p[i].id) = i
    BY <2>1, PositionIs
  <2>3. Position(q, q[Shift(a, b, n, i)].id) = Shift(a, b, n, i)
    BY <2>1, PositionIs
  <2>4. QED
    BY <2>1, <2>2, <2>3
<1>3. ASSUME NEW i, Stays(p, a, b, i)
      PROVE  ParentOf(q, p[i].id) = ParentOf(p, p[i].id)
  <2> DEFINE si == Shift(a, b, n, i)
  <2>1. ParentOf(p, p[i].id) = IF Parent(p, i) = 0 THEN None ELSE p[Parent(p, i)].id
    BY <1>2, <1>3 DEF ParentOf
  <2>2. ParentOf(q, p[i].id) = IF Parent(q, si) = 0 THEN None ELSE q[Parent(q, si)].id
    BY <1>2, <1>3 DEF ParentOf
  <2>3. i \in DOMAIN p /\ si \in DOMAIN q /\ q[si] = p[i]
    BY <1>2, <1>3
  <2> HIDE DEF si
  <2>4. CASE p[i].level = 0
    <3>1. Parent(p, i) = 0 /\ Parent(q, si) = 0
      BY <2>3, <2>4 DEF Parent
    <3>2. QED
      BY <3>1, <2>1, <2>2
  <2>5. CASE p[i].level # 0
    <3> DEFINE r == Parent(p, i)
    <3>1. HasParent(p, r, i)
      BY <2>3, <2>5, <1>1, ParentFound
    <3> HIDE DEF r
    <3>2. Stays(p, a, b, r) /\ HasParent(q, Shift(a, b, n, r), si)
      BY <3>1, <1>3, GraftKeepsParent DEF si
    <3>3. Parent(q, si) = Shift(a, b, n, r)
      BY <3>2, <2>3, <1>1, ParentIs
    <3>4. q[Shift(a, b, n, r)] = p[r] /\ Shift(a, b, n, r) \in 1..Len(q) /\ r \in 1..Len(p)
      BY <3>2, <1>1, <1>2
    <3>5. Shift(a, b, n, r) # 0 /\ r # 0
      BY <3>4, <1>1
    <3>6. QED
      BY <3>3, <3>4, <3>5, <2>1, <2>2 DEF r
  <2>6. QED
    BY <2>4, <2>5
<1>4. ASSUME NEW id \in ids
      PROVE  /\ ParentOf(q, id) = ParentOf(p, id)
             /\ q[Position(q, id)].branch = p[Position(p, id)].branch
             /\ \A other \in ids : Position(p, id) < Position(p, other)
                                     => Position(q, id) < Position(q, other)
  <2>1. PICK i : Stays(p, a, b, i) /\ p[i].id = id
    BY <1>4
  <2>2. ParentOf(q, id) = ParentOf(p, id)
    BY <2>1, <1>3
  <2>3. q[Position(q, id)].branch = p[Position(p, id)].branch
    BY <2>1, <1>2
  <2>4. ASSUME NEW other \in ids, Position(p, id) < Position(p, other)
        PROVE  Position(q, id) < Position(q, other)
    <3>1. PICK j : Stays(p, a, b, j) /\ p[j].id = other
      BY <2>4
    <3>2. i < j
      BY <2>1, <2>4, <3>1, <1>2
    <3>3. Shift(a, b, n, i) < Shift(a, b, n, j)
      BY <2>1, <3>1, <3>2, ShiftKeepsOrder
    <3>4. QED
      BY <2>1, <3>1, <3>3, <1>2
  <2>5. QED
    BY <2>2, <2>3, <2>4
<1>5. QED
  BY <1>4, Zenon DEF KeepsPlaces

---------------------------------------------------------------------------
(* Branches that are filled *)

HasChild(p, i, branch) == \E j \in DOMAIN p : p[j].branch = branch /\ HasParent(p, i, j)

FilledAt(p, i) ==
  /\ p[i].kind = "control" => HasChild(p, i, "then")
  /\ p[i].kind = "on_event" => HasChild(p, i, "event")

LEMMA BranchHasChild ==
  ASSUME NEW p, IsTree(p, 0), NEW i \in DOMAIN p, NEW branch
  PROVE  Branch(p, i, branch) # {} <=> HasChild(p, i, branch)
<1>1. Len(p) \in Nat /\ DOMAIN p = 1..Len(p) /\ i # 0
  BY TreeLevels
<1>2. ASSUME NEW j \in DOMAIN p, Parent(p, j) = i PROVE HasParent(p, i, j)
  <2>1. p[j].level # 0
    BY <1>1, <1>2 DEF Parent
  <2>2. QED
    BY <2>1, <1>2, ParentFound
<1>3. ASSUME NEW j \in DOMAIN p, HasParent(p, i, j) PROVE Parent(p, j) = i
  BY <1>3, ParentIs
<1>4. QED
  BY <1>2, <1>3 DEF Branch, HasChild

LEMMA FilledEverywhere ==
  ASSUME NEW p, IsTree(p, 0)
  PROVE  BranchesFilled(p) <=> p # <<>> /\ \A i \in DOMAIN p : FilledAt(p, i)
<1>1. \A i \in DOMAIN p : /\ Branch(p, i, "then") # {} <=> HasChild(p, i, "then")
                          /\ Branch(p, i, "event") # {} <=> HasChild(p, i, "event")
  BY BranchHasChild
<1>2. QED
  BY <1>1 DEF BranchesFilled, FilledAt

(* What goes is replaced, if it is anything, by a tree in the same branch.  *)
Replaces(p, a, b, t) ==
  \/ b = a + 1
  \/ /\ a + 1 < b /\ Len(t) > 0
     /\ t[1].branch = p[a + 1].branch /\ t[1].level = p[a + 1].level
     /\ \A j \in (a + 2)..(b - 1) : p[j].level > p[a + 1].level

LEMMA GraftKeepsChild ==
  ASSUME NEW p, NEW t, NEW q, NEW a, NEW b, Graft(p, a, b, t, q), Replaces(p, a, b, t),
         NEW i, Stays(p, a, b, i), NEW branch, HasChild(p, i, branch)
  PROVE  HasChild(q, Shift(a, b, Len(t), i), branch)
<1>1. /\ Len(p) \in Nat /\ DOMAIN p = 1..Len(p) /\ Len(q) \in Nat /\ DOMAIN q = 1..Len(q)
      /\ \A k \in 1..Len(p) : p[k].level \in Nat
      /\ a \in Nat /\ b \in Nat /\ a < b /\ b <= Len(p) + 1 /\ Len(t) \in Nat
      /\ Len(q) = a + Len(t) + (Len(p) + 1 - b)
      /\ \A m \in 1..a : q[m] = p[m]
      /\ \A m \in 1..Len(t) : q[a + m] = t[m]
  BY TreeLevels DEF Graft, Spliced
<1>2. PICK j \in DOMAIN p : p[j].branch = branch /\ HasParent(p, i, j)
  BY DEF HasChild
<1>3. CASE Stays(p, a, b, j)
  <2>1. HasParent(q, Shift(a, b, Len(t), i), Shift(a, b, Len(t), j))
    BY <1>2, <1>3, GraftKeepsParent
  <2>2. Shift(a, b, Len(t), j) \in DOMAIN q /\ q[Shift(a, b, Len(t), j)] = p[j]
    BY <1>3, ShiftedPlace
  <2>3. QED
    BY <1>2, <2>1, <2>2 DEF HasChild
<1>4. CASE ~Stays(p, a, b, j)
  <2>1. j \in (a + 1)..(b - 1) /\ j \in 1..Len(p)
    BY <1>1, <1>2, <1>4 DEF Stays
  <2>2. /\ i \in 1..(j - 1) /\ p[i].level < p[j].level
        /\ \A k \in (i + 1)..(j - 1) : p[k].level >= p[j].level
    BY <1>2 DEF HasParent
  <2>3. /\ a + 1 < b /\ Len(t) > 0
        /\ t[1].branch = p[a + 1].branch /\ t[1].level = p[a + 1].level
        /\ \A k \in (a + 2)..(b - 1) : p[k].level > p[a + 1].level
    BY <1>1, <2>1 DEF Replaces
  <2>4. i \in 1..a
    BY <1>1, <2>1, <2>2, SMTT(30) DEF Stays
  <2>5. j = a + 1
    <3> SUFFICES ASSUME j # a + 1 PROVE FALSE
      OBVIOUS
    <3>1. j \in (a + 2)..(b - 1) /\ a + 1 \in (i + 1)..(j - 1) /\ a + 1 \in 1..Len(p)
      BY <1>1, <2>1, <2>4, SMTT(30)
    <3>2. p[j].level > p[a + 1].level /\ p[a + 1].level >= p[j].level
      BY <3>1, <2>2, <2>3
    <3>3. QED
      BY <3>1, <3>2, <1>1, <2>1, SMTT(30)
  <2>6. a + 1 \in DOMAIN q /\ q[a + 1] = t[1] /\ Shift(a, b, Len(t), i) = i
    <3>1. 1 \in 1..Len(t) /\ a + 1 \in 1..Len(q)
      BY <1>1, <2>3
    <3>2. q[a + 1] = t[1]
      BY <3>1, <1>1
    <3>3. Shift(a, b, Len(t), i) = i
      BY <1>1, <2>4 DEF Shift
    <3>4. QED
      BY <1>1, <3>1, <3>2, <3>3
  <2>7. \A k \in 1..a : q[k] = p[k]
    BY <1>1
  <2>8. HasParent(q, i, a + 1)
    BY <1>1, <2>2, <2>3, <2>4, <2>5, <2>6, <2>7, SMTT(30) DEF HasParent
  <2>9. QED
    BY <1>2, <2>3, <2>5, <2>6, <2>8 DEF HasChild
<1>5. QED
  BY <1>3, <1>4

LEMMA GraftIsFilled ==
  ASSUME NEW p, NEW t, NEW q, NEW a, NEW b, Graft(p, a, b, t, q), Replaces(p, a, b, t),
         Len(q) > 0,
         \A i \in DOMAIN p : FilledAt(p, i), \A m \in 1..Len(t) : FilledAt(t, m),
         DOMAIN t = 1..Len(t)
  PROVE  BranchesFilled(q)
<1>1. /\ Len(p) \in Nat /\ DOMAIN p = 1..Len(p) /\ Len(q) \in Nat /\ DOMAIN q = 1..Len(q)
      /\ a \in Nat /\ b \in Nat /\ a < b /\ b <= Len(p) + 1 /\ Len(t) \in Nat
      /\ Len(q) = a + Len(t) + (Len(p) + 1 - b)
      /\ \A m \in 1..Len(t) : q[a + m] = t[m]
      /\ IsSequence(q) /\ IsTree(q, 0)
  BY TreeLevels DEF Graft, Spliced
<1>2. ASSUME NEW i, Stays(p, a, b, i) PROVE FilledAt(q, Shift(a, b, Len(t), i))
  <2>1. q[Shift(a, b, Len(t), i)] = p[i] /\ FilledAt(p, i)
    BY <1>1, <1>2, ShiftedPlace DEF Stays
  <2>2. \A branch : HasChild(p, i, branch) => HasChild(q, Shift(a, b, Len(t), i), branch)
    BY <1>2, GraftKeepsChild
  <2>3. QED
    BY <2>1, <2>2 DEF FilledAt
<1>3. ASSUME NEW m \in 1..Len(t), NEW branch, HasChild(t, m, branch) PROVE HasChild(q, a + m, branch)
  <2>1. PICK j \in 1..Len(t) : t[j].branch = branch /\ HasParent(t, m, j)
    BY <1>3 DEF HasChild
  <2>2. /\ m \in 1..(j - 1) /\ t[m].level < t[j].level
        /\ \A k \in (m + 1)..(j - 1) : t[k].level >= t[j].level
    BY <2>1 DEF HasParent
  <2>3. q[a + j] = t[j] /\ q[a + m] = t[m] /\ a + j \in DOMAIN q /\ a + m \in 1..(a + j - 1)
    BY <1>1, <2>1, <2>2
  <2>4. ASSUME NEW k \in (a + m + 1)..(a + j - 1) PROVE q[k].level >= t[j].level
    <3>1. k - a \in (m + 1)..(j - 1) /\ k - a \in 1..Len(t) /\ a + (k - a) = k
      BY <1>1, <2>1, <2>2, <2>4
    <3>2. q[a + (k - a)] = t[k - a]
      BY <3>1, <1>1
    <3>3. QED
      BY <3>1, <3>2, <2>2
  <2>5. HasParent(q, a + m, a + j)
    <3>1. \A k \in (a + m + 1)..(a + j - 1) : q[k].level >= q[a + j].level
      BY <2>3, <2>4
    <3>2. q[a + m].level < q[a + j].level
      BY <2>2, <2>3
    <3>3. a + m \in 1..(a + j - 1)
      BY <2>3
    <3>4. a + m \in Int /\ a + j \in Int /\ a + (j - 1) = (a + j) - 1
      BY <1>1
    <3>5. QED
      BY <3>1, <3>2, <3>3, <3>4 DEF HasParent
  <2>6. QED
    BY <2>1, <2>3, <2>5 DEF HasChild
<1>4. ASSUME NEW m \in 1..Len(t) PROVE FilledAt(q, a + m)
  BY <1>1, <1>3, <1>4 DEF FilledAt
<1>5. ASSUME NEW k \in DOMAIN q PROVE FilledAt(q, k)
  <2>1. k \in Nat /\ k >= 1 /\ k <= a + Len(t) + (Len(p) + 1 - b)
    BY <1>1
  <2>2. CASE k <= a
    <3>1. Stays(p, a, b, k) /\ Shift(a, b, Len(t), k) = k
      BY <1>1, <2>1, <2>2 DEF Stays, Shift
    <3>2. QED
      BY <3>1, <1>2
  <2>3. CASE k > a /\ k <= a + Len(t)
    <3>1. k - a \in 1..Len(t) /\ a + (k - a) = k
      BY <1>1, <2>1, <2>3
    <3>2. FilledAt(q, a + (k - a))
      BY <3>1, <1>4
    <3>3. QED
      BY <3>1, <3>2
  <2>4. CASE k > a + Len(t)
    <3> DEFINE m == k - a - Len(t) - 1 + b
    <3>1. m \in b..Len(p) /\ m \in 1..Len(p) /\ m > a /\ m - b + 1 + a + Len(t) = k
      <4>1. /\ a \in Nat /\ b \in Nat /\ Len(t) \in Nat /\ Len(p) \in Nat /\ k \in Nat
            /\ a < b /\ k > a + Len(t) /\ k <= a + Len(t) + (Len(p) + 1 - b)
        BY <1>1, <2>1, <2>4
      <4>2. m \in Int /\ m >= b /\ m <= Len(p)
        BY <4>1
      <4>3. m > a /\ m >= 1 /\ m - b + 1 + a + Len(t) = k
        BY <4>1, SMTT(30)
      <4>4. QED
        BY <4>1, <4>2, <4>3
    <3> HIDE DEF m
    <3>2. Stays(p, a, b, m) /\ Shift(a, b, Len(t), m) = k
      BY <3>1, <1>1 DEF Stays, Shift
    <3>3. QED
      BY <3>2, <1>2
  <2>5. QED
    BY <1>1, <2>1, <2>2, <2>3, <2>4
<1>6. q # <<>>
  BY <1>1 DEF IsSequence
<1>7. QED
  BY <1>1, <1>5, <1>6, FilledEverywhere

---------------------------------------------------------------------------
(* The n-th of a set of positions *)

UpTo(S, i) == {j \in S : j <= i}

CountsOff(S) ==
  /\ Cardinality(S) \in Nat
  /\ \A i \in S : Cardinality(UpTo(S, i)) \in 1..Cardinality(S)
  /\ \A i, j \in S : i < j => Cardinality(UpTo(S, i)) < Cardinality(UpTo(S, j))
  /\ \A n \in 1..Cardinality(S) : \E i \in S : Cardinality(UpTo(S, i)) = n

LEMMA PositionsCountOff ==
  ASSUME NEW l \in Nat, NEW S \in SUBSET (1..l)
  PROVE  CountsOff(S)
<1>1. IsFiniteSet(S) /\ Cardinality(S) \in Nat /\ S \subseteq Int
  <2>1. IsFiniteSet(1..l)
    BY FS_Interval
  <2>2. IsFiniteSet(S)
    BY <2>1, FS_Subset
  <2>3. S \subseteq Int
    OBVIOUS
  <2>4. QED
    BY <2>2, <2>3, FS_CardinalityType
<1>2. \A i \in S : UpTo(S, i) \subseteq S /\ i \in UpTo(S, i)
  BY <1>1 DEF UpTo
<1>3. ASSUME NEW i \in S
      PROVE  IsFiniteSet(UpTo(S, i)) /\ Cardinality(UpTo(S, i)) \in 1..Cardinality(S)
  <2>a. IsFiniteSet(UpTo(S, i)) /\ Cardinality(UpTo(S, i)) <= Cardinality(S)
    BY <1>1, <1>2, FS_Subset
  <2>1. IsFiniteSet(UpTo(S, i)) /\ Cardinality(UpTo(S, i)) <= Cardinality(S)
        /\ Cardinality(UpTo(S, i)) \in Nat
    BY <2>a, FS_CardinalityType
  <2>2. Cardinality(UpTo(S, i)) # 0
    BY <1>2, <2>1, FS_EmptySet
  <2>3. \A c, d \in Nat : c <= d /\ c # 0 => c \in 1..d
    OBVIOUS
  <2>4. Cardinality(UpTo(S, i)) \in 1..Cardinality(S)
    BY <1>1, <2>1, <2>2, <2>3
  <2>5. QED
    BY <2>1, <2>4
<1>4. ASSUME NEW i \in S, NEW j \in S, i < j
      PROVE  Cardinality(UpTo(S, i)) < Cardinality(UpTo(S, j))
  <2>0. /\ j <= j /\ ~(j <= i)
        /\ \A m \in S : m <= i => m <= j
    BY <1>1, <1>4
  <2>1. UpTo(S, i) \subseteq UpTo(S, j) /\ j \in UpTo(S, j) /\ j \notin UpTo(S, i)
    BY <2>0, Zenon DEF UpTo
  <2>2. /\ Cardinality(UpTo(S, i)) <= Cardinality(UpTo(S, j))
        /\ Cardinality(UpTo(S, i)) = Cardinality(UpTo(S, j)) => UpTo(S, i) = UpTo(S, j)
    BY <2>1, <1>3, FS_Subset
  <2>3. Cardinality(UpTo(S, i)) \in Int /\ Cardinality(UpTo(S, j)) \in Int
    BY <1>1, <1>3
  <2>4. QED
    BY <2>1, <2>2, <2>3
<1> DEFINE rank == [i \in S |-> Cardinality(UpTo(S, i))]
<1>5. rank \in Injection(S, 1..Cardinality(S))
  <2>1. rank \in [S -> 1..Cardinality(S)]
    BY <1>3
  <2>2. \A i, j \in S : rank[i] = rank[j] => i = j
    <3> SUFFICES ASSUME NEW i \in S, NEW j \in S, rank[i] = rank[j], i # j PROVE FALSE
      OBVIOUS
    <3>1. Cardinality(UpTo(S, i)) = Cardinality(UpTo(S, j)) /\ Cardinality(UpTo(S, i)) \in Int
      BY <1>1, <1>3
    <3>2. i < j \/ j < i
      BY <1>1
    <3>3. QED
      BY <1>4, <3>1, <3>2
  <2> HIDE DEF rank
  <2>3. DOMAIN rank = S
    BY <2>1
  <2>4. IsInjective(rank)
    BY <2>2, <2>3, Zenon DEF IsInjective
  <2>5. QED
    BY <2>1, <2>4, Zenon DEF Injection
<1>6. IsFiniteSet(1..Cardinality(S)) /\ Cardinality(1..Cardinality(S)) = Cardinality(S)
  BY <1>1, FS_Interval
<1> HIDE DEF rank
<1>7. rank \in Surjection(S, 1..Cardinality(S))
  BY <1>1, <1>5, <1>6, FS_Injection
<1>8. \A n \in 1..Cardinality(S) : \E i \in S : rank[i] = n
  BY <1>7 DEF Surjection
<1>9. \A n \in 1..Cardinality(S) : \E i \in S : Cardinality(UpTo(S, i)) = n
  BY <1>8 DEF rank
<1>10. QED
  BY <1>1, <1>3, <1>4, <1>9 DEF CountsOff

(* A place in front of a statement of a branch.                             *)
LEMMA NthOfBranch ==
  ASSUME NEW l \in Nat, NEW S \in SUBSET (1..l), NEW n \in Nat, n < Cardinality(S)
  PROVE  (CHOOSE i \in S : Cardinality({j \in S : j < i}) = n) \in S
<1>1. CountsOff(S)
  BY PositionsCountOff
<1>2. n + 1 \in 1..Cardinality(S)
  BY <1>1 DEF CountsOff
<1>3. PICK i \in S : Cardinality(UpTo(S, i)) = n + 1
  BY <1>1, <1>2 DEF CountsOff
<1>4. {j \in S : j < i} = UpTo(S, i) \ {i} /\ i \in UpTo(S, i)
  <2>1. i \in Int /\ \A j \in S : j \in Int
    OBVIOUS
  <2>2. \A j \in S : j < i <=> (j <= i /\ j # i)
    BY <2>1
  <2>3. i <= i
    BY <2>1
  <2>4. {j \in S : j < i} = UpTo(S, i) \ {i}
    <3>1. ASSUME NEW x PROVE x \in {j \in S : j < i} <=> x \in UpTo(S, i) \ {i}
      BY <2>2, Zenon DEF UpTo
    <3>2. QED
      BY <3>1, Zenon
  <2>5. i \in UpTo(S, i)
    BY <2>3 DEF UpTo
  <2>6. QED
    BY <2>4, <2>5
<1>5. IsFiniteSet(UpTo(S, i))
  <2>1. IsFiniteSet(1..l)
    BY FS_Interval
  <2>2. UpTo(S, i) \subseteq 1..l
    BY DEF UpTo
  <2>3. QED
    BY <2>1, <2>2, FS_Subset
<1>6. Cardinality({j \in S : j < i}) = Cardinality(UpTo(S, i)) - 1
  BY <1>4, <1>5, FS_RemoveElement
<1>7. Cardinality({j \in S : j < i}) = n
  BY <1>3, <1>6
<1>8. QED
  BY <1>7, Zenon

---------------------------------------------------------------------------
(* The ways a program is rewritten, as grafts *)

LEMMA GraftOf ==
  ASSUME NEW p, IsTree(p, 0), NEW l \in Nat, NEW t, IsTree(t, l),
         NEW a \in Nat, NEW b \in Nat, a < b, b <= Len(p) + 1,
         t # <<>> => Fits(p, a, b, l),
         t = <<>> /\ b <= Len(p) => Fits(p, a, b, p[b].level),
         b <= Len(p) => \A j \in (a + 1)..(b - 1) : p[b].level <= p[j].level
  PROVE  Graft(p, a, b, t, Splice(p, a, b, t))
<1>1. IsTree(Splice(p, a, b, t), 0)
  BY SpliceIsTree
<1>2. IsSequence(p) /\ IsSequence(t)
  BY DEF IsTree
<1>3. Spliced(p, a, b, t, Splice(p, a, b, t))
  BY <1>2, SpliceShape, Zenon
<1>4. Len(t) \in Nat /\ DOMAIN t = 1..Len(t) /\ Len(p) \in Nat
  BY <1>2, LengthOfSequence
<1>5. ASSUME b <= Len(p), NEW m \in 1..Len(t) PROVE p[b].level <= t[m].level
  <2>1. t # <<>>
    BY <1>4, <1>5
  <2>2. p[b].level <= l
    BY <1>5, <2>1 DEF Fits
  <2>3. t[m].level >= l /\ t[m].level \in Nat
    BY <1>4, <1>5 DEF IsTree, Proper
  <2>4. p[b].level \in Nat
    <3>1. \A i \in 1..Len(p) : p[i].level \in Nat
      BY TreeLevels
    <3>2. b \in 1..Len(p)
      BY <1>4, <1>5
    <3>3. QED
      BY <3>1, <3>2
  <2>5. QED
    BY <2>2, <2>3, <2>4
<1>6. QED
  BY <1>1, <1>3, <1>4, <1>5 DEF Graft

(* q is the tree t with its roots at level l of a branch.                   *)
PlacedAs(t, l, branch, q) ==
  /\ IsTree(q, l) /\ Len(q) = Len(t)
  /\ q = <<>> <=> t = <<>>
  /\ \A m \in 1..Len(t) :
       q[m] = [t[m] EXCEPT !.level = t[m].level + l,
                           !.branch = IF t[m].level = 0 THEN branch ELSE t[m].branch]

(* The statements that enter the branch belong there.                       *)
FitsBranch(t, branch) ==
  branch \in PolicyBranches => \A m \in 1..Len(t) : t[m].level = 0 => t[m].kind = "allocate"

LEMMA PlacedIsTree ==
  ASSUME NEW t, IsTree(t, 0), NEW l \in Nat, NEW branch, FitsBranch(t, branch)
  PROVE  PlacedAs(t, l, branch, Placed(t, l, branch))
<1> DEFINE q == Placed(t, l, branch)
<1>1. /\ Len(t) \in Nat /\ DOMAIN t = 1..Len(t)
      /\ \A m \in 1..Len(t) : t[m].level \in Nat /\ Proper(t[m])
      /\ \A m \in 1..(Len(t) - 1) : Grows(t[m], t[m+1].level)
      /\ t # <<>> => t[1].level = 0
  <2>1. \A m \in DOMAIN t : Proper(t[m]) /\ t[m].level \in Nat
    BY DEF IsTree, Proper
  <2>2. QED
    BY <2>1, TreeLevels DEF IsTree
<1>2. /\ DOMAIN q = 1..Len(t)
      /\ q = [m \in 1..Len(t) |->
                [t[m] EXCEPT !.level = t[m].level + l,
                             !.branch = IF t[m].level = 0 THEN branch ELSE t[m].branch]]
  BY <1>1 DEF Placed
<1>3. q \in Seq({q[m] : m \in 1..Len(t)}) /\ Len(q) = Len(t)
  <2>1. q \in [1..Len(t) -> {q[m] : m \in 1..Len(t)}]
    BY <1>2, Zenon
  <2> HIDE DEF q
  <2>2. QED
    BY <2>1, <1>1
<1> HIDE DEF q
<1>4. ASSUME NEW m \in 1..Len(t)
      PROVE  /\ Proper(q[m]) /\ q[m].level = t[m].level + l /\ q[m].kind = t[m].kind
             /\ q[m].level \in Nat /\ q[m].level >= l
  <2>1. /\ DOMAIN q[m] = StatementFields
        /\ q[m].level = t[m].level + l
        /\ q[m].kind = t[m].kind /\ q[m].universe = t[m].universe /\ q[m].legs = t[m].legs
        /\ q[m].branch = IF t[m].level = 0 THEN branch ELSE t[m].branch
    BY <1>1, <1>2, <1>4 DEF Proper, StatementFields
  <2>2. q[m].level \in Nat /\ q[m].level >= l
    BY <1>1, <1>4, <2>1
  <2>3. q[m].branch \in PolicyBranches => q[m].kind = "allocate"
    BY <1>1, <2>1 DEF Proper, FitsBranch
  <2>4. QED
    BY <1>1, <1>4, <2>1, <2>2, <2>3 DEF Proper
<1>5. ASSUME NEW m \in 1..(Len(t) - 1) PROVE Grows(q[m], q[m+1].level)
  <2>1. m \in 1..Len(t) /\ m + 1 \in 1..Len(t)
    BY <1>1, <1>5
  <2>2. Grows(t[m], t[m+1].level)
    BY <1>1, <1>5
  <2>3. t[m].level \in Nat /\ t[m+1].level \in Nat
    BY <1>1, <2>1
  <2>4. /\ q[m].level = t[m].level + l /\ q[m+1].level = t[m+1].level + l
        /\ q[m].kind = t[m].kind
    BY <1>4, <2>1
  <2>5. CASE t[m+1].level <= t[m].level
    <3>1. q[m+1].level <= q[m].level
      BY <2>3, <2>4, <2>5
    <3>2. QED
      BY <3>1 DEF Grows
  <2>6. CASE t[m+1].level = t[m].level + 1 /\ t[m].kind \in Owning
    <3>1. q[m+1].level = q[m].level + 1 /\ q[m].kind \in Owning
      BY <2>3, <2>4, <2>6
    <3>2. QED
      BY <3>1 DEF Grows
  <2>7. QED
    BY <2>2, <2>5, <2>6 DEF Grows
<1>6. q = <<>> <=> t = <<>>
  <2>1. t \in Seq({t[m] : m \in 1..Len(t)})
    BY <1>1 DEF IsTree, IsSequence
  <2>2. t = <<>> <=> Len(t) = 0
    BY <2>1
  <2>3. q = <<>> <=> Len(q) = 0
    BY <1>3
  <2>4. QED
    BY <1>3, <2>2, <2>3
<1>7. q # <<>> => q[1].level = l
  <2> SUFFICES ASSUME q # <<>> PROVE q[1].level = l
    OBVIOUS
  <2>1. 1 \in 1..Len(t) /\ t[1].level = 0
    BY <1>1, <1>6 DEF IsTree, IsSequence
  <2>2. QED
    BY <1>4, <2>1
<1>8. IsTree(q, l)
  <2>1. IsSequence(q)
    BY <1>3 DEF IsSequence
  <2>2. QED
    BY <1>2, <1>3, <1>4, <1>5, <1>7, <2>1 DEF IsTree
<1>9. QED
  BY <1>2, <1>3, <1>6, <1>8 DEF q, PlacedAs

LEMMA EmptyIsTree ==
  ASSUME NEW l \in Nat
  PROVE  IsTree(<<>>, l) /\ IsSequence(<<>>) /\ Len(<<>>) = 0
<1>1. IsSequence(<<>>)
  <2>1. <<>> \in Seq({})
    OBVIOUS
  <2>2. QED
    BY <2>1, Zenon DEF IsSequence
<1>2. Len(<<>>) = 0 /\ DOMAIN <<>> = {}
  OBVIOUS
<1>3. QED
  BY <1>1, <1>2 DEF IsTree

(* Where a subtree stood, a tree of the same level can stand, or nothing.   *)
LEMMA SubtreePlace ==
  ASSUME NEW p, IsTree(p, 0), NEW k \in DOMAIN p
  PROVE  /\ k - 1 \in Nat /\ SubtreeEnd(p, k) + 1 \in Nat
         /\ k \in 1..Len(p) /\ SubtreeEnd(p, k) \in k..Len(p)
         /\ k - 1 < SubtreeEnd(p, k) + 1 /\ SubtreeEnd(p, k) + 1 <= Len(p) + 1
         /\ Fits(p, k - 1, SubtreeEnd(p, k) + 1, p[k].level)
         /\ SubtreeEnd(p, k) + 1 <= Len(p) =>
              Fits(p, k - 1, SubtreeEnd(p, k) + 1, p[SubtreeEnd(p, k) + 1].level)
         /\ SubtreeEnd(p, k) + 1 <= Len(p) =>
              \A j \in ((k - 1) + 1)..((SubtreeEnd(p, k) + 1) - 1) :
                p[SubtreeEnd(p, k) + 1].level <= p[j].level
         /\ \A j \in ((k - 1) + 2)..((SubtreeEnd(p, k) + 1) - 1) : p[j].level > p[k].level
<1>1. /\ Len(p) \in Nat /\ DOMAIN p = 1..Len(p) /\ k \in 1..Len(p)
      /\ \A i \in 1..Len(p) : p[i].level \in Nat
      /\ \A i \in 1..Len(p) : i - 1 \in 1..Len(p) => Grows(p[i-1], p[i].level)
  BY TreeLevels
<1>2. PICK e : e = SubtreeEnd(p, k)
  OBVIOUS
<1>3. /\ e \in k..Len(p)
      /\ \A j \in (k + 1)..e : p[j].level > p[k].level
      /\ e < Len(p) => p[e + 1].level <= p[k].level
  BY <1>2, SubtreeEndIs
<1>4. p[1].level = 0
  <2>1. p # <<>>
    BY <1>1
  <2>2. QED
    BY <2>1 DEF IsTree
<1>5. /\ k - 1 \in Nat /\ e + 1 \in Nat /\ k - 1 < e + 1 /\ e + 1 <= Len(p) + 1
      /\ (k - 1) + 1 = k /\ (k - 1) + 2 = k + 1 /\ (e + 1) - 1 = e
  BY <1>1, <1>3
<1>6. e + 1 <= Len(p) => e < Len(p) /\ e + 1 \in 1..Len(p)
  BY <1>1, <1>3
<1>7. k - 1 > 0 => k - 1 \in 1..Len(p)
  BY <1>1, <1>3
<1>8. Fits(p, k - 1, e + 1, p[k].level)
  <2>1. k - 1 = 0 => p[k].level = 0
    <3>1. k - 1 = 0 => k = 1
      BY <1>1
    <3>2. QED
      BY <3>1, <1>4
  <2>2. k - 1 > 0 => Grows(p[k-1], p[k].level)
    BY <1>1, <1>7
  <2>3. QED
    BY <2>1, <2>2, <1>3, <1>6 DEF Fits
<1>9. ASSUME e + 1 <= Len(p)
      PROVE  Fits(p, k - 1, e + 1, p[e + 1].level)
  <2>1. p[e + 1].level <= p[k].level /\ p[e + 1].level \in Nat /\ p[k].level \in Nat
    BY <1>1, <1>3, <1>6, <1>9
  <2>2. k - 1 = 0 => p[e + 1].level = 0
    <3>1. k - 1 = 0 => p[k].level = 0
      BY <1>8 DEF Fits
    <3>2. QED
      BY <3>1, <2>1
  <2>3. k - 1 > 0 => Grows(p[k-1], p[e + 1].level)
    <3>1. k - 1 > 0 => Grows(p[k-1], p[k].level) /\ p[k-1].level \in Nat
      BY <1>1, <1>7
    <3>2. QED
      BY <3>1, <2>1 DEF Grows
  <2>4. QED
    BY <2>1, <2>2, <2>3 DEF Fits
<1>10. ASSUME e + 1 <= Len(p), NEW j \in k..e
       PROVE  p[e + 1].level <= p[j].level
  <2>1. p[e + 1].level <= p[k].level /\ p[e + 1].level \in Nat /\ p[k].level \in Nat
    BY <1>1, <1>3, <1>6, <1>10
  <2>2. j = k \/ j \in (k + 1)..e
    BY <1>1, <1>3
  <2>3. j \in 1..Len(p)
    BY <1>1, <1>3
  <2>4. p[j].level \in Nat
    BY <1>1, <2>3
  <2>5. p[j].level >= p[k].level
    BY <2>1, <2>2, <2>4, <1>3
  <2>6. QED
    BY <2>1, <2>4, <2>5
<1>11. QED
  BY <1>1, <1>2, <1>3, <1>5, <1>8, <1>9, <1>10

LEMMA CutGraft ==
  ASSUME NEW p, IsTree(p, 0), NEW k \in DOMAIN p
  PROVE  Graft(p, k - 1, SubtreeEnd(p, k) + 1, <<>>, Cut(p, k))
<1>1. IsTree(<<>>, 0)
  BY EmptyIsTree
<1>2. PICK a, b : a = k - 1 /\ b = SubtreeEnd(p, k) + 1
  OBVIOUS
<1>3. /\ a \in Nat /\ b \in Nat /\ a < b /\ b <= Len(p) + 1
      /\ b <= Len(p) => Fits(p, a, b, p[b].level)
      /\ b <= Len(p) => \A j \in (a + 1)..(b - 1) : p[b].level <= p[j].level
  BY <1>2, SubtreePlace
<1>4. Graft(p, a, b, <<>>, Splice(p, a, b, <<>>))
  BY <1>1, <1>3, GraftOf
<1>5. Splice(p, a, b, <<>>) = Cut(p, k)
  <2>1. PICK S : p \in Seq(S)
    BY DEF IsTree, IsSequence
  <2>2. SubSeq(p, 1, a) \in Seq(S) /\ Len(p) \in Nat
    BY <2>1, <1>3
  <2>3. \A x \in Seq(S) : x \o <<>> = x
    OBVIOUS
  <2>4. QED
    BY <1>2, <2>2, <2>3 DEF Splice, Cut
<1>6. QED
  BY <1>2, <1>4, <1>5

LEMMA SwapGraft ==
  ASSUME NEW p, IsTree(p, 0), NEW k \in DOMAIN p, NEW tree, IsTree(tree, 0), tree # <<>>,
         FitsBranch(tree, p[k].branch)
  PROVE  LET t == Placed(tree, p[k].level, p[k].branch) IN
         /\ Graft(p, k - 1, SubtreeEnd(p, k) + 1, t, Swap(p, k, tree))
         /\ Replaces(p, k - 1, SubtreeEnd(p, k) + 1, t)
<1>1. PICK a, b, t : /\ a = k - 1 /\ b = SubtreeEnd(p, k) + 1
                     /\ t = Placed(tree, p[k].level, p[k].branch)
  OBVIOUS
<1>2. /\ a \in Nat /\ b \in Nat /\ a < b /\ b <= Len(p) + 1 /\ k \in 1..Len(p)
      /\ b - 1 \in k..Len(p)
      /\ Fits(p, a, b, p[k].level)
      /\ b <= Len(p) => \A j \in (a + 1)..(b - 1) : p[b].level <= p[j].level
      /\ \A j \in (a + 2)..(b - 1) : p[j].level > p[k].level
  <2>1. SubtreeEnd(p, k) \in k..Len(p) /\ k \in 1..Len(p)
    BY SubtreePlace
  <2>2. b - 1 \in k..Len(p)
    BY <1>1, <2>1
  <2>3. QED
    BY <1>1, <2>2, SubtreePlace
<1>3. p[k].level \in Nat
  BY <1>2, TreeLevels
<1>4. /\ IsTree(t, p[k].level) /\ t # <<>> /\ Len(t) = Len(tree)
      /\ \A m \in 1..Len(tree) :
            t[m] = [tree[m] EXCEPT !.level = tree[m].level + p[k].level,
                                   !.branch = IF tree[m].level = 0 THEN p[k].branch ELSE tree[m].branch]
  <2>1. PlacedAs(tree, p[k].level, p[k].branch, t)
    BY <1>1, <1>3, PlacedIsTree, Zenon
  <2>2. QED
    BY <2>1 DEF PlacedAs
<1>5. Graft(p, a, b, t, Splice(p, a, b, t))
  BY <1>2, <1>3, <1>4, GraftOf
<1>6. Splice(p, a, b, t) = Swap(p, k, tree)
  BY <1>1 DEF Splice, Swap
<1>7. t[1].branch = p[k].branch /\ t[1].level = p[k].level /\ Len(t) > 0
  <2>1. Len(tree) \in Nat /\ Len(tree) # 0
    BY DEF IsTree, IsSequence
  <2>2. 1 \in 1..Len(tree) /\ 1 \in DOMAIN tree
    BY <2>1, TreeLevels
  <2>3. tree[1].level = 0 /\ DOMAIN tree[1] = StatementFields
    BY <2>2 DEF IsTree, Proper
  <2>4. t[1] = [tree[1] EXCEPT !.level = 0 + p[k].level, !.branch = p[k].branch]
    BY <1>4, <2>2, <2>3
  <2>5. t[1].branch = p[k].branch /\ t[1].level = 0 + p[k].level
    BY <2>3, <2>4 DEF StatementFields
  <2>6. Len(t) = Len(tree)
    BY <1>4, Zenon
  <2>7. QED
    BY <1>3, <2>1, <2>5, <2>6
<1>8. Replaces(p, a, b, t)
  <2>1. a + 1 = k /\ a + 1 <= b
    BY <1>1, <1>2
  <2>2. QED
    BY <1>2, <1>7, <2>1 DEF Replaces
<1>9. QED
  BY <1>1, <1>5, <1>6, <1>8

LEMMA EndGraft ==
  ASSUME NEW p, IsTree(p, 0), NEW l \in Nat, NEW t, IsTree(t, l),
         p = <<>> => l = 0, p # <<>> => Grows(p[Len(p)], l)
  PROVE  Graft(p, Len(p), Len(p) + 1, t, p \o t)
<1>1. PICK S, T : p \in Seq(S) /\ t \in Seq(T)
  BY DEF IsTree, IsSequence
<1>2. p \in Seq(S \cup T) /\ t \in Seq(S \cup T)
  BY <1>1, SeqMonotonic
<1>3. PICK n : n = Len(p)
  OBVIOUS
<1>4. n \in Nat /\ (n = 0 <=> p = <<>>)
  BY <1>1, <1>3
<1>5. Fits(p, n, n + 1, l)
  BY <1>3, <1>4 DEF Fits
<1>6. Graft(p, n, n + 1, t, Splice(p, n, n + 1, t))
  <2>1. n + 1 \in Nat /\ n < n + 1 /\ n + 1 <= Len(p) + 1 /\ ~(n + 1 <= Len(p))
    BY <1>3, <1>4
  <2>2. QED
    BY <1>4, <1>5, <2>1, GraftOf
<1>7. Splice(p, n, n + 1, t) = p \o t
  <2>1. SubSeq(p, 1, n) = p
    BY <1>1, <1>3, SubSeqFull
  <2>2. SubSeq(p, n + 1, n) = <<>>
    BY <1>1, <1>3, <1>4, SubSeqEmpty
  <2>3. p \o t \o <<>> = p \o t
    BY <1>2
  <2>4. QED
    BY <1>3, <2>1, <2>2, <2>3 DEF Splice
<1>8. QED
  BY <1>3, <1>6, <1>7

(* A statement of a branch is one level below the branch's owner.           *)
LevelOf(p, parent) == IF parent = 0 THEN 0 ELSE p[parent].level + 1

LEMMA BranchLevel ==
  ASSUME NEW p, IsTree(p, 0), NEW parent, NEW branch, Owns(p, parent, branch),
         NEW i \in Branch(p, parent, branch)
  PROVE  i \in 1..Len(p) /\ p[i].level = LevelOf(p, parent)
<1>1. /\ Len(p) \in Nat /\ DOMAIN p = 1..Len(p)
      /\ \A k \in 1..Len(p) : p[k].level \in Nat
  BY TreeLevels
<1>2. i \in DOMAIN p /\ Parent(p, i) = parent
  BY DEF Branch
<1>3. CASE p[i].level = 0
  <2>1. parent = 0
    BY <1>2, <1>3 DEF Parent
  <2>2. QED
    BY <1>1, <1>2, <1>3, <2>1 DEF LevelOf
<1>4. CASE p[i].level # 0
  <2>1. HasParent(p, parent, i)
    BY <1>2, <1>4, ParentFound
  <2>2. p[i].level = p[parent].level + 1
    BY <1>2, <2>1, ParentOneUp
  <2>3. parent # 0
    BY <1>1, <1>2, <2>1 DEF HasParent
  <2>4. QED
    BY <1>1, <1>2, <2>2, <2>3 DEF LevelOf
<1>5. QED
  BY <1>3, <1>4

(* After the subtree of a statement, another of its level.                  *)
LEMMA AfterSubtree ==
  ASSUME NEW p, IsTree(p, 0), NEW k \in DOMAIN p
  PROVE  Fits(p, SubtreeEnd(p, k), SubtreeEnd(p, k) + 1, p[k].level)
<1>1. /\ Len(p) \in Nat /\ DOMAIN p = 1..Len(p) /\ k \in 1..Len(p)
      /\ \A i \in 1..Len(p) : p[i].level \in Nat
  BY TreeLevels
<1>2. PICK e : e = SubtreeEnd(p, k)
  OBVIOUS
<1>3. /\ e \in k..Len(p)
      /\ \A j \in (k + 1)..e : p[j].level > p[k].level
      /\ e < Len(p) => p[e + 1].level <= p[k].level
  BY <1>2, SubtreeEndIs
<1>4. e \in 1..Len(p) /\ (e = k \/ e \in (k + 1)..e)
  BY <1>1, <1>3
<1>5. p[k].level <= p[e].level
  BY <1>1, <1>3, <1>4
<1>6. e + 1 <= Len(p) => e < Len(p)
  BY <1>1, <1>3
<1>7. QED
  BY <1>2, <1>3, <1>4, <1>5, <1>6 DEF Fits, Grows

(* After it, a statement of its own branches: one that can have others      *)
(* below it.                                                                *)
LEMMA EndOfSubtree ==
  ASSUME NEW p, IsTree(p, 0), NEW k \in DOMAIN p, p[k].kind \in Owning
  PROVE  Fits(p, SubtreeEnd(p, k), SubtreeEnd(p, k) + 1, p[k].level + 1)
<1>1. /\ Len(p) \in Nat /\ DOMAIN p = 1..Len(p) /\ k \in 1..Len(p)
      /\ \A i \in 1..Len(p) : p[i].level \in Nat
  BY TreeLevels
<1>2. PICK e : e = SubtreeEnd(p, k)
  OBVIOUS
<1>3. /\ e \in k..Len(p)
      /\ \A j \in (k + 1)..e : p[j].level > p[k].level
      /\ e < Len(p) => p[e + 1].level <= p[k].level
  BY <1>2, SubtreeEndIs
<1>4. e \in 1..Len(p) /\ (e = k \/ e \in (k + 1)..e)
  BY <1>1, <1>3
<1>5. Grows(p[e], p[k].level + 1)
  <2>1. CASE e = k
    BY <2>1 DEF Grows
  <2>2. CASE e \in (k + 1)..e
    <3>1. p[e].level > p[k].level
      BY <1>3, <2>2
    <3>2. p[k].level + 1 <= p[e].level
      BY <1>1, <1>4, <3>1
    <3>3. QED
      BY <3>2 DEF Grows
  <2>3. QED
    BY <1>4, <2>1, <2>2
<1>6. e + 1 <= Len(p) => p[e + 1].level <= p[k].level + 1
  <2> SUFFICES ASSUME e + 1 <= Len(p) PROVE p[e + 1].level <= p[k].level + 1
    OBVIOUS
  <2>1. e < Len(p) /\ e + 1 \in 1..Len(p)
    BY <1>1, <1>3
  <2>2. p[e + 1].level \in Nat /\ p[k].level \in Nat /\ p[e + 1].level <= p[k].level
    BY <1>1, <1>3, <2>1
  <2>3. QED
    BY <2>2
<1>7. e # 0
  BY <1>4
<1>8. QED
  BY <1>2, <1>4, <1>5, <1>6, <1>7 DEF Fits

LEMMA SlotFits ==
  ASSUME NEW p, IsTree(p, 0), NEW parent, NEW branch, Owns(p, parent, branch), NEW n \in Nat
  PROVE  /\ Slot(p, parent, branch, n) \in 1..(Len(p) + 1)
         /\ Fits(p, Slot(p, parent, branch, n) - 1, Slot(p, parent, branch, n), LevelOf(p, parent))
<1>1. /\ Len(p) \in Nat /\ DOMAIN p = 1..Len(p)
      /\ \A i \in 1..Len(p) : p[i].level \in Nat
      /\ \A i \in 1..Len(p) : i - 1 \in 1..Len(p) => Grows(p[i-1], p[i].level)
  BY TreeLevels
<1>2. PICK kids : kids = Branch(p, parent, branch)
  OBVIOUS
<1>3. /\ kids \in SUBSET (1..Len(p))
      /\ \A i \in kids : p[i].level = LevelOf(p, parent)
  <2>1. \A i \in kids : i \in 1..Len(p) /\ p[i].level = LevelOf(p, parent)
    BY <1>2, BranchLevel
  <2>2. QED
    BY <2>1
<1>4. CASE n < Cardinality(kids)
  <2>1. Slot(p, parent, branch, n) = CHOOSE i \in kids : Cardinality({j \in kids : j < i}) = n
    BY <1>2, <1>4 DEF Slot
  <2>2. PICK i \in kids : i = Slot(p, parent, branch, n)
    BY <1>1, <1>3, <1>4, <2>1, NthOfBranch
  <2>3. /\ i \in 1..Len(p) /\ i \in DOMAIN p /\ p[i].level = LevelOf(p, parent)
        /\ i - 1 > 0 => i - 1 \in 1..Len(p)
    BY <1>1, <1>3, <2>2
  <2>4. i - 1 = 0 => p[i].level = 0
    <3>1. p # <<>>
      BY <1>1, <2>3
    <3>2. p[1].level = 0
      BY <3>1 DEF IsTree
    <3>3. i - 1 = 0 => i = 1
      BY <2>3
    <3>4. QED
      BY <3>2, <3>3
  <2>5. p[i].level <= p[i].level
    BY <1>1, <2>3
  <2>6. Fits(p, i - 1, i, LevelOf(p, parent))
    BY <1>1, <2>3, <2>4, <2>5 DEF Fits
  <2>7. i \in 1..(Len(p) + 1)
    BY <1>1, <2>3
  <2>8. QED
    BY <2>2, <2>6, <2>7
<1>5. ASSUME ~(n < Cardinality(kids)), NEW k \in DOMAIN p,
             Slot(p, parent, branch, n) = 1 + SubtreeEnd(p, k),
             p[k].level = LevelOf(p, parent) \/ (p[k].level + 1 = LevelOf(p, parent) /\ p[k].kind \in Owning)
      PROVE  /\ Slot(p, parent, branch, n) \in 1..(Len(p) + 1)
             /\ Fits(p, Slot(p, parent, branch, n) - 1, Slot(p, parent, branch, n), LevelOf(p, parent))
  <2>1. Fits(p, SubtreeEnd(p, k), SubtreeEnd(p, k) + 1, LevelOf(p, parent))
    BY <1>5, AfterSubtree, EndOfSubtree
  <2>2. PICK e : e = SubtreeEnd(p, k)
    OBVIOUS
  <2>3. e \in 1..Len(p)
    <3>1. e \in k..Len(p) /\ k \in 1..Len(p)
      BY <2>2, SubtreePlace
    <3>2. QED
      BY <1>1, <3>1
  <2>4. (1 + e) - 1 = e /\ 1 + e = e + 1 /\ 1 + e \in 1..(Len(p) + 1)
    BY <1>1, <2>3
  <2>5. QED
    BY <1>5, <2>1, <2>2, <2>4
<1>6. CASE ~(n < Cardinality(kids)) /\ kids # {}
  <2>1. Slot(p, parent, branch, n) = 1 + SubtreeEnd(p, Max(kids))
    BY <1>2, <1>6 DEF Slot
  <2>2. kids \in SUBSET (0..Len(p))
    BY <1>1, <1>3
  <2>3. Max(kids) \in kids
    BY <1>1, <1>6, <2>2, LargestNumber
  <2>4. Max(kids) \in DOMAIN p /\ p[Max(kids)].level = LevelOf(p, parent)
    BY <1>1, <1>3, <2>3
  <2>5. QED
    BY <1>5, <1>6, <2>1, <2>4
<1>7. CASE ~(n < Cardinality(kids)) /\ kids = {} /\ parent # 0
  <2>1. Slot(p, parent, branch, n) = 1 + SubtreeEnd(p, parent)
    BY <1>2, <1>7 DEF Slot
  <2>2. parent \in DOMAIN p /\ p[parent].kind \in Owning
    BY <1>7 DEF Owns, Owning
  <2>3. p[parent].level + 1 = LevelOf(p, parent)
    BY <1>7 DEF LevelOf
  <2>4. QED
    BY <1>5, <1>7, <2>1, <2>2, <2>3
<1>8. CASE ~(n < Cardinality(kids)) /\ kids = {} /\ parent = 0
  <2>1. Slot(p, parent, branch, n) = 1 + Len(p)
    BY <1>2, <1>8 DEF Slot
  <2>2. LevelOf(p, parent) = 0
    BY <1>8 DEF LevelOf
  <2>3. Len(p) > 0 => Len(p) \in 1..Len(p) /\ p[Len(p)].level \in Nat
    BY <1>1
  <2>4. PICK a : a = Len(p)
    OBVIOUS
  <2>5. (1 + a) - 1 = a /\ ~(1 + a <= Len(p)) /\ 1 + a \in 1..(Len(p) + 1)
    BY <1>1, <2>4
  <2>6. a > 0 => 0 <= p[a].level
    BY <2>3, <2>4
  <2>7. Fits(p, a, 1 + a, 0)
    BY <2>5, <2>6 DEF Fits, Grows
  <2>8. QED
    BY <2>1, <2>2, <2>4, <2>5, <2>7
<1>9. QED
  BY <1>4, <1>6, <1>7, <1>8

LEMMA InsertGraft ==
  ASSUME NEW p, IsTree(p, 0), NEW parent, NEW branch, Owns(p, parent, branch), NEW n \in Nat,
         NEW tree, IsTree(tree, 0)
  PROVE  LET at == Slot(p, parent, branch, n) IN
         Graft(p, at - 1, at, Placed(tree, LevelOf(p, parent), branch),
               Insert(p, parent, branch, n, tree))
<1>1. PICK at, l, t : /\ at = Slot(p, parent, branch, n) /\ l = LevelOf(p, parent)
                      /\ t = Placed(tree, l, branch)
  OBVIOUS
<1>2. at \in 1..(Len(p) + 1) /\ Fits(p, at - 1, at, l)
  BY <1>1, SlotFits
<1>3. Len(p) \in Nat /\ \A i \in 1..Len(p) : p[i].level \in Nat
  BY TreeLevels
<1>4. /\ at - 1 \in Nat /\ at \in Nat /\ at - 1 < at /\ at <= Len(p) + 1
      /\ \A j : ~(j \in ((at - 1) + 1)..(at - 1))
  BY <1>2, <1>3
<1>5. l \in Nat
  <2>1. parent # 0 => parent \in DOMAIN p
    BY DEF Owns
  <2>2. parent # 0 => p[parent].level \in Nat
    BY <2>1, TreeLevels
  <2>3. QED
    BY <1>1, <2>2 DEF LevelOf
<1>6. PlacedAs(tree, l, branch, t)
  <2>1. FitsBranch(tree, branch)
    BY DEF FitsBranch, Owns, PolicyBranches
  <2>2. QED
    BY <1>1, <1>5, <2>1, PlacedIsTree, Zenon
<1>7. IsTree(t, l)
  BY <1>6 DEF PlacedAs
<1>8. t = <<>> /\ at <= Len(p) => Fits(p, at - 1, at, p[at].level)
  <2> SUFFICES ASSUME at <= Len(p) PROVE Fits(p, at - 1, at, p[at].level)
    OBVIOUS
  <2>1. /\ at \in 1..Len(p)
        /\ at - 1 > 0 => at - 1 \in 1..Len(p)
    BY <1>2, <1>3
  <2>2. p[at].level <= p[at].level
    BY <1>3, <2>1
  <2>3. at - 1 = 0 => p[at].level = 0
    <3>1. p # <<>>
      BY <1>3, <2>1
    <3>2. p[1].level = 0
      BY <3>1 DEF IsTree
    <3>3. at - 1 = 0 => at = 1
      BY <2>1
    <3>4. QED
      BY <3>2, <3>3
  <2>4. at - 1 > 0 => Grows(p[at - 1], p[at].level)
    BY <2>1, TreeLevels
  <2>5. QED
    BY <2>2, <2>3, <2>4 DEF Fits
<1>9. Graft(p, at - 1, at, t, Splice(p, at - 1, at, t))
  BY <1>2, <1>4, <1>5, <1>7, <1>8, GraftOf
<1>10. Splice(p, at - 1, at, t) = Insert(p, parent, branch, n, tree)
  BY <1>1 DEF Splice, Insert, LevelOf
<1>11. QED
  BY <1>1, <1>9, <1>10

(* A statement with everything below it, taken out, is a tree of its own.   *)
LEMMA SubtreeIsTree ==
  ASSUME NEW p, IsTree(p, 0), NEW k \in DOMAIN p
  PROVE  /\ IsTree(Subtree(p, k), 0)
         /\ Len(Subtree(p, k)) = SubtreeEnd(p, k) - k + 1
         /\ \A m \in 1..Len(Subtree(p, k)) :
              Subtree(p, k)[m] = [p[k + m - 1] EXCEPT !.level = p[k + m - 1].level - p[k].level]
<1> DEFINE q == Subtree(p, k)
<1>1. /\ Len(p) \in Nat /\ DOMAIN p = 1..Len(p) /\ k \in 1..Len(p)
      /\ \A i \in 1..Len(p) : p[i].level \in Nat
      /\ \A i \in 1..Len(p) : i - 1 \in 1..Len(p) => Grows(p[i-1], p[i].level)
      /\ \A i \in 1..Len(p) : Proper(p[i])
  <2>1. \A i \in DOMAIN p : Proper(p[i])
    BY DEF IsTree
  <2>2. QED
    BY <2>1, TreeLevels
<1>2. PICK e : e = SubtreeEnd(p, k)
  OBVIOUS
<1>3. /\ e \in k..Len(p)
      /\ \A j \in (k + 1)..e : p[j].level > p[k].level
  BY <1>2, SubtreeEndIs
<1>4. PICK n : n = e - k + 1
  OBVIOUS
<1>5. n \in Nat /\ n # 0
  BY <1>1, <1>3, <1>4
<1>6. q = [m \in 1..n |-> [p[k + m - 1] EXCEPT !.level = p[k + m - 1].level - p[k].level]]
  BY <1>2, <1>4 DEF Subtree
<1> HIDE DEF q
<1>7. q \in Seq({q[m] : m \in 1..n}) /\ Len(q) = n
  <2>1. q \in [1..n -> {q[m] : m \in 1..n}]
    BY <1>6, Zenon
  <2>2. QED
    BY <2>1, <1>5
<1>8. ASSUME NEW m \in 1..n
      PROVE  /\ k + m - 1 \in 1..Len(p)
             /\ p[k + m - 1].level >= p[k].level
  <2>1. k + m - 1 \in 1..Len(p) /\ (k + m - 1 = k \/ k + m - 1 \in (k + 1)..e)
    BY <1>1, <1>3, <1>4
  <2>2. p[k + m - 1].level \in Nat /\ p[k].level \in Nat
    BY <1>1, <2>1
  <2>3. QED
    BY <2>1, <2>2, <1>3
<1>9. ASSUME NEW m \in 1..n
      PROVE  /\ Proper(q[m]) /\ q[m].level = p[k + m - 1].level - p[k].level
             /\ q[m].kind = p[k + m - 1].kind /\ q[m].level \in Nat
  <2>1. PICK x, y : x = p[k + m - 1] /\ y = x.level - p[k].level
    OBVIOUS
  <2>2. q[m] = [x EXCEPT !.level = y]
    BY <1>6, <2>1
  <2>3. Proper(x) /\ x.level \in Nat /\ p[k].level \in Nat /\ x.level >= p[k].level
    BY <1>1, <1>8, <2>1
  <2>4. y \in Nat
    BY <2>1, <2>3
  <2>5. /\ DOMAIN q[m] = StatementFields /\ q[m].level = y
        /\ q[m].kind = x.kind /\ q[m].universe = x.universe /\ q[m].legs = x.legs
        /\ q[m].branch = x.branch
    BY <2>2, <2>3 DEF Proper, StatementFields
  <2>6. Proper(q[m])
    BY <2>3, <2>4, <2>5 DEF Proper
  <2>7. QED
    BY <2>1, <2>4, <2>5, <2>6
<1>10. ASSUME NEW m \in 1..(n - 1) PROVE Grows(q[m], q[m+1].level)
  <2>1. PICK i : i = k + m - 1
    OBVIOUS
  <2>2. m \in 1..n /\ m + 1 \in 1..n /\ k + (m + 1) - 1 = i + 1 /\ i \in Int
    BY <1>1, <1>5, <2>1
  <2>3. i \in 1..Len(p) /\ i + 1 \in 1..Len(p) /\ (i + 1) - 1 = i
    BY <1>8, <2>1, <2>2
  <2>4. Grows(p[i], p[i+1].level)
    BY <1>1, <2>3
  <2>5. /\ q[m].level = p[i].level - p[k].level /\ q[m+1].level = p[i+1].level - p[k].level
        /\ q[m].kind = p[i].kind
    BY <1>9, <2>1, <2>2
  <2>6. p[i].level \in Nat /\ p[i+1].level \in Nat /\ p[k].level \in Nat
    BY <1>1, <2>3
  <2>7. CASE p[i+1].level <= p[i].level
    <3>1. q[m+1].level <= q[m].level
      BY <2>5, <2>6, <2>7
    <3>2. QED
      BY <3>1 DEF Grows
  <2>8. CASE p[i+1].level = p[i].level + 1 /\ p[i].kind \in Owning
    <3>1. q[m+1].level = q[m].level + 1 /\ q[m].kind \in Owning
      BY <2>5, <2>6, <2>8
    <3>2. QED
      BY <3>1 DEF Grows
  <2>9. QED
    BY <2>4, <2>7, <2>8 DEF Grows
<1>11. q[1].level = 0
  <2>1. 1 \in 1..n /\ k + 1 - 1 = k
    BY <1>1, <1>5
  <2>2. q[1].level = p[k].level - p[k].level
    BY <1>9, <2>1
  <2>3. QED
    BY <2>2, <1>1
<1>12. IsTree(q, 0)
  <2>1. IsSequence(q) /\ DOMAIN q = 1..n
    BY <1>7, <1>5 DEF IsSequence
  <2>2. \A m \in 1..n : Proper(q[m]) /\ q[m].level >= 0
    BY <1>9
  <2>3. QED
    BY <1>7, <1>10, <1>11, <2>1, <2>2 DEF IsTree
<1>13. Len(q) = SubtreeEnd(p, k) - k + 1
  BY <1>2, <1>4, <1>7
<1>14. QED
  BY <1>6, <1>7, <1>12, <1>13 DEF q

(* A tree keeps its branches wherever it is placed.                         *)
LEMMA PlacedIsFilled ==
  ASSUME NEW t, IsTree(t, 0), NEW l \in Nat, NEW branch, NEW q, PlacedAs(t, l, branch, q),
         \A m \in 1..Len(t) : FilledAt(t, m)
  PROVE  \A m \in 1..Len(q) : FilledAt(q, m)
<1>1. /\ Len(t) \in Nat /\ DOMAIN t = 1..Len(t)
      /\ \A m \in 1..Len(t) : t[m].level \in Nat /\ DOMAIN t[m] = StatementFields
  <2>1. \A m \in DOMAIN t : DOMAIN t[m] = StatementFields
    BY DEF IsTree, Proper
  <2>2. QED
    BY <2>1, TreeLevels
<1>2. /\ Len(q) = Len(t) /\ IsSequence(q)
      /\ \A m \in 1..Len(t) :
            q[m] = [t[m] EXCEPT !.level = t[m].level + l,
                                !.branch = IF t[m].level = 0 THEN branch ELSE t[m].branch]
  BY DEF PlacedAs, IsTree
<1>3. DOMAIN q = 1..Len(t)
  BY <1>2, LengthOfSequence
<1>4. ASSUME NEW m \in 1..Len(t)
      PROVE  /\ q[m].level = t[m].level + l /\ q[m].kind = t[m].kind
             /\ t[m].level # 0 => q[m].branch = t[m].branch
  <2>1. q[m] = [t[m] EXCEPT !.level = t[m].level + l,
                            !.branch = IF t[m].level = 0 THEN branch ELSE t[m].branch]
    BY <1>2
  <2>2. DOMAIN t[m] = StatementFields
    BY <1>1
  <2>3. QED
    BY <2>1, <2>2 DEF StatementFields
<1>5. ASSUME NEW i \in 1..Len(t), NEW name, HasChild(t, i, name) PROVE HasChild(q, i, name)
  <2>1. PICK j \in 1..Len(t) : t[j].branch = name /\ HasParent(t, i, j)
    BY <1>1, <1>5 DEF HasChild
  <2>2. /\ i \in 1..(j - 1) /\ t[i].level < t[j].level
        /\ \A k \in (i + 1)..(j - 1) : t[k].level >= t[j].level
    BY <2>1 DEF HasParent
  <2>3. t[j].level # 0 /\ q[j].branch = name
    <3>1. t[i].level \in Nat /\ t[j].level \in Nat
      BY <1>1
    <3>2. t[j].level # 0
      BY <3>1, <2>2
    <3>3. QED
      BY <3>2, <2>1, <1>4
  <2>4. q[i].level < q[j].level
    BY <1>1, <1>4, <2>2
  <2>5. ASSUME NEW k \in (i + 1)..(j - 1) PROVE q[k].level >= q[j].level
    <3>1. k \in 1..Len(t)
      BY <1>1, <2>1
    <3>2. t[k].level >= t[j].level /\ t[k].level \in Nat /\ t[j].level \in Nat
      BY <1>1, <2>2, <3>1
    <3>3. q[k].level = t[k].level + l /\ q[j].level = t[j].level + l
      BY <1>4, <3>1
    <3>4. QED
      BY <3>2, <3>3
  <2>6. HasParent(q, i, j)
    BY <2>2, <2>4, <2>5 DEF HasParent
  <2>7. QED
    BY <1>3, <2>3, <2>6 DEF HasChild
<1>6. ASSUME NEW m \in 1..Len(t) PROVE FilledAt(q, m)
  <2>1. FilledAt(t, m) /\ q[m].kind = t[m].kind
    BY <1>4
  <2>2. \A name : HasChild(t, m, name) => HasChild(q, m, name)
    BY <1>5
  <2>3. QED
    BY <2>1, <2>2 DEF FilledAt
<1>7. QED
  BY <1>2, <1>6

---------------------------------------------------------------------------
(* Edits in place, and statements removed from the root branch *)

SameShape(p, q) ==
  /\ IsSequence(q) /\ Len(q) = Len(p)
  /\ \A i \in 1..Len(p) : /\ Proper(q[i])
                          /\ q[i].level = p[i].level /\ q[i].branch = p[i].branch
                          /\ q[i].kind = p[i].kind

LEMMA SameShapeIsTree ==
  ASSUME NEW p, IsTree(p, 0), NEW q, SameShape(p, q)
  PROVE  /\ IsTree(q, 0)
         /\ \A i, j \in 1..Len(p) : HasParent(p, i, j) => HasParent(q, i, j)
         /\ \A i \in 1..Len(p) : FilledAt(p, i) => FilledAt(q, i)
<1>1. /\ Len(p) \in Nat /\ DOMAIN p = 1..Len(p) /\ Len(q) = Len(p) /\ DOMAIN q = 1..Len(p)
      /\ \A i \in 1..Len(p) : /\ Proper(q[i])
                              /\ q[i].level = p[i].level /\ q[i].branch = p[i].branch
                              /\ q[i].kind = p[i].kind
  <2>1. DOMAIN q = 1..Len(q)
    BY LengthOfSequence DEF SameShape
  <2>2. QED
    BY <2>1, TreeLevels DEF SameShape
<1>2. IsTree(q, 0)
  <2>1. \A i \in DOMAIN q : Proper(q[i]) /\ q[i].level >= 0
    BY <1>1 DEF IsTree
  <2>2. q # <<>> => q[1].level = 0
    <3> SUFFICES ASSUME q # <<>> PROVE q[1].level = 0
      OBVIOUS
    <3>1. Len(q) # 0
      BY DEF SameShape, IsSequence
    <3>2. 1 \in 1..Len(p) /\ p # <<>>
      BY <1>1, <3>1
    <3>3. QED
      BY <3>2, <1>1 DEF IsTree
  <2>3. ASSUME NEW i \in 1..(Len(q) - 1) PROVE Grows(q[i], q[i+1].level)
    <3>1. i \in 1..Len(p) /\ i + 1 \in 1..Len(p) /\ i \in 1..(Len(p) - 1)
      BY <1>1
    <3>2. Grows(p[i], p[i+1].level)
      BY <3>1 DEF IsTree
    <3>3. QED
      BY <3>1, <3>2, <1>1 DEF Grows
  <2>4. QED
    BY <2>1, <2>2, <2>3 DEF IsTree, SameShape
<1>3. ASSUME NEW i \in 1..Len(p), NEW j \in 1..Len(p), HasParent(p, i, j) PROVE HasParent(q, i, j)
  <2>1. /\ i \in 1..(j - 1) /\ p[i].level < p[j].level
        /\ \A k \in (i + 1)..(j - 1) : p[k].level >= p[j].level
    BY <1>3 DEF HasParent
  <2>2. \A k \in (i + 1)..(j - 1) : k \in 1..Len(p)
    BY <1>1
  <2>3. QED
    BY <2>1, <2>2, <1>1 DEF HasParent
<1>4. ASSUME NEW i \in 1..Len(p), NEW branch, HasChild(p, i, branch) PROVE HasChild(q, i, branch)
  <2>1. PICK j \in 1..Len(p) : p[j].branch = branch /\ HasParent(p, i, j)
    BY <1>1, <1>4 DEF HasChild
  <2>2. QED
    BY <2>1, <1>1, <1>3 DEF HasChild
<1>5. ASSUME NEW i \in 1..Len(p), FilledAt(p, i) PROVE FilledAt(q, i)
  BY <1>1, <1>4, <1>5 DEF FilledAt
<1>6. QED
  BY <1>2, <1>3, <1>5

(* Every statement that is kept, in order.                                  *)
Kept(p, kept, q, e) ==
  /\ IsSequence(q) /\ Len(q) = Cardinality(kept) /\ Cardinality(kept) \in Nat
  /\ \A m \in 1..Len(q) : e[m] \in kept /\ q[m] = p[e[m]]
  /\ \A m, n \in 1..Len(q) : m < n => e[m] < e[n]
  /\ \A i \in kept : \E m \in 1..Len(q) : e[m] = i

LEMMA OnlyKeeps ==
  ASSUME NEW p, NEW l \in Nat, NEW kept \in SUBSET (1..l)
  PROVE  \E e : Kept(p, kept, Only(p, kept), e)
<1> DEFINE n == Cardinality(kept)
           rank(i) == Cardinality(UpTo(kept, i))
           e == [m \in 1..n |-> CHOOSE i \in kept : rank(i) = m]
           q == Only(p, kept)
<1>1. CountsOff(kept) /\ \A i \in kept : i \in Int
  BY PositionsCountOff
<1>2. /\ n \in Nat
      /\ \A i \in kept : rank(i) \in 1..n
      /\ \A i, j \in kept : i < j => rank(i) < rank(j)
      /\ \A m \in 1..n : \E i \in kept : rank(i) = m
  BY <1>1 DEF CountsOff
<1>3. q = [m \in 1..n |-> p[CHOOSE i \in kept : Cardinality({j \in kept : j <= i}) = m]]
  BY DEF Only
<1>4. \A m \in 1..n : q[m] = p[e[m]]
  BY <1>3 DEF UpTo
<1>5. q \in Seq({q[m] : m \in 1..n}) /\ Len(q) = n
  <2> HIDE DEF n, e
  <2>1. q \in [1..n -> {q[m] : m \in 1..n}]
    BY <1>3, Zenon
  <2> HIDE DEF q
  <2>2. QED
    BY <2>1, <1>2
<1> HIDE DEF q
<1>6. \A m \in 1..n : e[m] \in kept /\ rank(e[m]) = m
  <2> SUFFICES ASSUME NEW m \in 1..n PROVE e[m] \in kept /\ rank(e[m]) = m
    OBVIOUS
  <2>1. \E i \in kept : rank(i) = m
    BY <1>2
  <2> HIDE DEF rank
  <2>2. (CHOOSE i \in kept : rank(i) = m) \in kept /\ rank(CHOOSE i \in kept : rank(i) = m) = m
    BY <2>1, Zenon
  <2>3. e[m] = CHOOSE i \in kept : rank(i) = m
    BY DEF e
  <2>4. QED
    BY <2>2, <2>3, Zenon
<1> HIDE DEF e, rank, n
<1>7. ASSUME NEW i \in 1..n, NEW j \in 1..n, i < j PROVE e[i] < e[j]
  <2>1. /\ e[i] \in Int /\ e[j] \in Int
        /\ e[i] \in kept /\ e[j] \in kept
        /\ rank(e[i]) = i /\ rank(e[j]) = j
    BY <1>1, <1>6
  <2>2. e[j] < e[i] => rank(e[j]) < rank(e[i])
    BY <1>2, <2>1
  <2>3. e[j] < e[i] => j < i
    BY <2>1, <2>2
  <2>4. e[i] = e[j] => i = j
    BY <2>1
  <2>5. QED
    BY <2>1, <2>3, <2>4, <1>2, <1>7
<1>8. ASSUME NEW i \in kept PROVE \E m \in 1..n : e[m] = i
  <2>1. PICK m \in 1..n : m = rank(i)
    BY <1>2
  <2>a. e[m] \in kept /\ rank(e[m]) = m
    BY <1>6
  <2>b. i \in Int /\ e[m] \in Int
    BY <1>1, <2>a, Zenon
  <2>c. m \in Int
    OBVIOUS
  <2>2. /\ e[m] \in kept /\ i \in Int /\ e[m] \in Int
        /\ rank(e[m]) = rank(i) /\ rank(i) \in Int
    BY <2>1, <2>a, <2>b, <2>c, Zenon
  <2>3. ~(e[m] < i) /\ ~(i < e[m])
    <3>1. e[m] < i => rank(e[m]) < rank(i)
      BY <1>2, <2>2
    <3>2. i < e[m] => rank(i) < rank(e[m])
      BY <1>2, <2>2
    <3>3. QED
      BY <2>2, <3>1, <3>2
  <2>4. QED
    BY <2>2, <2>3
<1>9. IsSequence(q)
  BY <1>5 DEF IsSequence
<1>10. Kept(p, kept, q, e)
  BY <1>2, <1>4, <1>5, <1>6, <1>7, <1>8, <1>9 DEF Kept, n
<1>11. QED
  BY <1>10 DEF q

(* Statements of the root branch with nothing below them can go.            *)
LEMMA OnlyIsTree ==
  ASSUME NEW p, IsTree(p, 0), NEW kept \in SUBSET (DOMAIN p),
         \A i \in DOMAIN p : i \notin kept => p[i].level = 0 /\ p[i].kind \notin Owning
  PROVE  /\ IsTree(Only(p, kept), 0)
         /\ (\A i \in DOMAIN p : FilledAt(p, i)) =>
              \A m \in 1..Len(Only(p, kept)) : FilledAt(Only(p, kept), m)
<1>1. /\ Len(p) \in Nat /\ DOMAIN p = 1..Len(p)
      /\ \A i \in 1..Len(p) : p[i].level \in Nat
      /\ \A i \in 1..Len(p) : i - 1 \in 1..Len(p) => Grows(p[i-1], p[i].level)
  BY TreeLevels
<1>2. PICK q : q = Only(p, kept)
  OBVIOUS
<1>3. PICK e : Kept(p, kept, q, e)
  BY <1>1, <1>2, OnlyKeeps
<1>4. PICK n \in Nat : n = Len(q)
  BY <1>3 DEF Kept
<1>5. /\ IsSequence(q) /\ DOMAIN q = 1..n
      /\ \A m \in 1..n : e[m] \in kept /\ q[m] = p[e[m]] /\ e[m] \in 1..Len(p) /\ e[m] \in Int
      /\ \A i, j \in 1..n : i < j => e[i] < e[j]
      /\ \A i \in kept : \E m \in 1..n : e[m] = i
  <2>1. IsSequence(q) /\ DOMAIN q = 1..n
    BY <1>3, <1>4, LengthOfSequence DEF Kept
  <2>2. \A m \in 1..n : e[m] \in 1..Len(p) /\ e[m] \in Int
    BY <1>1, <1>3, <1>4 DEF Kept
  <2>3. QED
    BY <1>3, <1>4, <2>1, <2>2 DEF Kept
<1>6. ASSUME NEW m \in 1..n, m = 1 \/ (m - 1 \in 1..n /\ e[m] # e[m-1] + 1)
      PROVE  p[e[m]].level = 0 \/ (m = 1 /\ e[m] = 1)
  <2>1. PICK i \in 1..Len(p) : i = e[m]
    BY <1>5
  <2>2. CASE i = 1
    <3>1. p # <<>>
      BY <1>1, <2>1
    <3>2. p[1].level = 0
      BY <3>1 DEF IsTree
    <3>3. QED
      BY <2>1, <2>2, <3>2
  <2>3. CASE i # 1
    <3>1. i - 1 \in 1..Len(p) /\ i - 1 < i
      BY <1>1, <2>1, <2>3
    <3>2. i - 1 \notin kept
      <4> SUFFICES ASSUME i - 1 \in kept PROVE FALSE
        OBVIOUS
      <4>1. PICK k \in 1..n : e[k] = i - 1
        BY <1>5
      <4>2. k < m
        <5>1. m < k => e[m] < e[k]
          BY <1>5
        <5>2. m \in Int /\ k \in Int /\ e[m] # e[k]
          BY <2>1, <3>1, <4>1
        <5>3. QED
          BY <2>1, <3>1, <4>1, <5>1, <5>2
      <4>3. m # 1 /\ m - 1 \in 1..n /\ e[m] # e[m-1] + 1
        BY <1>6, <4>2
      <4>4. k = m - 1 \/ k < m - 1
        BY <4>2, <4>3
      <4>5. e[m-1] < e[m] /\ e[m-1] \in Int
        BY <1>5, <4>3, SMTT(30)
      <4>6. k < m - 1 => e[k] < e[m-1]
        BY <1>5, <4>3
      <4>7. k # m - 1
        BY <2>1, <4>1, <4>3
      <4>8. QED
        BY <2>1, <4>1, <4>4, <4>5, <4>6, <4>7
    <3>3. p[i-1].level = 0 /\ p[i-1].kind \notin Owning
      BY <1>1, <3>1, <3>2
    <3>4. Grows(p[i-1], p[i].level) /\ p[i].level \in Nat
      BY <1>1, <3>1
    <3>5. QED
      BY <2>1, <3>3, <3>4 DEF Grows
  <2>4. QED
    BY <2>2, <2>3
<1>7. IsTree(q, 0)
  <2>1. \A i \in DOMAIN p : Proper(p[i]) /\ p[i].level >= 0
    BY DEF IsTree
  <2>2. \A m \in DOMAIN q : Proper(q[m]) /\ q[m].level >= 0
    BY <1>1, <1>5, <2>1
  <2>3. q # <<>> => q[1].level = 0
    <3> SUFFICES ASSUME q # <<>> PROVE q[1].level = 0
      OBVIOUS
    <3>1. n # 0
      BY <1>4, <1>5 DEF IsSequence
    <3>2. 1 \in 1..n
      BY <3>1
    <3>3. p[e[1]].level = 0 \/ e[1] = 1
      BY <3>2, <1>6
    <3>4. p # <<>>
      BY <1>1, <1>5, <3>2
    <3>5. QED
      BY <1>5, <3>2, <3>3, <3>4 DEF IsTree
  <2>4. ASSUME NEW m \in 1..(n - 1) PROVE Grows(q[m], q[m+1].level)
    <3>1. m \in 1..n /\ m + 1 \in 1..n /\ (m + 1) - 1 = m /\ m + 1 # 1
      OBVIOUS
    <3>2. q[m] = p[e[m]] /\ q[m+1] = p[e[m+1]]
      BY <1>5, <3>1
    <3>3. CASE e[m+1] = e[m] + 1
      <4>1. PICK i \in 1..Len(p) : i = e[m]
        BY <1>5, <3>1
      <4>2. i + 1 \in 1..Len(p) /\ (i + 1) - 1 = i
        BY <1>5, <3>1, <3>3, <4>1
      <4>3. Grows(p[i], p[i+1].level)
        BY <1>1, <4>2
      <4>4. QED
        BY <3>2, <3>3, <4>1, <4>3
    <3>4. CASE e[m+1] # e[m] + 1
      <4>1. p[e[m+1]].level = 0
        BY <3>1, <3>4, <1>6
      <4>2. p[e[m]].level \in Nat
        BY <1>1, <1>5, <3>1
      <4>3. QED
        BY <3>2, <4>1, <4>2 DEF Grows
    <3>5. QED
      BY <3>3, <3>4
  <2>5. QED
    BY <1>4, <1>5, <2>2, <2>3, <2>4 DEF IsTree
<1>8. ASSUME NEW m \in 1..n, NEW branch, HasChild(p, e[m], branch) PROVE HasChild(q, m, branch)
  <2>1. PICK j \in 1..Len(p) : p[j].branch = branch /\ HasParent(p, e[m], j)
    BY <1>1, <1>8 DEF HasChild
  <2>2. /\ e[m] \in 1..(j - 1) /\ p[e[m]].level < p[j].level
        /\ \A k \in (e[m] + 1)..(j - 1) : p[k].level >= p[j].level
    BY <2>1 DEF HasParent
  <2>3. j \in kept
    <3>1. p[e[m]].level \in Nat /\ p[j].level \in Nat
      BY <1>1, <1>5
    <3>2. p[j].level # 0
      BY <2>2, <3>1
    <3>3. QED
      BY <1>1, <3>2
  <2>4. PICK r \in 1..n : e[r] = j
    BY <1>5, <2>3
  <2>5. m < r
    <3>1. r < m => e[r] < e[m]
      BY <1>5
    <3>2. e[m] < e[r] /\ e[m] \in Int /\ e[r] \in Int
      BY <1>5, <2>2, <2>4
    <3>3. QED
      BY <3>1, <3>2
  <2>6. ASSUME NEW k \in (m + 1)..(r - 1) PROVE q[k].level >= q[r].level
    <3>1. k \in 1..n /\ m < k /\ k < r
      BY <2>5
    <3>2. e[m] < e[k] /\ e[k] < e[r] /\ e[k] \in Int /\ e[m] \in Int
      BY <1>5, <3>1
    <3>3. e[k] \in (e[m] + 1)..(j - 1)
      BY <2>4, <3>2
    <3>4. QED
      BY <1>5, <2>2, <2>4, <3>1, <3>3
  <2>7. HasParent(q, m, r)
    <3>1. m \in 1..(r - 1)
      BY <2>5
    <3>2. q[m].level < q[r].level
      BY <1>5, <2>2, <2>4
    <3>3. QED
      BY <3>1, <3>2, <2>6 DEF HasParent
  <2>8. QED
    BY <1>5, <2>1, <2>4, <2>7 DEF HasChild
<1>9. ASSUME \A i \in DOMAIN p : FilledAt(p, i), NEW m \in 1..n PROVE FilledAt(q, m)
  <2>1. FilledAt(p, e[m]) /\ q[m] = p[e[m]]
    BY <1>1, <1>5, <1>9
  <2>2. \A branch : HasChild(p, e[m], branch) => HasChild(q, m, branch)
    BY <1>8
  <2>3. QED
    BY <2>1, <2>2 DEF FilledAt
<1>10. QED
  BY <1>2, <1>4, <1>7, <1>9

---------------------------------------------------------------------------
(* Trees with their branches filled, and how operations keep them *)

FilledTree(t) == IsTree(t, 0) /\ \A m \in 1..Len(t) : FilledAt(t, m)

WholeTree(t) == FilledTree(t) /\ t # <<>>

LEMMA WholeIsFilled ==
  ASSUME NEW p, IsTree(p, 0)
  PROVE  WholeTree(p) <=> BranchesFilled(p)
<1>1. DOMAIN p = 1..Len(p)
  BY TreeLevels
<1>2. BranchesFilled(p) <=> p # <<>> /\ \A i \in DOMAIN p : FilledAt(p, i)
  BY FilledEverywhere
<1>3. QED
  BY <1>1, <1>2 DEF WholeTree, FilledTree

LEMMA GraftIsWhole ==
  ASSUME NEW p, FilledTree(p), NEW l \in Nat, NEW t, IsTree(t, l),
         \A m \in 1..Len(t) : FilledAt(t, m), t # <<>>,
         NEW a, NEW b, NEW q, Graft(p, a, b, t, q), Replaces(p, a, b, t)
  PROVE  WholeTree(q)
<1>1. /\ DOMAIN t = 1..Len(t) /\ Len(t) \in Nat
      /\ DOMAIN p = 1..Len(p) /\ Len(p) \in Nat
      /\ Len(t) # 0
  <2>1. IsTree(p, 0)
    BY DEF FilledTree
  <2>2. Len(t) # 0
    BY DEF IsTree, IsSequence
  <2>3. QED
    BY <2>1, <2>2, TreeLevels
<1>2. IsTree(q, 0) /\ Len(q) > 0
  BY <1>1 DEF Graft, Spliced
<1>3. BranchesFilled(q)
  BY <1>1, <1>2, GraftIsFilled DEF FilledTree
<1>4. QED
  BY <1>2, <1>3, WholeIsFilled

LEMMA JoinedTrees ==
  ASSUME NEW p, FilledTree(p), NEW l \in Nat, NEW t, IsTree(t, l),
         \A m \in 1..Len(t) : FilledAt(t, m), t # <<>>,
         p = <<>> => l = 0, p # <<>> => Grows(p[Len(p)], l)
  PROVE  WholeTree(p \o t)
<1>1. Graft(p, Len(p), Len(p) + 1, t, p \o t)
  BY EndGraft DEF FilledTree
<1>2. Replaces(p, Len(p), Len(p) + 1, t)
  BY DEF Replaces
<1>3. QED
  BY <1>1, <1>2, GraftIsWhole

LEMMA RootsJoined ==
  ASSUME NEW p, FilledTree(p), NEW t, WholeTree(t)
  PROVE  WholeTree(p \o t)
<1>1. p # <<>> => Grows(p[Len(p)], 0)
  <2> SUFFICES ASSUME p # <<>> PROVE Grows(p[Len(p)], 0)
    OBVIOUS
  <2>1. Len(p) \in 1..Len(p)
    BY DEF FilledTree, IsTree, IsSequence
  <2>2. p[Len(p)].level \in Nat
    BY <2>1, TreeLevels DEF FilledTree
  <2>3. QED
    BY <2>2 DEF Grows
<1>2. QED
  BY <1>1, JoinedTrees DEF WholeTree, FilledTree

LEMMA PlacedIsWhole ==
  ASSUME NEW t, WholeTree(t), NEW l \in Nat, NEW branch, FitsBranch(t, branch),
         NEW q, q = Placed(t, l, branch)
  PROVE  /\ IsTree(q, l) /\ q # <<>> /\ \A m \in 1..Len(q) : FilledAt(q, m)
         /\ PlacedAs(t, l, branch, q)
<1>1. IsTree(t, 0) /\ t # <<>> /\ \A m \in 1..Len(t) : FilledAt(t, m)
  BY DEF WholeTree, FilledTree
<1>2. PlacedAs(t, l, branch, q)
  BY <1>1, PlacedIsTree, Zenon
<1>3. \A m \in 1..Len(q) : FilledAt(q, m)
  BY <1>1, <1>2, PlacedIsFilled
<1>4. QED
  BY <1>1, <1>2, <1>3 DEF PlacedAs

LEMMA SwappedTree ==
  ASSUME NEW p, FilledTree(p), NEW k \in DOMAIN p, NEW tree, WholeTree(tree),
         FitsBranch(tree, p[k].branch)
  PROVE  WholeTree(Swap(p, k, tree))
<1>1. IsTree(p, 0) /\ IsTree(tree, 0) /\ tree # <<>>
  BY DEF WholeTree, FilledTree
<1>2. PICK t : t = Placed(tree, p[k].level, p[k].branch)
  OBVIOUS
<1>3. /\ Graft(p, k - 1, SubtreeEnd(p, k) + 1, t, Swap(p, k, tree))
      /\ Replaces(p, k - 1, SubtreeEnd(p, k) + 1, t)
  BY <1>1, <1>2, SwapGraft
<1>4. p[k].level \in Nat
  BY <1>1, TreeLevels
<1>5. IsTree(t, p[k].level) /\ t # <<>> /\ \A m \in 1..Len(t) : FilledAt(t, m)
  BY <1>2, <1>4, PlacedIsWhole
<1>6. QED
  BY <1>3, <1>4, <1>5, GraftIsWhole

LEMMA InsertedTree ==
  ASSUME NEW p, FilledTree(p), NEW parent, NEW branch, Owns(p, parent, branch), NEW n \in Nat,
         NEW tree, WholeTree(tree)
  PROVE  WholeTree(Insert(p, parent, branch, n, tree))
<1>1. IsTree(p, 0) /\ IsTree(tree, 0)
  BY DEF WholeTree, FilledTree
<1>2. PICK at, l, t : /\ at = Slot(p, parent, branch, n)
                      /\ l = LevelOf(p, parent) /\ t = Placed(tree, l, branch)
  OBVIOUS
<1>3. Graft(p, at - 1, at, t, Insert(p, parent, branch, n, tree))
  BY <1>1, <1>2, InsertGraft
<1>4. l \in Nat
  <2>1. parent # 0 => parent \in DOMAIN p
    BY DEF Owns
  <2>2. parent # 0 => p[parent].level \in Nat
    BY <1>1, <2>1, TreeLevels
  <2>3. QED
    BY <1>2, <2>2 DEF LevelOf
<1>5. IsTree(t, l) /\ t # <<>> /\ \A m \in 1..Len(t) : FilledAt(t, m)
  <2>1. FitsBranch(tree, branch)
    BY DEF FitsBranch, Owns, PolicyBranches
  <2>2. QED
    BY <1>2, <1>4, <2>1, PlacedIsWhole
<1>6. Replaces(p, at - 1, at, t)
  <2>1. at \in Nat
    BY <1>3 DEF Graft
  <2>2. at = (at - 1) + 1
    BY <2>1
  <2>3. QED
    BY <2>2 DEF Replaces
<1>7. QED
  BY <1>3, <1>4, <1>5, <1>6, GraftIsWhole

(* The fallback of a policy that had none.                                  *)
LEMMA FallbackTree ==
  ASSUME NEW p, FilledTree(p), NEW k \in DOMAIN p, p[k].kind \in Owning, NEW tree, WholeTree(tree),
         NEW branch, FitsBranch(tree, branch)
  PROVE  WholeTree(SubSeq(p, 1, SubtreeEnd(p, k)) \o Placed(tree, p[k].level + 1, branch)
                     \o SubSeq(p, SubtreeEnd(p, k) + 1, Len(p)))
<1>1. IsTree(p, 0)
  BY DEF FilledTree
<1>2. PICK e, l, t : e = SubtreeEnd(p, k) /\ l = p[k].level + 1 /\ t = Placed(tree, l, branch)
  OBVIOUS
<1>3. /\ Len(p) \in Nat /\ k \in 1..Len(p) /\ p[k].level \in Nat /\ l \in Nat
  BY <1>1, <1>2, TreeLevels
<1>4. IsTree(t, l) /\ t # <<>> /\ \A m \in 1..Len(t) : FilledAt(t, m)
  BY <1>2, <1>3, PlacedIsWhole
<1>5. e \in k..Len(p)
  BY <1>1, <1>2, SubtreeEndIs
<1>6. Fits(p, e, e + 1, l)
  BY <1>1, <1>2, EndOfSubtree
<1>7. /\ e \in Nat /\ e + 1 \in Nat /\ e < e + 1 /\ e + 1 <= Len(p) + 1
      /\ \A j : ~(j \in (e + 1)..((e + 1) - 1))
  BY <1>3, <1>5
<1>8. Graft(p, e, e + 1, t, Splice(p, e, e + 1, t))
  BY <1>1, <1>3, <1>4, <1>6, <1>7, GraftOf
<1>9. Replaces(p, e, e + 1, t)
  BY DEF Replaces
<1>10. WholeTree(Splice(p, e, e + 1, t))
  BY <1>3, <1>4, <1>8, <1>9, GraftIsWhole
<1>11. QED
  BY <1>2, <1>10 DEF Splice

LEMMA EditedTree ==
  ASSUME NEW p, FilledTree(p), NEW q, SameShape(p, q)
  PROVE  FilledTree(q) /\ (q = <<>> <=> p = <<>>)
<1>1. IsTree(p, 0) /\ IsTree(q, 0) /\ Len(p) = Len(q)
  BY SameShapeIsTree DEF FilledTree, SameShape
<1>2. \A m \in 1..Len(p) : FilledAt(q, m)
  BY <1>1, SameShapeIsTree DEF FilledTree
<1>3. q = <<>> <=> p = <<>>
  <2>1. q = <<>> <=> Len(q) = 0
    BY <1>1 DEF IsTree, IsSequence
  <2>2. p = <<>> <=> Len(p) = 0
    BY <1>1 DEF IsTree, IsSequence
  <2>3. QED
    BY <1>1, <2>1, <2>2
<1>4. QED
  BY <1>1, <1>2, <1>3 DEF FilledTree

---------------------------------------------------------------------------
(* The trees clients send and the programs the product starts from *)

Root(x) == Proper(x) /\ x.level = 0

Plain(x) == x.kind \notin {"control", "on_event"}

LEMMA StatementIsRoot ==
  ASSUME NEW id, NEW kind
  PROVE  /\ Root(Statement(id, kind)) /\ Statement(id, kind).kind = kind
         /\ Statement(id, kind).id = id /\ Statement(id, kind).legs = {}
BY RecipeIdentities DEF Root, Proper, Statement, StatementFields, PolicyBranches

LEMMA SelectIsRoot ==
  ASSUME NEW id, NEW output, NEW group, NEW ranking
  PROVE  LET x == Select(id, output, group, ranking) IN
         Root(x) /\ x.kind = "select" /\ x.id = id /\ x.output = output /\ x.legs = {}
BY DEF Root, Proper, Statement, Select, StatementFields, PolicyBranches

LEMMA AllocateIsRoot ==
  ASSUME NEW id, NEW method, NEW legs, \A leg \in legs : leg = <<leg[1], leg[2]>>
  PROVE  LET x == Allocate(id, method, legs) IN
         Root(x) /\ x.kind = "allocate" /\ x.id = id /\ x.legs = legs
BY RecipeIdentities DEF Root, Proper, Statement, Allocate, StatementFields

LEMMA OneStatement ==
  ASSUME NEW x, Root(x)
  PROVE  IsTree(<<x>>, 0) /\ Len(<<x>>) = 1 /\ <<x>>[1] = x /\ <<x>> # <<>>
<1>1. <<x>> \in Seq({x}) /\ Len(<<x>>) = 1 /\ <<x>>[1] = x /\ <<x>> # <<>> /\ DOMAIN <<x>> = 1..1
  OBVIOUS
<1>2. PICK t : t = <<x>>
  OBVIOUS
<1>3. IsSequence(t) /\ Len(t) = 1 /\ t[1] = x /\ DOMAIN t = 1..1
  BY <1>1, <1>2 DEF IsSequence
<1>4. IsTree(t, 0)
  BY <1>3 DEF IsTree, Root, Proper
<1>5. QED
  BY <1>1, <1>2, <1>4

(* A tree of one statement with what is below it.                           *)
OneRoot(t) == \A m \in 1..Len(t) : t[m].level = 0 => m = 1

LEMMA PlainStatement ==
  ASSUME NEW x, Root(x), Plain(x)
  PROVE  WholeTree(<<x>>) /\ OneRoot(<<x>>)
<1>1. IsTree(<<x>>, 0) /\ Len(<<x>>) = 1 /\ <<x>>[1] = x /\ <<x>> # <<>>
  BY OneStatement
<1>2. PICK t : t = <<x>>
  OBVIOUS
<1>3. \A m \in 1..Len(t) : FilledAt(t, m)
  BY <1>1, <1>2 DEF FilledAt, Plain
<1>4. OneRoot(t)
  BY <1>1, <1>2 DEF OneRoot
<1>5. QED
  BY <1>1, <1>2, <1>3, <1>4 DEF WholeTree, FilledTree

(* A statement with one branch below it: of an Event its own, of a          *)
(* condition the one that must be there.                                    *)
LEMMA OwnerOfBranch ==
  ASSUME NEW x, Root(x), x.kind \in Owning, NEW t, WholeTree(t),
         \A m \in 1..Len(t) : Plain(t[m]),
         NEW branch, x.kind = "control" => branch = "then", x.kind = "on_event" => branch = "event",
         FitsBranch(t, branch)
  PROVE  /\ WholeTree(<<x>> \o Placed(t, 1, branch))
         /\ OneRoot(<<x>> \o Placed(t, 1, branch))
<1>1. PICK p, r : p = <<x>> /\ r = Placed(t, 1, branch)
  OBVIOUS
<1>2. IsTree(p, 0) /\ Len(p) = 1 /\ p[1] = x /\ p # <<>>
  BY <1>1, OneStatement
<1>3. /\ IsTree(r, 1) /\ r # <<>> /\ PlacedAs(t, 1, branch, r)
  BY <1>1, PlacedIsWhole
<1>4. Grows(p[Len(p)], 1)
  BY <1>2 DEF Grows, Root
<1>5. PICK q : q = p \o r
  OBVIOUS
<1>6. Graft(p, 1, 2, r, q)
  <2>1. Graft(p, Len(p), Len(p) + 1, r, q)
    BY <1>2, <1>3, <1>4, <1>5, EndGraft
  <2>2. Len(p) + 1 = 2
    BY <1>2
  <2>3. QED
    BY <1>2, <2>1, <2>2
<1>7. /\ IsTree(q, 0) /\ Len(q) = 1 + Len(r) /\ Len(r) \in Nat
      /\ q[1] = x /\ \A m \in 1..Len(r) : q[1 + m] = r[m]
  <2>1. /\ IsTree(q, 0) /\ Len(r) \in Nat
        /\ Len(q) = 1 + Len(r) + (Len(p) + 1 - 2)
        /\ \A m \in 1..1 : q[m] = p[m]
        /\ \A m \in 1..Len(r) : q[1 + m] = r[m]
    BY <1>6 DEF Graft, Spliced
  <2>2. QED
    BY <1>2, <2>1
<1>8. \A m \in 1..Len(t) :
        r[m] = [t[m] EXCEPT !.level = t[m].level + 1,
                            !.branch = IF t[m].level = 0 THEN branch ELSE t[m].branch]
  BY <1>3 DEF PlacedAs
<1>a. Len(r) = Len(t)
  BY <1>3 DEF PlacedAs
<1>9. \A m \in 1..Len(t) : DOMAIN t[m] = StatementFields
  <2>1. IsTree(t, 0)
    BY DEF WholeTree, FilledTree
  <2>2. QED
    BY <2>1, TreeLevels DEF IsTree, Proper
<1>10. ASSUME NEW m \in 1..Len(t) PROVE Plain(r[m]) /\ r[m].level # 0
  <2>1. r[m] = [t[m] EXCEPT !.level = t[m].level + 1,
                            !.branch = IF t[m].level = 0 THEN branch ELSE t[m].branch]
    BY <1>8
  <2>2. r[m].kind = t[m].kind /\ r[m].level = t[m].level + 1
    BY <1>9, <2>1 DEF StatementFields
  <2>3. t[m].level \in Nat
    BY TreeLevels DEF WholeTree, FilledTree
  <2>4. QED
    BY <2>2, <2>3 DEF Plain
<1>11. Len(t) # 0 /\ t[1].level = 0
  BY DEF WholeTree, FilledTree, IsTree, IsSequence
<1>12. 1 \in 1..Len(t) /\ r[1].level = 1 /\ r[1].branch = branch
  <2>1. 1 \in 1..Len(t)
    BY <1>7, <1>a, <1>11
  <2>2. r[1] = [t[1] EXCEPT !.level = t[1].level + 1,
                            !.branch = IF t[1].level = 0 THEN branch ELSE t[1].branch]
    BY <1>8, <2>1
  <2>3. DOMAIN t[1] = StatementFields
    BY <1>9, <2>1
  <2>4. r[1].level = 0 + 1 /\ r[1].branch = branch
    BY <1>11, <2>2, <2>3 DEF StatementFields
  <2>5. QED
    BY <2>1, <2>4
<1>13. HasChild(q, 1, branch)
  <2>1. q[2] = r[1] /\ 2 \in 1..Len(q)
    <3>1. Len(r) = Len(t) /\ 1 \in 1..Len(r) /\ 1 + 1 = 2
      BY <1>a, <1>12
    <3>2. QED
      BY <1>7, <3>1
  <2>2. 2 \in DOMAIN q
    BY <1>7, <2>1, TreeLevels
  <2>3. HasParent(q, 1, 2)
    BY <1>7, <1>12, <2>1 DEF HasParent, Root
  <2>4. QED
    BY <1>12, <2>1, <2>2, <2>3 DEF HasChild
<1>14. ASSUME NEW m \in 1..Len(q) PROVE FilledAt(q, m)
  <2>1. CASE m = 1
    BY <2>1, <1>7, <1>13 DEF FilledAt
  <2>2. CASE m # 1
    <3>1. Len(r) = Len(t)
      BY <1>a
    <3>2. PICK j \in 1..Len(r) : m = 1 + j
      <4>1. m - 1 \in 1..Len(r) /\ m = 1 + (m - 1)
        BY <1>7, <2>2
      <4>2. QED
        BY <4>1
    <3>3. q[m] = r[j] /\ Plain(r[j])
      BY <1>7, <1>10, <3>1, <3>2
    <3>4. QED
      BY <3>3 DEF FilledAt, Plain
  <2>3. QED
    BY <2>1, <2>2
<1>15. q # <<>>
  BY <1>7
<1>16. ASSUME NEW m \in 1..Len(q), m # 1 PROVE q[m].level # 0
  <2>1. m - 1 \in 1..Len(r) /\ m - 1 \in 1..Len(t) /\ 1 + (m - 1) = m
    BY <1>7, <1>a, <1>16
  <2>2. q[m] = r[m - 1]
    BY <1>7, <2>1
  <2>3. QED
    BY <1>10, <2>1, <2>2
<1>17. QED
  BY <1>1, <1>5, <1>7, <1>14, <1>15, <1>16 DEF WholeTree, FilledTree, OneRoot

LEMMA TwoStatements ==
  ASSUME NEW x, Root(x), Plain(x), NEW y, Root(y), Plain(y)
  PROVE  WholeTree(<<x, y>>) /\ \A m \in 1..Len(<<x, y>>) : Plain(<<x, y>>[m])
<1>1. WholeTree(<<x>>) /\ WholeTree(<<y>>)
  BY PlainStatement
<1>2. WholeTree(<<x>> \o <<y>>)
  BY <1>1, RootsJoined DEF WholeTree
<1>3. <<x>> \o <<y>> = <<x, y>> /\ Len(<<x, y>>) = 2 /\ <<x, y>>[1] = x /\ <<x, y>>[2] = y
  <2>1. <<x>> \in Seq({x, y}) /\ <<y>> \in Seq({x, y}) /\ <<x, y>> \in Seq({x, y})
    OBVIOUS
  <2>2. Len(<<x, y>>) = 2 /\ <<x, y>>[1] = x /\ <<x, y>>[2] = y
    OBVIOUS
  <2>3. PICK r : r = <<x>> \o <<y>>
    OBVIOUS
  <2>4. r \in Seq({x, y}) /\ Len(r) = 2
    BY <2>1, <2>3
  <2>5. r[1] = x /\ r[2] = y
    BY <2>3
  <2>6. \A m \in 1..2 : r[m] = <<x, y>>[m]
    BY <2>2, <2>5
  <2>7. r = <<x, y>>
    BY <2>1, <2>2, <2>4, <2>6, SeqEqual
  <2>8. QED
    BY <2>2, <2>3, <2>7
<1>4. PICK t : t = <<x, y>>
  OBVIOUS
<1>5. \A m \in 1..Len(t) : Plain(t[m])
  BY <1>3, <1>4
<1>6. QED
  BY <1>2, <1>3, <1>4, <1>5

LEMMA OwnerOfOne ==
  ASSUME NEW x, Root(x), x.kind \in Owning, NEW y, Root(y), Plain(y),
         NEW branch, x.kind = "control" => branch = "then", x.kind = "on_event" => branch = "event",
         branch \in PolicyBranches => y.kind = "allocate"
  PROVE  /\ WholeTree(<<x>> \o Placed(<<y>>, 1, branch))
         /\ OneRoot(<<x>> \o Placed(<<y>>, 1, branch))
<1>1. WholeTree(<<y>>)
  BY PlainStatement
<1>2. PICK t : t = <<y>>
  OBVIOUS
<1>3. (\A m \in 1..Len(t) : Plain(t[m])) /\ FitsBranch(t, branch)
  <2>1. Len(<<y>>) = 1 /\ <<y>>[1] = y
    BY OneStatement
  <2>2. QED
    BY <1>2, <2>1 DEF FitsBranch
<1>4. QED
  BY <1>1, <1>2, <1>3, OwnerOfBranch

LEMMA AllocationToOne ==
  ASSUME NEW id, NEW method, NEW target, target = <<target[1], target[2]>>
  PROVE  /\ Root(Allocate(id, method, {target})) /\ Plain(Allocate(id, method, {target}))
         /\ Allocate(id, method, {target}).kind = "allocate"
         /\ WholeTree(<<Allocate(id, method, {target})>>)
<1>1. /\ Root(Allocate(id, method, {target}))
      /\ Allocate(id, method, {target}).kind = "allocate"
  <2>1. \A leg \in {target} : leg = <<leg[1], leg[2]>>
    OBVIOUS
  <2>2. QED
    BY <2>1, AllocateIsRoot
<1>2. Plain(Allocate(id, method, {target}))
  BY <1>1 DEF Plain
<1>3. QED
  BY <1>1, <1>2, PlainStatement

Client(tree) == WholeTree(tree) /\ OneRoot(tree)

LEMMA TreesOfAreWhole ==
  ASSUME NEW id, NEW tree \in TreesOf(id)
  PROVE  Client(tree)
<1> DEFINE targets == ({"asset"} \X Assets) \cup ({"group"} \X GroupIds) \cup ({"selection"} \X Outputs)
<1>1. \A target \in targets : target = <<target[1], target[2]>>
  OBVIOUS
<1>2. ASSUME NEW x, NEW kind \in {"remember_value", "transition"}
      PROVE  Root(Statement(x, kind)) /\ Plain(Statement(x, kind))
  BY StatementIsRoot DEF Plain
<1>3. ASSUME NEW kind \in {"control", "on_event", "guarded_allocation"}
      PROVE  /\ Root(Statement(id, kind)) /\ Statement(id, kind).kind = kind
             /\ Statement(id, kind).kind \in Owning
  BY StatementIsRoot DEF Owning
<1>4. ASSUME NEW o, NEW g PROVE Client(<<Select(id, o, g, "return")>>)
  <2>1. Root(Select(id, o, g, "return")) /\ Plain(Select(id, o, g, "return"))
    BY SelectIsRoot DEF Plain
  <2>2. QED
    BY <2>1, PlainStatement DEF Client
<1>5. ASSUME NEW o \in Outputs PROVE Client(<<Allocate(id, "equal", {<<"selection", o>>})>>)
  BY AllocationToOne, PlainStatement DEF Client
<1>6. Client(<<Statement(id, "remember_value")>>)
  BY <1>2, PlainStatement DEF Client
<1>7. ASSUME NEW target \in targets
      PROVE  Client(<<Statement(id, "control")>>
                \o Placed(<<Allocate(<<id, "then">>, "equal", {target})>>, 1, "then"))
  BY <1>1, <1>3, AllocationToOne, OwnerOfOne DEF Client, PolicyBranches
<1>8. Client(<<Statement(id, "on_event")>>
                \o Placed(<<Statement(<<id, "transition">>, "transition")>>, 1, "event"))
  BY <1>2, <1>3, OwnerOfOne DEF Client, PolicyBranches
<1>9. ASSUME NEW target \in targets
      PROVE  Client(<<Statement(id, "guarded_allocation")>>
                \o Placed(<<Allocate(<<id, "primary">>, "equal", {target})>>, 1, "primary"))
  BY <1>1, <1>3, AllocationToOne, OwnerOfOne DEF Client, PolicyBranches
<1>10. \A target \in ({"asset"} \X Assets) \cup ({"selection"} \X Outputs) : target \in targets
  OBVIOUS
<1>11. \A target \in ({"group"} \X GroupIds) \cup ({"selection"} \X Outputs) : target \in targets
  OBVIOUS
<1> HIDE DEF targets
<1> DEFINE selections == {<<Select(id, o, g, "return")>> : o \in OutputIds, g \in GroupIds}
           allocations == {<<Allocate(id, "equal", {<<"selection", o>>})>> : o \in Outputs}
           values == {<<Statement(id, "remember_value")>>}
           conditions ==
             {<<Statement(id, "control")>>
                \o Placed(<<Allocate(<<id, "then">>, "equal", {target})>>, 1, "then") :
                target \in ({"asset"} \X Assets) \cup ({"selection"} \X Outputs)}
           events ==
             {<<Statement(id, "on_event")>>
                \o Placed(<<Statement(<<id, "transition">>, "transition")>>, 1, "event")}
           policies ==
             {<<Statement(id, "guarded_allocation")>>
                \o Placed(<<Allocate(<<id, "primary">>, "equal", {target})>>, 1, "primary") :
                target \in ({"group"} \X GroupIds) \cup ({"selection"} \X Outputs)}
<1>12. TreesOf(id) = selections \cup allocations \cup values \cup conditions \cup events \cup policies
  BY DEF TreesOf
<1>13. /\ \A t \in selections : Client(t)
       /\ \A t \in allocations : Client(t)
       /\ \A t \in values : Client(t)
       /\ \A t \in conditions : Client(t)
       /\ \A t \in events : Client(t)
       /\ \A t \in policies : Client(t)
  <2>1. ASSUME NEW t \in selections PROVE Client(t)
    <3>1. \E o \in OutputIds, g \in GroupIds : t = <<Select(id, o, g, "return")>>
      OBVIOUS
    <3>2. PICK o \in OutputIds, g \in GroupIds : t = <<Select(id, o, g, "return")>>
      BY <3>1
    <3>3. Client(<<Select(id, o, g, "return")>>)
      BY <1>4
    <3>4. QED
      BY <3>2, <3>3
  <2>2. ASSUME NEW t \in allocations PROVE Client(t)
    BY <1>5, Zenon
  <2>3. ASSUME NEW t \in conditions PROVE Client(t)
    BY <1>7, <1>10, Zenon
  <2>4. ASSUME NEW t \in policies PROVE Client(t)
    BY <1>9, <1>11, Zenon
  <2>5. \A t \in values : Client(t)
    BY <1>6, Zenon
  <2>6. \A t \in events : Client(t)
    BY <1>8, Zenon
  <2> HIDE DEF selections, allocations, values, conditions, events, policies
  <2>7. QED
    BY <2>1, <2>2, <2>3, <2>4, <2>5, <2>6, Zenon
<1> HIDE DEF selections, allocations, values, conditions, events, policies
<1>14. QED
  BY <1>12, <1>13, Zenon

LEMMA ClientTrees ==
  ASSUME NEW tree \in TreesOfAll
  PROVE  Client(tree)
BY TreesOfAreWhole DEF TreesOfAll

---------------------------------------------------------------------------
(* The program of a strategy, from one answer to the next *)

UniqueOutputs(p) == \A i, j \in Selects(p) : p[i].output = p[j].output => i = j

(* What an Allocation uses was selected before it.                          *)
Routed(p) ==
  \A i \in DOMAIN p : \A leg \in p[i].legs : leg[1] = "selection" =>
    \E k \in Selects(p) : k < i /\ p[k].output = leg[2]

Sane(p) == IsTree(p, 0) /\ UniqueIds(p) /\ UniqueOutputs(p) /\ Routed(p)

ProgramInv == HasProgram => Sane(Program)

(* What an answered request knows of the program it was sent with.          *)
LEMMA RequestIsWhole ==
  ASSUME ProgramInv, HasProgram, NEW t, Answer(t)
  PROVE  WholeTree(Program) /\ FilledTree(Program) /\ IsTree(Program, 0) /\ Program # <<>>
<1>1. IsTree(Program, 0)
  BY DEF ProgramInv, Sane
<1>2. BranchesFilled(Program)
  BY DEF Answer, WellFormed, HasProgram, Program
<1>3. QED
  BY <1>1, <1>2, WholeIsFilled DEF WholeTree

LEMMA ValidIsSane ==
  ASSUME NEW t, Answer(t), IsTree(t.program, 0), t.program # None
  PROVE  Sane(t.program)
<1>1. PICK p, f : p = t.program /\ f = t.formalizations
  OBVIOUS
<1>2. ValidProgram(p, f)
  BY <1>1 DEF Answer, ValidStrategy
<1>3. UniqueIds(p) /\ UniqueOutputs(p)
  BY <1>2 DEF ValidProgram, IdsUnique, OutputsUnique, UniqueIds, UniqueOutputs
<1>4. \A i \in DOMAIN p : p[i].kind = "allocate" => AllocationSound(p, i)
  BY <1>2, Zenon DEF ValidProgram, StatementSound
<1>5. \A i \in DOMAIN p : p[i].kind # "allocate" => p[i].legs = {}
  BY <1>1 DEF IsTree, Proper
<1>6. ASSUME NEW i \in DOMAIN p, NEW leg \in p[i].legs, leg[1] = "selection"
      PROVE  \E k \in Selects(p) : k < i /\ p[k].output = leg[2]
  BY <1>4, <1>5, <1>6 DEF AllocationSound
<1>7. QED
  BY <1>1, <1>3, <1>6 DEF Sane, Routed

(* An answer with a program that is a tree, and with one that is whole.     *)
Treed == Program' # None => Sane(Program')

Filled == Program' # None => Sane(Program') /\ WholeTree(Program')

LEMMA AnswerTree ==
  ASSUME NEW t, Answer(t), t.program # None => IsTree(t.program, 0)
  PROVE  Treed /\ Program' = t.program
<1>1. Program' = t.program
  BY DEF Answer, Program
<1>2. QED
  BY <1>1, ValidIsSane DEF Treed

LEMMA AnswerWhole ==
  ASSUME NEW t, Answer(t), t.program # None => WholeTree(t.program)
  PROVE  Filled /\ Program' = t.program
<1>1. t.program # None => IsTree(t.program, 0)
  BY DEF WholeTree, FilledTree
<1>2. Treed /\ Program' = t.program
  BY <1>1, AnswerTree
<1>3. QED
  BY <1>2 DEF Treed, Filled

LEMMA WithProgramIs ==
  ASSUME DefinitionsInv, NEW p, NEW id
  PROVE  /\ WithProgram(p).program = p
         /\ WithProgram(p).groups = strategy.groups
         /\ [strategy EXCEPT !.program = p, !.formalizations = @ \cup {id}].program = p
         /\ [strategy EXCEPT !.program = p, !.formalizations = @ \cup {id}].groups = strategy.groups
BY DEF DefinitionsInv, Sound, Fields, WithProgram

LEMMA AnswerProgramWhole ==
  ASSUME DefinitionsInv, NEW p, AnswerProgram(p) \/ (\E id : AnswerFormalized(p, id)), WholeTree(p)
  PROVE  Filled /\ Program' = p /\ strategy'.groups = strategy.groups
<1>1. CASE AnswerProgram(p)
  <2>1. Answer(WithProgram(p))
    BY <1>1 DEF AnswerProgram
  <2>2. QED
    BY <2>1, WithProgramIs, AnswerWhole DEF Answer
<1>2. CASE \E id : AnswerFormalized(p, id)
  <2>1. PICK id, t : t = [strategy EXCEPT !.program = p, !.formalizations = @ \cup {id}] /\ Answer(t)
    BY <1>2 DEF AnswerFormalized
  <2>2. t.program = p /\ t.groups = strategy.groups
    BY <2>1, WithProgramIs
  <2>3. QED
    BY <2>1, <2>2, AnswerWhole DEF Answer
<1>3. QED
  BY <1>1, <1>2

LEMMA AnswerProgramTree ==
  ASSUME DefinitionsInv, NEW p, AnswerProgram(p), IsTree(p, 0)
  PROVE  Treed /\ Program' = p /\ strategy'.groups = strategy.groups
<1>1. Answer(WithProgram(p))
  BY DEF AnswerProgram
<1>2. QED
  BY <1>1, WithProgramIs, AnswerTree DEF Answer

(* What a request may assume, for an answer of any of the kinds.            *)
LEMMA AnsweredRequest ==
  ASSUME DefinitionsInv, ProgramInv, HasProgram,
         NEW p, AnswerProgram(p) \/ (\E id : AnswerFormalized(p, id))
  PROVE  /\ WholeTree(Program) /\ FilledTree(Program) /\ IsTree(Program, 0) /\ Program # <<>>
         /\ UniqueIds(Program) /\ UniqueOutputs(Program) /\ Routed(Program)
<1>1. \E t : Answer(t)
  BY DEF AnswerProgram, AnswerFormalized
<1>2. QED
  BY <1>1, RequestIsWhole DEF ProgramInv, Sane

LEMMA PositionFound ==
  ASSUME NEW p, NEW id \in Ids(p)
  PROVE  Position(p, id) \in DOMAIN p /\ p[Position(p, id)].id = id
BY DEF Ids, Position

LEMMA AddressFound ==
  ASSUME NEW p, UniqueIds(p), NEW id, Addressed(p, id)
  PROVE  /\ id \in Ids(p) /\ Position(p, id) \in DOMAIN p /\ p[Position(p, id)].id = id
         /\ ~PolicyOwned(p, Position(p, id))
<1>1. PICK i \in DOMAIN p : p[i].id = id /\ ~PolicyOwned(p, i)
  BY DEF Addressed
<1>2. Position(p, id) = i
  BY <1>1, PositionIs
<1>3. QED
  BY <1>1, <1>2 DEF Ids

LEMMA AppendIsJoin ==
  ASSUME NEW p, IsSequence(p), NEW x
  PROVE  Append(p, x) = p \o <<x>>
<1>1. PICK S : p \in Seq(S)
  BY DEF IsSequence
<1>2. p \in Seq(S \cup {x}) /\ x \in S \cup {x} /\ <<x>> \in Seq(S \cup {x})
  <2>1. p \in Seq(S \cup {x})
    BY <1>1, SeqMonotonic
  <2>2. <<x>> \in Seq(S \cup {x})
    OBVIOUS
  <2>3. QED
    BY <2>1, <2>2
<1>3. QED
  BY <1>2, AppendIsConcat

LEMMA AppendedTree ==
  ASSUME NEW p, FilledTree(p), NEW x, Root(x), Plain(x)
  PROVE  WholeTree(Append(p, x))
<1>1. WholeTree(<<x>>)
  BY PlainStatement
<1>2. Append(p, x) = p \o <<x>>
  BY AppendIsJoin DEF FilledTree, IsTree
<1>3. QED
  BY <1>1, <1>2, RootsJoined

LEMMA SelectionIsPlain ==
  ASSUME NEW id, NEW output, NEW group, NEW ranking
  PROVE  LET x == Select(id, output, group, ranking) IN Root(x) /\ Plain(x)
BY SelectIsRoot DEF Plain

(* A copy of a program with some statements edited.                         *)
Retouched(p, q) ==
  /\ q = [i \in DOMAIN p |-> q[i]]
  /\ \A i \in DOMAIN p : /\ Proper(q[i])
                         /\ q[i].level = p[i].level /\ q[i].branch = p[i].branch
                         /\ q[i].kind = p[i].kind

LEMMA EditedProgram ==
  ASSUME NEW p, IsTree(p, 0), NEW q, Retouched(p, q)
  PROVE  SameShape(p, q)
<1> USE DEF Retouched
<1>1. DOMAIN p = 1..Len(p) /\ Len(p) \in Nat
  BY TreeLevels
<1>3. q \in Seq({q[i] : i \in 1..Len(p)}) /\ Len(q) = Len(p)
  <2>1. q \in [1..Len(p) -> {q[i] : i \in 1..Len(p)}]
    BY <1>1, Zenon
  <2>2. QED
    BY <2>1, <1>1
<1>4. IsSequence(q)
  BY <1>3 DEF IsSequence
<1>5. QED
  BY <1>1, <1>3, <1>4 DEF SameShape

LEMMA OneEdited ==
  ASSUME NEW p, IsTree(p, 0), NEW k \in DOMAIN p, NEW x, Proper(x),
         x.level = p[k].level, x.branch = p[k].branch, x.kind = p[k].kind
  PROVE  SameShape(p, [p EXCEPT ![k] = x])
<1>1. PICK q : q = [p EXCEPT ![k] = x]
  OBVIOUS
<1>2. DOMAIN p = 1..Len(p) /\ Len(p) \in Nat /\ \A i \in DOMAIN p : Proper(p[i])
  BY TreeLevels DEF IsTree
<1>3. q = [i \in DOMAIN p |-> IF i = k THEN x ELSE p[i]]
  BY <1>1
<1>4. \A i \in DOMAIN p : /\ Proper(q[i])
                          /\ q[i].level = p[i].level /\ q[i].branch = p[i].branch
                          /\ q[i].kind = p[i].kind
  BY <1>2, <1>3
<1>5. q = [i \in DOMAIN p |-> q[i]]
  BY <1>3
<1>6. SameShape(p, q)
  <2>1. Retouched(p, q)
    BY <1>4, <1>5 DEF Retouched
  <2>2. QED
    BY <2>1, EditedProgram
<1>7. QED
  BY <1>1, <1>6

(* Renaming a Selection's output.                                           *)
Renamed(p, k, output) ==
  [i \in DOMAIN p |->
     IF i = k THEN [p[i] EXCEPT !.output = output]
     ELSE IF <<"selection", p[k].output>> \notin p[i].legs THEN p[i]
     ELSE [p[i] EXCEPT !.legs = (@ \ {<<"selection", p[k].output>>}) \cup {<<"selection", output>>}]]

(* What x, taken from the renamed program, is to the i-th statement of p.   *)
RenamedFrom(p, k, output, i, x) ==
  /\ Proper(x)
  /\ x.level = p[i].level /\ x.branch = p[i].branch /\ x.kind = p[i].kind /\ x.id = p[i].id
  /\ i # k => x.output = p[i].output
  /\ i = k => x.output = output /\ x.legs = p[i].legs
  /\ <<"selection", p[k].output>> \notin p[i].legs => x.legs = p[i].legs
  /\ i # k /\ <<"selection", p[k].output>> \in p[i].legs =>
       x.legs = (p[i].legs \ {<<"selection", p[k].output>>}) \cup {<<"selection", output>>}

LEMMA RenamedStatement ==
  ASSUME NEW p, IsTree(p, 0), NEW k \in DOMAIN p, NEW output, NEW i \in DOMAIN p
  PROVE  RenamedFrom(p, k, output, i, Renamed(p, k, output)[i])
<1>1. Proper(p[i])
  BY DEF IsTree
<1>2. PICK y, x, o, legs : /\ y = p[i] /\ x = Renamed(p, k, output)[i] /\ o = p[k].output
                           /\ legs = (y.legs \ {<<"selection", o>>}) \cup {<<"selection", output>>}
  OBVIOUS
<1>3. x = IF i = k THEN [y EXCEPT !.output = output]
          ELSE IF <<"selection", o>> \notin y.legs THEN y
          ELSE [y EXCEPT !.legs = legs]
  BY <1>2 DEF Renamed
<1>4. CASE i = k
  <2>1. x = [y EXCEPT !.output = output]
    BY <1>3, <1>4
  <2>2. /\ DOMAIN x = StatementFields /\ x.output = output
        /\ x.level = y.level /\ x.branch = y.branch /\ x.kind = y.kind /\ x.id = y.id
        /\ x.universe = y.universe /\ x.legs = y.legs
    BY <1>1, <1>2, <2>1 DEF Proper, StatementFields
  <2>3. QED
    BY <1>1, <1>2, <1>4, <2>2 DEF Proper, RenamedFrom
<1>5. CASE i # k /\ <<"selection", o>> \notin y.legs
  BY <1>1, <1>2, <1>3, <1>5 DEF RenamedFrom
<1>6. CASE i # k /\ <<"selection", o>> \in y.legs
  <2>1. x = [y EXCEPT !.legs = legs]
    BY <1>3, <1>6
  <2>2. /\ DOMAIN x = StatementFields /\ x.output = y.output
        /\ x.level = y.level /\ x.branch = y.branch /\ x.kind = y.kind /\ x.id = y.id
        /\ x.universe = y.universe /\ x.legs = legs
    BY <1>1, <1>2, <2>1 DEF Proper, StatementFields
  <2>3. y.kind = "allocate"
    BY <1>1, <1>2, <1>6 DEF Proper
  <2>4. \A leg \in legs : leg = <<leg[1], leg[2]>>
    BY <1>1, <1>2 DEF Proper
  <2>5. Proper(x)
    BY <1>1, <1>2, <2>2, <2>3, <2>4 DEF Proper
  <2>6. QED
    BY <1>2, <1>6, <2>2, <2>5 DEF RenamedFrom
<1>7. QED
  BY <1>4, <1>5, <1>6

LEMMA RenamedShape ==
  ASSUME NEW p, IsTree(p, 0), NEW k \in DOMAIN p, NEW output
  PROVE  SameShape(p, Renamed(p, k, output))
<1>1. PICK q : q = Renamed(p, k, output)
  OBVIOUS
<1>2. q = [i \in DOMAIN p |-> q[i]]
  <2>1. DOMAIN q = DOMAIN p
    BY <1>1 DEF Renamed
  <2>2. \E S : q \in [DOMAIN p -> S]
    <3>1. q \in [DOMAIN p -> {q[i] : i \in DOMAIN p}]
      BY <1>1, Zenon DEF Renamed
    <3>2. QED
      BY <3>1
  <2>3. QED
    BY <2>2
<1>3. \A i \in DOMAIN p : /\ Proper(q[i])
                          /\ q[i].level = p[i].level /\ q[i].branch = p[i].branch
                          /\ q[i].kind = p[i].kind
  <2>1. SUFFICES ASSUME NEW i \in DOMAIN p
                 PROVE  /\ Proper(q[i])
                        /\ q[i].level = p[i].level /\ q[i].branch = p[i].branch
                        /\ q[i].kind = p[i].kind
    OBVIOUS
  <2>2. RenamedFrom(p, k, output, i, q[i])
    BY <1>1, RenamedStatement, Zenon
  <2>3. QED
    BY <2>2 DEF RenamedFrom
<1>4. Retouched(p, q)
  BY <1>2, <1>3 DEF Retouched
<1>5. QED
  BY <1>1, <1>4, EditedProgram

(* What the operations on Selections and Events make of the program: it     *)
(* grows at its end, or a Selection gets an output no other one has.        *)
Extended == \E t : WholeTree(t) /\ Program' = Program \o t

OutputRenamed ==
  \E k \in Selects(Program) : \E output :
    /\ \A other \in Selects(Program) \ {k} : Program[other].output # output
    /\ Program' = Renamed(Program, k, output)

LEMMA ChooseStepWhole ==
  ASSUME DefinitionsInv, ProgramInv, HasProgram, ChooseStep
  PROVE  Filled /\ strategy'.groups = strategy.groups /\ (Extended \/ OutputRenamed)
<1>1. ASSUME NEW id, NEW g, NEW o, CreateProgramChoose(id, g, o)
      PROVE  Filled /\ strategy'.groups = strategy.groups /\ (Extended \/ OutputRenamed)
  <2>1. AnswerProgram(Append(Program, Select(id, o, g, "return")))
    BY <1>1 DEF CreateProgramChoose
  <2>2. FilledTree(Program)
    BY <2>1, AnsweredRequest
  <2>3. WholeTree(Append(Program, Select(id, o, g, "return")))
    BY <2>2, SelectionIsPlain, AppendedTree
  <2>4. WholeTree(<<Select(id, o, g, "return")>>)
    BY SelectionIsPlain, PlainStatement
  <2>5. Append(Program, Select(id, o, g, "return")) = Program \o <<Select(id, o, g, "return")>>
    BY <2>2, AppendIsJoin DEF FilledTree, IsTree
  <2>6. QED
    BY <2>1, <2>3, <2>4, <2>5, AnswerProgramWhole DEF Extended
<1>2. ASSUME NEW id, NEW o, RenameProgramSubgroup(id, o)
      PROVE  Filled /\ strategy'.groups = strategy.groups /\ (Extended \/ OutputRenamed)
  <2>1. PICK k \in Selects(Program) :
          /\ \A other \in Selects(Program) \ {k} : Program[other].output # o
          /\ AnswerProgram(Renamed(Program, k, o))
    BY <1>2, Zenon DEF RenameProgramSubgroup, Renamed
  <2>2. WholeTree(Program) /\ FilledTree(Program) /\ IsTree(Program, 0) /\ Program # <<>>
    BY <2>1, AnsweredRequest
  <2>3. SameShape(Program, Renamed(Program, k, o))
    BY <2>2, RenamedShape DEF Selects
  <2>4. WholeTree(Renamed(Program, k, o))
    BY <2>2, <2>3, EditedTree DEF WholeTree
  <2>5. QED
    BY <2>1, <2>4, AnswerProgramWhole DEF OutputRenamed
<1>3. ASSUME NEW id, NEW a, CreateProgramEventState(id, a)
      PROVE  Filled /\ strategy'.groups = strategy.groups /\ (Extended \/ OutputRenamed)
  <2>1. PICK x, y, r : /\ x = Statement(id, "on_event") /\ y = Statement(<<id, "transition">>, "transition")
                       /\ r = Placed(<<y>>, 1, "event")
    OBVIOUS
  <2>2. AnswerProgram(Append(Program, x) \o r)
    BY <1>3, <2>1 DEF CreateProgramEventState
  <2>3. FilledTree(Program)
    BY <2>2, AnsweredRequest
  <2>4. Root(x) /\ x.kind = "on_event" /\ Root(y) /\ Plain(y)
    BY <2>1, StatementIsRoot DEF Plain
  <2>5. WholeTree(<<x>> \o r)
    BY <2>1, <2>4, OwnerOfOne DEF Owning, PolicyBranches
  <2>6. WholeTree(Program \o (<<x>> \o r))
    BY <2>3, <2>5, RootsJoined
  <2>7. Append(Program, x) \o r = Program \o (<<x>> \o r)
    <3>1. IsSequence(Program) /\ IsSequence(<<x>>) /\ IsSequence(r)
      <4>1. IsTree(Program, 0)
        BY <2>3 DEF FilledTree
      <4>2. IsTree(<<x>>, 0)
        BY <2>4, OneStatement
      <4>3. WholeTree(<<y>>) /\ FitsBranch(<<y>>, "event")
        BY <2>4, PlainStatement DEF FitsBranch, PolicyBranches
      <4>4. IsTree(r, 1)
        BY <4>3, <2>1, PlacedIsWhole
      <4>5. QED
        BY <4>1, <4>2, <4>4 DEF IsTree
    <3>2. Append(Program, x) = Program \o <<x>>
      BY <3>1, AppendIsJoin
    <3>3. (Program \o <<x>>) \o r = Program \o (<<x>> \o r)
      <4>1. PICK S, T, U : Program \in Seq(S) /\ <<x>> \in Seq(T) /\ r \in Seq(U)
        BY <3>1 DEF IsSequence
      <4>2. PICK V : V = S \cup T \cup U
        OBVIOUS
      <4>3. Program \in Seq(V) /\ <<x>> \in Seq(V) /\ r \in Seq(V)
        BY <4>1, <4>2, SeqMonotonic
      <4>4. QED
        BY <4>3, ConcatAssociative
    <3>4. QED
      BY <3>2, <3>3
  <2>8. PICK t : t = <<x>> \o r
    OBVIOUS
  <2>9. WholeTree(t) /\ AnswerProgram(Program \o t) /\ WholeTree(Program \o t)
    BY <2>2, <2>5, <2>6, <2>7, <2>8
  <2>10. Filled /\ Program' = Program \o t /\ strategy'.groups = strategy.groups
    BY <2>9, AnswerProgramWhole
  <2>11. QED
    BY <2>9, <2>10 DEF Extended
<1>4. QED
  BY <1>1, <1>2, <1>3 DEF ChooseStep

(* Statements that differ in what they read, choose or allocate only.       *)
Alike(x, y) ==
  /\ Proper(y)
  /\ y.id = x.id /\ y.level = x.level /\ y.branch = x.branch /\ y.kind = x.kind
  /\ y.output = x.output

LEMMA SameIsAlike ==
  ASSUME NEW x, Proper(x)
  PROVE  Alike(x, x)
BY DEF Alike

Rerouted(x, method, legs) == [x EXCEPT !.method = method, !.legs = legs]

Relegged(x, legs) == [x EXCEPT !.legs = legs]

LEMMA LegsEdited ==
  ASSUME NEW x, Proper(x), x.kind = "allocate", NEW method,
         NEW legs, \A leg \in legs : leg = <<leg[1], leg[2]>>
  PROVE  /\ Alike(x, Relegged(x, legs)) /\ Relegged(x, legs).legs = legs
         /\ Alike(x, Rerouted(x, method, legs))
<1>1. ASSUME NEW y, y = Relegged(x, legs) \/ y = Rerouted(x, method, legs)
      PROVE  Alike(x, y) /\ y.legs = legs
  <2>1. /\ DOMAIN y = StatementFields /\ y.output = x.output
        /\ y.level = x.level /\ y.branch = x.branch /\ y.kind = x.kind /\ y.id = x.id
        /\ y.universe = x.universe /\ y.legs = legs
    BY <1>1 DEF Proper, StatementFields, Relegged, Rerouted
  <2>2. QED
    BY <2>1 DEF Proper, Alike
<1>2. QED
  BY <1>1

LEMMA ReadingEdited ==
  ASSUME NEW x, Proper(x), NEW uses, NEW method, NEW g, NEW y,
         \/ y = [x EXCEPT !.uses = uses]
         \/ y = [x EXCEPT !.method = method]
         \/ x.kind = "select" /\ y = [x EXCEPT !.universe = g, !.method = method]
  PROVE  Alike(x, y) /\ y.legs = x.legs
<1>1. /\ DOMAIN y = StatementFields /\ y.output = x.output
      /\ y.level = x.level /\ y.branch = x.branch /\ y.kind = x.kind /\ y.id = x.id
      /\ y.legs = x.legs
      /\ y.kind # "select" => y.universe = x.universe
  BY DEF Proper, StatementFields
<1>2. QED
  BY <1>1 DEF Proper, Alike

LEMMA AlikeShape ==
  ASSUME NEW p, IsTree(p, 0), NEW k \in DOMAIN p, NEW x, Alike(p[k], x)
  PROVE  SameShape(p, [p EXCEPT ![k] = x])
BY OneEdited DEF Alike

(* A program that routes its Splits to a new Selection.                     *)
DraftsOf(p, g) == {i \in DOMAIN p : p[i].kind = "allocate" /\ Drafted(p, i, g)}

Resolved(p, id, g) ==
  [i \in DOMAIN p |->
     IF i \notin DraftsOf(p, g) THEN p[i]
     ELSE [p[i] EXCEPT !.legs = (@ \ {<<"group", g>>}) \cup {<<"selection", <<id, "output">>>>}]]

LEMMA ResolvedShape ==
  ASSUME NEW p, IsTree(p, 0), NEW id, NEW g
  PROVE  SameShape(p, Resolved(p, id, g))
<1>1. PICK q : q = Resolved(p, id, g)
  OBVIOUS
<1>2. q = [i \in DOMAIN p |-> q[i]]
  <2>1. q \in [DOMAIN p -> {q[i] : i \in DOMAIN p}]
    BY <1>1, Zenon DEF Resolved
  <2>2. QED
    BY <2>1
<1>3. ASSUME NEW i \in DOMAIN p PROVE Alike(p[i], q[i])
  <2>1. Proper(p[i])
    BY DEF IsTree
  <2>2. PICK x, y, legs : /\ x = p[i] /\ y = q[i]
                          /\ legs = (x.legs \ {<<"group", g>>}) \cup {<<"selection", <<id, "output">>>>}
    OBVIOUS
  <2>3. \A leg \in legs : leg = <<leg[1], leg[2]>>
    BY <2>1, <2>2 DEF Proper
  <2>4. y = x \/ (x.kind = "allocate" /\ y = [x EXCEPT !.legs = legs])
    BY <1>1, <2>2 DEF Resolved, DraftsOf
  <2>5. ASSUME x.kind = "allocate", y = [x EXCEPT !.legs = legs] PROVE Alike(x, y)
    <3>1. y = Relegged(x, legs) /\ Proper(x)
      BY <2>1, <2>2, <2>5 DEF Relegged
    <3>2. QED
      BY <2>3, <2>5, <3>1, LegsEdited
  <2>6. QED
    BY <2>1, <2>2, <2>4, <2>5, SameIsAlike
<1>4. \A i \in DOMAIN p : /\ Proper(q[i])
                          /\ q[i].level = p[i].level /\ q[i].branch = p[i].branch
                          /\ q[i].kind = p[i].kind
  BY <1>3 DEF Alike
<1>5. Retouched(p, q)
  BY <1>2, <1>4 DEF Retouched
<1>6. QED
  BY <1>1, <1>5, EditedProgram

LEMMA SelectedTree ==
  ASSUME NEW p, FilledTree(p), NEW id, NEW g
  PROVE  WholeTree(WithSelection(p, id, g))
<1>1. PICK q, x, y, r : /\ q = Resolved(p, id, g) /\ x = Select(id, <<id, "output">>, g, "return")
                        /\ y = Allocate(<<id, "allocation">>, "equal", {<<"selection", <<id, "output">>>>})
                        /\ r = Append(q, x)
  OBVIOUS
<1>2. WithSelection(p, id, g) = r \o IF DraftsOf(p, g) # {} THEN <<>> ELSE <<y>>
  BY <1>1 DEF WithSelection, Resolved, DraftsOf
<1>3. FilledTree(q)
  BY <1>1, ResolvedShape, EditedTree DEF FilledTree
<1>4. WholeTree(r)
  BY <1>1, <1>3, SelectionIsPlain, AppendedTree
<1>5. WholeTree(<<y>>)
  BY <1>1, AllocationToOne
<1>6. WholeTree(r \o <<y>>)
  BY <1>4, <1>5, RootsJoined DEF WholeTree
<1>7. r \o <<>> = r
  BY <1>4 DEF WholeTree, FilledTree, IsTree, IsSequence
<1>8. QED
  BY <1>2, <1>4, <1>6, <1>7

(* The legs of a Split and what it takes the place of.                      *)
LastOf(p, groups, g) ==
  Max({k \in {k \in Selects(p) : p[k].level = 0 /\ p[k].universe \in groups} : p[k].universe = g})

SplitLegs(p, groups) ==
  {IF \E k \in {k \in Selects(p) : p[k].level = 0 /\ p[k].universe \in groups} : p[k].universe = g
   THEN <<"selection", p[LastOf(p, groups, g)].output>> ELSE <<"group", g>> : g \in groups}

LEMMA SplitTree ==
  ASSUME NEW p, FilledTree(p), NEW kept \in SUBSET (DOMAIN p),
         \A i \in DOMAIN p : i \notin kept => p[i].kind = "allocate" /\ p[i].level = 0,
         NEW x, Root(x), Plain(x)
  PROVE  WholeTree(Append(Only(p, kept), x))
<1>1. IsTree(p, 0) /\ DOMAIN p = 1..Len(p) /\ \A i \in DOMAIN p : FilledAt(p, i)
  BY TreeLevels DEF FilledTree
<1>2. \A i \in DOMAIN p : i \notin kept => p[i].level = 0 /\ p[i].kind \notin Owning
  BY DEF Owning
<1>3. PICK q : q = Only(p, kept)
  OBVIOUS
<1>4. IsTree(q, 0) /\ \A m \in 1..Len(q) : FilledAt(q, m)
  BY <1>1, <1>2, <1>3, OnlyIsTree
<1>5. QED
  BY <1>3, <1>4, AppendedTree DEF FilledTree

LEMMA SplitWhole ==
  ASSUME DefinitionsInv, ProgramInv, HasProgram, NEW id, NEW groups, SetProgramSplit(id, groups)
  PROVE  Filled /\ strategy'.groups = strategy.groups
<1> DEFINE legs == SplitLegs(Program, groups)
           replaced(i) ==
             /\ Program[i].kind = "allocate" /\ Program[i].level = 0
             /\ \/ /\ Program[i].method = "fixed" /\ Cardinality(Program[i].legs) > 1
                   /\ \A leg \in Program[i].legs : leg[1] \in {"group", "selection"}
                \/ \E leg \in legs : leg[1] = "selection" /\ Program[i].legs = {leg}
           kept == {i \in DOMAIN Program : ~replaced(i)}
           x == Allocate(id, "fixed", legs)
<1>1. AnswerProgram(Append(Only(Program, kept), x))
  BY DEF SetProgramSplit, SplitLegs, LastOf
<1>2. \A leg \in legs : leg = <<leg[1], leg[2]>>
  BY DEF SplitLegs
<1>3. kept \in SUBSET (DOMAIN Program)
  OBVIOUS
<1>4. \A i \in DOMAIN Program : i \notin kept => Program[i].kind = "allocate" /\ Program[i].level = 0
  OBVIOUS
<1> HIDE DEF kept, legs
<1>5. Root(x) /\ Plain(x)
  BY <1>2, AllocateIsRoot DEF Plain
<1> HIDE DEF x
<1>6. FilledTree(Program)
  BY <1>1, AnsweredRequest
<1>7. WholeTree(Append(Only(Program, kept), x))
  BY <1>3, <1>4, <1>5, <1>6, SplitTree
<1>8. QED
  BY <1>1, <1>7, AnswerProgramWhole

LEMMA OneOfAllocations ==
  ASSUME NEW id, NEW a \in AllocationsOf(id)
  PROVE  /\ \A leg \in a.legs : leg = <<leg[1], leg[2]>>
         /\ Root(a) /\ Plain(a) /\ a.kind = "allocate"
<1> DEFINE targets == ({"asset"} \X Assets) \cup ({"group"} \X GroupIds) \cup ({"selection"} \X Outputs)
           scored == {out \in Outputs : "score" \in Rankings}
<1>a. \A target \in targets : target = <<target[1], target[2]>>
  OBVIOUS
<1>b. \A o \in scored : <<"selection", o>> = <<<<"selection", o>>[1], <<"selection", o>>[2]>>
  OBVIOUS
<1>c. \/ \E target \in targets : a = Allocate(id, "equal", {target})
      \/ \E o \in scored : a = Allocate(id, "proportional_score", {<<"selection", o>>})
  BY Zenon DEF AllocationsOf
<1> HIDE DEF targets, scored
<1>1. PICK method, target : a = Allocate(id, method, {target}) /\ target = <<target[1], target[2]>>
  <2>1. CASE \E target \in targets : a = Allocate(id, "equal", {target})
    <3>1. PICK target \in targets : a = Allocate(id, "equal", {target})
      BY <2>1
    <3>2. QED
      BY <3>1, <1>a
  <2>2. CASE \E o \in scored : a = Allocate(id, "proportional_score", {<<"selection", o>>})
    <3>1. PICK o \in scored : a = Allocate(id, "proportional_score", {<<"selection", o>>})
      BY <2>2
    <3>2. QED
      BY <3>1, <1>b
  <2>3. QED
    BY <1>c, <2>1, <2>2
<1>2. a.legs = {target}
  BY <1>1 DEF Allocate, Statement
<1>3. QED
  BY <1>1, <1>2, AllocationToOne

LEMMA InvestmentWhole ==
  ASSUME DefinitionsInv, ProgramInv, HasProgram, NEW id, NEW a \in AllocationsOf(id),
         SetProgramInvestment(id, a)
  PROVE  Filled /\ strategy'.groups = strategy.groups
<1>1. Root(a) /\ Plain(a) /\ a.kind = "allocate" /\ WholeTree(<<a>>)
  BY OneOfAllocations, PlainStatement
<1>2. CASE id \in Ids(Program)
  <2>1. PICK k : k = Position(Program, id) /\ AnswerProgram(Swap(Program, k, <<a>>))
    BY <1>2 DEF SetProgramInvestment
  <2>2. FilledTree(Program) /\ k \in DOMAIN Program
    BY <1>2, <2>1, AnsweredRequest, PositionFound
  <2>3. FitsBranch(<<a>>, Program[k].branch)
    <3>1. Len(<<a>>) = 1 /\ <<a>>[1] = a
      OBVIOUS
    <3>2. PICK t : t = <<a>>
      OBVIOUS
    <3>3. \A m \in 1..Len(t) : t[m].kind = "allocate"
      BY <1>1, <3>1, <3>2
    <3>4. QED
      BY <3>2, <3>3 DEF FitsBranch
  <2>4. WholeTree(Swap(Program, k, <<a>>))
    BY <1>1, <2>2, <2>3, SwappedTree
  <2>5. QED
    BY <2>1, <2>4, AnswerProgramWhole
<1>3. CASE id \notin Ids(Program)
  <2>1. AnswerProgram(Append(Program, a))
    BY <1>3 DEF SetProgramInvestment
  <2>2. FilledTree(Program)
    BY <2>1, AnsweredRequest
  <2>3. WholeTree(Append(Program, a))
    BY <1>1, <2>2, AppendedTree
  <2>4. QED
    BY <2>1, <2>3, AnswerProgramWhole
<1>4. QED
  BY <1>2, <1>3


(* A statement edited into one that is alike.                               *)
LEMMA AlikeWhole ==
  ASSUME DefinitionsInv, ProgramInv, HasProgram, NEW k \in DOMAIN Program, NEW x,
         Proper(Program[k]) => Alike(Program[k], x), AnswerProgram([Program EXCEPT ![k] = x])
  PROVE  Filled /\ strategy'.groups = strategy.groups
<1>1. WholeTree(Program) /\ IsTree(Program, 0)
  BY AnsweredRequest
<1>2. Alike(Program[k], x)
  BY <1>1 DEF IsTree
<1>3. PICK q : q = [Program EXCEPT ![k] = x]
  OBVIOUS
<1>4. SameShape(Program, q)
  BY <1>1, <1>2, <1>3, AlikeShape
<1>5. WholeTree(q)
  BY <1>1, <1>4, EditedTree DEF WholeTree
<1>6. QED
  BY <1>3, <1>5, AnswerProgramWhole

LEMMA AllocationWhole ==
  ASSUME DefinitionsInv, ProgramInv, HasProgram,
         NEW id, NEW role \in {"statement", "primary", "fallback"}, NEW a \in AllocationsOf(id),
         SetProgramAllocation(id, role, a)
  PROVE  Filled /\ strategy'.groups = strategy.groups
<1> DEFINE k == Position(Program, id)
           new(i) == [Program[i] EXCEPT !.method = a.method, !.legs = a.legs]
<1>1. k \in DOMAIN Program
  BY AddressFound DEF SetProgramAllocation, ProgramInv, Sane
<1>2. \/ Program[k].kind = "allocate" /\ AnswerProgram([Program EXCEPT ![k] = new(k)])
      \/ /\ role # "statement"
         /\ \E i \in Branch(Program, k, role) : AnswerProgram([Program EXCEPT ![i] = new(i)])
      \/ /\ role = "fallback" /\ Program[k].kind = "guarded_allocation"
         /\ AnswerProgram(SubSeq(Program, 1, SubtreeEnd(Program, k))
              \o Placed(<<Allocate(<<id, role>>, a.method, a.legs)>>, Program[k].level + 1, role)
              \o SubSeq(Program, SubtreeEnd(Program, k) + 1, Len(Program)))
  BY DEF SetProgramAllocation
<1> HIDE DEF k
<1>3. \A leg \in a.legs : leg = <<leg[1], leg[2]>>
  BY OneOfAllocations
<1>4. ASSUME NEW i \in DOMAIN Program, Program[i].kind = "allocate",
             AnswerProgram([Program EXCEPT ![i] = new(i)])
      PROVE  Filled /\ strategy'.groups = strategy.groups
  <2>1. PICK x : x = new(i)
    OBVIOUS
  <2>3. Proper(Program[i]) => Alike(Program[i], x)
    <3>1. PICK y, method, legs : y = Program[i] /\ method = a.method /\ legs = a.legs
      OBVIOUS
    <3>2. x = Rerouted(y, method, legs) /\ y.kind = "allocate"
      BY <1>4, <2>1, <3>1 DEF Rerouted
    <3>3. Proper(y) => Alike(y, x)
      BY <1>3, <3>1, <3>2, LegsEdited
    <3>4. QED
      BY <3>1, <3>3
  <2>4. QED
    BY <1>4, <2>1, <2>3, AlikeWhole
<1>5. CASE Program[k].kind = "allocate" /\ AnswerProgram([Program EXCEPT ![k] = new(k)])
  BY <1>1, <1>4, <1>5
<1>6. ASSUME role # "statement",
             NEW i \in Branch(Program, k, role), AnswerProgram([Program EXCEPT ![i] = new(i)])
      PROVE  Filled /\ strategy'.groups = strategy.groups
  <2>1. i \in DOMAIN Program /\ Program[i].branch = role
    BY DEF Branch
  <2>2. IsTree(Program, 0)
    BY DEF ProgramInv, Sane
  <2>3. Program[i].kind = "allocate"
    BY <1>6, <2>1, <2>2 DEF IsTree, Proper, PolicyBranches
  <2>4. QED
    BY <1>4, <1>6, <2>1, <2>3
<1>7. ASSUME role = "fallback", Program[k].kind = "guarded_allocation",
             AnswerProgram(SubSeq(Program, 1, SubtreeEnd(Program, k))
               \o Placed(<<Allocate(<<id, role>>, a.method, a.legs)>>, Program[k].level + 1, role)
               \o SubSeq(Program, SubtreeEnd(Program, k) + 1, Len(Program)))
      PROVE  Filled /\ strategy'.groups = strategy.groups
  <2>1. PICK x, t : x = Allocate(<<id, role>>, a.method, a.legs) /\ t = <<x>>
    OBVIOUS
  <2>2. Root(x) /\ Plain(x) /\ x.kind = "allocate"
    BY <1>3, <2>1, AllocateIsRoot DEF Plain
  <2>3. WholeTree(t)
    BY <2>1, <2>2, PlainStatement
  <2>4. FitsBranch(t, role)
    <3>1. Len(t) = 1 /\ t[1] = x
      BY <2>1
    <3>2. QED
      BY <2>2, <3>1 DEF FitsBranch
  <2>5. FilledTree(Program)
    BY <1>7, AnsweredRequest
  <2>6. Program[k].kind \in Owning
    BY <1>7 DEF Owning
  <2>7. WholeTree(SubSeq(Program, 1, SubtreeEnd(Program, k))
                    \o Placed(t, Program[k].level + 1, role)
                    \o SubSeq(Program, SubtreeEnd(Program, k) + 1, Len(Program)))
    BY <1>1, <2>3, <2>4, <2>5, <2>6, FallbackTree
  <2>8. QED
    BY <1>7, <2>1, <2>7, AnswerProgramWhole
<1>8. QED
  BY <1>2, <1>5, <1>6, <1>7

LEMMA CapitalStepWhole ==
  ASSUME DefinitionsInv, ProgramInv, HasProgram, CapitalStep
  PROVE  Filled /\ strategy'.groups = strategy.groups
<1>1. ASSUME NEW id, NEW g, CreateProgramSelection(id, g)
      PROVE  Filled /\ strategy'.groups = strategy.groups
  <2>1. AnswerProgram(WithSelection(Program, id, g))
    BY <1>1 DEF CreateProgramSelection
  <2>2. FilledTree(Program)
    BY <2>1, AnsweredRequest
  <2>3. WholeTree(WithSelection(Program, id, g))
    BY <2>2, SelectedTree
  <2>4. QED
    BY <2>1, <2>3, AnswerProgramWhole
<1>2. CASE \E id \in StatementIds, g \in GroupIds : CreateProgramSelection(id, g)
  BY <1>1, <1>2
<1>3. CASE \E id \in StatementIds \cup Addresses : \E a \in AllocationsOf(id) : SetProgramInvestment(id, a)
  BY <1>3, InvestmentWhole
<1>4. CASE \E id \in StatementIds, groups \in {gs \in SUBSET GroupIds : Cardinality(gs) >= 2} :
             SetProgramSplit(id, groups)
  BY <1>4, SplitWhole, Zenon
<1>5. CASE \E id \in Addresses, role \in {"statement", "primary", "fallback"} :
             \E a \in AllocationsOf(id) : SetProgramAllocation(id, role, a)
  BY <1>5, AllocationWhole
<1>6. QED
  BY <1>2, <1>3, <1>4, <1>5 DEF CapitalStep


LEMMA PlacesAreCounted ==
  ASSUME IsTree(Program, 0), NEW place \in Places
  PROVE  place[3] \in Nat
<1>1. PICK at \in ({0} \cup DOMAIN Program) \X BranchNames :
        place \in {<<at[1], at[2], n>> : n \in 0..Cardinality(Branch(Program, at[1], at[2]))}
  BY DEF Places
<1>2. PICK n \in 0..Cardinality(Branch(Program, at[1], at[2])) : place = <<at[1], at[2], n>>
  BY <1>1
<1>3. Cardinality(Branch(Program, at[1], at[2])) \in Nat
  <2>1. DOMAIN Program = 1..Len(Program) /\ Len(Program) \in Nat
    BY TreeLevels
  <2>2. IsFiniteSet(DOMAIN Program)
    BY <2>1, FS_Interval
  <2>3. Branch(Program, at[1], at[2]) \subseteq DOMAIN Program
    BY DEF Branch
  <2>4. IsFiniteSet(Branch(Program, at[1], at[2]))
    BY <2>2, <2>3, FS_Subset
  <2>5. QED
    BY <2>4, FS_CardinalityType
<1>4. QED
  BY <1>2, <1>3

Inserted ==
  \E parent, branch, n, tree :
    /\ Owns(Program, parent, branch) /\ n \in Nat /\ WholeTree(tree)
    /\ Program' = Insert(Program, parent, branch, n, tree)

LEMMA InsertStepWhole ==
  ASSUME DefinitionsInv, ProgramInv, HasProgram, InsertStep
  PROVE  Filled /\ strategy'.groups = strategy.groups /\ Inserted
<1>1. PICK place \in Places, tree \in TreesOfAll :
        InsertProgramStatement(place, tree) \/ FormalizeDraftPhrase(place, tree)
  BY Zenon DEF InsertStep
<1>2. PICK q : q = Insert(Program, place[1], place[2], place[3], tree)
  OBVIOUS
<1>3. /\ Owns(Program, place[1], place[2])
      /\ AnswerProgram(q) \/ (\E id : AnswerFormalized(q, id))
  BY <1>1, <1>2 DEF InsertProgramStatement, FormalizeDraftPhrase
<1>4. FilledTree(Program) /\ IsTree(Program, 0)
  BY <1>3, AnsweredRequest
<1>5. place[3] \in Nat /\ WholeTree(tree)
  BY <1>4, PlacesAreCounted, ClientTrees DEF Client
<1>6. WholeTree(q)
  BY <1>2, <1>3, <1>4, <1>5, InsertedTree
<1>7. Filled /\ strategy'.groups = strategy.groups /\ Program' = q
  BY <1>3, <1>6, AnswerProgramWhole
<1>8. QED
  BY <1>2, <1>3, <1>5, <1>7 DEF Inserted

(* A tree that takes the place of a statement.                              *)
LEMMA SwapWhole ==
  ASSUME DefinitionsInv, ProgramInv, HasProgram, NEW k \in DOMAIN Program, NEW tree, Client(tree),
         PolicyOwned(Program, k) => tree[1].kind = "allocate",
         LET q == Swap(Program, k, tree) IN AnswerProgram(q) \/ (\E id : AnswerFormalized(q, id))
  PROVE  Filled /\ strategy'.groups = strategy.groups
<1>1. FilledTree(Program)
  BY AnsweredRequest
<1>2. FitsBranch(tree, Program[k].branch)
  BY DEF FitsBranch, PolicyBranches, PolicyOwned, Client, OneRoot
<1>3. WholeTree(Swap(Program, k, tree))
  BY <1>1, <1>2, SwappedTree DEF Client
<1>4. QED
  BY <1>3, AnswerProgramWhole

(* The edits of one statement in place.                                     *)
LEMMA EditWhole ==
  ASSUME DefinitionsInv, ProgramInv, HasProgram, NEW id, NEW x, NEW kinds, Edit(id, kinds, x),
         Proper(Current(id)) => Alike(Current(id), x)
  PROVE  Filled /\ strategy'.groups = strategy.groups
<1>1. PICK k : k = Position(Program, id)
  OBVIOUS
<1>2. k \in DOMAIN Program /\ AnswerProgram([Program EXCEPT ![k] = x]) /\ Current(id) = Program[k]
  BY <1>1, AddressFound DEF Edit, ProgramInv, Sane, Current
<1>3. QED
  BY <1>2, AlikeWhole

LEMMA ReplaceWhole ==
  ASSUME DefinitionsInv, ProgramInv, HasProgram, NEW id, NEW tree \in TreesOf(id),
         ReplaceProgramStatement(id, tree)
  PROVE  Filled /\ strategy'.groups = strategy.groups
<1>1. PICK k : k = Position(Program, id)
  OBVIOUS
<1>2. /\ k \in DOMAIN Program
      /\ PolicyOwned(Program, k) => tree[1].kind = "allocate"
      /\ AnswerProgram(Swap(Program, k, tree))
  BY <1>1, PositionFound DEF ReplaceProgramStatement
<1>3. Client(tree)
  BY TreesOfAreWhole
<1>4. QED
  BY <1>2, <1>3, SwapWhole

LEMMA FormalizeWhole ==
  ASSUME DefinitionsInv, ProgramInv, HasProgram, NEW id, NEW tree \in TreesOfAll,
         FormalizeProgramStatement(id, tree)
  PROVE  Filled /\ strategy'.groups = strategy.groups
<1>1. PICK k : k = Position(Program, id)
  OBVIOUS
<1>2. /\ k \in DOMAIN Program /\ ~PolicyOwned(Program, k)
      /\ AnswerFormalized(Swap(Program, k, tree), tree[1].id)
  BY <1>1, AddressFound DEF FormalizeProgramStatement, ProgramInv, Sane
<1>3. Client(tree)
  BY ClientTrees
<1>4. QED
  BY <1>2, <1>3, SwapWhole


LEMMA ConditionWhole ==
  ASSUME DefinitionsInv, ProgramInv, HasProgram, NEW id, NEW uses, SetProgramCondition(id, uses)
  PROVE  Filled /\ strategy'.groups = strategy.groups
<1>1. PICK x, y : x = Current(id) /\ y = [x EXCEPT !.uses = uses]
  OBVIOUS
<1>2. Proper(x) => Alike(x, y)
  BY <1>1, ReadingEdited, Zenon
<1>3. \E kinds : Edit(id, kinds, y)
  BY <1>1, Zenon DEF SetProgramCondition
<1>4. QED
  BY <1>1, <1>2, <1>3, EditWhole

LEMMA RankingWhole ==
  ASSUME DefinitionsInv, ProgramInv, HasProgram, NEW id, NEW ranking, SetProgramRanking(id, ranking)
  PROVE  Filled /\ strategy'.groups = strategy.groups
<1>1. PICK x, y : x = Current(id) /\ y = [x EXCEPT !.method = ranking]
  OBVIOUS
<1>2. Proper(x) => Alike(x, y)
  BY <1>1, ReadingEdited, Zenon
<1>3. \E kinds : Edit(id, kinds, y)
  BY <1>1, Zenon DEF SetProgramRanking
<1>4. QED
  BY <1>1, <1>2, <1>3, EditWhole

LEMMA SelectionWhole ==
  ASSUME DefinitionsInv, ProgramInv, HasProgram, NEW id, NEW g, NEW ranking,
         SetProgramSelection(id, g, ranking)
  PROVE  Filled /\ strategy'.groups = strategy.groups
<1>1. PICK x, y : x = Current(id) /\ y = [x EXCEPT !.universe = g, !.method = ranking]
  OBVIOUS
<1>2. Edit(id, {"select"}, y)
  BY <1>1 DEF SetProgramSelection
<1>3. Proper(x) => x.kind = "select"
  <2>1. Proper(x) => y.kind = x.kind
    BY <1>1 DEF Proper, StatementFields
  <2>2. y.kind = "select"
    BY <1>2 DEF Edit
  <2>3. QED
    BY <2>1, <2>2
<1>4. Proper(x) => Alike(x, y)
  BY <1>1, <1>3, ReadingEdited, Zenon
<1>5. QED
  BY <1>1, <1>2, <1>4, EditWhole

LEMMA PhrasesWhole ==
  ASSUME DefinitionsInv, ProgramInv, HasProgram, NEW ids, SetProgramFormalizations(ids)
  PROVE  Filled /\ strategy'.groups = strategy.groups
<1>1. PICK t : t = [strategy EXCEPT !.formalizations = ids] /\ Answer(t)
  BY DEF SetProgramFormalizations
<1>2. t.program = Program /\ t.groups = strategy.groups
  BY <1>1 DEF DefinitionsInv, Sound, Fields, Program
<1>3. WholeTree(t.program)
  BY <1>1, <1>2, RequestIsWhole
<1>4. Filled
  BY <1>1, <1>3, AnswerWhole
<1>5. QED
  BY <1>1, <1>2, <1>4 DEF Answer

LEMMA StatementStepWhole ==
  ASSUME DefinitionsInv, ProgramInv, HasProgram, StatementStep
  PROVE  Filled /\ strategy'.groups = strategy.groups
<1>1. CASE \E id \in Addresses : \E tree \in TreesOf(id) : ReplaceProgramStatement(id, tree)
  BY <1>1, ReplaceWhole
<1>2. CASE \E id \in Addresses, uses \in {{}} \cup {{u} : u \in StatementIds} :
             SetProgramCondition(id, uses)
  BY <1>2, ConditionWhole
<1>3. CASE \E id \in Addresses, ranking \in Rankings : SetProgramRanking(id, ranking)
  BY <1>3, RankingWhole
<1>4. CASE \E id \in Addresses, g \in GroupIds : SetProgramSelection(id, g, "return")
  BY <1>4, SelectionWhole
<1>5. CASE \E ids \in SUBSET StatementIds : SetProgramFormalizations(ids)
  BY <1>5, PhrasesWhole
<1>6. CASE \E id \in Addresses, tree \in TreesOfAll : FormalizeProgramStatement(id, tree)
  BY <1>6, FormalizeWhole
<1>7. QED
  BY <1>1, <1>2, <1>3, <1>4, <1>5, <1>6 DEF StatementStep


---------------------------------------------------------------------------
(* Whole meanings: the groups of their statements, and their trees *)

RefsIn(t, G) == \A m \in 1..Len(t) : GroupRefs(t[m]) \subseteq G

LEMMA JoinedRefs ==
  ASSUME NEW p, IsSequence(p), NEW t, IsSequence(t), NEW G, RefsIn(p, G), RefsIn(t, G)
  PROVE  RefsIn(p \o t, G)
<1>1. PICK q : q = p \o t
  OBVIOUS
<1>2. /\ Len(q) = Len(p) + Len(t) /\ Len(p) \in Nat /\ Len(t) \in Nat
      /\ \A m \in 1..Len(p) : q[m] = p[m]
      /\ \A m \in 1..Len(t) : q[Len(p) + m] = t[m]
  <2>1. /\ IsSequence(p \o t) /\ Len(p \o t) = Len(p) + Len(t) /\ Len(p) \in Nat /\ Len(t) \in Nat
        /\ \A m \in 1..Len(p) : (p \o t)[m] = p[m]
        /\ \A m \in 1..Len(t) : (p \o t)[Len(p) + m] = t[m]
    BY JoinedAt
  <2>2. QED
    BY <1>1, <2>1, Zenon
<1>3. ASSUME NEW m \in 1..Len(q) PROVE GroupRefs(q[m]) \subseteq G
  <2>1. CASE m <= Len(p)
    <3>1. m \in 1..Len(p)
      BY <1>2, <2>1
    <3>2. QED
      BY <1>2, <3>1 DEF RefsIn
  <2>2. CASE ~(m <= Len(p))
    <3>1. m - Len(p) \in 1..Len(t) /\ Len(p) + (m - Len(p)) = m
      BY <1>2, <2>2
    <3>2. q[m] = t[m - Len(p)]
      BY <1>2, <3>1
    <3>3. QED
      BY <3>1, <3>2 DEF RefsIn
  <2>3. QED
    BY <2>1, <2>2
<1>4. QED
  BY <1>1, <1>3 DEF RefsIn

LEMMA PlacedRefs ==
  ASSUME NEW t, IsTree(t, 0), NEW l, NEW branch, NEW q, PlacedAs(t, l, branch, q), NEW G, RefsIn(t, G)
  PROVE  RefsIn(q, G)
<1>1. Len(q) = Len(t) /\ DOMAIN t = 1..Len(t)
  BY TreeLevels DEF PlacedAs
<1>2. ASSUME NEW m \in 1..Len(t) PROVE GroupRefs(q[m]) \subseteq G
  <2>1. q[m] = [t[m] EXCEPT !.level = t[m].level + l,
                            !.branch = IF t[m].level = 0 THEN branch ELSE t[m].branch]
    BY DEF PlacedAs
  <2>2. DOMAIN t[m] = StatementFields
    BY <1>1 DEF IsTree, Proper
  <2>3. q[m].universe = t[m].universe /\ q[m].legs = t[m].legs
    BY <2>1, <2>2 DEF StatementFields
  <2>4. GroupRefs(q[m]) = GroupRefs(t[m])
    BY <2>3 DEF GroupRefs
  <2>5. QED
    BY <2>4 DEF RefsIn
<1>3. QED
  BY <1>1, <1>2 DEF RefsIn

(* The statements the recipes are built from.                               *)
LEMMA RecipeRefs ==
  /\ \A id, kind : GroupRefs(Statement(id, kind)) = {}
  /\ \A id, output, g, ranking : GroupRefs(Select(id, output, g, ranking)) \subseteq {g}
  /\ \A id, method, a : GroupRefs(Allocate(id, method, {<<"asset", a>>})) = {}
  /\ \A id, method, o : GroupRefs(Allocate(id, method, {<<"selection", o>>})) = {}
  /\ \A id, method, a, o :
       GroupRefs(Allocate(id, method, {<<"selection", o>>, <<"asset", a>>})) = {}
<1>1. ASSUME NEW id, NEW kind PROVE GroupRefs(Statement(id, kind)) = {}
  BY RecipeIdentities DEF GroupRefs, Statement
<1>2. ASSUME NEW id, NEW output, NEW g, NEW ranking
      PROVE  GroupRefs(Select(id, output, g, ranking)) \subseteq {g}
  BY DEF GroupRefs, Select, Statement
<1>3. ASSUME NEW id, NEW method, NEW legs, \A leg \in legs : leg[1] # "group"
      PROVE  GroupRefs(Allocate(id, method, legs)) = {}
  <2>1. Allocate(id, method, legs).universe = None /\ Allocate(id, method, legs).legs = legs
    BY DEF Allocate, Statement
  <2>2. \A g : <<"group", g>> \notin legs
    BY <1>3
  <2>3. QED
    BY <2>1, <2>2, RecipeIdentities DEF GroupRefs
<1>4. ASSUME NEW id, NEW method, NEW a, NEW o
      PROVE  /\ GroupRefs(Allocate(id, method, {<<"asset", a>>})) = {}
             /\ GroupRefs(Allocate(id, method, {<<"selection", o>>})) = {}
             /\ GroupRefs(Allocate(id, method, {<<"selection", o>>, <<"asset", a>>})) = {}
  BY <1>3
<1>5. QED
  BY <1>1, <1>2, <1>4


Grounded == RefsIn(Program', DOMAIN strategy'.groups)

LEMMA RecipeAnswered ==
  ASSUME NEW t, Answer(t), WholeTree(t.program), RefsIn(t.program, DOMAIN t.groups)
  PROVE  Filled /\ Grounded
<1>1. Filled /\ Program' = t.program
  BY AnswerWhole
<1>2. strategy' = t
  BY DEF Answer
<1>3. QED
  BY <1>1, <1>2 DEF Grounded

Recipe(sets, groups, q) == [RecipeDefinitions(sets, groups) EXCEPT !.program = q]

LEMMA RecipeStrategy ==
  ASSUME NEW sets, NEW groups, NEW q
  PROVE  Recipe(sets, groups, q).program = q /\ DOMAIN Recipe(sets, groups, q).groups = groups
BY DEF Recipe, RecipeDefinitions, EmptyDefinitions

LEMMA OneRefs ==
  ASSUME NEW x, NEW G, GroupRefs(x) \subseteq G
  PROVE  RefsIn(<<x>>, G)
BY DEF RefsIn

LEMMA TwoRefs ==
  ASSUME NEW x, NEW y, NEW G, GroupRefs(x) \subseteq G, GroupRefs(y) \subseteq G
  PROVE  RefsIn(<<x, y>>, G)
<1>1. Len(<<x, y>>) = 2 /\ <<x, y>>[1] = x /\ <<x, y>>[2] = y
  OBVIOUS
<1>2. PICK t : t = <<x, y>>
  OBVIOUS
<1>3. \A m \in 1..Len(t) : m = 1 \/ m = 2
  BY <1>1, <1>2
<1>4. QED
  BY <1>1, <1>2, <1>3 DEF RefsIn

LEMMA SingleAssetWhole ==
  ASSUME NEW g, NEW assetSet, NEW a, CommitSingleAssetIntent(g, assetSet, a)
  PROVE  Filled /\ Grounded
<1>1. PICK t, s, q, x :
        /\ s = WithGroup([EmptyDefinitions EXCEPT !.assetSets = [y \in {} |-> {}]], g, assetSet, {a})
        /\ t = [s EXCEPT !.program = q] /\ Answer(t) /\ q = <<x>>
        /\ x = Allocate(Own("single-asset-allocation"), "fixed", {<<"asset", a>>})
  BY DEF CommitSingleAssetIntent
<1>2. t.program = q
  BY <1>1 DEF WithGroup, EmptyDefinitions
<1>3. WholeTree(q)
  <2>1. PICK target : target = <<"asset", a>>
    OBVIOUS
  <2>2. target = <<target[1], target[2]>>
    BY <2>1
  <2>3. QED
    BY <1>1, <2>1, <2>2, AllocationToOne
<1>4. RefsIn(q, DOMAIN t.groups)
  <2>1. GroupRefs(x) = {}
    BY <1>1, RecipeRefs, Zenon
  <2>2. QED
    BY <1>1, <2>1, OneRefs
<1>5. QED
  BY <1>1, <1>2, <1>3, <1>4, RecipeAnswered

LEMMA WeightedScoreWhole ==
  ASSUME CommitWeightedScoreIntent
  PROVE  Filled /\ Grounded
<1>1. PICK t, q, x, y :
        /\ t = Recipe({GrowthAssets}, {Growth}, q)
        /\ Answer(t) /\ q = <<x, y>>
        /\ x = Select(Own("select-growth"), GrowthOutput, Growth, "score")
        /\ y = Allocate(Own("allocate-by-score"), "proportional_score", {<<"selection", GrowthOutput>>})
  BY DEF CommitWeightedScoreIntent, RecipeSelection, Recipe
<1>2. t.program = q /\ DOMAIN t.groups = {Growth}
  BY <1>1, RecipeStrategy
<1>3. Root(x) /\ Plain(x)
  BY <1>1, SelectionIsPlain
<1>4. Root(y) /\ Plain(y)
  <2>1. PICK target : target = <<"selection", GrowthOutput>>
    OBVIOUS
  <2>2. target = <<target[1], target[2]>>
    BY <2>1
  <2>3. QED
    BY <1>1, <2>1, <2>2, AllocationToOne
<1>5. WholeTree(q)
  BY <1>1, <1>3, <1>4, TwoStatements
<1>6. RefsIn(q, {Growth})
  <2>1. GroupRefs(x) \subseteq {Growth} /\ GroupRefs(y) = {}
    BY <1>1, RecipeRefs, Zenon
  <2>2. QED
    BY <1>1, <2>1, TwoRefs
<1>7. QED
  BY <1>1, <1>2, <1>5, <1>6, RecipeAnswered

LEMMA SplitPortfolioWhole ==
  ASSUME NEW a, CommitSplitPortfolioIntent(a)
  PROVE  Filled /\ Grounded
<1>1. PICK t, q, x, y, legs :
        /\ t = Recipe({GrowthAssets, DefensiveAssets}, {Growth, Defensive}, q)
        /\ Answer(t) /\ q = <<x, y>>
        /\ x = Select(Own("select-growth"), GrowthOutput, Growth, "return")
        /\ y = Allocate(Own("portfolio-split"), "fixed", legs)
        /\ legs = {<<"selection", GrowthOutput>>, <<"asset", a>>}
  BY DEF CommitSplitPortfolioIntent, RecipeSelection, Recipe
<1>2. t.program = q /\ DOMAIN t.groups = {Growth, Defensive}
  BY <1>1, RecipeStrategy
<1>3. Root(x) /\ Plain(x)
  BY <1>1, SelectionIsPlain
<1>4. Root(y) /\ Plain(y)
  <2>1. \A leg \in legs : leg = <<leg[1], leg[2]>>
    BY <1>1
  <2>2. QED
    BY <1>1, <2>1, AllocateIsRoot DEF Plain
<1>5. WholeTree(q)
  BY <1>1, <1>3, <1>4, TwoStatements
<1>6. RefsIn(q, {Growth, Defensive})
  <2>1. GroupRefs(x) \subseteq {Growth} /\ GroupRefs(y) = {}
    BY <1>1, RecipeRefs, Zenon
  <2>2. QED
    BY <1>1, <2>1, TwoRefs
<1>7. QED
  BY <1>1, <1>2, <1>5, <1>6, RecipeAnswered


LEMMA MarketRegimeWhole ==
  ASSUME NEW a, CommitMarketRegimeRotationIntent(a)
  PROVE  Filled /\ Grounded
<1>1. PICK t, x, y, z, w, r, v :
        /\ t = Recipe({GrowthAssets, DefensiveAssets}, {Growth}, <<x>> \o r \o v)
        /\ Answer(t) /\ r = Placed(<<y, z>>, 1, "then") /\ v = Placed(<<w>>, 1, "otherwise")
        /\ x = Statement(Own("market-regime-routing"), "control")
        /\ y = Select(Own("select-growth"), GrowthOutput, Growth, "return")
        /\ z = Allocate(Own("allocate-selection"), "equal", {<<"selection", GrowthOutput>>})
        /\ w = Allocate(Own("market-regime-defensive"), "fixed", {<<"asset", a>>})
  BY DEF CommitMarketRegimeRotationIntent, RecipeSelection, Recipe
<1>2. PICK p, q : p = <<x>> \o r /\ q = p \o v
  OBVIOUS
<1>3. t.program = q /\ DOMAIN t.groups = {Growth}
  <2>1. t = Recipe({GrowthAssets, DefensiveAssets}, {Growth}, q)
    BY <1>1, <1>2, Zenon
  <2>2. PICK sets, groups : sets = {GrowthAssets, DefensiveAssets} /\ groups = {Growth}
    OBVIOUS
  <2>3. Recipe(sets, groups, q).program = q /\ DOMAIN Recipe(sets, groups, q).groups = groups
    BY RecipeStrategy, Zenon
  <2>4. t = Recipe(sets, groups, q)
    BY <2>1, <2>2, Zenon
  <2>5. QED
    BY <2>2, <2>3, <2>4, Zenon
<1>4. Root(x) /\ x.kind = "control"
  BY <1>1, StatementIsRoot
<1>5. Root(y) /\ Plain(y)
  BY <1>1, SelectionIsPlain
<1>6. Root(z) /\ Plain(z)
  <2>1. PICK target : target = <<"selection", GrowthOutput>>
    OBVIOUS
  <2>2. target = <<target[1], target[2]>>
    BY <2>1
  <2>3. QED
    BY <1>1, <2>1, <2>2, AllocationToOne
<1>7. Root(w) /\ Plain(w)
  <2>1. PICK target : target = <<"asset", a>>
    OBVIOUS
  <2>2. target = <<target[1], target[2]>>
    BY <2>1
  <2>3. QED
    BY <1>1, <2>1, <2>2, AllocationToOne
<1>8. WholeTree(<<y, z>>) /\ \A m \in 1..Len(<<y, z>>) : Plain(<<y, z>>[m])
  BY <1>5, <1>6, TwoStatements
<1>9. FitsBranch(<<y, z>>, "then") /\ FitsBranch(<<w>>, "otherwise")
  BY DEF FitsBranch, PolicyBranches
<1>10. WholeTree(p)
  <2>1. x.kind \in Owning
    BY <1>4 DEF Owning
  <2>2. PICK s : s = <<y, z>>
    OBVIOUS
  <2>3. /\ WholeTree(s) /\ FitsBranch(s, "then")
        /\ \A m \in 1..Len(s) : Plain(s[m])
    BY <1>8, <1>9, <2>2
  <2>4. WholeTree(<<x>> \o Placed(s, 1, "then"))
    BY <1>4, <2>1, <2>3, OwnerOfBranch
  <2>5. QED
    BY <1>1, <1>2, <2>2, <2>4
<1>11. WholeTree(<<w>>)
  BY <1>7, PlainStatement
<1>12. /\ IsTree(r, 1) /\ r # <<>> /\ PlacedAs(<<y, z>>, 1, "then", r)
  BY <1>1, <1>8, <1>9, PlacedIsWhole
<1>13. /\ IsTree(v, 1) /\ v # <<>> /\ (\A m \in 1..Len(v) : FilledAt(v, m))
       /\ PlacedAs(<<w>>, 1, "otherwise", v)
  BY <1>1, <1>9, <1>11, PlacedIsWhole
<1>14. Grows(p[Len(p)], 1)
  <2>1. IsSequence(<<x>>) /\ Len(<<x>>) = 1
    BY <1>4, OneStatement DEF IsTree
  <2>2. IsSequence(r)
    BY <1>12 DEF IsTree
  <2>3. Len(p) = 1 + Len(r) /\ Len(r) \in Nat /\ \A m \in 1..Len(r) : p[1 + m] = r[m]
    BY <1>2, <2>1, <2>2, JoinedAt
  <2>4. Len(r) # 0
    BY <1>12, <2>2 DEF IsSequence
  <2>5. Len(r) \in 1..Len(r) /\ DOMAIN r = 1..Len(r)
    BY <2>2, <2>3, <2>4, LengthOfSequence
  <2>6. p[Len(p)] = r[Len(r)] /\ r[Len(r)].level >= 1
    BY <1>12, <2>3, <2>5 DEF IsTree
  <2>7. QED
    BY <2>6 DEF Grows
<1>15. WholeTree(q)
  BY <1>2, <1>10, <1>13, <1>14, JoinedTrees DEF WholeTree
<1>16. RefsIn(q, {Growth})
  <2>1. GroupRefs(x) = {} /\ GroupRefs(y) \subseteq {Growth} /\ GroupRefs(z) = {} /\ GroupRefs(w) = {}
    BY <1>1, RecipeRefs, Zenon
  <2>2. RefsIn(<<x>>, {Growth}) /\ RefsIn(<<y, z>>, {Growth}) /\ RefsIn(<<w>>, {Growth})
    BY <2>1, OneRefs, TwoRefs
  <2>3. RefsIn(r, {Growth}) /\ RefsIn(v, {Growth})
    BY <2>2, <1>8, <1>11, <1>12, <1>13, PlacedRefs DEF WholeTree, FilledTree
  <2>4. IsSequence(<<x>>) /\ IsSequence(r) /\ IsSequence(v) /\ IsSequence(p)
    BY <1>4, <1>10, <1>12, <1>13, OneStatement DEF IsTree, WholeTree, FilledTree
  <2>5. RefsIn(p, {Growth})
    BY <1>2, <2>2, <2>3, <2>4, JoinedRefs
  <2>6. QED
    BY <1>2, <2>3, <2>4, <2>5, JoinedRefs
<1>17. QED
  BY <1>1, <1>3, <1>15, <1>16, RecipeAnswered

(* The parts of the two long recipes: trees whose groups are all in G.      *)
Part(t, G) == WholeTree(t) /\ RefsIn(t, G)

LEMMA OnePart ==
  ASSUME NEW x, Root(x), Plain(x), NEW G, GroupRefs(x) \subseteq G
  PROVE  Part(<<x>>, G)
BY PlainStatement, OneRefs DEF Part

LEMMA PartIsSequence ==
  ASSUME NEW t, NEW G, Part(t, G)
  PROVE  IsSequence(t) /\ IsTree(t, 0) /\ FilledTree(t)
BY DEF Part, WholeTree, FilledTree, IsTree

LEMMA PartsJoined ==
  ASSUME NEW G, NEW p, Part(p, G), NEW t, Part(t, G)
  PROVE  Part(p \o t, G)
<1>1. WholeTree(p \o t)
  BY PartIsSequence, RootsJoined DEF Part
<1>2. RefsIn(p \o t, G)
  BY PartIsSequence, JoinedRefs DEF Part
<1>3. QED
  BY <1>1, <1>2 DEF Part

LEMMA OwnerPart ==
  ASSUME NEW G, NEW x, Root(x), x.kind \in Owning, GroupRefs(x) \subseteq G,
         NEW t, Part(t, G), \A m \in 1..Len(t) : Plain(t[m]),
         NEW branch, x.kind = "control" => branch = "then", x.kind = "on_event" => branch = "event",
         FitsBranch(t, branch)
  PROVE  Part(<<x>> \o Placed(t, 1, branch), G)
<1>1. WholeTree(<<x>> \o Placed(t, 1, branch))
  BY OwnerOfBranch DEF Part
<1>2. PICK r : r = Placed(t, 1, branch)
  OBVIOUS
<1>3. IsTree(r, 1) /\ PlacedAs(t, 1, branch, r)
  BY <1>2, PlacedIsWhole DEF Part
<1>4. RefsIn(r, G) /\ RefsIn(<<x>>, G)
  BY <1>3, PartIsSequence, PlacedRefs, OneRefs DEF Part
<1>5. IsSequence(r) /\ IsSequence(<<x>>)
  BY <1>3, OneStatement DEF IsTree
<1>6. RefsIn(<<x>> \o r, G)
  BY <1>4, <1>5, JoinedRefs
<1>7. QED
  BY <1>1, <1>2, <1>6 DEF Part

(* A statement with one more branch below it.                               *)
LEMMA OwnerGrows ==
  ASSUME NEW G, NEW x, Root(x), NEW r, IsTree(r, 1), r # <<>>, NEW p, p = <<x>> \o r, Part(p, G),
         NEW t, Part(t, G), NEW branch, FitsBranch(t, branch)
  PROVE  Part(p \o Placed(t, 1, branch), G)
<1>1. PICK v : v = Placed(t, 1, branch)
  OBVIOUS
<1>2. IsTree(v, 1) /\ v # <<>> /\ (\A m \in 1..Len(v) : FilledAt(v, m)) /\ PlacedAs(t, 1, branch, v)
  BY <1>1, PlacedIsWhole DEF Part
<1>3. Grows(p[Len(p)], 1)
  <2>1. IsSequence(<<x>>) /\ Len(<<x>>) = 1
    BY OneStatement DEF IsTree
  <2>2. IsSequence(r)
    BY DEF IsTree
  <2>3. Len(p) = 1 + Len(r) /\ Len(r) \in Nat /\ \A m \in 1..Len(r) : p[1 + m] = r[m]
    BY <2>1, <2>2, JoinedAt
  <2>4. Len(r) # 0
    BY <2>2 DEF IsSequence
  <2>5. Len(r) \in 1..Len(r) /\ DOMAIN r = 1..Len(r)
    BY <2>2, <2>3, <2>4, LengthOfSequence
  <2>6. p[Len(p)] = r[Len(r)] /\ r[Len(r)].level >= 1
    BY <2>3, <2>5 DEF IsTree
  <2>7. QED
    BY <2>6 DEF Grows
<1>4. WholeTree(p \o v)
  BY <1>2, <1>3, PartIsSequence, JoinedTrees DEF Part, WholeTree
<1>5. RefsIn(v, G)
  BY <1>2, PartIsSequence, PlacedRefs DEF Part
<1>6. IsSequence(v)
  BY <1>2 DEF IsTree
<1>7. RefsIn(p \o v, G)
  BY <1>5, <1>6, PartIsSequence, JoinedRefs DEF Part
<1>8. QED
  BY <1>1, <1>4, <1>7 DEF Part

LEMMA EventPart ==
  ASSUME NEW G, NEW id, NEW uses, NEW t, Part(t, G), \A m \in 1..Len(t) : Plain(t[m])
  PROVE  Part(OnEvent(id, uses, t), G)
<1>1. PICK x : x = [Statement(id, "on_event") EXCEPT !.uses = uses]
  OBVIOUS
<1>2. /\ Root(x) /\ x.kind = "on_event" /\ x.universe = None /\ x.legs = {}
  BY <1>1, RecipeIdentities DEF Root, Proper, Statement, StatementFields, PolicyBranches
<1>3. GroupRefs(x) \subseteq G
  BY <1>2, RecipeIdentities DEF GroupRefs
<1>4. FitsBranch(t, "event")
  BY DEF FitsBranch, PolicyBranches
<1>5. Part(<<x>> \o Placed(t, 1, "event"), G)
  BY <1>2, <1>3, <1>4, OwnerPart DEF Owning
<1>6. QED
  BY <1>1, <1>5 DEF OnEvent

LEMMA PolicyPart ==
  ASSUME NEW G, NEW id,
         NEW y, Root(y), y.kind = "allocate", GroupRefs(y) \subseteq G,
         NEW z, Root(z), z.kind = "allocate", GroupRefs(z) \subseteq G
  PROVE  Part(Guarded(id, y, z), G)
<1>1. PICK x, t, v, r, p : /\ x = Statement(id, "guarded_allocation") /\ t = <<y>> /\ v = <<z>>
                           /\ r = Placed(t, 1, "primary") /\ p = <<x>> \o r
  OBVIOUS
<1>2. Root(x) /\ x.kind = "guarded_allocation" /\ GroupRefs(x) \subseteq G
  BY <1>1, StatementIsRoot, RecipeRefs
<1>3. Part(t, G) /\ Part(v, G)
  BY <1>1, OnePart DEF Plain
<1>4. Len(t) = 1 /\ t[1] = y /\ Len(v) = 1 /\ v[1] = z
  BY <1>1, OneStatement
<1>5. /\ \A m \in 1..Len(t) : Plain(t[m])
      /\ FitsBranch(t, "primary") /\ FitsBranch(v, "override")
  BY <1>4 DEF Plain, FitsBranch
<1>6. Part(p, G)
  BY <1>1, <1>2, <1>3, <1>5, OwnerPart DEF Owning
<1>7. IsTree(r, 1) /\ r # <<>>
  BY <1>1, <1>3, <1>5, PlacedIsWhole DEF Part
<1>8. Part(p \o Placed(v, 1, "override"), G)
  BY <1>1, <1>2, <1>3, <1>5, <1>6, <1>7, OwnerGrows
<1>9. QED
  BY <1>1, <1>8 DEF Guarded

(* What happens at the Events of the recipes.                               *)
LEMMA HappeningPart ==
  ASSUME NEW G, NEW transition, NEW memory
  PROVE  /\ Part(<<Transition(transition)>>, G)
         /\ \A m \in 1..Len(<<Transition(transition)>>) : Plain(<<Transition(transition)>>[m])
         /\ Part(<<Remember(memory), Transition(transition)>>, G)
         /\ \A m \in 1..Len(<<Remember(memory), Transition(transition)>>) :
              Plain(<<Remember(memory), Transition(transition)>>[m])
<1>1. PICK x, y : x = Transition(transition) /\ y = Remember(memory)
  OBVIOUS
<1>2. Root(x) /\ Plain(x) /\ GroupRefs(x) \subseteq G /\ Root(y) /\ Plain(y) /\ GroupRefs(y) \subseteq G
  BY <1>1, StatementIsRoot, RecipeRefs DEF Transition, Remember, Plain
<1>3. Part(<<x>>, G) /\ Part(<<y, x>>, G)
  BY <1>2, OnePart, TwoStatements, TwoRefs DEF Part
<1>4. \A m \in 1..Len(<<x>>) : Plain(<<x>>[m])
  <2>1. PICK t : t = <<x>>
    OBVIOUS
  <2>2. Len(t) = 1 /\ t[1] = x
    BY <1>2, <2>1, OneStatement
  <2>3. QED
    BY <1>2, <2>1, <2>2
<1>5. \A m \in 1..Len(<<y, x>>) : Plain(<<y, x>>[m])
  BY <1>2, TwoStatements
<1>6. QED
  BY <1>1, <1>3, <1>4, <1>5

LEMMA TargetPart ==
  /\ \A id, method, o : LET x == Allocate(id, method, {<<"cash", o>>}) IN
       Root(x) /\ x.kind = "allocate" /\ GroupRefs(x) = {}
  /\ \A id, method, o : LET x == Allocate(id, method, {<<"asset", o>>}) IN
       Root(x) /\ x.kind = "allocate" /\ GroupRefs(x) = {}
  /\ \A id, method, o : LET x == Allocate(id, method, {<<"selection", o>>}) IN
       Root(x) /\ x.kind = "allocate" /\ GroupRefs(x) = {}
<1>1. ASSUME NEW id, NEW method, NEW legs, \A leg \in legs : leg = <<leg[1], leg[2]>> /\ leg[1] # "group"
      PROVE  LET x == Allocate(id, method, legs) IN
             Root(x) /\ x.kind = "allocate" /\ GroupRefs(x) = {}
  <2>1. PICK x : x = Allocate(id, method, legs)
    OBVIOUS
  <2>2. Root(x) /\ x.kind = "allocate" /\ x.legs = legs
    BY <1>1, <2>1, AllocateIsRoot
  <2>3. x.universe = None
    BY <2>1 DEF Allocate, Statement
  <2>4. \A g : <<"group", g>> \notin legs
    BY <1>1
  <2>5. GroupRefs(x) = {}
    BY <2>2, <2>3, <2>4, RecipeIdentities DEF GroupRefs
  <2>6. QED
    BY <2>1, <2>2, <2>5
<1>2. ASSUME NEW o
      PROVE  /\ \A leg \in {<<"cash", o>>} : leg = <<leg[1], leg[2]>> /\ leg[1] # "group"
             /\ \A leg \in {<<"asset", o>>} : leg = <<leg[1], leg[2]>> /\ leg[1] # "group"
             /\ \A leg \in {<<"selection", o>>} : leg = <<leg[1], leg[2]>> /\ leg[1] # "group"
  OBVIOUS
<1>3. ASSUME NEW id, NEW method, NEW o, NEW legs,
             legs \in {{<<"cash", o>>}, {<<"asset", o>>}, {<<"selection", o>>}}
      PROVE  /\ Root(Allocate(id, method, legs)) /\ Allocate(id, method, legs).kind = "allocate"
             /\ GroupRefs(Allocate(id, method, legs)) = {}
  <2>1. \A leg \in legs : leg = <<leg[1], leg[2]>> /\ leg[1] # "group"
    BY <1>2, <1>3
  <2>2. QED
    BY <1>1, <2>1
<1>4. QED
  BY <1>3

LEMMA BreakoutPart ==
  ASSUME NEW G
  PROVE  Part(BreakoutProgram, G)
<1>1. ASSUME NEW id, NEW uses, NEW transition, NEW memory
      PROVE  /\ Part(OnEvent(id, uses, <<Transition(transition)>>), G)
             /\ Part(OnEvent(id, uses, <<Remember(memory), Transition(transition)>>), G)
  BY HappeningPart, EventPart
<1>2. ASSUME NEW id, NEW cash, NEW invested, NEW none, NEW asset
      PROVE  Part(Guarded(id, Allocate(cash, "fixed", {<<"cash", none>>}),
                          Allocate(invested, "fixed", {<<"asset", asset>>})), G)
  <2>1. PICK y, z : /\ y = Allocate(cash, "fixed", {<<"cash", none>>})
                    /\ z = Allocate(invested, "fixed", {<<"asset", asset>>})
    OBVIOUS
  <2>2. Root(y) /\ y.kind = "allocate" /\ GroupRefs(y) \subseteq G
    BY <2>1, TargetPart, Zenon
  <2>3. Root(z) /\ z.kind = "allocate" /\ GroupRefs(z) \subseteq G
    BY <2>1, TargetPart, Zenon
  <2>4. QED
    BY <2>1, <2>2, <2>3, PolicyPart
<1>3. ASSUME NEW a, Part(a, G), NEW b, Part(b, G), NEW c, Part(c, G), NEW d, Part(d, G), NEW e, Part(e, G)
      PROVE  Part(((a \o b) \o (c \o d)) \o e, G)
  <2>1. Part(a \o b, G) /\ Part(c \o d, G)
    BY <1>3, PartsJoined
  <2>2. Part((a \o b) \o (c \o d), G)
    BY <2>1, PartsJoined
  <2>3. QED
    BY <1>3, <2>2, PartsJoined
<1>4. QED
  BY <1>1, <1>2, <1>3, Zenon DEF BreakoutProgram

LEMMA WeeklyPart ==
  Part(WeeklyProgram, {Growth})
<1>1. ASSUME NEW id, NEW uses, NEW transition, NEW memory
      PROVE  /\ Part(OnEvent(id, uses, <<Transition(transition)>>), {Growth})
             /\ Part(OnEvent(id, uses, <<Remember(memory), Transition(transition)>>), {Growth})
  BY HappeningPart, EventPart
<1>2. ASSUME NEW id, NEW defensive, NEW growth, NEW asset, NEW output
      PROVE  Part(Guarded(id, Allocate(defensive, "fixed", {<<"asset", asset>>}),
                          Allocate(growth, "proportional_score", {<<"selection", output>>})), {Growth})
  <2>1. PICK y, z : /\ y = Allocate(defensive, "fixed", {<<"asset", asset>>})
                    /\ z = Allocate(growth, "proportional_score", {<<"selection", output>>})
    OBVIOUS
  <2>2. Root(y) /\ y.kind = "allocate" /\ GroupRefs(y) \subseteq {Growth}
    BY <2>1, TargetPart, Zenon
  <2>3. Root(z) /\ z.kind = "allocate" /\ GroupRefs(z) \subseteq {Growth}
    BY <2>1, TargetPart, Zenon
  <2>4. QED
    BY <2>1, <2>2, <2>3, PolicyPart
<1>3. Part(<<RecipeSelection("score")>>, {Growth})
  <2>1. PICK x : x = Select(Own("select-growth"), GrowthOutput, Growth, "score")
    OBVIOUS
  <2>2. Root(x) /\ Plain(x) /\ GroupRefs(x) \subseteq {Growth}
    BY <2>1, SelectionIsPlain, RecipeRefs
  <2>3. QED
    BY <2>1, <2>2, OnePart DEF RecipeSelection
<1>4. ASSUME NEW a, Part(a, {Growth}), NEW b, Part(b, {Growth}), NEW c, Part(c, {Growth}),
             NEW d, Part(d, {Growth})
      PROVE  Part((a \o (b \o c)) \o d, {Growth})
  <2>1. Part(b \o c, {Growth})
    BY <1>4, PartsJoined
  <2>2. Part(a \o (b \o c), {Growth})
    BY <1>4, <2>1, PartsJoined
  <2>3. QED
    BY <1>4, <2>2, PartsJoined
<1>5. QED
  BY <1>1, <1>2, <1>3, <1>4, Zenon DEF WeeklyProgram

LEMMA TemporalSequenceWhole ==
  ASSUME CommitTemporalSequenceIntent
  PROVE  Filled /\ Grounded
<1>1. PICK s, t :
        /\ s = WithGroup([EmptyDefinitions EXCEPT !.assetSets = [y \in {} |-> {}]],
                         TemporalGroup, TemporalAssets, {TemporalAsset})
        /\ t = [s EXCEPT !.program = BreakoutProgram] /\ Answer(t)
  BY DEF CommitTemporalSequenceIntent
<1>2. t.program = BreakoutProgram
  BY <1>1 DEF WithGroup, EmptyDefinitions
<1>3. Part(BreakoutProgram, DOMAIN t.groups)
  BY BreakoutPart
<1>4. QED
  BY <1>1, <1>2, <1>3, RecipeAnswered DEF Part

LEMMA MultiClockWhole ==
  ASSUME CommitMultiClockPolicyIntent
  PROVE  Filled /\ Grounded
<1>1. PICK t : t = Recipe({GrowthAssets}, {Growth}, WeeklyProgram) /\ Answer(t)
  BY DEF CommitMultiClockPolicyIntent, Recipe
<1>2. t.program = WeeklyProgram /\ DOMAIN t.groups = {Growth}
  BY <1>1, RecipeStrategy
<1>3. QED
  BY <1>1, <1>2, WeeklyPart, RecipeAnswered DEF Part

LEMMA MeaningStepWhole ==
  ASSUME DefinitionsInv, MeaningStep
  PROVE  Filled /\ (Grounded \/ strategy'.groups = strategy.groups)
<1>1. ASSUME NEW tree \in TreesOfAll, SetSemanticProgram(tree)
      PROVE  Filled /\ strategy'.groups = strategy.groups
  <2>1. PICK t : t = [strategy EXCEPT !.program = tree, !.formalizations = {}] /\ Answer(t)
    BY <1>1 DEF SetSemanticProgram
  <2>2. t.program = tree /\ t.groups = strategy.groups
    BY <2>1 DEF DefinitionsInv, Sound, Fields
  <2>3. WholeTree(tree)
    BY ClientTrees DEF Client
  <2>4. Filled
    BY <2>1, <2>2, <2>3, AnswerWhole
  <2>5. QED
    BY <2>1, <2>2, <2>4 DEF Answer
<1>2. CASE \E tree \in TreesOfAll : SetSemanticProgram(tree)
  BY <1>1, <1>2
<1>3. CASE \E g \in GroupIds, a \in Assets : \E x \in OwnAssets[g] : CommitSingleAssetIntent(g, x, a)
  BY <1>3, SingleAssetWhole
<1>4. CASE \E a \in Assets : CommitMarketRegimeRotationIntent(a)
  BY <1>4, MarketRegimeWhole
<1>5. CASE \E a \in Assets : CommitSplitPortfolioIntent(a)
  BY <1>5, SplitPortfolioWhole
<1>6. CASE CommitWeightedScoreIntent
  BY <1>6, WeightedScoreWhole
<1>7. CASE CommitTemporalSequenceIntent
  BY <1>7, TemporalSequenceWhole
<1>8. CASE CommitMultiClockPolicyIntent
  BY <1>8, MultiClockWhole
<1>9. QED
  BY <1>2, <1>3, <1>4, <1>5, <1>6, <1>7, <1>8 DEF MeaningStep


---------------------------------------------------------------------------
(* Operations on the definitions *)

RefsKept ==
  \A kept \in Statements(Program) \cap Statements(Program') :
    GroupRefs(kept) \cap DOMAIN strategy.groups \subseteq DOMAIN strategy'.groups

LEMMA WithoutGroupProgram ==
  ASSUME DefinitionsInv, NEW g, NEW removed, NEW t \in WithoutGroup(g, removed)
  PROVE  t.program = Program /\ DOMAIN t.groups = DOMAIN strategy.groups \ {g}
<1> DEFINE groups == DOMAIN strategy.groups \ {g}
           sets == DOMAIN strategy.assetSets \ removed
<1>1. /\ t.groups = [y \in groups |-> strategy.groups[y]]
      /\ t.program = strategy.program
  BY DEF WithoutGroup, DefinitionsInv, Sound, Fields
<1>2. QED
  BY <1>1 DEF Program

LEMMA RemovedGroupUnused ==
  ASSUME DefinitionsInv, ProgramInv, NEW g \in GroupIds, RemoveProgramGroup(g)
  PROVE  Program' = Program /\ RefsKept
<1>1. PICK removed, t : t \in WithoutGroup(g, removed) /\ Answer(t)
  BY Zenon DEF RemoveProgramGroup
<1>2. t.program = Program /\ DOMAIN t.groups = DOMAIN strategy.groups \ {g}
  BY <1>1, WithoutGroupProgram
<1>3. Program' = Program /\ DOMAIN strategy'.groups = DOMAIN strategy.groups \ {g}
  BY <1>1, <1>2 DEF Answer, Program
<1>4. ASSUME NEW i \in DOMAIN Program PROVE g \notin GroupRefs(Program[i])
  <2>1. IsTree(Program, 0)
    BY DEF RemoveProgramGroup, ProgramInv, Sane
  <2>2. Program[i].kind # "select" => Program[i].universe \notin GroupIds
    BY <2>1 DEF IsTree, Proper
  <2>3. Program[i].kind = "select" => Program[i].universe # g
    BY DEF RemoveProgramGroup, Selects
  <2>4. <<"group", g>> \notin Program[i].legs
    BY DEF RemoveProgramGroup, GroupLegs
  <2>5. QED
    BY <2>2, <2>3, <2>4 DEF GroupRefs
<1>5. HasProgram
  BY DEF RemoveProgramGroup
<1>6. QED
  BY <1>3, <1>4, <1>5 DEF RefsKept, Statements, HasProgram

LEMMA DefinitionStepProgram ==
  ASSUME DefinitionsInv, ProgramInv, DefinitionStep
  PROVE  Program' = Program /\ RefsKept
<1>1. ASSUME NEW x \in AssetSetIds, NEW assets, SetProgramAssetSet(x, assets)
      PROVE  Program' = Program /\ strategy'.groups = strategy.groups
  BY <1>1 DEF SetProgramAssetSet, Answer, DefinitionsInv, Sound, Fields, Program
<1>2. ASSUME NEW g, NEW x, NEW assets, AddProgramGroup(g, x, assets)
      PROVE  Program' = Program /\ DOMAIN strategy.groups \subseteq DOMAIN strategy'.groups
  BY <1>2 DEF AddProgramGroup, WithGroup, Answer, DefinitionsInv, Sound, Fields, Program
<1>3. ASSUME NEW x, SetSelectionUniverse(x)
      PROVE  Program' = Program /\ strategy'.groups = strategy.groups
  BY <1>3 DEF SetSelectionUniverse, Answer, DefinitionsInv, Sound, Fields, Program
<1>4. DOMAIN strategy.groups \subseteq DOMAIN strategy'.groups => RefsKept
  BY DEF RefsKept
<1>5. QED
  BY <1>1, <1>2, <1>3, <1>4, RemovedGroupUnused DEF DefinitionStep

LEMMA RemoveInvestmentProgram ==
  ASSUME DefinitionsInv, NEW g, RemoveProgramInvestment(g)
  PROVE  Program' = Program
<1>1. PICK removed, t : t \in WithoutGroup(g, removed) /\ Answer(t)
  BY Zenon DEF RemoveProgramInvestment
<1>2. t.program = Program
  BY <1>1, WithoutGroupProgram
<1>3. QED
  BY <1>1, <1>2 DEF Answer, Program


---------------------------------------------------------------------------
(* Removing and moving a statement with what is below it *)

(* What is left of a program stands somewhere in it and in what is left.    *)
LEMMA CutStays ==
  ASSUME NEW p, NEW q, NEW a, NEW b, Graft(p, a, b, <<>>, q)
  PROVE  /\ \A m \in DOMAIN q :
              \E i : Stays(p, a, b, i) /\ q[m] = p[i] /\ i = IF m <= a THEN m ELSE m - a + b - 1
         /\ \A i : Stays(p, a, b, i) => \E m \in DOMAIN q : q[m] = p[i]
<1>3. /\ Len(p) \in Nat /\ a \in Nat /\ b \in Nat /\ a < b /\ b <= Len(p) + 1
      /\ IsSequence(q) /\ Len(q) = a + (Len(p) + 1 - b)
      /\ \A m \in 1..a : q[m] = p[m]
      /\ \A m \in b..Len(p) : q[m - b + 1 + a] = p[m]
  <2>1. Len(p) \in Nat
    BY TreeLevels DEF Graft
  <2>2. Len(<<>>) = 0
    OBVIOUS
  <2>3. /\ a \in Nat /\ b \in Nat /\ a < b /\ b <= Len(p) + 1 /\ IsSequence(q)
        /\ Len(q) = a + 0 + (Len(p) + 1 - b)
        /\ \A m \in 1..a : q[m] = p[m]
        /\ \A m \in b..Len(p) : q[m - b + 1 + a + 0] = p[m]
    BY <2>2 DEF Graft, Spliced
  <2>4. a + 0 = a /\ \A m \in b..Len(p) : m - b + 1 + a + 0 = m - b + 1 + a
    BY <2>1, <2>3
  <2>5. \A m \in b..Len(p) : q[m - b + 1 + a] = p[m]
    BY <2>3, <2>4, Zenon
  <2>6. Len(q) = a + (Len(p) + 1 - b)
    BY <2>3, <2>4, Zenon
  <2>7. QED
    BY <2>1, <2>3, <2>5, <2>6, Zenon
<1>i. a \in Nat /\ b \in Nat /\ a < b /\ b <= Len(p) + 1 /\ Len(p) \in Nat
  BY <1>3, Zenon
<1>j. Len(q) = a + (Len(p) + 1 - b)
  BY <1>3, Zenon
<1>4. DOMAIN q = 1..Len(q)
  BY <1>3, LengthOfSequence
<1>5. ASSUME NEW m \in DOMAIN q
      PROVE  \E i : Stays(p, a, b, i) /\ q[m] = p[i] /\ i = IF m <= a THEN m ELSE m - a + b - 1
  <2>1. CASE m <= a
    <3>1. m \in 1..a /\ Stays(p, a, b, m)
      BY <1>3, <1>4, <2>1 DEF Stays
    <3>2. QED
      BY <1>3, <2>1, <3>1
  <2>2. CASE ~(m <= a)
    <3>1. PICK i : i = m - a + b - 1
      OBVIOUS
    <3>2. i \in b..Len(p) /\ i - b + 1 + a = m
      <4>1. PICK k \in Nat : k = Len(p)
        BY <1>i
      <4>2. m \in 1..(a + (k + 1 - b)) /\ a \in Nat /\ b \in Nat /\ b <= k + 1
        BY <1>i, <1>j, <1>4, <4>1
      <4>3. m \in Int /\ a < m /\ m <= a + (k + 1 - b) /\ a \in Int /\ b \in Int /\ k \in Int
        BY <2>2, <4>2
      <4>4. m \in Int /\ a \in Int /\ b \in Int => i \in Int /\ i - b + 1 + a = m
        BY <3>1
      <4>5. b <= i /\ i <= k
        BY <3>1, <4>3
      <4>6. QED
        BY <4>1, <4>3, <4>4, <4>5
    <3>3. q[m] = p[i]
      BY <1>3, <3>2
    <3>4. Stays(p, a, b, i)
      BY <1>3, <3>2 DEF Stays
    <3>5. QED
      BY <2>2, <3>1, <3>3, <3>4
  <2>3. QED
    BY <2>1, <2>2
<1>6. ASSUME NEW i, Stays(p, a, b, i) PROVE \E m \in DOMAIN q : q[m] = p[i]
  <2>1. i \in 1..a \/ i \in b..Len(p)
    BY <1>3, <1>6 DEF Stays
  <2>2. CASE i \in 1..a
    <3>1. i \in DOMAIN q
      BY <1>3, <1>4, <2>2
    <3>2. QED
      BY <1>3, <2>2, <3>1
  <2>3. CASE i \in b..Len(p)
    <3>1. i - b + 1 + a \in DOMAIN q
      BY <1>i, <1>j, <1>4, <2>3
    <3>2. QED
      BY <1>3, <2>3, <3>1
  <2>4. QED
    BY <2>1, <2>2, <2>3
<1>7. QED
  BY <1>5, <1>6

LEMMA CutIsUnique ==
  ASSUME NEW p, IsTree(p, 0), UniqueIds(p), NEW k \in DOMAIN p
  PROVE  UniqueIds(Cut(p, k))
<1>1. PICK a, b, q : a = k - 1 /\ b = SubtreeEnd(p, k) + 1 /\ q = Cut(p, k)
  OBVIOUS
<1>g. Graft(p, a, b, <<>>, q)
  BY <1>1, CutGraft
<1>2. a \in Int /\ b \in Int /\ a < b /\ DOMAIN p = 1..Len(p) /\ Len(p) \in Nat
  BY <1>g, TreeLevels DEF Graft
<1>3. ASSUME NEW m \in DOMAIN q, NEW n \in DOMAIN q, q[m].id = q[n].id PROVE m = n
  <2>1. PICK i : /\ Stays(p, a, b, i) /\ q[m] = p[i]
                 /\ i = IF m <= a THEN m ELSE m - a + b - 1
    BY <1>g, CutStays
  <2>2. PICK j : /\ Stays(p, a, b, j) /\ q[n] = p[j]
                 /\ j = IF n <= a THEN n ELSE n - a + b - 1
    BY <1>g, CutStays
  <2>3. i = j
    BY <1>2, <1>3, <2>1, <2>2 DEF Stays, UniqueIds
  <2>4. m \in Int /\ n \in Int
    <3>1. IsTree(q, 0)
      BY <1>1, CutGraft DEF Graft
    <3>2. DOMAIN q = 1..Len(q)
      BY <3>1, TreeLevels
    <3>3. QED
      BY <3>2
  <2>5. QED
    BY <1>2, <2>1, <2>2, <2>3, <2>4
<1>4. QED
  BY <1>1, <1>3 DEF UniqueIds

LEMMA CutKeepsPlaces ==
  ASSUME NEW p, IsTree(p, 0), UniqueIds(p), NEW k \in DOMAIN p
  PROVE  /\ KeepsPlaces(p, Cut(p, k), Ids(Cut(p, k)))
         /\ Ids(Cut(p, k)) \subseteq Ids(p)
<1>1. PICK a, b, q : a = k - 1 /\ b = SubtreeEnd(p, k) + 1 /\ q = Cut(p, k)
  OBVIOUS
<1>2. Graft(p, a, b, <<>>, q) /\ UniqueIds(q)
  BY <1>1, CutGraft, CutIsUnique
<1>3. \A id \in Ids(q) : \E i : Stays(p, a, b, i) /\ p[i].id = id
  BY <1>2, CutStays DEF Ids
<1>4. KeepsPlaces(p, q, Ids(q))
  BY <1>2, <1>3, GraftKeepsPlaces
<1>5. Ids(q) \subseteq Ids(p)
  <2>1. DOMAIN p = 1..Len(p)
    BY TreeLevels
  <2>2. QED
    BY <1>3, <2>1 DEF Ids, Stays
<1>6. QED
  BY <1>1, <1>4, <1>5

LEMMA RemoveStepCuts ==
  ASSUME DefinitionsInv, ProgramInv, HasProgram, RemoveStep
  PROVE  \E k \in DOMAIN Program : AnswerProgram(Cut(Program, k))
<1>1. IsTree(Program, 0) /\ UniqueIds(Program)
  BY DEF ProgramInv, Sane
<1>2. ASSUME NEW id, RemoveProgramStatement(id)
      PROVE  \E k \in DOMAIN Program : AnswerProgram(Cut(Program, k))
  BY <1>1, <1>2, AddressFound DEF RemoveProgramStatement
<1>3. ASSUME NEW id, RemoveProgramChoose(id)
      PROVE  \E k \in DOMAIN Program : AnswerProgram(Cut(Program, k))
  BY <1>3 DEF RemoveProgramChoose, Selects
<1>4. ASSUME NEW id, RemoveProgramInvestmentAllocation(id)
      PROVE  \E k \in DOMAIN Program : AnswerProgram(Cut(Program, k))
  BY <1>4, PositionFound DEF RemoveProgramInvestmentAllocation
<1>5. QED
  BY <1>2, <1>3, <1>4 DEF RemoveStep

LEMMA RemoveStepTree ==
  ASSUME DefinitionsInv, ProgramInv, HasProgram, RemoveStep
  PROVE  /\ Treed /\ strategy'.groups = strategy.groups
         /\ \E k \in DOMAIN Program : Program' = Cut(Program, k)
<1>1. PICK k \in DOMAIN Program : AnswerProgram(Cut(Program, k))
  BY RemoveStepCuts
<1>2. IsTree(Program, 0)
  BY DEF ProgramInv, Sane
<1>3. IsTree(Cut(Program, k), 0)
  BY <1>2, CutGraft DEF Graft
<1>4. QED
  BY <1>1, <1>3, AnswerProgramTree


LEMMA PlacesKeptTwice ==
  ASSUME NEW p, NEW w, NEW q, NEW ids, KeepsPlaces(p, w, ids), KeepsPlaces(w, q, ids)
  PROVE  KeepsPlaces(p, q, ids)
BY DEF KeepsPlaces

LEMMA FewerKeepPlaces ==
  ASSUME NEW p, NEW q, NEW ids, KeepsPlaces(p, q, ids), NEW some \in SUBSET ids
  PROVE  KeepsPlaces(p, q, some)
BY DEF KeepsPlaces

(* What stands outside of what is cut out is left over.                     *)
LEMMA OutsideIsLeft ==
  ASSUME NEW p, IsTree(p, 0), NEW k \in DOMAIN p, NEW id \in Ids(p) \ Ids(Subtree(p, k))
  PROVE  id \in Ids(Cut(p, k))
<1>1. PICK e : e = SubtreeEnd(p, k)
  OBVIOUS
<1>2. PICK i \in DOMAIN p : p[i].id = id
  BY DEF Ids
<1>3. /\ Len(p) \in Nat /\ k \in Int /\ e \in Int /\ i \in 1..Len(p)
      /\ DOMAIN p[i] = StatementFields
  <2>1. DOMAIN p = 1..Len(p) /\ Len(p) \in Nat
    BY TreeLevels
  <2>2. e \in k..Len(p)
    BY <1>1, SubtreeEndIs
  <2>3. DOMAIN p[i] = StatementFields
    BY DEF IsTree, Proper
  <2>4. QED
    BY <2>1, <2>2, <2>3
<1>4. i \notin k..e
  <2> SUFFICES ASSUME i \in k..e PROVE FALSE
    OBVIOUS
  <2>1. PICK t : t = Subtree(p, k)
    OBVIOUS
  <2>2. /\ IsTree(t, 0) /\ Len(t) = e - k + 1
        /\ \A m \in 1..Len(t) : t[m] = [p[k + m - 1] EXCEPT !.level = p[k + m - 1].level - p[k].level]
    BY <1>1, <2>1, SubtreeIsTree
  <2>3. PICK m : m = i - k + 1
    OBVIOUS
  <2>4. m \in 1..(e - k + 1) /\ k + m - 1 = i
    BY <1>3, <2>3, SMTT(30)
  <2>5. t[m] = [p[i] EXCEPT !.level = p[i].level - p[k].level]
    BY <2>2, <2>4
  <2>6. t[m].id = id
    BY <1>2, <1>3, <2>5 DEF StatementFields
  <2>7. m \in DOMAIN t
    BY <2>2, <2>4, TreeLevels
  <2>8. id \in Ids(t)
    BY <2>6, <2>7 DEF Ids
  <2>9. QED
    BY <2>1, <2>8
<1>5. PICK a, b, q : a = k - 1 /\ b = e + 1 /\ q = Cut(p, k)
  OBVIOUS
<1>6. Stays(p, a, b, i)
  <2>1. i \notin (a + 1)..(b - 1)
    BY <1>3, <1>4, <1>5
  <2>2. QED
    BY <1>3, <2>1 DEF Stays
<1>7. Graft(p, a, b, <<>>, q)
  BY <1>1, <1>5, CutGraft
<1>8. PICK m \in DOMAIN q : q[m] = p[i]
  BY <1>6, <1>7, CutStays
<1>9. QED
  BY <1>2, <1>5, <1>8 DEF Ids

(* What is inserted into a program takes no statement from its place.       *)
LEMMA InsertKeepsPlaces ==
  ASSUME NEW p, IsTree(p, 0), UniqueIds(p), NEW parent, NEW branch, Owns(p, parent, branch),
         NEW n \in Nat, NEW tree, IsTree(tree, 0), UniqueIds(Insert(p, parent, branch, n, tree))
  PROVE  KeepsPlaces(p, Insert(p, parent, branch, n, tree), Ids(p))
<1>1. PICK at, t, q : /\ at = Slot(p, parent, branch, n) /\ t = Placed(tree, LevelOf(p, parent), branch)
                      /\ q = Insert(p, parent, branch, n, tree)
  OBVIOUS
<1>2. Graft(p, at - 1, at, t, q)
  BY <1>1, InsertGraft
<1>3. \A id \in Ids(p) : \E i : Stays(p, at - 1, at, i) /\ p[i].id = id
  <2>1. DOMAIN p = 1..Len(p) /\ at \in Nat
    BY <1>2, TreeLevels DEF Graft
  <2>2. \A i : i \notin ((at - 1) + 1)..(at - 1)
    BY <2>1
  <2>3. QED
    BY <2>1, <2>2 DEF Ids, Stays
<1>4. KeepsPlaces(p, q, Ids(p))
  <2>1. UniqueIds(q)
    BY <1>1
  <2>2. QED
    BY <1>2, <1>3, <2>1, GraftKeepsPlaces
<1>5. QED
  BY <1>1, <1>4

LEMMA MoveStepTree ==
  ASSUME DefinitionsInv, ProgramInv, HasProgram, MoveStep
  PROVE  /\ Treed /\ strategy'.groups = strategy.groups
         /\ \E k \in DOMAIN Program :
              /\ KeepsPlaces(Program, Program', Ids(Program) \ Ids(Subtree(Program, k)))
              /\ \E w, owner, branch, n :
                   /\ w = Cut(Program, k) /\ Owns(w, owner, branch) /\ n \in Nat
                   /\ Program' = Insert(w, owner, branch, n, Subtree(Program, k))
<1>1. IsTree(Program, 0) /\ UniqueIds(Program)
  BY DEF ProgramInv, Sane
<1>2. PICK id, parent, branch, n : n \in 0..Len(Program) /\ MoveProgramStatement(id, parent, branch, n)
  BY Zenon DEF MoveStep
<1>3. PICK k, w, owner, q :
        /\ k = Position(Program, id) /\ w = Cut(Program, k) /\ Owns(w, owner, branch)
        /\ q = Insert(w, owner, branch, n, Subtree(Program, k)) /\ AnswerProgram(q)
  BY <1>2 DEF MoveProgramStatement
<1>4. k \in DOMAIN Program
  BY <1>1, <1>2, <1>3, AddressFound DEF MoveProgramStatement
<1>5. IsTree(w, 0) /\ UniqueIds(w)
  BY <1>1, <1>3, <1>4, CutGraft, CutIsUnique DEF Graft
<1>6. n \in Nat /\ IsTree(Subtree(Program, k), 0)
  <2>1. Len(Program) \in Nat
    BY <1>1, TreeLevels
  <2>2. n \in Nat
    BY <1>2, <2>1
  <2>3. QED
    BY <1>1, <1>4, <2>2, SubtreeIsTree
<1>7. IsTree(q, 0)
  BY <1>3, <1>5, <1>6, InsertGraft DEF Graft
<1>8. Treed /\ Program' = q /\ strategy'.groups = strategy.groups
  BY <1>3, <1>7, AnswerProgramTree
<1>9. q # None
  BY <1>3 DEF AnswerProgram
<1>10. UniqueIds(q)
  BY <1>8, <1>9 DEF Treed, Sane
<1>11. KeepsPlaces(Program, q, Ids(Program) \ Ids(Subtree(Program, k)))
  <2>1. PICK ids : ids = Ids(Program) \ Ids(Subtree(Program, k))
    OBVIOUS
  <2>2. ids \in SUBSET Ids(w)
    BY <1>1, <1>3, <1>4, <2>1, OutsideIsLeft
  <2>3. KeepsPlaces(Program, w, Ids(w))
    BY <1>1, <1>3, <1>4, CutKeepsPlaces
  <2>4. KeepsPlaces(w, q, Ids(w))
    BY <1>3, <1>5, <1>6, <1>10, InsertKeepsPlaces
  <2>5. KeepsPlaces(Program, q, Ids(w))
    BY <2>3, <2>4, PlacesKeptTwice
  <2>6. QED
    BY <2>1, <2>2, <2>5, FewerKeepPlaces
<1>12. QED
  BY <1>3, <1>4, <1>6, <1>8, <1>11


---------------------------------------------------------------------------
(* The programs of the product's templates, and the invariant *)

LEMMA OneIsSane ==
  ASSUME NEW x, Root(x), Plain(x), \A leg \in x.legs : leg[1] # "selection"
  PROVE  Sane(<<x>>)
<1>1. PICK p : p = <<x>>
  OBVIOUS
<1>2. IsTree(p, 0) /\ DOMAIN p = 1..1 /\ p[1] = x
  BY <1>1, OneStatement
<1>3. \A i \in DOMAIN p : i = 1
  BY <1>2
<1>4. UniqueIds(p) /\ UniqueOutputs(p) /\ Routed(p)
  BY <1>2, <1>3 DEF UniqueIds, UniqueOutputs, Routed, Selects
<1>5. QED
  BY <1>1, <1>2, <1>4 DEF Sane

LEMMA TwoAreSane ==
  ASSUME NEW x, Root(x), Plain(x), NEW y, Root(y), Plain(y), x.id # y.id,
         \A leg \in x.legs \cup y.legs : leg[1] # "selection",
         y.kind # "select"
  PROVE  Sane(<<x>> \o <<y>>)
<1>1. PICK p : p = <<x>> \o <<y>>
  OBVIOUS
<1>2. WholeTree(p)
  BY <1>1, PlainStatement, RootsJoined DEF WholeTree
<1>3. IsTree(p, 0) /\ Len(p) = 2 /\ p[1] = x /\ p[2] = y
  <2>1. IsSequence(<<x>>) /\ IsSequence(<<y>>) /\ Len(<<x>>) = 1 /\ Len(<<y>>) = 1
        /\ <<x>>[1] = x /\ <<y>>[1] = y
    BY OneStatement DEF IsTree
  <2>2. PICK s, t : s = <<x>> /\ t = <<y>>
    OBVIOUS
  <2>3. /\ Len(p) = Len(s) + Len(t) /\ Len(s) = 1 /\ Len(t) = 1 /\ s[1] = x /\ t[1] = y
        /\ \A m \in 1..Len(s) : p[m] = s[m]
        /\ \A m \in 1..Len(t) : p[Len(s) + m] = t[m]
    BY <1>1, <2>1, <2>2, JoinedAt
  <2>4. p[1] = x /\ p[1 + 1] = y /\ Len(p) = 1 + 1
    BY <2>3
  <2>5. QED
    BY <1>2, <2>4 DEF WholeTree, FilledTree
<1>4. DOMAIN p = 1..2
  BY <1>3, TreeLevels
<1>5. \A i \in DOMAIN p : i \in {1, 2}
  BY <1>4
<1>6. UniqueIds(p) /\ UniqueOutputs(p) /\ Routed(p)
  BY <1>3, <1>5 DEF UniqueIds, UniqueOutputs, Routed, Selects
<1>7. QED
  BY <1>1, <1>3, <1>6 DEF Sane

LEMMA ThreeAreSane ==
  ASSUME NEW x, Root(x), Plain(x), NEW y, Root(y), Plain(y), NEW z, Root(z), Plain(z),
         x.id # y.id, x.id # z.id, y.id # z.id,
         y.kind = "select", x.kind # "select", z.kind # "select",
         \A leg \in x.legs \cup y.legs : leg[1] # "selection",
         \A leg \in z.legs : leg[1] = "selection" => leg[2] = y.output
  PROVE  Sane(<<x>> \o <<y, z>>)
<1>1. PICK p, s, t : s = <<x>> /\ t = <<y, z>> /\ p = s \o t
  OBVIOUS
<1>b. p = s \o t
  BY <1>1
<1>2. WholeTree(s) /\ WholeTree(t)
  BY <1>1, PlainStatement, TwoStatements
<1>3. WholeTree(p)
  BY <1>1, <1>2, RootsJoined DEF WholeTree
<1>4. Len(p) = 3 /\ p[1] = x /\ p[2] = y /\ p[3] = z
  <2>1. Len(s) = 1 /\ s[1] = x /\ Len(t) = 2 /\ t[1] = y /\ t[2] = z
    BY <1>1
  <2>2. IsSequence(s) /\ IsSequence(t)
    BY <1>2 DEF WholeTree, FilledTree, IsTree
  <2>3. /\ Len(p) = Len(s) + Len(t)
        /\ \A m \in 1..Len(s) : p[m] = s[m]
        /\ \A m \in 1..Len(t) : p[Len(s) + m] = t[m]
    BY <1>b, <2>2, JoinedAt
  <2>4. p[1] = x /\ p[1 + 1] = y /\ p[1 + 2] = z /\ Len(p) = 1 + 2
    BY <2>1, <2>3
  <2>5. QED
    BY <2>4
<1>5. IsTree(p, 0) /\ DOMAIN p = 1..3
  BY <1>3, <1>4, TreeLevels DEF WholeTree, FilledTree
<1>6. \A i \in DOMAIN p : i \in {1, 2, 3}
  BY <1>5
<1>7. UniqueIds(p) /\ UniqueOutputs(p)
  BY <1>4, <1>6 DEF UniqueIds, UniqueOutputs, Selects
<1>8. Routed(p)
  <2> SUFFICES ASSUME NEW i \in DOMAIN p, NEW leg \in p[i].legs, leg[1] = "selection"
               PROVE  \E k \in Selects(p) : k < i /\ p[k].output = leg[2]
    BY DEF Routed
  <2>1. i = 3
    BY <1>4, <1>6
  <2>2. 2 \in Selects(p) /\ p[2].output = leg[2]
    BY <1>4, <1>5, <2>1 DEF Selects
  <2>3. QED
    BY <2>1, <2>2
<1>9. QED
  BY <1>1, <1>5, <1>7, <1>8 DEF Sane

LEMMA InitialProgram ==
  Init => ProgramInv
<1> SUFFICES ASSUME Init, HasProgram PROVE Sane(Program)
  BY DEF ProgramInv
<1> DEFINE x == Allocate(Own("initial-retain-allocation"), "equal", {<<"retain", None>>})
           y == GrowthSelection
           z == Allocate(Own("allocation-growth-selection"), "equal", {<<"selection", GrowthOutput>>})
           w == Allocate(Own("portfolio-split"), "fixed",
                         {<<"selection", GrowthOutput>>, <<"group", Defensive>>})
           v == Statement(Own("cooldown-policy"), "unresolved")
<1>1. Program \in {<<x>>, <<x>> \o <<y, z>>, <<x>> \o <<y, w>>, <<x>> \o <<v>>}
  <2>1. EmptyDefinitions.program = <<x>> /\ DOMAIN EmptyDefinitions = Fields
    BY DEF EmptyDefinitions, Fields
  <2>2. ASSUME NEW s, DOMAIN s = Fields, NEW g
        PROVE  DOMAIN Invest(s, g) = Fields /\ Invest(s, g).program = s.program
    BY <2>2 DEF Invest, WithGroup, Fields
  <2> DEFINE grown == Invest(EmptyDefinitions, Growth)
             sleeves == Invest(grown, Defensive)
  <2>3. DOMAIN grown = Fields /\ grown.program = <<x>> /\ DOMAIN sleeves = Fields
    BY <2>1, <2>2
  <2>4. strategy \in {EmptyDefinitions, grown,
                      [grown EXCEPT !.program = EmptyDefinitions.program \o <<y, z>>],
                      [sleeves EXCEPT !.program = EmptyDefinitions.program \o <<y, w>>],
                      [grown EXCEPT !.program = EmptyDefinitions.program \o <<v>>]}
    <3>1. strategy # Compatibility
      <4>1. DOMAIN Invest(EmptyDefinitions, Growth) = Fields
        BY <2>1, <2>2
      <4>2. Compatibility.program = None
        BY <4>1 DEF Compatibility, Fields
      <4>3. QED
        BY <4>2 DEF HasProgram, Program
    <3>2. QED
      BY <3>1 DEF Init, Templates
  <2> HIDE DEF grown, sleeves, x, y, z, w, v
  <2>5. QED
    BY <2>1, <2>3, <2>4 DEF Program, Fields
<1>2. /\ Root(x) /\ Plain(x) /\ x.id = Own("initial-retain-allocation") /\ x.kind = "allocate"
      /\ x.legs = {<<"retain", None>>}
  <2>1. \A leg \in {<<"retain", None>>} : leg = <<leg[1], leg[2]>>
    OBVIOUS
  <2>2. QED
    BY <2>1, AllocateIsRoot DEF Plain
<1>3. /\ Root(y) /\ Plain(y) /\ y.id = Own("growth-selection") /\ y.kind = "select"
      /\ y.output = GrowthOutput /\ y.legs = {}
  BY SelectIsRoot DEF Plain, GrowthSelection
<1>4. /\ Root(z) /\ Plain(z) /\ z.id = Own("allocation-growth-selection") /\ z.kind = "allocate"
      /\ z.legs = {<<"selection", GrowthOutput>>}
  <2>1. \A leg \in {<<"selection", GrowthOutput>>} : leg = <<leg[1], leg[2]>>
    OBVIOUS
  <2>2. QED
    BY <2>1, AllocateIsRoot DEF Plain
<1>5. /\ Root(w) /\ Plain(w) /\ w.id = Own("portfolio-split") /\ w.kind = "allocate"
      /\ w.legs = {<<"selection", GrowthOutput>>, <<"group", Defensive>>}
  <2>1. \A leg \in {<<"selection", GrowthOutput>>, <<"group", Defensive>>} : leg = <<leg[1], leg[2]>>
    OBVIOUS
  <2>2. QED
    BY <2>1, AllocateIsRoot DEF Plain
<1>6. Root(v) /\ Plain(v) /\ v.id = Own("cooldown-policy") /\ v.kind = "unresolved" /\ v.legs = {}
  BY StatementIsRoot DEF Plain
<1> HIDE DEF x, y, z, w, v
<1>7. /\ Own("initial-retain-allocation") # Own("growth-selection")
      /\ Own("initial-retain-allocation") # Own("allocation-growth-selection")
      /\ Own("growth-selection") # Own("allocation-growth-selection")
      /\ Own("initial-retain-allocation") # Own("portfolio-split")
      /\ Own("growth-selection") # Own("portfolio-split")
      /\ Own("initial-retain-allocation") # Own("cooldown-policy")
  BY DEF Own
<1>8. /\ x.id # y.id /\ x.id # z.id /\ y.id # z.id
      /\ x.id # w.id /\ y.id # w.id /\ x.id # v.id
  BY <1>2, <1>3, <1>4, <1>5, <1>6, <1>7, Zenon
<1>9. Sane(<<x>>)
  BY <1>2, OneIsSane
<1>10. Sane(<<x>> \o <<y, z>>)
  BY <1>2, <1>3, <1>4, <1>8, ThreeAreSane
<1>11. Sane(<<x>> \o <<y, w>>)
  BY <1>2, <1>3, <1>5, <1>8, ThreeAreSane
<1>12. Sane(<<x>> \o <<v>>)
  BY <1>2, <1>6, <1>8, TwoAreSane
<1>13. QED
  BY <1>1, <1>9, <1>10, <1>11, <1>12


AuthoringInv == DefinitionsInv /\ ProgramInv

LEMMA StepKeepsDefinitions ==
  ASSUME DefinitionsInv, Next
  PROVE  DefinitionsInv'
BY DefinitionStepKeeps, RemoveInvestmentKeeps, MeaningStepKeeps, CapitalStepKeeps,
   ChooseStepKeeps, StructureStepKeeps, StatementStepKeeps DEF Next

LEMMA StepKeepsProgram ==
  ASSUME DefinitionsInv, ProgramInv, Next
  PROVE  ProgramInv'
<1>1. ASSUME Treed PROVE ProgramInv'
  BY <1>1 DEF Treed, ProgramInv, HasProgram
<1>2. Filled => Treed
  BY DEF Filled, Treed
<1>3. ASSUME Program' = Program PROVE ProgramInv'
  BY <1>3 DEF ProgramInv, HasProgram
<1>4. CASE DefinitionStep
  BY <1>3, <1>4, DefinitionStepProgram
<1>5. CASE MeaningStep
  BY <1>1, <1>2, <1>5, MeaningStepWhole
<1>6. CASE \E g \in GroupIds : RemoveProgramInvestment(g)
  BY <1>3, <1>6, RemoveInvestmentProgram
<1>7. CASE HasProgram /\ (ChooseStep \/ CapitalStep \/ InsertStep \/ StatementStep)
  BY <1>1, <1>2, <1>7, ChooseStepWhole, CapitalStepWhole, InsertStepWhole, StatementStepWhole
<1>8. CASE HasProgram /\ RemoveStep
  BY <1>1, <1>8, RemoveStepTree
<1>9. CASE HasProgram /\ MoveStep
  BY <1>1, <1>9, MoveStepTree
<1>10. QED
  BY <1>4, <1>5, <1>6, <1>7, <1>8, <1>9 DEF Next

LEMMA AuthoringInvariant ==
  Spec => []AuthoringInv
<1>1. Init => AuthoringInv
  BY InitialDefinitions, InitialProgram DEF AuthoringInv
<1>2. AuthoringInv /\ [Next]_vars => AuthoringInv'
  <2>1. ASSUME AuthoringInv, Next PROVE AuthoringInv'
    BY <2>1, StepKeepsDefinitions, StepKeepsProgram DEF AuthoringInv
  <2>2. ASSUME AuthoringInv, UNCHANGED vars PROVE AuthoringInv'
    BY <2>2 DEF vars, AuthoringInv, DefinitionsInv, ProgramInv, HasProgram, Program
  <2>3. QED
    BY <2>1, <2>2
<1>3. QED
  BY <1>1, <1>2, PTL DEF Spec

(* The program of a strategy is a tree of statements in program order, each *)
(* with an address of its own, whose Selections have outputs of their own   *)
(* and come before the Allocations that use them: what the edits of the     *)
(* program rely on holds of every strategy the service has answered with.   *)
THEOREM ProgramsStaySound ==
  Spec => [](HasProgram => Sane(Program))
<1>1. AuthoringInv => (HasProgram => Sane(Program))
  BY DEF AuthoringInv, ProgramInv
<1>2. QED
  BY <1>1, AuthoringInvariant, PTL

---------------------------------------------------------------------------
(* What no step does *)

(* What an operation on the program answers with is one.                    *)
LEMMA StepAnswers ==
  ASSUME ChooseStep \/ InsertStep \/ RemoveStep \/ MoveStep, DefinitionsInv
  PROVE  WellFormed(strategy) /\ Program' # None
<1>1. ASSUME NEW p, AnswerProgram(p) \/ (\E id : AnswerFormalized(p, id))
      PROVE  WellFormed(strategy) /\ Program' # None
  <2>1. CASE AnswerProgram(p)
    BY <2>1, WithProgramIs DEF AnswerProgram, Answer, Program
  <2>2. CASE \E id : AnswerFormalized(p, id)
    BY <2>2, WithProgramIs DEF AnswerFormalized, Answer, Program
  <2>3. QED
    BY <1>1, <2>1, <2>2
<1>2. CASE ChooseStep
  <2>1. \E p : AnswerProgram(p)
    BY <1>2, Zenon DEF ChooseStep, CreateProgramChoose, RenameProgramSubgroup, CreateProgramEventState
  <2>2. QED
    BY <1>1, <2>1
<1>3. CASE InsertStep
  <2>1. \E p : AnswerProgram(p) \/ (\E id : AnswerFormalized(p, id))
    BY <1>3, Zenon DEF InsertStep, InsertProgramStatement, FormalizeDraftPhrase
  <2>2. QED
    BY <1>1, <2>1
<1>4. CASE RemoveStep
  <2>1. \E p : AnswerProgram(p)
    BY <1>4, Zenon DEF RemoveStep, RemoveProgramStatement, RemoveProgramChoose,
                       RemoveProgramInvestmentAllocation
  <2>2. QED
    BY <1>1, <2>1
<1>5. CASE MoveStep
  <2>1. \E p : AnswerProgram(p)
    BY <1>5, Zenon DEF MoveStep, MoveProgramStatement
  <2>2. QED
    BY <1>1, <2>1
<1>6. QED
  BY <1>2, <1>3, <1>4, <1>5

LEMMA AnsweredDefinitions ==
  ASSUME DefinitionStep \/ (\E g : RemoveProgramInvestment(g))
  PROVE  WellFormed(strategy)
BY Zenon DEF DefinitionStep, SetProgramAssetSet, AddProgramGroup, RemoveProgramGroup,
   SetSelectionUniverse, RemoveProgramInvestment, Answer

LEMMA StepFillsBranches ==
  ASSUME AuthoringInv, Next, Program' # None, operation' \notin {"remove", "move"}
  PROVE  BranchesFilled(Program')
<1>1. ASSUME Filled PROVE BranchesFilled(Program')
  BY <1>1, WholeIsFilled DEF Filled, Sane
<1>2. ASSUME Program' = Program, WellFormed(strategy) PROVE BranchesFilled(Program')
  BY <1>2 DEF WellFormed, Program
<1>3. DefinitionsInv /\ ProgramInv
  BY DEF AuthoringInv
<1>4. CASE DefinitionStep
  BY <1>2, <1>3, <1>4, DefinitionStepProgram, AnsweredDefinitions
<1>5. CASE MeaningStep
  BY <1>1, <1>3, <1>5, MeaningStepWhole
<1>6. CASE \E g \in GroupIds : RemoveProgramInvestment(g)
  BY <1>2, <1>3, <1>6, RemoveInvestmentProgram, AnsweredDefinitions
<1>7. CASE HasProgram /\ (ChooseStep \/ CapitalStep \/ InsertStep \/ StatementStep)
  BY <1>1, <1>3, <1>7, ChooseStepWhole, CapitalStepWhole, InsertStepWhole, StatementStepWhole
<1>8. QED
  BY <1>4, <1>5, <1>6, <1>7 DEF Next

(* Whatever the program, only an operation that removes or moves one        *)
(* statement by its address can leave a condition or an Event without the   *)
(* statements it needs: every other one answers with a program that the     *)
(* parser of the next request accepts.                                      *)
THEOREM BranchesStayFilled ==
  Spec => OnlyRemovalEmptiesABranch
<1>1. AuthoringInv /\ [Next]_vars
        => [Program' # None /\ operation' \notin {"remove", "move"} => BranchesFilled(Program')]_vars
  BY StepFillsBranches
<1>2. QED
  BY <1>1, AuthoringInvariant, PTL DEF Spec, OnlyRemovalEmptiesABranch

LEMMA StepKeepsReferences ==
  ASSUME AuthoringInv, Next
  PROVE  RefsKept \/ operation' = "remove_investment"
<1>1. ASSUME strategy'.groups = strategy.groups PROVE RefsKept
  BY <1>1 DEF RefsKept
<1>2. ASSUME Filled, Grounded PROVE RefsKept
  <2> SUFFICES ASSUME NEW kept \in Statements(Program')
               PROVE  GroupRefs(kept) \subseteq DOMAIN strategy'.groups
    BY DEF RefsKept
  <2>1. Program' # None
    BY DEF Statements
  <2>2. DOMAIN Program' = 1..Len(Program')
    BY <1>2, <2>1, TreeLevels DEF Filled, Sane
  <2>3. QED
    BY <1>2, <2>1, <2>2 DEF Statements, Grounded, RefsIn
<1>3. DefinitionsInv /\ ProgramInv
  BY DEF AuthoringInv
<1>4. CASE DefinitionStep
  BY <1>3, <1>4, DefinitionStepProgram
<1>5. CASE MeaningStep
  BY <1>1, <1>2, <1>3, <1>5, MeaningStepWhole
<1>6. CASE HasProgram /\ (ChooseStep \/ CapitalStep \/ InsertStep \/ StatementStep)
  BY <1>1, <1>3, <1>6, ChooseStepWhole, CapitalStepWhole, InsertStepWhole, StatementStepWhole
<1>7. CASE HasProgram /\ (RemoveStep \/ MoveStep)
  BY <1>1, <1>3, <1>7, RemoveStepTree, MoveStepTree
<1>8. QED
  BY <1>4, <1>5, <1>6, <1>7 DEF Next

(* A statement that an operation leaves as it was does not lose a group it  *)
(* refers to, at whatever depth it stands: RemoveProgramGroup looks at      *)
(* every Selection and at the legs of every Allocation, and the recipes     *)
(* bring the groups of their statements with them.                          *)
THEOREM ReferencesAreKept ==
  Spec => KeptReferencesResolve
<1>1. AuthoringInv /\ [Next]_vars
        => [\/ \A kept \in Statements(Program) \cap Statements(Program') :
                 GroupRefs(kept) \cap DOMAIN strategy.groups \subseteq DOMAIN strategy'.groups
            \/ operation' = "remove_investment"]_vars
  BY StepKeepsReferences DEF RefsKept
<1>2. QED
  BY <1>1, AuthoringInvariant, PTL DEF Spec, KeptReferencesResolve


---------------------------------------------------------------------------
(* Order: what an operation is not about stays where it is *)

LEMMA ExtendedKeepsPlaces ==
  ASSUME NEW p, FilledTree(p), UniqueIds(p), NEW t, WholeTree(t), UniqueIds(p \o t)
  PROVE  KeepsPlaces(p, p \o t, Ids(p))
<1>1. p # <<>> => Grows(p[Len(p)], 0)
  <2> SUFFICES ASSUME p # <<>> PROVE Grows(p[Len(p)], 0)
    OBVIOUS
  <2>1. Len(p) \in 1..Len(p)
    BY DEF FilledTree, IsTree, IsSequence
  <2>2. p[Len(p)].level \in Nat
    BY <2>1, TreeLevels DEF FilledTree
  <2>3. QED
    BY <2>2 DEF Grows
<1>2. PICK a, b, q : a = Len(p) /\ b = Len(p) + 1 /\ q = p \o t
  OBVIOUS
<1>3. Graft(p, a, b, t, q)
  BY <1>1, <1>2, EndGraft DEF WholeTree, FilledTree
<1>4. \A id \in Ids(p) : \E i : Stays(p, a, b, i) /\ p[i].id = id
  <2>1. DOMAIN p = 1..Len(p) /\ Len(p) \in Nat
    BY TreeLevels DEF FilledTree
  <2>2. \A i : i \notin (a + 1)..(b - 1)
    BY <1>2, <2>1
  <2>3. QED
    BY <2>1, <2>2 DEF Ids, Stays
<1>5. KeepsPlaces(p, q, Ids(p))
  <2>1. UniqueIds(q)
    BY <1>2
  <2>2. QED
    BY <1>3, <1>4, <2>1, GraftKeepsPlaces
<1>6. QED
  BY <1>2, <1>5

(* An edit that keeps every statement its address and its place.            *)
LEMMA RenamedKeepsPlaces ==
  ASSUME NEW p, IsTree(p, 0), UniqueIds(p), NEW k \in DOMAIN p, NEW output
  PROVE  /\ KeepsPlaces(p, Renamed(p, k, output), Ids(p))
         /\ Ids(Renamed(p, k, output)) = Ids(p)
         /\ UniqueIds(Renamed(p, k, output))
<1>1. PICK q : q = Renamed(p, k, output)
  OBVIOUS
<1>2. DOMAIN q = DOMAIN p
  BY <1>1 DEF Renamed
<1>3. \A i \in DOMAIN p : q[i].id = p[i].id /\ q[i].level = p[i].level /\ q[i].branch = p[i].branch
  <2>1. SUFFICES ASSUME NEW i \in DOMAIN p
                 PROVE  q[i].id = p[i].id /\ q[i].level = p[i].level /\ q[i].branch = p[i].branch
    OBVIOUS
  <2>2. RenamedFrom(p, k, output, i, q[i])
    BY <1>1, RenamedStatement, Zenon
  <2>3. QED
    BY <2>2 DEF RenamedFrom
<1>4. Ids(q) = Ids(p) /\ UniqueIds(q)
  BY <1>2, <1>3 DEF Ids, UniqueIds
<1>5. \A id \in Ids(p) : /\ Position(q, id) = Position(p, id)
                         /\ Position(p, id) \in DOMAIN p /\ p[Position(p, id)].id = id
  <2> SUFFICES ASSUME NEW id \in Ids(p)
               PROVE  /\ Position(q, id) = Position(p, id)
                      /\ Position(p, id) \in DOMAIN p /\ p[Position(p, id)].id = id
    OBVIOUS
  <2>1. PICK i \in DOMAIN p : p[i].id = id
    BY DEF Ids
  <2>2. Position(p, id) = i
    BY <2>1, PositionIs
  <2>3. Position(q, id) = i
    BY <1>2, <1>3, <1>4, <2>1, PositionIs
  <2>4. QED
    BY <2>1, <2>2, <2>3
<1>6. ASSUME NEW i \in DOMAIN p PROVE Parent(q, i) = Parent(p, i)
  <2>1. DOMAIN p = 1..Len(p) /\ Len(p) \in Nat
    BY TreeLevels
  <2>2. \A j \in 1..(i - 1) : q[j].level = p[j].level
    BY <1>3, <2>1
  <2>3. {j \in 1..(i - 1) : q[j].level < q[i].level} = {j \in 1..(i - 1) : p[j].level < p[i].level}
    BY <1>3, <2>2
  <2>4. QED
    BY <1>3, <2>3 DEF Parent
<1>7. ASSUME NEW i \in DOMAIN p, Parent(p, i) # 0 PROVE Parent(p, i) \in DOMAIN p
  <2>1. p[i].level # 0
    BY <1>7 DEF Parent
  <2>2. HasParent(p, Parent(p, i), i)
    BY <2>1, ParentFound
  <2>3. DOMAIN p = 1..Len(p) /\ Len(p) \in Nat
    BY TreeLevels
  <2>4. QED
    BY <2>2, <2>3 DEF HasParent
<1>8. ASSUME NEW id \in Ids(p)
      PROVE  /\ ParentOf(q, id) = ParentOf(p, id)
             /\ q[Position(q, id)].branch = p[Position(p, id)].branch
             /\ \A other \in Ids(p) : Position(p, id) < Position(p, other)
                                        => Position(q, id) < Position(q, other)
  <2>1. ParentOf(q, id) = ParentOf(p, id)
    BY <1>3, <1>5, <1>6, <1>7 DEF ParentOf
  <2>2. QED
    BY <1>3, <1>5, <2>1
<1>9. QED
  BY <1>1, <1>4, <1>8 DEF KeepsPlaces

LEMMA StepKeepsOrder ==
  ASSUME AuthoringInv, Next
  PROVE  /\ operation' \in {"choose", "insert", "remove"} =>
              KeepsPlaces(Program, Program', Ids(Program) \cap Ids(Program'))
         /\ operation' = "move" =>
              \E k \in DOMAIN Program :
                KeepsPlaces(Program, Program', Ids(Program) \ Ids(Subtree(Program, k)))
<1>1. DefinitionsInv /\ ProgramInv
  BY DEF AuthoringInv
<1>2. PICK p, q : p = Program /\ q = Program'
  OBVIOUS
<1>3. CASE operation' = "choose"
  <2>1. HasProgram /\ ChooseStep
    BY <1>3 DEF Next
  <2>2. Filled /\ (Extended \/ OutputRenamed)
    BY <1>1, <2>1, ChooseStepWhole
  <2>3. Sane(p)
    BY <1>1, <1>2, <2>1 DEF ProgramInv
  <2>4. WellFormed(strategy) /\ q # None
    BY <1>1, <1>2, <2>1, StepAnswers
  <2>5. FilledTree(p) /\ UniqueIds(q)
    BY <1>2, <2>1, <2>2, <2>3, <2>4, WholeIsFilled DEF WellFormed, HasProgram, Program, Sane, Filled, WholeTree
  <2>6. KeepsPlaces(p, q, Ids(p))
    <3>1. CASE Extended
      BY <1>2, <2>3, <2>5, <3>1, ExtendedKeepsPlaces DEF Extended, Sane
    <3>2. CASE OutputRenamed
      BY <1>2, <2>3, <3>2, RenamedKeepsPlaces DEF OutputRenamed, Sane, Selects
    <3>3. QED
      BY <2>2, <3>1, <3>2
  <2>7. QED
    BY <1>2, <1>3, <2>6, FewerKeepPlaces
<1>4. CASE operation' = "insert"
  <2>1. HasProgram /\ InsertStep
    BY <1>4 DEF Next
  <2>2. Filled /\ Inserted
    BY <1>1, <2>1, InsertStepWhole
  <2>3. Sane(p) /\ q # None
    BY <1>1, <1>2, <2>1, StepAnswers DEF ProgramInv
  <2>4. UniqueIds(q)
    BY <1>2, <2>2, <2>3 DEF Filled, Sane
  <2>5. PICK parent, branch, n, tree :
          /\ Owns(p, parent, branch) /\ n \in Nat /\ WholeTree(tree)
          /\ q = Insert(p, parent, branch, n, tree)
    BY <1>2, <2>2 DEF Inserted
  <2>6. KeepsPlaces(p, q, Ids(p))
    BY <2>3, <2>4, <2>5, InsertKeepsPlaces DEF Sane, WholeTree, FilledTree
  <2>7. QED
    BY <1>2, <1>4, <2>6, FewerKeepPlaces
<1>5. CASE operation' = "remove"
  <2>1. HasProgram /\ RemoveStep
    BY <1>5 DEF Next
  <2>2. PICK k \in DOMAIN p : q = Cut(p, k)
    BY <1>1, <1>2, <2>1, RemoveStepTree
  <2>3. Sane(p)
    BY <1>1, <1>2, <2>1 DEF ProgramInv
  <2>4. KeepsPlaces(p, q, Ids(q))
    BY <2>2, <2>3, CutKeepsPlaces DEF Sane
  <2>5. QED
    BY <1>2, <1>5, <2>4, FewerKeepPlaces
<1>6. CASE operation' = "move"
  <2>1. HasProgram /\ MoveStep
    BY <1>6 DEF Next
  <2>2. QED
    BY <1>1, <1>6, <2>1, MoveStepTree
<1>7. CASE operation' \notin {"choose", "insert", "remove", "move"}
  BY <1>7
<1>8. QED
  BY <1>3, <1>4, <1>5, <1>6, <1>7


(* Whatever is inserted, removed, renamed or moved, and wherever, every     *)
(* statement the operation is not about stays under the parent and in the   *)
(* branch it was in, and in the order it had.                               *)
THEOREM OrderIsKept ==
  Spec => UnrelatedOrderKept
<1>1. AuthoringInv /\ [Next]_vars
        => [/\ operation' \in {"choose", "insert", "remove"} =>
                 KeepsPlaces(Program, Program', Ids(Program) \cap Ids(Program'))
            /\ operation' = "move" =>
                 \E k \in DOMAIN Program :
                   KeepsPlaces(Program, Program', Ids(Program) \ Ids(Subtree(Program, k)))]_vars
  BY StepKeepsOrder
<1>2. QED
  BY <1>1, AuthoringInvariant, PTL DEF Spec, UnrelatedOrderKept

---------------------------------------------------------------------------
(* Capital: an Allocation keeps the Selections it uses *)

(* Where one leg of the i-th statement goes.                                *)
Route(p, i, leg) ==
  <<leg[1], IF leg[1] = "selection"
            THEN p[Max({k \in Selects(p) : k < i /\ p[k].output = leg[2]})].id ELSE leg[2]>>

LEMMA RouteIs ==
  ASSUME NEW p, Sane(p), NEW i \in DOMAIN p, NEW leg \in p[i].legs
  PROVE  /\ leg[1] # "selection" => Route(p, i, leg) = <<leg[1], leg[2]>>
         /\ leg[1] = "selection" =>
              /\ \E k \in Selects(p) : p[k].output = leg[2]
              /\ \A k \in Selects(p) : p[k].output = leg[2] => Route(p, i, leg) = <<leg[1], p[k].id>>
<1>1. ASSUME leg[1] = "selection" PROVE \E k \in Selects(p) : k < i /\ p[k].output = leg[2]
  BY <1>1 DEF Sane, Routed
<1>2. ASSUME leg[1] = "selection", NEW k \in Selects(p), p[k].output = leg[2]
      PROVE  Route(p, i, leg) = <<leg[1], p[k].id>>
  <2>1. PICK S : S = {m \in Selects(p) : m < i /\ p[m].output = leg[2]}
    OBVIOUS
  <2>2. S = {k}
    BY <1>1, <1>2, <2>1 DEF Sane, UniqueOutputs
  <2>3. Max(S) = k
    <3>1. DOMAIN p = 1..Len(p) /\ Len(p) \in Nat
      BY TreeLevels DEF Sane
    <3>2. k \in 1..Len(p)
      BY <3>1 DEF Selects
    <3>3. S \in SUBSET (0..Len(p)) /\ S # {}
      BY <2>2, <3>1, <3>2
    <3>4. Max(S) \in S
      BY <3>1, <3>3, LargestNumber
    <3>5. QED
      BY <2>2, <3>4
  <2>4. QED
    BY <1>2, <2>1, <2>3 DEF Route
<1>3. leg[1] # "selection" => Route(p, i, leg) = <<leg[1], leg[2]>>
  BY DEF Route
<1>4. QED
  BY <1>1, <1>2, <1>3

LEMMA CapitalIs ==
  ASSUME NEW p, UniqueIds(p), NEW i \in DOMAIN p
  PROVE  Capital(p, p[i].id) = {Route(p, i, leg) : leg \in p[i].legs}
<1>1. Position(p, p[i].id) = i
  BY PositionIs
<1>2. QED
  BY <1>1 DEF Capital, Route

(* A statement that is there in q as it was in p, wherever.                 *)
Carried(x, y) == y.id = x.id /\ y.kind = x.kind /\ y.output = x.output /\ y.legs = x.legs

Carries(p, q) == \A i \in DOMAIN p : \E j \in DOMAIN q : Carried(p[i], q[j])

LEMMA CarriedCapital ==
  ASSUME NEW p, Sane(p), NEW q, Sane(q), Carries(p, q), NEW id \in Ids(p)
  PROVE  Capital(p, id) = Capital(q, id)
<1>1. PICK i \in DOMAIN p : p[i].id = id
  BY DEF Ids
<1>2. PICK j \in DOMAIN q : Carried(p[i], q[j])
  BY DEF Carries
<1>3. /\ Capital(p, id) = {Route(p, i, leg) : leg \in p[i].legs}
      /\ Capital(q, id) = {Route(q, j, leg) : leg \in p[i].legs}
  <2>1. q[j].id = id /\ q[j].legs = p[i].legs
    BY <1>1, <1>2 DEF Carried
  <2>2. Capital(p, p[i].id) = {Route(p, i, leg) : leg \in p[i].legs}
    BY CapitalIs DEF Sane
  <2>3. Capital(q, q[j].id) = {Route(q, j, leg) : leg \in q[j].legs}
    BY CapitalIs DEF Sane
  <2>4. QED
    BY <1>1, <2>1, <2>2, <2>3
<1>4. ASSUME NEW leg \in p[i].legs PROVE Route(p, i, leg) = Route(q, j, leg)
  <2>1. leg \in q[j].legs
    BY <1>2 DEF Carried
  <2>2. CASE leg[1] # "selection"
    <3>1. Route(p, i, leg) = <<leg[1], leg[2]>>
      BY <2>2, RouteIs
    <3>2. Route(q, j, leg) = <<leg[1], leg[2]>>
      BY <2>1, <2>2, RouteIs
    <3>3. QED
      BY <3>1, <3>2
  <2>3. CASE leg[1] = "selection"
    <3>1. PICK k \in Selects(p) : p[k].output = leg[2]
      BY <2>3, RouteIs
    <3>2. PICK m \in DOMAIN q : Carried(p[k], q[m])
      BY DEF Carries, Selects
    <3>3. m \in Selects(q) /\ q[m].output = leg[2] /\ q[m].id = p[k].id
      BY <3>1, <3>2 DEF Carried, Selects
    <3>4. Route(p, i, leg) = <<leg[1], p[k].id>>
      BY <2>3, <3>1, RouteIs
    <3>5. Route(q, j, leg) = <<leg[1], q[m].id>>
      BY <2>1, <2>3, <3>3, RouteIs
    <3>6. QED
      BY <3>3, <3>4, <3>5
  <2>4. QED
    BY <2>2, <2>3
<1>5. QED
  BY <1>3, <1>4


LEMMA SameIsCarried ==
  ASSUME NEW x, NEW y, y = x
  PROVE  Carried(x, y)
BY DEF Carried

LEMMA CarriedTwice ==
  ASSUME NEW x, NEW y, NEW z, Carried(x, y), Carried(y, z)
  PROVE  Carried(x, z)
BY DEF Carried

(* Moving a statement to another level changes neither its name nor its     *)
(* capital.                                                                 *)
LEMMA LevelIsNotCarried ==
  ASSUME NEW x, Proper(x), NEW level
  PROVE  Carried(x, [x EXCEPT !.level = level])
BY DEF Carried, Proper, StatementFields

LEMMA ExtendedCarries ==
  ASSUME NEW p, IsTree(p, 0), NEW t, IsTree(t, 0)
  PROVE  Carries(p, p \o t)
<1>1. IsSequence(p) /\ IsSequence(t)
  BY DEF IsTree
<1>2. PICK q : q = p \o t
  OBVIOUS
<1>3. /\ IsSequence(q) /\ Len(q) = Len(p) + Len(t) /\ Len(p) \in Nat /\ Len(t) \in Nat
      /\ \A m \in 1..Len(p) : q[m] = p[m]
  BY <1>1, <1>2, JoinedAt
<1>4. DOMAIN p = 1..Len(p) /\ DOMAIN q = 1..Len(q)
  BY <1>1, <1>3, LengthOfSequence
<1>5. ASSUME NEW i \in DOMAIN p PROVE i \in DOMAIN q /\ Carried(p[i], q[i])
  <2>1. i \in DOMAIN q /\ q[i] = p[i]
    BY <1>3, <1>4
  <2>2. QED
    BY <2>1, SameIsCarried
<1>6. QED
  BY <1>2, <1>5 DEF Carries

LEMMA CutCarries ==
  ASSUME NEW p, IsTree(p, 0), NEW k \in DOMAIN p
  PROVE  Carries(Cut(p, k), p)
<1>1. PICK a, b, q : a = k - 1 /\ b = SubtreeEnd(p, k) + 1 /\ q = Cut(p, k)
  OBVIOUS
<1>2. Graft(p, a, b, <<>>, q)
  BY <1>1, CutGraft
<1>3. DOMAIN p = 1..Len(p)
  BY TreeLevels
<1>4. ASSUME NEW m \in DOMAIN q PROVE \E i \in DOMAIN p : Carried(q[m], p[i])
  <2>1. PICK i : Stays(p, a, b, i) /\ q[m] = p[i]
    BY <1>2, CutStays
  <2>2. i \in DOMAIN p
    BY <1>3, <2>1 DEF Stays
  <2>3. QED
    BY <2>1, <2>2, SameIsCarried
<1>5. QED
  BY <1>1, <1>4 DEF Carries

(* What an insertion makes of the program it is made in, and of what it     *)
(* inserts.                                                                 *)
LEMMA InsertCarries ==
  ASSUME NEW p, IsTree(p, 0), NEW parent, NEW branch, Owns(p, parent, branch), NEW n \in Nat,
         NEW tree, IsTree(tree, 0)
  PROVE  /\ Carries(p, Insert(p, parent, branch, n, tree))
         /\ Carries(tree, Insert(p, parent, branch, n, tree))
<1>1. PICK at, l, t, q : /\ at = Slot(p, parent, branch, n) /\ l = LevelOf(p, parent)
                         /\ t = Placed(tree, l, branch)
                         /\ q = Insert(p, parent, branch, n, tree)
  OBVIOUS
<1>2. Graft(p, at - 1, at, t, q)
  BY <1>1, InsertGraft
<1>3. at \in Nat /\ at - 1 \in Nat /\ Len(p) \in Nat /\ DOMAIN p = 1..Len(p) /\ at <= Len(p) + 1
  BY <1>2, TreeLevels DEF Graft
<1>4. ASSUME NEW i \in DOMAIN p PROVE \E j \in DOMAIN q : Carried(p[i], q[j])
  <2>1. Stays(p, at - 1, at, i)
    BY <1>3 DEF Stays
  <2>2. PICK j : j \in DOMAIN q /\ q[j] = p[i]
    BY <1>2, <2>1, ShiftedPlace
  <2>3. QED
    BY <2>2, SameIsCarried
<1>5. PlacedAs(tree, l, branch, t)
  <2>1. FitsBranch(tree, branch)
    BY DEF FitsBranch, Owns, PolicyBranches
  <2>2. l \in Nat
    <3>1. parent # 0 => parent \in DOMAIN p
      BY DEF Owns
    <3>2. parent # 0 => p[parent].level \in Nat
      BY <3>1, TreeLevels
    <3>3. QED
      BY <1>1, <3>2 DEF LevelOf
  <2>3. QED
    BY <1>1, <2>1, <2>2, PlacedIsTree
<1>6. /\ Len(t) = Len(tree) /\ Len(t) \in Nat /\ DOMAIN tree = 1..Len(tree)
      /\ \A m \in 1..Len(tree) : Proper(tree[m])
  <2>1. DOMAIN tree = 1..Len(tree) /\ Len(tree) \in Nat
    BY TreeLevels
  <2>2. QED
    BY <1>5, <2>1 DEF PlacedAs, IsTree
<1>7. ASSUME NEW m \in DOMAIN tree PROVE \E j \in DOMAIN q : Carried(tree[m], q[j])
  <2>1. PICK j : j = at - 1 + m
    OBVIOUS
  <2>2. j \in DOMAIN q /\ q[j] = t[m]
    <3>1. /\ Len(q) = (at - 1) + Len(t) + (Len(p) + 1 - at)
          /\ \A i \in 1..Len(t) : q[(at - 1) + i] = t[i]
      BY <1>2 DEF Graft, Spliced
    <3>2. DOMAIN q = 1..Len(q)
      BY <1>2, TreeLevels DEF Graft
    <3>3. m \in 1..Len(t)
      BY <1>6
    <3>4. QED
      BY <1>3, <1>6, <2>1, <3>1, <3>2, <3>3
  <2>3. PICK x, y : x = tree[m] /\ y = t[m]
    OBVIOUS
  <2>4. Carried(tree[m], t[m])
    <3>1. Proper(x) /\ m \in 1..Len(tree)
      BY <1>6, <2>3
    <3>2. y = [x EXCEPT !.level = x.level + l,
                        !.branch = IF x.level = 0 THEN branch ELSE x.branch]
      BY <1>5, <2>3, <3>1 DEF PlacedAs
    <3>3. Carried(x, y)
      BY <3>1, <3>2 DEF Carried, Proper, StatementFields
    <3>4. QED
      BY <2>3, <3>3
  <2>5. QED
    BY <2>2, <2>4
<1>8. QED
  BY <1>1, <1>4, <1>7 DEF Carries

(* A statement of the program stands outside of the subtree or in it.       *)
LEMMA OutsideOrIn ==
  ASSUME NEW p, IsTree(p, 0), NEW k \in DOMAIN p, NEW i \in DOMAIN p
  PROVE  \/ \E m \in DOMAIN Cut(p, k) : Carried(p[i], Cut(p, k)[m])
         \/ \E m \in DOMAIN Subtree(p, k) : Carried(p[i], Subtree(p, k)[m])
<1>1. PICK a, b, e, q, t : /\ e = SubtreeEnd(p, k) /\ a = k - 1 /\ b = e + 1
                           /\ q = Cut(p, k) /\ t = Subtree(p, k)
  OBVIOUS
<1>2. /\ Len(p) \in Nat /\ k \in 1..Len(p) /\ e \in k..Len(p) /\ i \in 1..Len(p)
  BY <1>1, TreeLevels, SubtreeEndIs
<1>3. CASE i \in k..e
  <2>1. /\ IsTree(t, 0) /\ Len(t) = e - k + 1
        /\ \A m \in 1..Len(t) : t[m] = [p[k + m - 1] EXCEPT !.level = p[k + m - 1].level - p[k].level]
    BY <1>1, SubtreeIsTree
  <2>2. PICK m : m = i - k + 1
    OBVIOUS
  <2>3. m \in 1..(e - k + 1) /\ k + m - 1 = i
    BY <1>2, <1>3, <2>2, SMTT(30)
  <2>4. t[m] = [p[i] EXCEPT !.level = p[i].level - p[k].level]
    BY <2>1, <2>3
  <2>5. Proper(p[i])
    BY DEF IsTree
  <2>6. Carried(p[i], t[m])
    BY <2>4, <2>5, LevelIsNotCarried
  <2>7. m \in DOMAIN t
    BY <2>1, <2>3, TreeLevels
  <2>8. QED
    BY <1>1, <2>6, <2>7
<1>4. CASE i \notin k..e
  <2>1. Graft(p, a, b, <<>>, q)
    BY <1>1, CutGraft
  <2>2. i \notin (a + 1)..(b - 1)
    BY <1>1, <1>2, <1>4
  <2>3. Stays(p, a, b, i)
    BY <1>2, <2>2 DEF Stays
  <2>4. PICK m \in DOMAIN q : q[m] = p[i]
    BY <2>1, <2>3, CutStays
  <2>5. QED
    BY <1>1, <2>4, SameIsCarried
<1>5. QED
  BY <1>3, <1>4

LEMMA MoveCarries ==
  ASSUME NEW p, IsTree(p, 0), NEW k \in DOMAIN p, NEW w, w = Cut(p, k),
         NEW owner, NEW branch, Owns(w, owner, branch), NEW n \in Nat
  PROVE  Carries(p, Insert(w, owner, branch, n, Subtree(p, k)))
<1>1. PICK t, q : t = Subtree(p, k) /\ q = Insert(w, owner, branch, n, t)
  OBVIOUS
<1>2. IsTree(w, 0)
  BY CutGraft DEF Graft
<1>3. IsTree(t, 0)
  BY <1>1, SubtreeIsTree
<1>4. Carries(w, q) /\ Carries(t, q)
  BY <1>1, <1>2, <1>3, InsertCarries
<1>5. ASSUME NEW i \in DOMAIN p PROVE \E j \in DOMAIN q : Carried(p[i], q[j])
  <2>1. \/ \E m \in DOMAIN w : Carried(p[i], w[m])
        \/ \E m \in DOMAIN t : Carried(p[i], t[m])
    BY <1>1, OutsideOrIn
  <2>2. QED
    BY <1>4, <2>1, CarriedTwice DEF Carries
<1>6. QED
  BY <1>1, <1>5 DEF Carries


LEMMA RenamedCapital ==
  ASSUME NEW p, Sane(p), NEW k \in Selects(p), NEW output,
         NEW q, q = Renamed(p, k, output), Sane(q), NEW id \in Ids(p)
  PROVE  Capital(p, id) = Capital(q, id)
<1>1. /\ IsTree(p, 0) /\ k \in DOMAIN p /\ DOMAIN q = DOMAIN p
      /\ UniqueIds(p) /\ UniqueIds(q)
  BY DEF Sane, Selects, Renamed
<1>2. ASSUME NEW m \in DOMAIN p PROVE RenamedFrom(p, k, output, m, q[m])
  BY <1>1, <1>2, RenamedStatement
<1>3. PICK i \in DOMAIN p : p[i].id = id
  BY DEF Ids
<1>4. PICK old, new, x, y : /\ old = <<"selection", p[k].output>> /\ new = <<"selection", output>>
                            /\ x = p[i].legs /\ y = q[i].legs
  OBVIOUS
<1>5. /\ Capital(p, id) = {Route(p, i, leg) : leg \in x}
      /\ Capital(q, id) = {Route(q, i, leg) : leg \in y}
  <2>1. q[i].id = id
    BY <1>2, <1>3 DEF RenamedFrom
  <2>2. Capital(p, p[i].id) = {Route(p, i, leg) : leg \in p[i].legs}
    BY <1>1, CapitalIs
  <2>3. Capital(q, q[i].id) = {Route(q, i, leg) : leg \in q[i].legs}
    BY <1>1, CapitalIs
  <2>4. QED
    BY <1>3, <1>4, <2>1, <2>2, <2>3
<1>6. /\ \A leg \in x : leg = <<leg[1], leg[2]>>
      /\ i = k => x = {}
  <2>1. Proper(p[i])
    BY <1>1, <1>3 DEF IsTree
  <2>2. i = k => p[i].kind = "select"
    BY DEF Selects
  <2>3. QED
    BY <1>4, <2>1, <2>2 DEF Proper
<1>7. ASSUME NEW leg \in x, leg \in y, leg # old PROVE Route(p, i, leg) = Route(q, i, leg)
  <2>1. CASE leg[1] # "selection"
    <3>1. Route(p, i, leg) = <<leg[1], leg[2]>>
      BY <1>4, <2>1, RouteIs
    <3>2. Route(q, i, leg) = <<leg[1], leg[2]>>
      BY <1>1, <1>4, <1>7, <2>1, RouteIs
    <3>3. QED
      BY <3>1, <3>2
  <2>2. CASE leg[1] = "selection"
    <3>1. PICK m \in Selects(p) : p[m].output = leg[2]
      BY <1>4, <2>2, RouteIs
    <3>2. m # k
      BY <1>4, <1>6, <1>7, <2>2, <3>1
    <3>3. m \in Selects(q) /\ q[m].output = leg[2] /\ q[m].id = p[m].id
      BY <1>1, <1>2, <3>1, <3>2 DEF RenamedFrom, Selects
    <3>4. Route(p, i, leg) = <<leg[1], p[m].id>>
      BY <1>4, <2>2, <3>1, RouteIs
    <3>5. Route(q, i, leg) = <<leg[1], q[m].id>>
      BY <1>1, <1>4, <1>7, <2>2, <3>3, RouteIs
    <3>6. QED
      BY <3>3, <3>4, <3>5
  <2>3. QED
    BY <2>1, <2>2
<1>8. CASE old \notin x
  <2>1. y = x
    BY <1>2, <1>3, <1>4, <1>8 DEF RenamedFrom
  <2>2. \A leg \in x : Route(p, i, leg) = Route(q, i, leg)
    BY <1>7, <1>8, <2>1
  <2>3. QED
    BY <1>5, <2>1, <2>2
<1>9. CASE old \in x
  <2>1. y = (x \ {old}) \cup {new}
    BY <1>2, <1>3, <1>4, <1>6, <1>9 DEF RenamedFrom
  <2>2. Route(p, i, old) = <<"selection", p[k].id>>
    BY <1>4, <1>9, RouteIs
  <2>3. Route(q, i, new) = <<"selection", p[k].id>>
    <3>1. k \in Selects(q) /\ q[k].output = output /\ q[k].id = p[k].id
      BY <1>1, <1>2 DEF RenamedFrom, Selects
    <3>2. new \in q[i].legs /\ new[1] = "selection" /\ new[2] = output
      BY <1>4, <2>1
    <3>3. Route(q, i, new) = <<new[1], q[k].id>>
      BY <1>1, <3>1, <3>2, RouteIs
    <3>4. QED
      BY <3>1, <3>2, <3>3
  <2>4. PICK A, B : /\ A = {Route(p, i, leg) : leg \in x \ {old}}
                    /\ B = {Route(q, i, leg) : leg \in x \ {old}}
    OBVIOUS
  <2>5. A = B
    BY <1>7, <2>1, <2>4
  <2>6. Capital(p, id) = A \cup {Route(p, i, old)}
    BY <1>5, <1>9, <2>4
  <2>7. Capital(q, id) = B \cup {Route(q, i, new)}
    BY <1>5, <2>1, <2>4
  <2>8. QED
    BY <2>2, <2>3, <2>5, <2>6, <2>7
<1>10. QED
  BY <1>8, <1>9

LEMMA StepKeepsCapital ==
  ASSUME AuthoringInv, Next
  PROVE  operation' \in {"definition", "choose", "insert", "remove", "move"} /\ HasProgram =>
           \A id \in Ids(Program) \cap Ids(Program') : Capital(Program, id) = Capital(Program', id)
<1>1. DefinitionsInv /\ ProgramInv
  BY DEF AuthoringInv
<1>2. PICK p, q : p = Program /\ q = Program'
  OBVIOUS
<1>3. SUFFICES ASSUME operation' \in {"definition", "choose", "insert", "remove", "move"}, HasProgram,
                      NEW id \in Ids(p) \cap Ids(q)
               PROVE  Capital(p, id) = Capital(q, id)
  BY <1>2
<1>4. Sane(p)
  BY <1>1, <1>2, <1>3 DEF ProgramInv
<1>5. CASE operation' = "definition"
  <2>1. DefinitionStep
    BY <1>5 DEF Next
  <2>2. q = p
    BY <1>1, <1>2, <2>1, DefinitionStepProgram
  <2>3. QED
    BY <2>2
<1>6. CASE operation' = "choose"
  <2>1. ChooseStep
    BY <1>6 DEF Next
  <2>2. Filled /\ (Extended \/ OutputRenamed)
    BY <1>1, <1>3, <2>1, ChooseStepWhole
  <2>3. Sane(q)
    BY <1>1, <1>2, <2>1, <2>2, StepAnswers DEF Filled
  <2>4. CASE Extended
    <3>1. PICK t : WholeTree(t) /\ q = p \o t
      BY <1>2, <2>4 DEF Extended
    <3>2. Carries(p, q)
      BY <1>4, <3>1, ExtendedCarries DEF Sane, WholeTree, FilledTree
    <3>3. QED
      BY <1>3, <1>4, <2>3, <3>2, CarriedCapital
  <2>5. CASE OutputRenamed
    <3>1. PICK k \in Selects(p) : \E output : q = Renamed(p, k, output)
      BY <1>2, <2>5 DEF OutputRenamed
    <3>2. QED
      BY <1>3, <1>4, <2>3, <3>1, RenamedCapital
  <2>6. QED
    BY <2>2, <2>4, <2>5
<1>7. CASE operation' = "insert"
  <2>1. InsertStep
    BY <1>7 DEF Next
  <2>2. Filled /\ Inserted
    BY <1>1, <1>3, <2>1, InsertStepWhole
  <2>3. Sane(q)
    BY <1>1, <1>2, <2>1, <2>2, StepAnswers DEF Filled
  <2>4. PICK parent, branch, n, tree :
          /\ Owns(p, parent, branch) /\ n \in Nat /\ WholeTree(tree)
          /\ q = Insert(p, parent, branch, n, tree)
    BY <1>2, <2>2 DEF Inserted
  <2>5. Carries(p, q)
    BY <1>4, <2>4, InsertCarries DEF Sane, WholeTree, FilledTree
  <2>6. QED
    BY <1>3, <1>4, <2>3, <2>5, CarriedCapital
<1>8. CASE operation' = "remove"
  <2>1. RemoveStep
    BY <1>8 DEF Next
  <2>2. Treed /\ \E k \in DOMAIN p : q = Cut(p, k)
    BY <1>1, <1>2, <1>3, <2>1, RemoveStepTree
  <2>3. Sane(q)
    BY <1>1, <1>2, <2>1, <2>2, StepAnswers DEF Treed
  <2>4. Carries(q, p)
    BY <1>4, <2>2, CutCarries DEF Sane
  <2>5. QED
    BY <1>3, <1>4, <2>3, <2>4, CarriedCapital
<1>9. CASE operation' = "move"
  <2>1. MoveStep
    BY <1>9 DEF Next
  <2>2. /\ Treed
        /\ \E k \in DOMAIN p : \E w, owner, branch, n :
             /\ w = Cut(p, k) /\ Owns(w, owner, branch) /\ n \in Nat
             /\ q = Insert(w, owner, branch, n, Subtree(p, k))
    BY <1>1, <1>2, <1>3, <2>1, MoveStepTree
  <2>3. Sane(q)
    BY <1>1, <1>2, <2>1, <2>2, StepAnswers DEF Treed
  <2>4. Carries(p, q)
    BY <1>4, <2>2, MoveCarries DEF Sane
  <2>5. QED
    BY <1>3, <1>4, <2>3, <2>4, CarriedCapital
<1>10. QED
  BY <1>3, <1>5, <1>6, <1>7, <1>8, <1>9

(* Groups and Selections are added, renamed and removed, statements are     *)
(* inserted, removed and moved, and no Allocation that is still there sends *)
(* its capital to another Selection than it did.                            *)
THEOREM CapitalIsKept ==
  Spec => CapitalFollowsItsSelection
<1>1. AuthoringInv /\ [Next]_vars
        => [operation' \in {"definition", "choose", "insert", "remove", "move"} /\ HasProgram =>
              \A id \in Ids(Program) \cap Ids(Program') :
                Capital(Program, id) = Capital(Program', id)]_vars
  BY StepKeepsCapital
<1>2. QED
  BY <1>1, AuthoringInvariant, PTL DEF Spec, CapitalFollowsItsSelection

=============================================================================
