------------------------- MODULE ProgramAuthoring -------------------------
(***************************************************************************)
(* The authoring service of strategy/v2: one action per operation, each a  *)
(* whole apply_v2_authoring request.  A client sends a complete strategy   *)
(* and one operation; the answer replaces the client's strategy, so the    *)
(* variable is that strategy from one accepted answer to the next.  An     *)
(* operation that is refused changes nothing.  Operations that only change *)
(* data the model leaves out (names, schedules, counts, directions,        *)
(* fallback assets) keep the strategy as it is here.                       *)
(***************************************************************************)
EXTENDS ProgramSource

CONSTANTS AssetLists,       \* the asset lists clients choose from
          OwnAssets,        \* the asset list ids a client may give a new group
          Rankings,         \* the rankings clients choose from
          TemporalGroup, TemporalAssets, TemporalAsset,    \* what the breakout recipe defines
          FallbackAsset,    \* the defensive asset of the weekly recipe
          MaxStatements,    \* bound: no operation but a recipe grows a program beyond it
          MaxRequests,      \* bound on the requests of one session
          LongRecipesFrom   \* bound: requests before the two recipes longer than the others

ASSUME AssetListsAreLists == AssetLists \subseteq SUBSET Assets

ASSUME BreakoutIdentities == TemporalGroup \in GroupIds /\ TemporalAssets \in AssetSetIds

VARIABLES strategy,
          requests,     \* how many the session has made
          operation     \* what the last one was about

vars == <<strategy, requests, operation>>

Program == strategy.program

HasProgram == Program # None

WithProgram(p) == [strategy EXCEPT !.program = p]

(* The request is parsed, the candidate is validated, the candidate is the  *)
(* answer.                                                                  *)
Answer(candidate) ==
    /\ WellFormed(strategy)
    /\ ValidStrategy(candidate)
    /\ strategy' = candidate
    /\ requests' = requests + 1

(* The same for an operation on the statements of the program. *)
AnswerProgram(p) ==
    /\ p # None /\ Len(p) <= Max({MaxStatements, Len(Program)})
    /\ Answer(WithProgram(p))

---------------------------------------------------------------------------
(* What clients send *)

(* Capital for one asset, group or Selection output. *)
Outputs == OutputIds \cup IF HasProgram THEN {Program[k].output : k \in Selects(Program)} ELSE {}

AllocationsOf(id) ==
    {Allocate(id, "equal", {target}) :
        target \in ({"asset"} \X Assets) \cup ({"group"} \X GroupIds) \cup ({"selection"} \X Outputs)}
    \cup {Allocate(id, "proportional_score", {<<"selection", o>>}) :
            o \in {out \in Outputs : "score" \in Rankings}}

(* Roots of the trees that are inserted or take the place of a statement;   *)
(* their children are named after them.                                     *)
TreesOf(id) ==
    {<<Select(id, o, g, "return")>> : o \in OutputIds, g \in GroupIds}
    \cup {<<Allocate(id, "equal", {<<"selection", o>>})>> : o \in Outputs}
    \cup {<<Statement(id, "remember_value")>>}
    \cup {<<Statement(id, "control")>>
            \o Placed(<<Allocate(<<id, "then">>, "equal", {target})>>, 1, "then") :
            target \in ({"asset"} \X Assets) \cup ({"selection"} \X Outputs)}
    \cup {<<Statement(id, "on_event")>>
            \o Placed(<<Statement(<<id, "transition">>, "transition")>>, 1, "event")}
    \cup {<<Statement(id, "guarded_allocation")>>
            \o Placed(<<Allocate(<<id, "primary">>, "equal", {target})>>, 1, "primary") :
            target \in ({"group"} \X GroupIds) \cup ({"selection"} \X Outputs)}

TreesOfAll == UNION {TreesOf(id) : id \in StatementIds}

BranchNames == {"root", "then", "otherwise", "event"}

(* The places an insertion can name: an index beyond the branch is its end. *)
Places == UNION {{<<at[1], at[2], n>> : n \in 0..Cardinality(Branch(Program, at[1], at[2]))} :
                    at \in {owned \in ({0} \cup DOMAIN Program) \X BranchNames :
                               Owns(Program, owned[1], owned[2])}}

---------------------------------------------------------------------------
(* Starting points of create_program_strategy_template *)

(* Identities the server owns, apart from those a client chooses. *)
Own(name) == <<None, name>>

EmptyDefinitions ==
    [assetSets |-> [x \in {InitialAssets} |-> Assets], groups |-> [g \in {} |-> None],
     axis |-> InitialAssets, selection |-> None, formalizations |-> {},
     program |-> <<Allocate(Own("initial-retain-allocation"), "equal", {<<"retain", None>>})>>]

WithGroup(s, g, assetSet, assets) ==
    [s EXCEPT !.assetSets = [x \in DOMAIN @ \cup {assetSet} |-> IF x = assetSet THEN assets ELSE @[x]],
              !.groups = [x \in DOMAIN @ \cup {g} |-> IF x = g THEN assetSet ELSE @[x]],
              !.axis = g]

Invest(s, g) == WithGroup(s, g, IF g = Growth THEN GrowthAssets ELSE DefensiveAssets, Assets)

GrowthOutput == Own("growth-selection-output")

GrowthSelection == Select(Own("growth-selection"), GrowthOutput, Growth, "return")

Templates ==
    LET grown == Invest(EmptyDefinitions, Growth)
        sleeves == Invest(grown, Defensive)
        retain == EmptyDefinitions.program
        selected == Allocate(Own("allocation-growth-selection"), "equal", {<<"selection", GrowthOutput>>})
        split == Allocate(Own("portfolio-split"), "fixed",
                          {<<"selection", GrowthOutput>>, <<"group", Defensive>>})
    IN  {EmptyDefinitions, grown,
         [grown EXCEPT !.program = retain \o <<GrowthSelection, selected>>],
         [sleeves EXCEPT !.program = retain \o <<GrowthSelection, split>>],
         [grown EXCEPT !.program = retain \o <<Statement(Own("cooldown-policy"), "unresolved")>>]}

(* A strategy of the older profile: one Selection and no Program. *)
Compatibility == [Invest(EmptyDefinitions, Growth) EXCEPT !.program = None, !.selection = Growth]

Init == strategy \in Templates \cup {Compatibility} /\ requests = 0 /\ operation = None

---------------------------------------------------------------------------
(* Groups and their assets *)

SetProgramAssetSet(assetSet, assets) ==
    /\ assetSet \in DOMAIN strategy.assetSets
    /\ Answer([strategy EXCEPT !.assetSets[assetSet] = assets])

(* Mutant: a new group may take over an existing asset list. *)
AddProgramGroupSharing(g, assetSet, assets) ==
    /\ g \notin DOMAIN strategy.groups
    /\ Answer(WithGroup(strategy, g, assetSet, assets))

(* AddProgramGroup and AddProgramInvestment: the same transaction. *)
AddProgramGroup(g, assetSet, assets) ==
    /\ g \notin DOMAIN strategy.groups
    /\ assetSet \notin DOMAIN strategy.assetSets
    /\ Answer(WithGroup(strategy, g, assetSet, assets))

(* The definitions without a group and without the given asset sets; the    *)
(* asset axis moves to a domain that is left.                               *)
WithoutGroup(g, removed) ==
    LET groups == DOMAIN strategy.groups \ {g}
        sets == DOMAIN strategy.assetSets \ removed
    IN  {[strategy EXCEPT !.groups = [x \in groups |-> @[x]], !.assetSets = [x \in sets |-> @[x]],
                          !.axis = domain] :
            domain \in IF groups # {} THEN groups ELSE sets}

GroupLegs(p) == (UNION {p[i].legs : i \in DOMAIN p}) \cap ({"group"} \X GroupIds)

Shared(g) == \E x \in DOMAIN strategy.groups \ {g} : strategy.groups[x] = strategy.groups[g]

(* Mutant: only the root branch is searched for uses. *)
RemoveProgramGroupUnusedAtRoot(g) ==
    /\ HasProgram /\ g \in DOMAIN strategy.groups
    /\ \A i \in DOMAIN Program : Program[i].level = 0 =>
        Program[i].universe # g /\ <<"group", g>> \notin Program[i].legs
    /\ \E candidate \in WithoutGroup(g, IF Shared(g) THEN {} ELSE {strategy.groups[g]}) :
        DOMAIN candidate.assetSets # {} /\ Answer(candidate)

RemoveProgramGroup(g) ==
    /\ HasProgram /\ g \in DOMAIN strategy.groups
    /\ \A k \in Selects(Program) : Program[k].universe # g
    /\ <<"group", g>> \notin GroupLegs(Program)
    /\ \E candidate \in WithoutGroup(g, IF Shared(g) THEN {} ELSE {strategy.groups[g]}) :
        DOMAIN candidate.assetSets # {} /\ Answer(candidate)

(* The operation of the first Builder: it looks at the Selections of the    *)
(* root branch only, and never at what an Allocation targets.               *)
RemoveProgramInvestment(g) ==
    /\ HasProgram /\ g \in DOMAIN strategy.groups
    /\ \A k \in Selects(Program) : Program[k].level = 0 => Program[k].universe # g
    /\ \E candidate \in WithoutGroup(g, {strategy.groups[g]}) :
        DOMAIN candidate.assetSets # {} /\ Answer(candidate)

KnownAssets == UNION {strategy.assetSets[x] : x \in DOMAIN strategy.assetSets}

---------------------------------------------------------------------------
(* Choosing and investing *)

(* A root Split that routes capital to the whole group g. *)
Drafted(p, i, g) ==
    /\ p[i].level = 0 /\ p[i].method = "fixed" /\ Cardinality(p[i].legs) > 1
    /\ <<"group", g>> \in p[i].legs

(* The program with a new Selection of g: a Split that already routes to g  *)
(* is pointed at its output, otherwise an Allocation of its own is added.   *)
WithSelection(p, id, g) ==
    LET output == <<id, "output">>
        drafted == {i \in DOMAIN p : p[i].kind = "allocate" /\ Drafted(p, i, g)}
        resolved == [i \in DOMAIN p |->
            IF i \notin drafted THEN p[i]
            ELSE [p[i] EXCEPT !.legs = (@ \ {<<"group", g>>}) \cup {<<"selection", output>>}]]
    IN  Append(resolved, Select(id, output, g, "return"))
            \o IF drafted # {} THEN <<>>
               ELSE <<Allocate(<<id, "allocation">>, "equal", {<<"selection", output>>})>>

CreateProgramSelection(id, g) ==
    /\ HasProgram /\ g \in DOMAIN strategy.groups
    /\ \A k \in Selects(Program) : Program[k].level = 0 => Program[k].universe # g
    /\ AnswerProgram(WithSelection(Program, id, g))

CreateProgramChoose(id, g, output) ==
    /\ HasProgram /\ g \in DOMAIN strategy.groups
    /\ \A k \in Selects(Program) : Program[k].id # id /\ Program[k].output # output
    /\ AnswerProgram(Append(Program, Select(id, output, g, "return")))

(* The Selection's output is renamed together with every Allocation that    *)
(* uses it, policy-owned ones included.                                     *)
RenameProgramSubgroup(id, output) ==
    /\ HasProgram
    /\ \E k \in Selects(Program) :
        /\ Program[k].id = id
        /\ \A other \in Selects(Program) \ {k} : Program[other].output # output
        /\ AnswerProgram([i \in DOMAIN Program |->
            IF i = k THEN [Program[i] EXCEPT !.output = output]
            ELSE IF <<"selection", Program[k].output>> \notin Program[i].legs THEN Program[i]
            ELSE [Program[i] EXCEPT !.legs =
                    (@ \ {<<"selection", Program[k].output>>}) \cup {<<"selection", output>>}]])

RemoveProgramChoose(id) ==
    /\ HasProgram
    /\ \E k \in Selects(Program) :
        /\ Program[k].id = id
        /\ \A i \in DOMAIN Program : <<"selection", Program[k].output>> \notin Program[i].legs
        /\ AnswerProgram(Cut(Program, k))

SetProgramInvestment(id, allocation) ==
    LET target == CHOOSE leg \in allocation.legs : TRUE
        selected == {k \in Selects(Program) : Program[k].output = target[2]} IN
    /\ HasProgram
    /\ target[1] = "asset" => target[2] \in KnownAssets
    /\ target[1] = "group" => target[2] \in DOMAIN strategy.groups
    /\ target[1] = "selection" => selected # {}
    /\ allocation.method = "proportional_score" => \E k \in selected : Program[k].method = "score"
    /\ IF id \in Ids(Program)
       THEN /\ Program[Position(Program, id)].kind = "allocate"
            /\ AnswerProgram(Swap(Program, Position(Program, id), <<allocation>>))
       ELSE AnswerProgram(Append(Program, allocation))

RemoveProgramInvestmentAllocation(id) ==
    /\ HasProgram /\ id \in Ids(Program)
    /\ LET k == Position(Program, id) IN
        /\ Program[k].level = 0 /\ Program[k].kind = "allocate"
        /\ AnswerProgram(Cut(Program, k))

(* Mutant: competing Allocations are removed at any depth. *)
SetProgramSplitEverywhere(id, groups) ==
    LET chosen == {k \in Selects(Program) :
                     Program[k].level = 0 /\ Program[k].universe \in groups}
        last(g) == Max({k \in chosen : Program[k].universe = g})
        route(g) == IF \E k \in chosen : Program[k].universe = g
                    THEN <<"selection", Program[last(g)].output>> ELSE <<"group", g>>
        legs == {route(g) : g \in groups}
        replaced(i) ==
            /\ Program[i].kind = "allocate"
            /\ \/ /\ Program[i].method = "fixed" /\ Cardinality(Program[i].legs) > 1
                  /\ \A leg \in Program[i].legs : leg[1] \in {"group", "selection"}
               \/ \E leg \in legs : leg[1] = "selection" /\ Program[i].legs = {leg}
    IN  /\ HasProgram /\ groups \subseteq DOMAIN strategy.groups
        /\ AnswerProgram(Append(Only(Program, {i \in DOMAIN Program : ~replaced(i)}),
                                Allocate(id, "fixed", legs)))

(* A Split of whole investments: each goes to its root Selection where it   *)
(* has one.  Earlier Splits and the Allocations of those Selections go.     *)
SetProgramSplit(id, groups) ==
    LET chosen == {k \in Selects(Program) :
                     Program[k].level = 0 /\ Program[k].universe \in groups}
        last(g) == Max({k \in chosen : Program[k].universe = g})
        route(g) == IF \E k \in chosen : Program[k].universe = g
                    THEN <<"selection", Program[last(g)].output>> ELSE <<"group", g>>
        legs == {route(g) : g \in groups}
        replaced(i) ==
            /\ Program[i].kind = "allocate" /\ Program[i].level = 0
            /\ \/ /\ Program[i].method = "fixed" /\ Cardinality(Program[i].legs) > 1
                  /\ \A leg \in Program[i].legs : leg[1] \in {"group", "selection"}
               \/ \E leg \in legs : leg[1] = "selection" /\ Program[i].legs = {leg}
    IN  /\ HasProgram /\ groups \subseteq DOMAIN strategy.groups
        /\ AnswerProgram(Append(Only(Program, {i \in DOMAIN Program : ~replaced(i)}),
                                Allocate(id, "fixed", legs)))

(* An Event with the one transition it triggers. *)
CreateProgramEventState(id, asset) ==
    /\ HasProgram /\ asset \in KnownAssets
    /\ AnswerProgram(Append(Program, Statement(id, "on_event"))
                        \o Placed(<<Statement(<<id, "transition">>, "transition")>>, 1, "event"))

---------------------------------------------------------------------------
(* Statements by their address *)

(* Refused for an address the program does not have; a statement of a       *)
(* policy can be replaced by an Allocation only.                            *)
ReplaceProgramStatement(id, tree) ==
    /\ HasProgram /\ id \in Ids(Program)
    /\ LET k == Position(Program, id) IN
        /\ PolicyOwned(Program, k) => tree[1].kind = "allocate"
        /\ AnswerProgram(Swap(Program, k, tree))

InsertProgramStatement(place, tree) ==
    /\ HasProgram /\ Owns(Program, place[1], place[2])
    /\ AnswerProgram(Insert(Program, place[1], place[2], place[3], tree))

(* Nothing looks at the branch that is left: the check the code intends     *)
(* cannot fail, because a copied model is not validated again.              *)
RemoveProgramStatement(id) ==
    /\ HasProgram /\ Addressed(Program, id)
    /\ AnswerProgram(Cut(Program, Position(Program, id)))

(* The parent is looked up after the removal. *)
MoveProgramStatement(id, parent, branch, n) ==
    /\ HasProgram /\ Addressed(Program, id)
    /\ LET k == Position(Program, id)
           without == Cut(Program, k)
           owner == IF parent = None THEN 0
                    ELSE IF Addressed(without, parent) THEN Position(without, parent)
                    ELSE Len(Program) + 1
       IN  /\ Owns(without, owner, branch)
           /\ AnswerProgram(Insert(without, owner, branch, n, Subtree(Program, k)))

(* One statement edited in place. *)
Edit(id, kinds, edited) ==
    /\ Addressed(Program, id)
    /\ edited.kind \in kinds
    /\ AnswerProgram([Program EXCEPT ![Position(Program, id)] = edited])

Current(id) == Program[Position(Program, id)]

(* SetProgramCondition, SetProgramEvent, SetProgramTransition and           *)
(* SetProgramValue of a remembered value: other Events or memories are read.*)
SetProgramCondition(id, uses) ==
    /\ HasProgram /\ id \in Ids(Program)
    /\ Edit(id, {"control", "on_event", "transition", "select", "guarded_allocation", "remember_value"},
            [Current(id) EXCEPT !.uses = uses])

(* SetProgramValue of a ranking. *)
SetProgramRanking(id, ranking) ==
    /\ HasProgram /\ id \in Ids(Program)
    /\ Edit(id, {"select"}, [Current(id) EXCEPT !.method = ranking])

(* SetProgramSelection replaces the whole Selection behind the output;      *)
(* SetProgramFallback is the case that changes its fallback asset only.     *)
SetProgramSelection(id, g, ranking) ==
    /\ HasProgram /\ id \in Ids(Program)
    /\ Edit(id, {"select"}, [Current(id) EXCEPT !.universe = g, !.method = ranking])

(* An Allocation of a branch, or the one a policy owns in the given role. *)
SetProgramAllocation(id, role, allocation) ==
    /\ HasProgram /\ Addressed(Program, id)
    /\ LET k == Position(Program, id)
           owned == Branch(Program, k, role)
           new(i) == [Program[i] EXCEPT !.method = allocation.method, !.legs = allocation.legs]
       IN  \/ /\ role = "statement" /\ Program[k].kind = "allocate"
              /\ AnswerProgram([Program EXCEPT ![k] = new(k)])
           \/ /\ Program[k].kind = "guarded_allocation" /\ role # "statement"
              /\ \E i \in owned : AnswerProgram([Program EXCEPT ![i] = new(i)])
           \/ /\ Program[k].kind = "guarded_allocation" /\ role = "fallback" /\ owned = {}
              /\ AnswerProgram(SubSeq(Program, 1, SubtreeEnd(Program, k))
                    \o Placed(<<Allocate(<<id, role>>, allocation.method, allocation.legs)>>,
                              Program[k].level + 1, role)
                    \o SubSeq(Program, SubtreeEnd(Program, k) + 1, Len(Program)))

---------------------------------------------------------------------------
(* Provenance of formalized phrases *)

SetProgramFormalizations(ids) ==
    /\ HasProgram
    /\ Answer([strategy EXCEPT !.formalizations = ids])

(* The phrase is recorded as formalized by the new statement. *)
AnswerFormalized(p, id) ==
    /\ p # None /\ Len(p) <= Max({MaxStatements, Len(Program)})
    /\ Answer([strategy EXCEPT !.program = p, !.formalizations = @ \cup {id}])

FormalizeProgramStatement(id, tree) ==
    /\ HasProgram /\ Addressed(Program, id) /\ Current(id).kind = "unresolved"
    /\ AnswerFormalized(Swap(Program, Position(Program, id), tree), tree[1].id)

FormalizeDraftPhrase(place, tree) ==
    /\ HasProgram /\ Owns(Program, place[1], place[2])
    /\ AnswerFormalized(Insert(Program, place[1], place[2], place[3], tree), tree[1].id)

---------------------------------------------------------------------------
(* Whole meanings *)

(* SetSemanticProgram: a program parsed from the request. *)
SetSemanticProgram(p) ==
    /\ BranchesFilled(p)
    /\ Answer([strategy EXCEPT !.program = p, !.formalizations = {}])

CommitSingleAssetIntent(g, assetSet, asset) ==
    LET emptied == [EmptyDefinitions EXCEPT !.assetSets = [x \in {} |-> {}]] IN
    Answer([WithGroup(emptied, g, assetSet, {asset})
              EXCEPT !.program = <<Allocate(Own("single-asset-allocation"), "fixed", {<<"asset", asset>>})>>])

(* The definitions of the maintained recipes, with their Growth group. *)
RecipeDefinitions(sets, groups) ==
    [EmptyDefinitions EXCEPT !.assetSets = [x \in sets |-> Assets], !.axis = Growth,
        !.groups = [g \in groups |-> IF g = Growth THEN GrowthAssets ELSE DefensiveAssets]]

RecipeSelection(ranking) == Select(Own("select-growth"), GrowthOutput, Growth, ranking)

(* The defensive asset set comes without a group. *)
CommitMarketRegimeRotationIntent(fallback) ==
    Answer([RecipeDefinitions({GrowthAssets, DefensiveAssets}, {Growth}) EXCEPT !.program =
        <<Statement(Own("market-regime-routing"), "control")>>
        \o Placed(<<RecipeSelection("return"),
                    Allocate(Own("allocate-selection"), "equal", {<<"selection", GrowthOutput>>})>>, 1, "then")
        \o Placed(<<Allocate(Own("market-regime-defensive"), "fixed", {<<"asset", fallback>>})>>, 1, "otherwise")])

CommitSplitPortfolioIntent(defensive) ==
    Answer([RecipeDefinitions({GrowthAssets, DefensiveAssets}, {Growth, Defensive}) EXCEPT !.program =
        <<RecipeSelection("return"),
          Allocate(Own("portfolio-split"), "fixed",
                   {<<"selection", GrowthOutput>>, <<"asset", defensive>>})>>])

CommitWeightedScoreIntent ==
    Answer([RecipeDefinitions({GrowthAssets}, {Growth}) EXCEPT !.program =
        <<RecipeSelection("score"),
          Allocate(Own("allocate-by-score"), "proportional_score", {<<"selection", GrowthOutput>>})>>])

(* An Event with what happens at its occurrence, and a policy of two        *)
(* Allocations.                                                             *)
OnEvent(id, uses, body) ==
    <<[Statement(id, "on_event") EXCEPT !.uses = uses]>> \o Placed(body, 1, "event")

Guarded(id, primary, override) ==
    (<<Statement(id, "guarded_allocation")>> \o Placed(<<primary>>, 1, "primary"))
        \o Placed(<<override>>, 1, "override")

Transition(name) == Statement(Own(name), "transition")

Remember(name) == Statement(Own(name), "remember_value")

(* Breakout, retest, confirmation or expiry: the one variation that is      *)
(* accepted, so that nothing of the request is left in it.                  *)
BreakoutProgram ==
    LET breakout == Own("breakout-event-statement")
        retest == Own("retest-event-statement")
        level == Own("remember-breakout")
    IN  ((OnEvent(breakout, {}, <<Remember("remember-breakout"), Transition("arm-breakout")>>)
          \o OnEvent(retest, {breakout, level}, <<Transition("accept-retest")>>))
         \o (OnEvent(Own("confirmation-event-statement"), {retest, level}, <<Transition("confirm-entry")>>)
             \o OnEvent(Own("expiry-event-statement"), {retest}, <<Transition("expire-entry")>>)))
        \o Guarded(Own("temporal-policy"), Allocate(Own("temporal-cash"), "fixed", {<<"cash", None>>}),
                   Allocate(Own("temporal-invested"), "fixed", {<<"asset", TemporalAsset>>}))

CommitTemporalSequenceIntent ==
    LET emptied == [EmptyDefinitions EXCEPT !.assetSets = [x \in {} |-> {}]] IN
    Answer([WithGroup(emptied, TemporalGroup, TemporalAssets, {TemporalAsset})
              EXCEPT !.program = BreakoutProgram])

(* A weekly context arms the weighted score of the growth assets. *)
WeeklyProgram ==
    (<<RecipeSelection("score")>>
     \o (OnEvent(Own("composition-weekly-event-statement"), {},
                 <<Remember("remember-weekly-context"), Transition("arm-growth")>>)
         \o OnEvent(Own("composition-confirmation-event-statement"), {}, <<Transition("confirm-growth")>>)))
    \o Guarded(Own("composition-policy"),
               Allocate(Own("composition-defensive-allocation"), "fixed", {<<"asset", FallbackAsset>>}),
               Allocate(Own("composition-growth-allocation"), "proportional_score",
                        {<<"selection", GrowthOutput>>}))

CommitMultiClockPolicyIntent ==
    Answer([RecipeDefinitions({GrowthAssets}, {Growth}) EXCEPT !.program = WeeklyProgram])

(* The Selection operations of the older profile. *)
SetSelectionUniverse(universe) ==
    /\ strategy.selection # None
    /\ Answer([strategy EXCEPT !.selection = universe])
---------------------------------------------------------------------------

Addresses == Ids(Program)

(* The parents a move can name. *)
Owners == {None} \cup {Program[i].id : i \in {j \in DOMAIN Program :
                                          Program[j].kind \in {"control", "on_event"}}}

DefinitionStep ==
    \/ \E x \in AssetSetIds, assets \in AssetLists : SetProgramAssetSet(x, assets)
    \/ \E g \in GroupIds, assets \in AssetLists : \E x \in OwnAssets[g] : AddProgramGroup(g, x, assets)
    \/ \E g \in GroupIds : RemoveProgramGroup(g)
    \/ \E x \in GroupIds \cup AssetSetIds : SetSelectionUniverse(x)

ChooseStep ==
    \/ \E id \in StatementIds, g \in GroupIds, o \in OutputIds : CreateProgramChoose(id, g, o)
    \/ \E id \in Addresses, o \in OutputIds : RenameProgramSubgroup(id, o)
    \/ \E id \in StatementIds, a \in Assets : CreateProgramEventState(id, a)

CapitalStep ==
    \/ \E id \in StatementIds, g \in GroupIds : CreateProgramSelection(id, g)
    \/ \E id \in StatementIds \cup Addresses : \E a \in AllocationsOf(id) : SetProgramInvestment(id, a)
    \/ \E id \in StatementIds, groups \in {gs \in SUBSET GroupIds : Cardinality(gs) >= 2} :
        SetProgramSplit(id, groups)
    \/ \E id \in Addresses, role \in {"statement", "primary", "fallback"} :
        \E a \in AllocationsOf(id) : SetProgramAllocation(id, role, a)

InsertStep ==
    \E place \in Places, tree \in TreesOfAll :
        InsertProgramStatement(place, tree) \/ FormalizeDraftPhrase(place, tree)

RemoveStep ==
    \E id \in Addresses : \/ RemoveProgramStatement(id)
                          \/ RemoveProgramChoose(id)
                          \/ RemoveProgramInvestmentAllocation(id)

MoveStep ==
    \E id \in Addresses, parent \in Owners, branch \in BranchNames, n \in 0..Len(Program) :
        MoveProgramStatement(id, parent, branch, n)

StatementStep ==
    \/ \E id \in Addresses : \E tree \in TreesOf(id) : ReplaceProgramStatement(id, tree)
    \/ \E id \in Addresses, uses \in {{}} \cup {{u} : u \in StatementIds} : SetProgramCondition(id, uses)
    \/ \E id \in Addresses, ranking \in Rankings : SetProgramRanking(id, ranking)
    \/ \E id \in Addresses, g \in GroupIds : SetProgramSelection(id, g, "return")
    \/ \E ids \in SUBSET StatementIds : SetProgramFormalizations(ids)
    \/ \E id \in Addresses, tree \in TreesOfAll : FormalizeProgramStatement(id, tree)

MeaningStep ==
    \/ \E tree \in TreesOfAll : SetSemanticProgram(tree)
    \/ \E g \in GroupIds, a \in Assets : \E x \in OwnAssets[g] : CommitSingleAssetIntent(g, x, a)
    \/ \E a \in Assets : CommitMarketRegimeRotationIntent(a)
    \/ \E a \in Assets : CommitSplitPortfolioIntent(a)
    \/ CommitWeightedScoreIntent
    \/ /\ requests >= LongRecipesFrom
       /\ CommitTemporalSequenceIntent \/ CommitMultiClockPolicyIntent

Next ==
    /\ requests < MaxRequests
    /\ \/ DefinitionStep /\ operation' = "definition"
       \/ MeaningStep /\ operation' = "meaning"
       \/ /\ HasProgram
          /\ \/ (\E g \in GroupIds : RemoveProgramInvestment(g)) /\ operation' = "remove_investment"
             \/ ChooseStep /\ operation' = "choose"
             \/ CapitalStep /\ operation' = "capital"
             \/ InsertStep /\ operation' = "insert"
             \/ RemoveStep /\ operation' = "remove"
             \/ MoveStep /\ operation' = "move"
             \/ StatementStep /\ operation' = "statement"

Spec == Init /\ [][Next]_vars

---------------------------------------------------------------------------
(* Properties *)

(* Definitions refer to definitions that exist: every group to its asset    *)
(* list, the asset axis to a group or a list.  No answer checks either, the *)
(* parser of the next request does the first; RemoveProgramInvestment       *)
(* deletes a list without looking for other groups, and each removal        *)
(* chooses a new domain for the axis.                                       *)
DefinitionsResolve ==
    /\ GroupsHaveAssets(strategy)
    /\ strategy.axis \in DOMAIN strategy.groups \cup DOMAIN strategy.assetSets

GroupRefs(statement) ==
    {g \in GroupIds : statement.universe = g \/ <<"group", g>> \in statement.legs}

Statements(p) == IF p = None THEN {} ELSE {p[i] : i \in DOMAIN p}

(* A statement that an operation leaves as it was keeps the groups it       *)
(* refers to, at whatever depth and also inside a policy; only the removal  *)
(* of the first Builder looks at less than that.                            *)
KeptReferencesResolve ==
    [][\/ \A kept \in Statements(Program) \cap Statements(Program') :
            GroupRefs(kept) \cap DOMAIN strategy.groups \subseteq DOMAIN strategy'.groups
       \/ operation' = "remove_investment"]_vars

(* A branch may lose its last statement only to an operation that removes   *)
(* or moves one statement by its address; every other operation answers     *)
(* with a program the next request can be parsed with.                      *)
OnlyRemovalEmptiesABranch ==
    [][Program' # None /\ operation' \notin {"remove", "move"} => BranchesFilled(Program')]_vars

ParentOf(p, id) ==
    LET k == Parent(p, Position(p, id)) IN IF k = 0 THEN None ELSE p[k].id

(* The statements with the given addresses stand in the same order, under   *)
(* the same parents and in the same branches of them.                       *)
KeepsPlaces(p, q, ids) ==
    \A id \in ids :
        /\ ParentOf(q, id) = ParentOf(p, id)
        /\ q[Position(q, id)].branch = p[Position(p, id)].branch
        /\ \A other \in ids : Position(p, id) < Position(p, other)
                                => Position(q, id) < Position(q, other)

(* "Rewrite by semantic identity while preserving unrelated addresses and   *)
(* order": whatever is inserted, removed, renamed or moved, the statements  *)
(* it is not about stay in their order and under their parents.             *)
UnrelatedOrderKept ==
    [][/\ operation' \in {"choose", "insert", "remove"} =>
            KeepsPlaces(Program, Program', Ids(Program) \cap Ids(Program'))
       /\ operation' = "move" =>
            \E k \in DOMAIN Program :
                KeepsPlaces(Program, Program', Ids(Program) \ Ids(Subtree(Program, k)))]_vars

(* Where an Allocation sends capital, with a Selection named by its address *)
(* and not by the output it happens to have: the last one declared before.  *)
Capital(p, id) ==
    LET i == Position(p, id) IN
    {<<leg[1], IF leg[1] = "selection"
               THEN p[Max({k \in Selects(p) : k < i /\ p[k].output = leg[2]})].id ELSE leg[2]>> :
        leg \in p[i].legs}

(* No operation on groups, Selections or the structure of the program sends *)
(* the capital of an Allocation elsewhere: it keeps the Selection it had,   *)
(* under whatever name.                                                     *)
CapitalFollowsItsSelection ==
    [][operation' \in {"definition", "choose", "insert", "remove", "move"} /\ HasProgram =>
        \A id \in Ids(Program) \cap Ids(Program') : Capital(Program, id) = Capital(Program', id)]_vars

(* What _remove_program_statement says of itself: no operation leaves an    *)
(* incomplete branch, so a session can always go on.                        *)
BranchesNeverEmpty == HasProgram => BranchesFilled(Program)

(* What CreateProgramSelection says of a Split drafted before its sleeve    *)
(* Selections exist: the new Selection is accepted and the Split resolved.  *)
DraftedSplitResolves ==
    HasProgram /\ Len(Program) < MaxStatements =>
    \A g \in DOMAIN strategy.groups, id \in StatementIds \ Ids(Program) :
        (\E i \in DOMAIN Program : Program[i].kind = "allocate" /\ Drafted(Program, i, g))
            => ValidStrategy(WithProgram(WithSelection(Program, id, g)))
=============================================================================
