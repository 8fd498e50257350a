SPECIFICATION Spec
CONSTANTS
    None = None
    StatementIds = {s1}
    OutputIds = {o1}
    GroupIds = {growth, defensive}
    AssetSetIds = {initialAssets, growthAssets, defensiveAssets}
    Assets = {tlt}
    InitialAssets = initialAssets
    Growth = growth
    Defensive = defensive
    GrowthAssets = growthAssets
    DefensiveAssets = defensiveAssets
    AssetLists = {{tlt}}
    OwnAssets <- MCOwnAssets
    Rankings = {"return"}
    TemporalGroup = growth
    TemporalAssets = growthAssets
    TemporalAsset = tlt
    FallbackAsset = tlt
    MaxStatements = 3
    MaxRequests = 4
    LongRecipesFrom = 2
CHECK_DEADLOCK FALSE
INVARIANT DefinitionsResolve
PROPERTIES KeptReferencesResolve OnlyRemovalEmptiesABranch UnrelatedOrderKept CapitalFollowsItsSelection
VIEW View
