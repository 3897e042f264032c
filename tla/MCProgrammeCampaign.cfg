SPECIFICATION Spec
CONSTANTS
    Recipes <- RobustRecipes
    Mandatory = {"quantile"}
    Executing = {"quantile", "indices"}
    Reads <- RobustReads
    OwnedPaths <- RobustOwned
    Nested <- RobustNested
    Tolerant = {"quantile"}
    ClearsFirst = {}
    NeedsReference = {}
    KeywordOnly = {}
    SeedCount = 2
    Commands = {"experiment", "campaign", "report", "reports", "anchor"}
    SmokeTargets = {}
PROPERTIES
    MarkersCertify
    CompletedMeansWhole
