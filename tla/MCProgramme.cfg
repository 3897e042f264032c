SPECIFICATION FairSpec
CONSTANTS
    Recipes <- FamilyRecipes
    Mandatory = {"confirmation", "grouped", "family"}
    Executing = {"confirmation", "grouped"}
    Reads <- FamilyReads
    OwnedPaths <- FamilyOwned
    Nested <- FamilyNested
    Tolerant = {}
    ClearsFirst = {"family"}
    NeedsReference = {"confirmation"}
    KeywordOnly = {}
    SeedCount = 1
    Commands = {"experiment", "campaign", "report", "reports", "smoke", "anchor"}
    SmokeTargets <- SmokeCalls
PROPERTIES
    OverwriteSparesOthers
    PassedKept
    OverwriteHeals
