SPECIFICATION Spec
CONSTANTS
    a = a
    b = b
    c = c
    Clients = {a, b, c}
    RowCounts = {2, 299, 500, 700, 1000}
    StaticCounts = {500, 700}
    MaxNonFinite = 1
    MinimumSupport = 100
    Sizes = {50, 100, 250}
    Coverage = 95
    GroupCount = 2
    MinimumRemaining = 2
    FamilyOf <- MCFamilyOf
INVARIANTS
    ThresholdedCellsPublish
    InfluenceIsScoped
    AggregateIsWhole
    GapSeparates
CHECK_DEADLOCK FALSE
