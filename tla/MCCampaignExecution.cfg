SPECIFICATION Spec
CONSTANTS
    EntryCount = 6
    CoordinateOf <- MCCoordinateOf
    Parallelizable = {"a"}
    MaximumParallel = 2
    AvailableCpus = 4
    PreviousRuns <- MCPreviousRuns
INVARIANTS
    SharedEvidenceOnce
    HookIsSerialized
    NothingRunsAfterwards
    ReturnsPlanOrder
PROPERTIES
    PreviousRunsKept
    CampaignEnds
    ImplementsContract
