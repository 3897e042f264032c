SPECIFICATION FairSpec
CONSTANTS
    EntryCount = 3
    MaxReproductions = 3
    Faithful = {1, 3}
INVARIANTS
    ReportedStatusHolds
PROPERTIES
    ImplementsContract
    AdmitsOnStandingEvidence
    OverwriteReopens
