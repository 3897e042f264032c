SPECIFICATION Spec
CONSTANTS
    MaxVersion = 3
    RowsOf <- MCRowsOf
    MethodOrder <- MCMethodOrder
    None = None
    Torn = Torn
INVARIANTS
    ReturnedSeedIsOneDetector
    OverwriteRepairs
PROPERTIES
    KeepsWholeEvidence
