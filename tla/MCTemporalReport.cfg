SPECIFICATION Spec
CONSTANTS
    MaxVersion = 3
    RowsOf <- MCRowsOf
    MethodOrder <- MCMethodOrder
    None = None
    Torn = Torn
INVARIANTS
    ReportedRecoveryIsOneDetector
