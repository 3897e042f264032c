SPECIFICATION Spec
CONSTANTS
    Versions <- MCVersions
    RowsOf <- MCRowsOf
    ShapeOf <- MCShapeOf
    RoundsOf <- MCRoundsOf
    FrameOrder <- MCFrameOrder
    Absent = Absent
    Torn = Torn
INVARIANTS
    TypeOK
    DetectorIsOnDisk
    ScoresBelongToDetector
    OverwriteRebuilds
    RefusedForCause
PROPERTIES
    KeepsExistingEvidence
    OverwriteFinishes
