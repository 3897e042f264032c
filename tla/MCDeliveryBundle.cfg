SPECIFICATION Spec
CONSTANTS
    Artifacts <- MCArtifacts
    ExperimentOf <- MCExperimentOf
    Documents <- MCDocuments
    Versions <- MCVersions
    Absent = Absent
    Torn = Torn
INVARIANTS
    ReportedBundleIsExact
    DeliversWhatHasPassed
