SPECIFICATION Spec
CONSTANTS
    Assets <- MCAssets
    Versions <- MCVersions
    SeedCount = 3
    MaxSeedWorkers = 2
    InodeCount = 6
    Absent = Absent
PROPERTIES
    PoolKeepsDataset
