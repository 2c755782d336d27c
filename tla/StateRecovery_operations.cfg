\* Operations beside writers of the live state, and beside accidents to packages.
SPECIFICATION MCSpec
CONSTANTS
    j1 = j1  j2 = j2  d1 = d1  d2 = d2  i1 = i1
    None = None
    Members = 2
    Sqlite = {2}
    Values = 2
    Affected = 1
    Job = {j1, j2}
    Id = {i1}
    Place = {d1, d2}
    Kinds = {"backup", "restore", "migrate", "rollback"}
    MaxWrites = 2
    MaxFaults = 3
SYMMETRY JobSymmetry
INVARIANTS
    BackupIsConsistentCut
    RootMatchesBackup
PROPERTIES
    PublishedStays
CHECK_DEADLOCK FALSE
