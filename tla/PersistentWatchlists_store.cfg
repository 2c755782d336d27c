\* Two clients, three watchlists, a clock that ticks and a release that changes.
SPECIFICATION Spec
CONSTANTS
    None = None
    Clients = {c1, c2}
    Watchlists = {w1, w2, w3}
    MaxPreviews = 4
    Bodies = {b1}
    Releases = {s1, s2}
    MaxWatchlists = 3
    MaxVersion = 4
    PREVIEW_TTL = 1
    MaxTime = 1
SYMMETRY Interchangeable
INVARIANTS
    IntegrityHolds
    AuditTrail
    AnnouncedSwitchCommits
PROPERTIES
    NoLostUpdate
    Serializable
CHECK_DEADLOCK FALSE
