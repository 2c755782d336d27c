\* Invocations on two services, one of which was killed or has served before.
SPECIFICATION FewSpec
CONSTANTS
    a1 = a1  f1 = f1  f2 = f2  f3 = f3  e1 = e1  g1 = g1  s1 = s1  s2 = s2
    None = None
    Service = {s1, s2}
    Authorize = {a1}
    Fetch = {f1, f2, f3}
    Execute = {e1}
    Read = {g1}
    Artifacts = 1
    Limit = 1
    MaxSecond = 1
    MaxMicro = 1
    MaxStops = 1
INVARIANTS
    GateCountsActions
    LocalActionsDistinct
    ManifestMeansWhole
    TicketsAreSingleUse
PROPERTIES
    ReadsAreAnswered
CHECK_DEADLOCK FALSE
