\* Two starts and two stops that overlap the first start.
SPECIFICATION FairOrderedSpec
CONSTANTS
    None = None
    Starters = {s1,s2}
    Stoppers = {t1,t2}
    MaxCrashes = 1
    MaxFaults = 1
INVARIANTS
    TypeOK
    StartedStaysStoppable
PROPERTIES
    LiveRecordKept
    CommandsEnd
CHECK_DEADLOCK FALSE
