\* Two starts from a clean installation.
SPECIFICATION Spec
CONSTANTS
    None = None
    Starters = {s1, s2}
    Stoppers = {t1}
    MaxCrashes = 0
    MaxFaults = 0
PROPERTIES
    LiveRecordKept
CHECK_DEADLOCK FALSE
