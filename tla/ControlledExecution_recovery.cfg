\* Attempts to finalize and to recover, each of them run to its end or its crash.
SPECIFICATION FairSpec
CONSTANTS
    op1 = op1
    op2 = op2
    op3 = op3
    c1 = c1
    c2 = c2
    s1 = s1
    r1 = r1
    r2 = r2
    None = None
    Executors = {c1}
    Repeaters = {}
    Recoverers = {r1}
    Ops <- MCOneOp
    Batches <- MCOneBatch
    Times = {0, 1}
    ExpiresAt = 2
    SoloRecovery = TRUE
    MaxCrashes = 2
PROPERTIES
    AttemptCompletes
CHECK_DEADLOCK FALSE
