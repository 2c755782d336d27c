\* A second caller and an unsynchronised recovery finalize beside the child.
SPECIFICATION OrderlySpec
CONSTANTS
    op1 = op1
    op2 = op2
    op3 = op3
    c1 = c1
    c2 = c2
    s1 = s1
    r1 = r1
    r2 = r2
    None = None
    Executors = {c1}
    Repeaters = {s1}
    Recoverers = {r1}
    Ops <- MCOneOp
    Batches <- MCOneBatch
    Times = {0}
    ExpiresAt = 1
    SoloRecovery = FALSE
    MaxCrashes = 1
INVARIANTS
    OneTransaction
PROPERTIES
    UsedClaimIsKept
CHECK_DEADLOCK FALSE
