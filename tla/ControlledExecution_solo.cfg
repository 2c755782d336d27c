\* Two children race for the ticket; a recovery runs only after the finalizer died.
SPECIFICATION Spec
CONSTANTS
    op1 = op1
    op2 = op2
    op3 = op3
    c1 = c1
    c2 = c2
    s1 = s1
    r1 = r1
    r2 = r2
    None = None
    Executors = {c1, c2}
    Repeaters = {}
    Recoverers = {r1}
    Ops <- MCOps
    Batches <- MCBatches
    Times = {0, 1, 2}
    ExpiresAt = 2
    SoloRecovery = TRUE
    MaxCrashes = 2
INVARIANTS
    TypeOK
    AtMostOneInvocation
    CommitOrder
    HonestOutcome
    ReportedSuccessIsDurable
PROPERTIES
    DispatchUnderClaim
    TerminalClaimIsFinal
    JournalOnlyAdvances
    OnlyCrashesInterrupt
    ImplementsTicket
CHECK_DEADLOCK FALSE
