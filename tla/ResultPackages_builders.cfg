\* Three builders of one package, and releases activated meanwhile.
SPECIFICATION FairSpec
CONSTANTS
    b1 = b1  b2 = b2  b3 = b3  v2 = v2  v3 = v3  p1 = p1  p2 = p2
    None = None
    Builder = {b1, b2, b3}
    Version = {v2, v3}
    Wanted = {v3}
    Projector = {p1, p2}
    Current = p2
    MaxActivations = 2
INVARIANTS
    AnswerIsOnDisk
    AnswersLast
    BegunIsPursued
PROPERTIES
    RacesComplete
CHECK_DEADLOCK FALSE
