SPECIFICATION FairControllerSpec
CONSTANTS
    e1 = e1  e2 = e2  bad = bad  k1 = k1  k2 = k2
    Policies = {"p1"}
    Entries = {e1, e2}
    Keys = {k1}
    KeyOf <- OneKind
    NoKey = NoKey
    NotFound = NotFound
    Routines = {1, 2, 3}
    NoRoutine = NoRoutine
    MaxEdits = 1
PROPERTIES
    PausedGoesQuiet
CHECK_DEADLOCK FALSE
