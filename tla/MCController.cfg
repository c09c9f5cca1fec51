SPECIFICATION FairControllerSpec
CONSTANTS
    e1 = e1  e2 = e2  bad = bad  k1 = k1  k2 = k2
    Policies = {"p1", "p2"}
    Entries = {e1, bad}
    Keys = {k1, k2}
    KeyOf <- TwoKinds
    NoKey = NoKey
    NotFound = NotFound
    Routines = {1, 2, 3}
    NoRoutine = NoRoutine
    MaxEdits = 1
INVARIANTS
    ControllerInv
    NoOrphan
PROPERTIES
    OthersUndisturbed
    PausedGoesQuiet
    TracksItsSpec
CHECK_DEADLOCK FALSE
