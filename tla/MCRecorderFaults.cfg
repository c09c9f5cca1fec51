SPECIFICATION Spec
CONSTANTS
    h1 = h1  h2 = h2
    p1 = p1  p2 = p2
    u1 = u1  u2 = u2
    ns1 = ns1  n1 = n1
    f = f  g = g  s = s  a = a  b = b
    Fields = {f}
    Vals = {a}
    Absent = Absent
    Gone = Gone
    UIDs = {u1}
    Watchers = {h1, h2}
    Policies = {p1, p2}
    PolicyOf <- TwoPolicies
    PolicySpec <- Every2
    NamespaceOf <- MCNamespaceOf
    NameOf <- MCNameOf
    Incarnation <- MCIncarnation
    FaultKinds = {"read", "store", "index", "crash"}
    MaxFaults = 1
    MaxVersions = 3
    MaxReconciles = 3
INVARIANTS
    TypeOK
    IndInv
    Gapless
    SingleCommitter
    BoundedReplay
PROPERTIES
    CurrentSteps
    SealedByDeletion
    ImplementsHistoryLog
CHECK_DEADLOCK FALSE
