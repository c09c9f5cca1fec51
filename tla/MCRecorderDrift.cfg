SPECIFICATION Spec
CONSTANTS
    h1 = h1  h2 = h2
    p1 = p1  p2 = p2
    u1 = u1  u2 = u2
    ns1 = ns1  n1 = n1
    f = f  g = g  s = s  a = a  b = b
    Fields = {f}
    Vals = {a, b}
    Absent = Absent
    Gone = Gone
    UIDs = {u1}
    Watchers = {h1}
    Policies = {p1}
    PolicyOf <- OnePolicy
    PolicySpec <- Every3
    NamespaceOf <- MCNamespaceOf
    NameOf <- MCNameOf
    Incarnation <- MCIncarnation
    FaultKinds = {}
    MaxFaults = 0
    MaxVersions = 3
    MaxReconciles = 3
INVARIANT NothingMissed
CHECK_DEADLOCK FALSE
