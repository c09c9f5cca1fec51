SPECIFICATION ReadersSpec
CONSTANTS
    h1 = h1  p1 = p1  p2 = p2  u1 = u1  ns1 = ns1  n1 = n1  f = f   a = a
    Fields = {f}
    Vals = {a}
    Absent = Absent
    Gone = Gone
    UIDs = {u1}
    Watchers = {h1}
    Policies = {p1, p2}
    PolicyOf <- MCPolicyOf
    PolicySpec <- MCPolicySpec
    NamespaceOf <- MCNamespaceOf
    NameOf <- MCNameOf
    Incarnation <- MCIncarnation
    FaultKinds = {"purge"}
    MaxFaults = 1
    MaxVersions = 3
    MaxReconciles = 2
    MaxAge <- MCMaxAge
    NoPolicy = NoPolicy
    Unparsable = Unparsable
    MaxClock = 1
    PageSize = 1
INVARIANTS
    ReadersTypeOK
    HistoryIsSuffix
    SuffixInv
    ReaderHonest
    NoRevisionSkipped
    EndMeansAll
    ClientInv
PROPERTIES
    EventuallyPurged
CHECK_DEADLOCK FALSE
