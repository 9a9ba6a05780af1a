SPECIFICATION LedgerSpec
CONSTANTS
    u1 = u1
    u2 = u2
    i1 = i1
    i2 = i2
    n1 = n1
    n2 = n2
    d1 = d1
    d2 = d2
    k1 = k1
    k2 = k2
    k3 = k3
    p1 = p1
    p2 = p2
    p3 = p3
    w1 = w1
    w2 = w2
    Users = {u1}
    Ids = {i1}
    Names = {n1, n2}
    Windows = {d1, d2}
    Keys = {k1, k2, k3}
    Pws = {p1, p2, p3}
    Whitelists = {w1, w2}
    NoKey = NoKey
    NoId = NoId
    NoRow = NoRow
    NoEntry = NoEntry
    NoCR = NoCR
    Sizes <- MCSizes
    InitialQuota <- MCInitialQuota
    LoweredQuota <- MCLoweredQuota
    CpuMilli = 16000
    RamMiB = 65536
    InstanceLimit = 32
    KeyTTL = 1
    StaleAfter = 1
    Requests <- OwnerRequests
    MaxClock = 2
    MaxAudit = 3
    MaxReads = 2
CHECK_DEADLOCK FALSE
INVARIANTS
    TypeOK
    BillingTimeline
    ExactlyOnce
    ReadyMeansApplied
    ReservationCoversReality
PROPERTIES
    BillingHistoryKept
    ObservationOrder
