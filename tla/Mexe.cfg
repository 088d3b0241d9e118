SPECIFICATION IdleSpec
CONSTANTS
    Conn = {c1, c2, c3}
    Host = {h1}
    Thread = {t1, t2}
    NoConn = NoConn
    STALE_DURATION = 1
    CLEAN_INTERVAL = 1
    IsSecure = TRUE
    NumRetries = 1
    SessionStep = 2
    MaxHops = 0
    MaxTime = 5
SYMMETRY Symmetry
INVARIANTS ExclusiveUse SendsOnReadyConnection ReadInTimeIsReusedInTime
PROPERTIES NeverHandsOutStale
CHECK_DEADLOCK FALSE
