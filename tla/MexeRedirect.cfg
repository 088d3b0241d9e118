SPECIFICATION Spec
CONSTANTS
    Conn = {c1, c2}
    Host = {h1, h2}
    Thread = {t1}
    NoConn = NoConn
    STALE_DURATION = 1
    CLEAN_INTERVAL = 0
    IsSecure = TRUE
    NumRetries = 2
    SessionStep = 2
    MaxHops = 2
    MaxTime = 2
INVARIANTS GoesToItsHost FailureIsExplained
PROPERTY CallEnds
CHECK_DEADLOCK FALSE
