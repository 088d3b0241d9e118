SPECIFICATION Spec
CONSTANTS
    Poller = {p1, p2}
    Message = {m1, m2, m3}
    NoMessage = NoMessage
    Nobody = Nobody
    Hour = EveryHour
    EveryHour = EveryHour
    Never = Never
    MaxVisibility = 12
    MaxMishaps = 2
    Server = {s1, s2}
    Job = {j1, j2}
    NoJob = NoJob
    Hidden = Hidden
    RetryCount = 2
    MaxFailures = 2
    Client = {c1, c2}
    NoValue = NoValue
    InitVal = 0
    MaxValue = 3
    Thread = {t1, t2}
    MaxGeneration = 3
    Holder = {h1, h2}
    f = f
    g = g
    Field = {f, g}
    Settable <- Values_f_g
    Missing = Missing
    Blank = Blank
    NoItem = NoItem
    Name = {1, 2, 3, 4}
    NoMarker = NoMarker
    PageSize = 2
    BatchSize = 2
    FileSize <- TwoFiles
    NoDigest = NoDigest
    ChunkSize = 2
    SizeLimits = {0, 2}
    SendRetries = 1
INVARIANTS ChainLives OnceAnHour DeletedIsDone TakenOnce HeldIsOneSet ReturnsAlive InStep EveryKeyIsDeleted SendsTheWhole
PROPERTIES KeepsOthersWrites
CHECK_DEADLOCK FALSE
