SPECIFICATION TaskSpec
CONSTANTS
    Poller = {p1}
    Message = {m1, m2}
    NoMessage = NoMessage
    Nobody = Nobody
    Hour = 3
    EveryHour = EveryHour
    Never = Never
    MaxVisibility = 12
    MaxMishaps = 0
PROPERTIES DailyTaskIsExecuted
CHECK_DEADLOCK FALSE
