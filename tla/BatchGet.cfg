SPECIFICATION Spec
CONSTANTS
    Key = {1, 2, 3}
    Absent = Absent
    MaxBatch = 2
    MaxWrites = 4
    Matching = {1, 3}
    NoKey = NoKey
    None = None
    Limits = {1, 2}
    MaxBatchGet = 2
INVARIANTS EveryItemIsReturned
CHECK_DEADLOCK FALSE
