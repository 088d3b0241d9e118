SPECIFICATION Spec
CONSTANTS
    PartSize = 2
    None = None
    NumChars = 5
    Wide = {5}
    MaxWrite = 3
    Megabyte = 2
    MAXIMUM_NUMBER_OF_PARTS = 7
    LargestPower = 5
    IntegerDivision = FALSE
    MaxSize = 450
    Levels = 8
INVARIANTS ClosedIsWhole ResumedIsWhole ResumeIsAccepted TransferFits PartsHashAsTheArchive
CHECK_DEADLOCK FALSE
