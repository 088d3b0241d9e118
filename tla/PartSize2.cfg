SPECIFICATION TreeHashSpec
CONSTANTS
    Megabyte = 2
    MAXIMUM_NUMBER_OF_PARTS = 7
    LargestPower = 5
    IntegerDivision = TRUE
    MaxSize = 450
    Levels = 8
INVARIANT FewEnoughParts
CHECK_DEADLOCK FALSE
