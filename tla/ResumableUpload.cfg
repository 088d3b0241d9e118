SPECIFICATION Spec
CONSTANTS
    a = a
    b = b
    c = c
    Byte = {a, b, c}
    Contents <- MCContents
    NoObject = NoObject
    BUFFER_SIZE = 2
    NumRetries = 1
INVARIANTS ReturnsTheFile
PROPERTIES GoodObjectIsKept SendFileEnds
