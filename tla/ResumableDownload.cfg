SPECIFICATION Spec
CONSTANTS
    Size <- MCSize
    NoEtag = NoEtag
    NoResponse = NoResponse
    NumRetries = 1
    MaxFile = 4
    MaxReplacements = 2
INVARIANTS ReturnsOneVersion
PROPERTIES GetFileEnds
