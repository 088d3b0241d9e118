SPECIFICATION Spec
CONSTANTS
    Worker = {w1, w2}
    TotalParts = 3
    Attempts = 2
    End = End
    NoPart = NoPart
INVARIANTS WorkIsWaiting CompletesWholeArchive ReturnsTheArchive
PROPERTIES ImplementsProtocol CallEnds ThreadsEnd
CHECK_DEADLOCK FALSE
