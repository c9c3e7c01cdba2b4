\* The sequence numbers of a space of 16, memories of five cells and paths of five
\* characters.
SPECIFICATION AlgorithmsSpec
CONSTANTS
    Half = 8
    Windows = {0, 1, 3, 8}
    MaxMem = 12
    Numbers = 16
    MaxStr = 16
    MaxDelims = 2
    MaxPath = 13
    MaxSubdirs = 4
    CurDir <- MCCurDir
    Executable <- MCExecutable
    Marker <- MCMarker
    Alphabet <- MCAlphabet
    QnameMax = 5
    MemoryCells = 5
    PathLength = 5
INVARIANTS
    NumbersAndWindowAgree
    MemoryCallsKeepTheirPromise
    StringCallsStayInside
    QueriesAgreeWithStrings
    PathsStayPut
    PacketsAreSealed
    InputsAreRead
CHECK_DEADLOCK FALSE
