SPECIFICATION Spec
CONSTANTS
    None = None
    Apdus <- MCApdus
    MaxNulls = 1
    MaxNoise = 1
    Ids <- MCIds
    Cards <- MCCards
    Contents <- MCContents
    Writes <- MCWrites
    PageSize = 2
    MaxFaults = 2
    MaxWork = 4
INVARIANTS
    AnswersInTurn
    HeaderNotData
    ResetIsClean
    MemoryKept
PROPERTY CommandsReturn
CHECK_DEADLOCK FALSE
