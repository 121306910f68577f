SPECIFICATION Spec
CONSTANTS
    None = None
    Slots = 1
    Parts <- MCParts
    Programs <- MCPrograms
    Threads <- MCThreads
    ProgramOf <- MCProgramOf
    Pcscd = "pcscd"
    Ctns = {0}
    Readers = {1}
    Cards = {"cpu", "memory"}
    MaxNodes = 3
    MaxWork = 4
    Transmits <- MCTransmits
    Controls <- MCControls
    LibraryCtns = {0}
    LibraryCommands <- MCLibraryCommands
INVARIANTS
    CommandsUnderLock
    AtrOfLastPower
    FileReads
PROPERTY CallsEnd
CHECK_DEADLOCK FALSE
