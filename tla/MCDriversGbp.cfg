SPECIFICATION Spec
CONSTANTS
    None = None
    Drivers <- OnlyGbp
    Cards <- MCCards
    Shapes <- MCShapes
    MaxFaults = 1
    Late <- MCLate
    MaxWork = 4
    InputMax = 3
    ExchangeMax = 3
    BlockMax = 2
    CcidReaders <- MCCcidReaders
    MaxMsg = 3
    FileMax = 2
    MaxTries = 1
    MaxExtends = 2
    Lengths <- MCLengths
PROPERTY ResyncsLimited
CHECK_DEADLOCK FALSE
