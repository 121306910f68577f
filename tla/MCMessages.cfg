SPECIFICATION Spec
CONSTANTS
    ByteBase = 4
    SmallLimit = 5
    BufSize = 15
    SmallArgs = 12
    AtrSize = 3
    ReplySize = 6
    PipeSize = 5
    XidBase = 3
    Requests <- MCRequests
    Answers <- MCAnswers
    Garbage = Garbage
    NoRequest = NoRequest
    Refused = Refused
    None = None
PROPERTIES ImplementsCalls CallsReturn
