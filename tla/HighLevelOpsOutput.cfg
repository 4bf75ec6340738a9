CONSTANTS
    c1 = c1
    c2 = c2
    a1 = a1
    a2 = a2
    Caller = {c1}
    Shared = Shared
    NoBuffer = NoBuffer
    Address = {a1}
    OtherFamily = OtherFamily
    Chunk = 2
    SourceLen = 1
    MaxAnswer = 0
    OutLen = 1
    ErrLen = 2
    PipeCap = 1
    Char = {1}
    MaxArgs = 1
    Calls <- OnlyOutput
SPECIFICATION FairSpec
PROPERTY RunOutputReturns
CHECK_DEADLOCK FALSE
