CONSTANTS
    c1 = c1
    c2 = c2
    a1 = a1
    a2 = a2
    Caller = {c1, c2}
    Shared = Shared
    NoBuffer = NoBuffer
    Address = {a1, a2}
    OtherFamily = OtherFamily
    Chunk = 2
    SourceLen = 3
    MaxAnswer = 3
    OutLen = 2
    ErrLen = 1
    PipeCap = 1
    Char = {1}
    MaxArgs = 2
    Calls <- AnyCall
SPECIFICATION FairSpec
INVARIANTS
    StorageOutlivesUse
    PinsCoverIo
    DataIntact
    ConnectsInOrder
    NothingLeftOpen
PROPERTY CallEnds
