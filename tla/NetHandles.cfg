CONSTANTS
    Task = {t1, t2, t3}
    Listener = {l1}
    Stream = {s1, s2}
    NoHandle = NoHandle
SPECIFICATION FairSpec
INVARIANTS
    TypeOK
    ReadStateAgrees
    StreamIsOwned
    QueuedStreamOpFindsItOpen
    ListenerStateAgrees
PROPERTIES
    ReadsEndAfterSignal
    CloseCompletes
