CONSTANTS
    Fiber = {r, f1, f2}
    Root = r
    NoFiber = NoFiber
    Task = {t1, t2}
    NoTask = NoTask
    MaxSubmits = 3
SPECIFICATION FairSpec
INVARIANTS
    TypeOK
    FiberInOnePlace
    HandleInOnePlace
    BlockedIsServed
    ResumedAwaitIsSettled
    DeadlockIsReal
PROPERTIES
    RunOrderFifo
    Terminates
