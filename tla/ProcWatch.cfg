CONSTANTS
    Task = {t1, t2, t3}
    NoTask = NoTask
    Process = {p1}
    Watcher = {w1}
    NoHandle = NoHandle
    MaxEvents = 3
SPECIFICATION FairSpec
INVARIANTS
    TypeOK
    WaitSlotValid
    NextIsServed
    EventsInOrder
PROPERTY WaitReturns
