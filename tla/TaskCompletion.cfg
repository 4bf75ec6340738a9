CONSTANTS
    Task = {t1, t2, t3}
    Queue = {c1}
    NoQueue = NoQueue
SPECIFICATION FairSpec
INVARIANTS
    TypeOK
    RefsExact
    QueueLiveWhenUsed
    QueuedHandlesValid
    NoCompletionLost
    NoLostWakeup
    HandedOutAfterUse
PROPERTY WaitersReturn
