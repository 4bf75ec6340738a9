CONSTANTS
    Task = {t1, t2}
    Queue = {c1}
    NoQueue = NoQueue
SPECIFICATION Spec
INVARIANT LoopTouchesLiveTask
