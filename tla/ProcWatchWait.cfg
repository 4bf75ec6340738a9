CONSTANTS
    Task = {t1, t2}
    NoTask = NoTask
    Process = {p1}
    Watcher = {}
    NoHandle = NoHandle
    MaxEvents = 1
SPECIFICATION Spec
INVARIANT WaitEndsAtExit
