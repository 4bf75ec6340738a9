CONSTANTS
    Task = {t1, t2}
    Endless = {}
    Worker = {w1}
    NoTask = NoTask
    ExitOnSignal = FALSE
    MaxStarts = 1
SPECIFICATION Spec
INVARIANT StopDrains
