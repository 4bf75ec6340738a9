CONSTANTS
    Task = {t1}
    Endless = {}
    Worker = {w1}
    NoTask = NoTask
    ExitOnSignal = FALSE
    MaxStarts = 1
SPECIFICATION FairSpec
PROPERTY StopWaitsForOperations
