CONSTANTS
    Task = {t1, t2}
    Endless = {t2}
    Worker = {w1, w2}
    NoTask = NoTask
    ExitOnSignal = TRUE
    MaxStarts = 2
SPECIFICATION FairSpec
INVARIANTS
    TypeOK
    NoLostWakeup
    StopDrainsBetweenBatches
PROPERTIES
    ImplementsFifo
    SubmittedIsDispatched
    StopReturns
