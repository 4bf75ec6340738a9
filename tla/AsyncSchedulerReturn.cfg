CONSTANTS
    Fiber = {r, f1, f2}
    Root = r
    NoFiber = NoFiber
    Task = {t1}
    NoTask = NoTask
    MaxSubmits = 1
SPECIFICATION Spec
INVARIANT AllSettledAtReturn
