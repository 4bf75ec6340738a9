CONSTANTS
    Task = {t1}
    Queue = {c1}
    NoQueue = NoQueue
SPECIFICATION Spec
INVARIANT RoutedAwaitHarmless
