CONSTANTS
    Task = {t1, t2}
    Listener = {l1}
    Stream = {s1}
    NoHandle = NoHandle
SPECIFICATION Spec
INVARIANT AcceptParksOnOpenListener
