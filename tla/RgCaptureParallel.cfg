\* One worker or two.
SPECIFICATION CaptureSpec
CONSTANTS
    w1 = w1  w2 = w2
    f1 = f1  f2 = f2  f3 = f3
    Workers = {w1, w2}
    Paths = {f1, f2}
    NoPath = NoPath
    PipeSize = 1
    MaxErrors = 0
INVARIANT
    OwnStatus
CHECK_DEADLOCK FALSE
