\* One worker or two, and three files.
SPECIFICATION LiveSpec
CONSTANTS
    w1 = w1  w2 = w2
    f1 = f1  f2 = f2  f3 = f3
    Workers = {w1, w2}
    Paths = {f1, f2, f3}
    NoPath = NoPath
    PipeSize = 1
    MaxErrors = 2
INVARIANT
    OwnStatusAlone
PROPERTY
    CaptureEnds
CHECK_DEADLOCK FALSE
