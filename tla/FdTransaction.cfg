\* Four descriptors of which three may hold backups, two nested transactions.
SPECIFICATION FdSpec
CONSTANTS
    MaxFd = 3
    FirstPrivate = 1
    f = f  g = g
    Files = {f, g}
    NoFile = NoFile
    MaxFrames = 2
    MaxRefs = 2
INVARIANTS
    StackInvariants
PROPERTIES
    FramesSpec
