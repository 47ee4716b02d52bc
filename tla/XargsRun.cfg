\* Two slots or a table that grows, three items, both modes, an inherited child.
SPECIFICATION FairSpec
CONSTANTS
    p1 = p1  p2 = p2  p3 = p3  q = q
    Pids = {p1, p2, p3, q}
    Inherited = {q}
    AutoReap = FALSE
    ProcLimits = {0, 2}
    MaxArgs = 2
    NumItems = 3
    Modes = {"replace", "batch"}
INVARIANTS
    SuccessIsComplete
    TableOK
PROPERTIES
    TableUse
    RunEnds
