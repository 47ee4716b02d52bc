\* Two workers; an operand directory of two levels and an explicit file.
SPECIFICATION FairSpec
CONSTANTS
    NumThreads = 2
    r = r  a = a  b = b  c = c  f = f
    Items <- MCItems
    Roots <- MCRoots
    Kids <- MCKids
    Below <- MCBelow
INVARIANTS
    CountersAgree
    SleepAndShutdown
    WalkedOnce
    SuccessIsComplete
PROPERTIES
    RunEnds
