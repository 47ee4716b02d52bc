\* Any options, and two signals.
SPECIFICATION LiveSpec
CONSTANTS
    Duration = 2
    KillAfter = 2
    MaxSignals = 2
PROPERTIES
    GraceKept
    Escalates
CHECK_DEADLOCK FALSE
