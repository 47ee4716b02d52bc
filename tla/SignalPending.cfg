\* Three signals, any number of them, in any order with the commands.
SPECIFICATION LiveSpec
CONSTANT NumSignals = 3
INVARIANT TrappedSignalsKept
PROPERTY WaitEnds
CHECK_DEADLOCK FALSE
