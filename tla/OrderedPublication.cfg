\* A window of two over four packets.
SPECIFICATION FairSpec
CONSTANTS
    MaxInflight = 2
    NumPackets = 4
INVARIANTS
    SleepsForAWorker
    DisposedIsDead
PROPERTIES
    ChannelSpec
    CallReturns
