\* Two workers, a queue of one, batches of up to two of three files.
SPECIFICATION FairSpec
CONSTANTS
    NumThreads = 2
    QueueCapacity = 1
    BatchMax = 2
    NumFiles = 3
INVARIANTS
    SuccessIsComplete
    BatchLifetime
PROPERTIES
    PoolUse
    SearchEnds
