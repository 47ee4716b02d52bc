\* Three workers on a ring of two slots that wraps.
SPECIFICATION FairSpec
CONSTANTS
    NumThreads = 3
    QueueCapacity = 2
    NumJobs = 4
INVARIANTS
    SingleOwner
    NoLostWakeup
    JoinOkMeansDrained
PROPERTIES
    QuiescentReclaim
    FifoOrder
    CallReturns
