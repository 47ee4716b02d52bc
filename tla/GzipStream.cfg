\* Two workers, a window and queue of two, up to four chunks.
SPECIFICATION FairSpec
CONSTANTS
    NumThreads = 2
    WantedInflight = 1
    MemberLimit = 3
    NumChunks = 4
INVARIANTS
    OutputIsFaithful
    ChunkLifetime
    SubmitNeverBlocks
PROPERTIES
    PartsUse
    FilterEnds
