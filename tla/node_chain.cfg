SPECIFICATION FairSpec
CONSTANTS
    N = 2
    Length = 2
    MaxChunks = 4
INVARIANTS
    NoDataAfterStop
PROPERTIES
    ImplementsChainOutput
    CancelEndsNodes
    EndReachesAll
\* Cancelled nodes stop.
CHECK_DEADLOCK FALSE
