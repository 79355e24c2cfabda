SPECIFICATION FairSpec
CONSTANTS
    DmaBuffers = 2
    OutLength = 1
    BuffersPerRun = 3
    CounterLimit = 64
    MaxRuns = 2
    MaxOverruns = 1
    MaxFailures = 1
    LateStart = FALSE
INVARIANTS
    RunIsWhole
    AcquisitionsMarked
    DataInOwnFile
    DmaRingInOrder
    DmaMemoryLive
    NeverStarved
PROPERTIES
    RunCompletes
    RunsFinish
\* Runs end, and cancelled nodes stop.
CHECK_DEADLOCK FALSE
