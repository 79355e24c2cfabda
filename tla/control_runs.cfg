SPECIFICATION FairSpec
CONSTANTS
    NFiles = 2
    w1 = w1
    Writers = {w1}
    FileNum <- MCFileNum
    Requests <- MCRequests
    NoFile = NoFile
    MaxFailures = 1
    NumToAverage = 2
    TimeLength = 1
    FreqLength = 2
    OutLength = 1
    MaxChunks = 3
INVARIANTS
    RunAveraged
    FilesAsRequested
    LabelsNotOlder
    DataInOpenFile
PROPERTIES
    SpectraTile
    ImplementsRunFiles
    RunsComeOut
\* Runs end, and cancelled nodes stop.
CHECK_DEADLOCK FALSE
