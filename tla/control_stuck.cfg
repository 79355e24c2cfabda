SPECIFICATION Spec
CONSTANTS
    NFiles = 2
    w1 = w1
    Writers = {w1}
    FileNum <- MCFileNum
    Requests <- MCRequests
    NoFile = NoFile
    MaxFailures = 0
    NumToAverage = 1
    TimeLength = 1
    FreqLength = 1
    OutLength = 1
    MaxChunks = 6
INVARIANTS
    NodesGoOn
CHECK_DEADLOCK FALSE
