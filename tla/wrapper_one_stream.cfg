SPECIFICATION FairSpec
CONSTANTS
    s1 = s1
    Streams = {s1}
    MaxFileSize = 2
    MaxRecords = 6
    MaxFailures = 0
    LateStart = FALSE
    Endings = {"finish_files"}
    NoFile = NoFile
INVARIANTS
    WriteInOpenFile
    FileSizeBound
    RecordsKept
    HeaderInCurrentFile
PROPERTIES
    ImplementsEggOutput
    SwitchServed
    FinishFilesEnds
    FilesGetFinished
\* Runs end, and the lock cycle is a deadlock the code has.
CHECK_DEADLOCK FALSE
