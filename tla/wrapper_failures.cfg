SPECIFICATION Spec
CONSTANTS
    s1 = s1
    Streams = {s1}
    MaxFileSize = 1
    MaxRecords = 4
    MaxFailures = 2
    LateStart = FALSE
    Endings = {"finish_files", "destroy"}
    NoFile = NoFile
INVARIANTS
    FilesOwnedOnce
    ContinuationChain
    HangsOnlyAsKnown
\* Runs end, and the lock cycle is a deadlock the code has.
CHECK_DEADLOCK FALSE
