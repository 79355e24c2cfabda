SPECIFICATION Spec
CONSTANTS
    s1 = s1
    Streams = {s1}
    MaxFileSize = 1
    MaxRecords = 3
    MaxFailures = 0
    LateStart = FALSE
    Endings = {"finish_files"}
    NoFile = NoFile
INVARIANTS
    NoLockCycle
\* Runs end, and the lock cycle is a deadlock the code has.
CHECK_DEADLOCK FALSE
