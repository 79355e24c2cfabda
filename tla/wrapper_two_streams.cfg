SPECIFICATION Spec
CONSTANTS
    s1 = s1
    s2 = s2
    Streams = {s1, s2}
    MaxFileSize = 1
    MaxRecords = 2
    MaxFailures = 0
    LateStart = TRUE
    Endings = {"finish_files"}
    NoFile = NoFile
SYMMETRY StreamSymmetry
INVARIANTS
    RecordsInOrder
\* Runs end, and the lock cycle is a deadlock the code has.
CHECK_DEADLOCK FALSE
