\* Two API processes on one database: a rolling update, or two replicas. Two
\* restores may replace the database under each other and under a backup.
CONSTANTS
    w1 = w1
    w2 = w2
    b1 = b1
    r1 = r1
    r2 = r2
    NoRun = NoRun
    Instances = {w1, w2}
    BackupIds = {b1}
    RestoreIds = {r1, r2}
    MaxCrashes = 0
    MaxFaults = 1
    MaxTimeouts = 0
    MaxPanics = 0
SPECIFICATION Spec
INVARIANTS SingleExecutor CompletedHasArchive
PROPERTIES ProgressMonotone RestoreIsRecorded
SYMMETRY Symmetry
