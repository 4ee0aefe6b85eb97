\* One API process, as api.replicaCount: 1 deploys it.
CONSTANTS
    w1 = w1
    b1 = b1
    b2 = b2
    r1 = r1
    NoRun = NoRun
    Instances = {w1}
    BackupIds = {b1, b2}
    RestoreIds = {r1}
    MaxCrashes = 1
    MaxFaults = 1
    MaxTimeouts = 1
    MaxPanics = 1
SPECIFICATION Spec
INVARIANTS TypeOK RowsAreTrue
PROPERTIES TerminalIsFinal InterruptedIsDead ImplementsLifecycle
SYMMETRY Symmetry
