\* Two API processes without any failure.
CONSTANTS
    w1 = w1
    w2 = w2
    b1 = b1
    NoRun = NoRun
    Instances = {w1, w2}
    BackupIds = {b1}
    RestoreIds = {}
    MaxCrashes = 0
    MaxFaults = 0
    MaxTimeouts = 0
    MaxPanics = 0
SPECIFICATION Spec
PROPERTY InterruptedIsDead
