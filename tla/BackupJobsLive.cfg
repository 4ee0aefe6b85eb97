\* One API process that is killed, loses statements and lets jobs expire.
CONSTANTS
    w1 = w1
    b1 = b1
    r1 = r1
    NoRun = NoRun
    Instances = {w1}
    BackupIds = {b1}
    RestoreIds = {r1}
    MaxCrashes = 1
    MaxFaults = 1
    MaxTimeouts = 1
    MaxPanics = 1
SPECIFICATION FairSpec
PROPERTY RunsSettle
