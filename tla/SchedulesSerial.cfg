\* Two API processes; one request at a time.
CONSTANTS
    i1 = i1
    i2 = i2
    t1 = t1
    t2 = t2
    s1 = s1
    q1 = q1
    q2 = q2
    None = None
    Instances = {i1, i2}
    Targets = {t1, t2}
    Schedules = {s1}
    Requests = {q1, q2}
    MaxInFlight = 1
    MaxFaults = 1
    MaxCrashes = 1
SPECIFICATION Spec
INVARIANT TypeOK
PROPERTY ReloadInstalls
SYMMETRY Symmetry
CHECK_DEADLOCK FALSE
