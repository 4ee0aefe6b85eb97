\* One API process that serves three requests at once.
CONSTANTS
    i1 = i1
    t1 = t1
    s1 = s1
    q1 = q1
    q2 = q2
    q3 = q3
    None = None
    Instances = {i1}
    Targets = {t1}
    Schedules = {s1}
    Requests = {q1, q2, q3}
    MaxInFlight = 3
    MaxFaults = 1
    MaxCrashes = 1
SPECIFICATION Spec
INVARIANT OneCronRuns
PROPERTIES DeletedIsFinal SchedulesKeepTargets EnabledOnDemand
SYMMETRY Symmetry
CHECK_DEADLOCK FALSE
