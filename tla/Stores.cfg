\* Backups of photos; two processes that migrate; a report, with values or with failures.
CONSTANTS
    Photos = {p}
    Keeps = {0, 1, 2}
    MaxClock = 3
    Quick = FALSE
    NoJob = NoJob
    Processes = {p1, p2}
    Count = 8
    RepeatsUntil <- RepeatsUntilRepo
    Own = {8}
    Releases = {0, 6, 7}
    MaxFailures = 3
    Items = {"i1", "i2"}
    KitOrder <- KitsInOrder
    Currencies = {"rub", "kzt"}
    Location = Location
    None = None
    Worths = {"rub", "kzt", None}
    Amount <- PowersOfTwo
    MaxEdits = 1
    MaxErrors = 2
    Parts = {"archives", "schema", "money", "report"}
SPECIFICATION StoresSpec
INVARIANTS StoresTypeOK SomeBackupSurvives PhotosHaveObjects MigratedInOrder ReportCountsScope OutcomeIsTrue
PROPERTIES AllServe
CHECK_DEADLOCK FALSE
