\* Every page of the web application. Of the requests of a new item those about
\* photos may go unanswered; of the other pages any change may.
CONSTANTS
    i1 = i1  i2 = i2  a = a  k1 = k1  k2 = k2  f1 = f1
    t1 = t1  s1 = s1  b1 = b1
    v1 = v1  v2 = v2  blank = blank  spaces = spaces  mask = mask
    g1 = g1  g2 = g2  x1 = x1  x2 = x2  l1 = l1  l2 = l2
    p1 = p1  p2 = p2  c1 = c1  c2 = c2  u1 = u1
    None = None
    Unanswered = {"photos", "cleanup", "target", "delete", "add", "remove", "edit", "tags", "report", "scan"}
    Pages = {"entry", "backups", "target", "items", "kit", "edit", "reports", "scan"}
    Items = {i1, i2}
    Labels = {a}
    Containers = {k1, k2}
    Files = {f1}
    MaxEntries = 2
    Targets = {t1}
    Schedules = {s1}
    Backups = {b1}
    MaxDialogs = 2
    Secrets = {v1, v2}
    Blank = blank
    Spaces = spaces
    Mask = mask
    Stock = 2
    PageSize = 1
    Goods = {g1, g2}
    Here = Here
    Away = Away
    Gone = Gone
    Texts = {x1, x2}
    Tags = {l1, l2}
    Sites = {p1}
    Boxes = {c1, c2}
    MaxReports = 2
    Known = {c1}
    Unknown = {u1}
    MaxLookups = 3
SPECIFICATION WebSpec
INVARIANTS
    WebTypeOK
    ProgressIsTrue SuccessMeansSaved NothingTwice EntriesStayApart
    ConfirmedOnce SecretsStand SavedAsShown ReadyIsLatest ScansAreOrderly
PROPERTIES NoAdditionIsLost NoDeletionIsLost
SYMMETRY Symmetry
CHECK_DEADLOCK FALSE
