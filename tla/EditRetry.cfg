\* The dialog that edits an item or a kit; every request is answered.
CONSTANTS
    Texts = {x1, x2}
    Tags = {l1, l2}
    None = None
    Unanswered = {}
SPECIFICATION EditSpec
INVARIANT SavingAgainFinishes
CHECK_DEADLOCK FALSE
