SPECIFICATION Spec
CONSTANTS
    Items = {i1}
    Kits = {k1, k2}
    Places = {}
    Labels = {l1}
    Codes = {c1}
    Details = {d1}
    None = None
    Requests = {q1, q2}
    Offered = {"CreateItem", "CreateKit", "CreateLabel", "Delete", "AddItem", "RemoveItem", "AttachLabel", "DetachLabel", "Scan"}
SYMMETRY Symmetry
INVARIANTS TypeOK NothingDangles AnswersWereTrue
PROPERTY SecondKitIsRaced
