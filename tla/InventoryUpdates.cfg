SPECIFICATION Spec
CONSTANTS
    Items = {i1}
    Kits = {}
    Places = {p1}
    Labels = {}
    Codes = {}
    Details = {d1, d2}
    None = None
    Requests = {q1, q2, q3}
    Offered = {"CreateItem", "CreateLocation", "Update", "Delete"}
SYMMETRY Symmetry
PROPERTY OmittedFieldIsKept
