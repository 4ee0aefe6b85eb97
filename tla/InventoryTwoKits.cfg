SPECIFICATION Spec
CONSTANTS
    Items = {i1}
    Kits = {k1, k2}
    Places = {}
    Labels = {}
    Codes = {}
    Details = {d1}
    None = None
    Requests = {q1, q2}
    Offered = {"CreateItem", "CreateKit", "AddItem"}
INVARIANTS ItemInOneKit
