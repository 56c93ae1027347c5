SPECIFICATION Spec
CONSTANTS
    Docs = {d1, d2, d3}
    Requests = {r1, r2}
    FirstYear = 2026
    LastYear = 2027
    None = None
SYMMETRY Symmetry
INVARIANTS
    OneLiveInvoicePerProject
