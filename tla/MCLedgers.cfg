SPECIFICATION MCSpec
CONSTANTS
    Docs = {d1, d2, d3}
    Requests = {r1, r2}
    FirstYear = 2026
    LastYear = 2026
    None = None
    Groups = {s1, s2, s3}
    NoGroup = NoGroup
    Savers = {q1, q2}
SYMMETRY LedgersSymmetry
INVARIANTS
    OneLiveInvoicePerProject
    OneChantierPerAcceptedQuote
    Inv
PROPERTIES
    LedgerSpec
    ContentSpec
