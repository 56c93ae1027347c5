SPECIFICATION MCSpec
CONSTANTS
    DocTypes = {"QUOTE", "INVOICE", "PROJECT"}
    Sections = {s1}
    Slots = {1, 2}
    SavedSlots = {1, 2}
    CatalogSlots = {1}
    Rates = {0, 1}
    FirstRate = 0
    NoSection = NoSection
    Requests = {r1, r2}
    Workload = {"save", "status", "accept", "edit"}
    Nobody = Nobody
    Docs = {d1, d2, d3}
    FirstYear = 2026
    LastYear = 2027
INVARIANTS
    Inv
    ChantierMatchesQuote
    NumberedInSequence
PROPERTIES
    EveryRequestAnswered
