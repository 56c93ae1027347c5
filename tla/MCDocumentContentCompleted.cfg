SPECIFICATION CalmSpec
CONSTANTS
    DocTypes = {"PROJECT"}
    Sections = {s1}
    Slots = {1}
    SavedSlots = {1}
    CatalogSlots = {1}
    Rates = {0}
    FirstRate = 0
    NoSection = NoSection
    Requests = {r1}
    Workload = {"save"}
    Nobody = Nobody
SYMMETRY Symmetry
PROPERTIES
    CompletedLedgerIsFrozen
