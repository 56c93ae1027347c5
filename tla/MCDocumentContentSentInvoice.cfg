SPECIFICATION CalmSpec
CONSTANTS
    DocTypes = {"INVOICE"}
    Sections = {s1}
    Slots = {1}
    SavedSlots = {1}
    CatalogSlots = {1}
    Rates = {0, 1}
    FirstRate = 0
    NoSection = NoSection
    Requests = {r1, r2}
    Workload = {"edit", "status"}
    Nobody = Nobody
SYMMETRY Symmetry
PROPERTIES
    SentInvoiceIsNotRewritten
