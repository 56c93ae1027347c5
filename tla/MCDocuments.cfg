SPECIFICATION DocumentsSpec
CONSTANTS
    DocTypes = {"QUOTE", "INVOICE", "PROJECT"}
    Sections = {s1, s2}
    Slots = {1, 2}
    SavedSlots = {1}
    CatalogSlots = {1}
    Rates = {0, 1}
    FirstRate = 0
    NoSection = NoSection
    Requests = {r1}
    Workload = {"save", "accept", "edit", "status", "add_line", "archive_line", "unarchive_line", "add_section", "archive_section", "unarchive_section"}
    Nobody = Nobody
SYMMETRY Symmetry
INVARIANTS
    TotalsAddUpAtRest
PROPERTIES
    ClosedContentIsFrozen
    ListsShowWhatIsSaved
    LedgerIsSaved
    StorageIsConsistent
    CatalogHoldsUp
    DirectoryHoldsUp
    LetterIsLaidOut
