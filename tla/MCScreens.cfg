SPECIFICATION MCSpec
CONSTANTS
    None = None
    Docs = {1, 2, 3}
    Source = 1
    Clients = {client, placeholder}
    Placeholder = placeholder
    FormMoves = 2
    Sections = {section}
    Notes = {note}
    Slots = {1, 2}
    AgendaTexts = {"a", "b"}
    AgendaMoves = 2
    Text = text
    NoText = blank
    Default = default
    SettingsMoves = 2
    Users = {"user", "admin", "platform"}
    Admins = {"admin"}
    PlatformAdmins = {"platform"}
    Typed = {"/calendar", "/documents/new", "/settings/users", "/register"}
    MaxStored = 2
    RouteMoves = 3
    Rows = {1, 2}
    ListKinds = {"a", "b"}
    Filters = {{"a"}, {"b"}, {"a", "b"}}
    Changes = {"a", "b", None}
    ListMoves = 2
INVARIANTS
    OneDocumentPerDraft
    DraftsHoldTogether
    CalendarIsTrue
    SettingsAreSaved
    NavigationIsGuarded
    ShowsWhatIsAsked
PROPERTIES
    SavesAreWhole
    UntouchedFieldsStay
    SavesAndNavigationEnd
CHECK_DEADLOCK FALSE
