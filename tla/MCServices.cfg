SPECIFICATION MCSpec
CONSTANTS
    Requests = {r1, r2, r3}
    Conns = {c1, c2}
    None = None
    Errors = {"api", "page"}
    PageErrors = {"page"}
    Handlers = {h1, h2}
    MaxReports = 1
    MaxPerWindow = 1
    Window = 2
    MaxHeld = 1
    Monitors = {q1, q2}
    CacheTime = 2
    CheckTimeout = 1
    Processes = {p1, p2}
    Migrations = 3
    MaxFailures = 3
    Nights = 3
    KeepDays = 2
    MaxVersion = 1
INVARIANTS
    ConnectionsAreAccountedFor
    AllOrNothing
    AnnouncedOnce
    MigratedInOrder
    BackupIsSound
PROPERTIES
    EveryRequestAnswered
    NotificationsKeepPace
    HealthIsCurrent
    OneAfterTheOther
    StartsAndChecksEnd
