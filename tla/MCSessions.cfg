SPECIFICATION FairSpec
CONSTANTS
    Users = {boss, worker}
    Admins = {boss}
    Visitors = {boss}
    Hasty = FALSE
    Keys = {k1}
    Calls = {c1, c2}
    MaxLogouts = 1
    LastEra = 1
    None = None
INVARIANTS
    EndedSessionsStayEnded
    RefreshedOnceRunOnce
PROPERTIES
    CallsSettle
