SPECIFICATION Spec
CONSTANTS
    Docs = {1, 2, 3}
    Source = 1
    Clients = {client, placeholder}
    Placeholder = placeholder
    None = None
    MaxMoves = 2
INVARIANTS
    ImportGoesWithItsChantier
CHECK_DEADLOCK FALSE
